---------------------------- MODULE BindingTypes ----------------------------
(***************************************************************************)
(* The types that the generator of the Python bindings registers, in order.*)
(* Each entry is the type followed by what its registration looks up: its  *)
(* outer class, its parents, the type it implicitly converts to.  A type   *)
(* not registered yet is a KeyError.  "ns3::" and default template         *)
(* arguments are left out, and so are the C++ header, the module a type is *)
(* imported from, what a container holds, the typedef of a type registered *)
(* long before (ItemType), and the aliases, which BindingMethods replaces  *)
(* by what they stand for.                                                 *)
(***************************************************************************)
EXTENDS Sequences

Types_PbbAddressLength == <<
  <<"PbbAddressLength">>, <<"ethernet_header_t">>, <<"QueueSizeUnit">>,
  <<"LogLevel">>, <<"Address">>, <<"Address::MaxSize_e", "Address">>,
  <<"ApplicationContainer">>, <<"AsciiFile">>, <<"AsciiTraceHelper">>,
  <<"AsciiTraceHelperForDevice">>, <<"AttributeConstructionList">>,
  <<"AttributeConstructionList::Item", "AttributeConstructionList">>, <<"Buffer">>,
  <<"Buffer::Iterator", "Buffer">>, <<"BulkSendHelper">>, <<"ByteTagIterator">>,
  <<"ByteTagIterator::Item", "ByteTagIterator">>, <<"ByteTagList">>,
  <<"ByteTagList::Iterator", "ByteTagList">>,
  <<"ByteTagList::Iterator::Item", "ByteTagList::Iterator">>, <<"CallbackBase">>,
  <<"ChannelList">>, <<"DataOutputCallback">>, <<"DataRate">>,
  <<"DefaultDeleter AttributeAccessor">>, <<"DefaultDeleter AttributeChecker">>,
  <<"DefaultDeleter AttributeValue">>, <<"DefaultDeleter CallbackImplBase">>,
  <<"DefaultDeleter EventImpl">>, <<"DefaultDeleter Hash::Implementation">>,
  <<"DefaultDeleter NetDeviceQueue">>, <<"DefaultDeleter NixVector">>,
  <<"DefaultDeleter OutputStreamWrapper">>, <<"DefaultDeleter Packet">>,
  <<"DefaultDeleter PbbAddressBlock">>, <<"DefaultDeleter PbbMessage">>,
  <<"DefaultDeleter PbbTlv">>, <<"DefaultDeleter QueueItem">>,
  <<"DefaultDeleter ThreeGppHttpServerTxBuffer">>,
  <<"DefaultDeleter TraceSourceAccessor">>, <<"DelayJitterEstimation">>,
  <<"EventId">>, <<"Hasher">>, <<"Inet6SocketAddress", "Address">>,
  <<"InetSocketAddress", "Address">>, <<"Ipv4Address", "Address">>, <<"Ipv4Mask">>,
  <<"Ipv6Address", "Address">>, <<"Ipv6Prefix">>, <<"LogComponent">>,
  <<"Mac16Address", "Address">>, <<"Mac48Address", "Address">>,
  <<"Mac64Address", "Address">>, <<"Mac8Address", "Address">>,
  <<"NetDeviceContainer">>, <<"NodeContainer">>>>

Types_NodeList == <<
  <<"NodeList">>, <<"NonCopyable">>, <<"ObjectBase">>, <<"ObjectDeleter">>,
  <<"ObjectFactory">>, <<"OnOffHelper">>, <<"PacketLossCounter">>,
  <<"PacketMetadata">>, <<"PacketMetadata::Item", "PacketMetadata">>,
  <<"PacketMetadata::Item::ItemType", "PacketMetadata::Item">>,
  <<"PacketMetadata::ItemIterator", "PacketMetadata">>, <<"PacketSinkHelper">>,
  <<"PacketSocketAddress", "Address">>, <<"PacketSocketHelper">>,
  <<"PacketTagIterator">>, <<"PacketTagIterator::Item", "PacketTagIterator">>,
  <<"PacketTagList">>, <<"PacketTagList::TagData", "PacketTagList">>,
  <<"ParameterLogger">>, <<"PbbAddressTlvBlock">>, <<"PbbTlvBlock">>,
  <<"PcapFile">>, <<"PcapHelper">>, <<"PcapHelper::DataLinkType", "PcapHelper">>,
  <<"PcapHelperForDevice">>, <<"QueueSize">>, <<"SimpleNetDeviceHelper">>,
  <<"SimpleRefCount Object", "ObjectBase">>, <<"Simulator">>,
  <<"Simulator::", "Simulator">>, <<"StatisticalSummary">>, <<"SystemWallClockMs">>,
  <<"Tag", "ObjectBase">>, <<"TagBuffer">>, <<"ThreeGppHttpClientHelper">>,
  <<"ThreeGppHttpServerHelper">>, <<"TimeWithUnit">>,
  <<"TracedValue unsigned int">>, <<"TypeId">>,
  <<"TypeId::AttributeFlag", "TypeId">>, <<"TypeId::SupportLevel", "TypeId">>,
  <<"TypeId::AttributeInformation", "TypeId">>,
  <<"TypeId::TraceSourceInformation", "TypeId">>, <<"UdpClientHelper">>,
  <<"UdpEchoClientHelper">>, <<"UdpEchoServerHelper">>, <<"UdpServerHelper">>,
  <<"UdpTraceClientHelper">>, <<"empty">>, <<"int64x64_t">>,
  <<"int64x64_t::impl_type", "int64x64_t">>, <<"Chunk", "ObjectBase">>,
  <<"DeviceNameTag", "Tag">>, <<"FlowIdTag", "Tag">>, <<"Header", "Chunk">>,
  <<"LlcSnapHeader", "Header">>, <<"Object", "SimpleRefCount Object">>,
  <<"Object::AggregateIterator", "Object">>, <<"PacketBurst", "Object">>,
  <<"PacketSocketTag", "Tag">>, <<"PcapFileWrapper", "Object">>,
  <<"QueueBase", "Object">>, <<"QueueLimits", "Object">>>>

Types_RadiotapHeader == <<
  <<"RadiotapHeader", "Header">>, <<"RadiotapHeader::FrameFlag", "RadiotapHeader">>,
  <<"RadiotapHeader::ChannelFlags", "RadiotapHeader">>,
  <<"RadiotapHeader::McsKnown", "RadiotapHeader">>,
  <<"RadiotapHeader::McsFlags", "RadiotapHeader">>,
  <<"RadiotapHeader::AmpduFlags", "RadiotapHeader">>,
  <<"RadiotapHeader::VhtKnown", "RadiotapHeader">>,
  <<"RadiotapHeader::VhtFlags", "RadiotapHeader">>,
  <<"RadiotapHeader::HeData1", "RadiotapHeader">>,
  <<"RadiotapHeader::HeData2", "RadiotapHeader">>,
  <<"RadiotapHeader::HeData3", "RadiotapHeader">>,
  <<"RadiotapHeader::HeData5", "RadiotapHeader">>,
  <<"RandomVariableStream", "Object">>, <<"SeqTsHeader", "Header">>,
  <<"SequentialRandomVariable", "RandomVariableStream">>,
  <<"SimpleRefCount AttributeAccessor", "empty">>,
  <<"SimpleRefCount AttributeChecker", "empty">>,
  <<"SimpleRefCount AttributeValue", "empty">>,
  <<"SimpleRefCount CallbackImplBase", "empty">>,
  <<"SimpleRefCount EventImpl", "empty">>,
  <<"SimpleRefCount Hash::Implementation", "empty">>,
  <<"SimpleRefCount NetDeviceQueue", "empty">>,
  <<"SimpleRefCount NixVector", "empty">>,
  <<"SimpleRefCount OutputStreamWrapper", "empty">>,
  <<"SimpleRefCount Packet", "empty">>,
  <<"SimpleRefCount PbbAddressBlock", "empty">>,
  <<"SimpleRefCount PbbMessage", "empty">>,
  <<"SimpleRefCount PbbPacket", "Header">>, <<"SimpleRefCount PbbTlv", "empty">>,
  <<"SimpleRefCount QueueItem", "empty">>,
  <<"SimpleRefCount ThreeGppHttpServerTxBuffer", "empty">>,
  <<"SimpleRefCount TraceSourceAccessor", "empty">>, <<"SllHeader", "Header">>,
  <<"SllHeader::PacketType", "SllHeader">>, <<"Socket", "Object">>,
  <<"Socket::SocketErrno", "Socket">>, <<"Socket::SocketType", "Socket">>,
  <<"Socket::SocketPriority", "Socket">>,
  <<"Socket::Ipv6MulticastFilterMode", "Socket">>, <<"SocketFactory", "Object">>,
  <<"SocketIpTosTag", "Tag">>, <<"SocketIpTtlTag", "Tag">>,
  <<"SocketIpv6HopLimitTag", "Tag">>, <<"SocketIpv6TclassTag", "Tag">>,
  <<"SocketPriorityTag", "Tag">>, <<"SocketSetDontFragmentTag", "Tag">>,
  <<"ThreeGppHttpHeader", "Header">>,
  <<"ThreeGppHttpHeader::ContentType_t", "ThreeGppHttpHeader">>,
  <<"ThreeGppHttpServerTxBuffer", "SimpleRefCount ThreeGppHttpServerTxBuffer">>,
  <<"ThreeGppHttpVariables", "Object">>, <<"Time", "int64x64_t">>,
  <<"Time::Unit", "Time">>,
  <<"TraceSourceAccessor", "SimpleRefCount TraceSourceAccessor">>,
  <<"Trailer", "Chunk">>, <<"TriangularRandomVariable", "RandomVariableStream">>,
  <<"UniformRandomVariable", "RandomVariableStream">>,
  <<"WeibullRandomVariable", "RandomVariableStream">>,
  <<"ZetaRandomVariable", "RandomVariableStream">>,
  <<"ZipfRandomVariable", "RandomVariableStream">>, <<"Application", "Object">>,
  <<"AttributeAccessor", "SimpleRefCount AttributeAccessor">>,
  <<"AttributeChecker", "SimpleRefCount AttributeChecker">>,
  <<"AttributeValue", "SimpleRefCount AttributeValue">>,
  <<"BooleanChecker", "AttributeChecker">>, <<"BooleanValue", "AttributeValue">>,
  <<"BulkSendApplication", "Application">>,
  <<"CallbackChecker", "AttributeChecker">>,
  <<"CallbackImplBase", "SimpleRefCount CallbackImplBase">>,
  <<"CallbackValue", "AttributeValue">>>>

Types_Channel == <<
  <<"Channel", "Object">>, <<"ConstantRandomVariable", "RandomVariableStream">>,
  <<"DataCalculator", "Object">>, <<"DataCollectionObject", "Object">>,
  <<"DataOutputInterface", "Object">>, <<"DataRateChecker", "AttributeChecker">>,
  <<"DataRateValue", "AttributeValue">>,
  <<"DeterministicRandomVariable", "RandomVariableStream">>,
  <<"DoubleValue", "AttributeValue">>, <<"DynamicQueueLimits", "QueueLimits">>,
  <<"EmpiricalRandomVariable", "RandomVariableStream">>,
  <<"EmptyAttributeAccessor", "AttributeAccessor">>,
  <<"EmptyAttributeChecker", "AttributeChecker">>,
  <<"EmptyAttributeValue", "AttributeValue">>,
  <<"EnumChecker", "AttributeChecker">>, <<"EnumValue", "AttributeValue">>,
  <<"ErlangRandomVariable", "RandomVariableStream">>, <<"ErrorModel", "Object">>,
  <<"EthernetHeader", "Header">>, <<"EthernetTrailer", "Trailer">>,
  <<"EventImpl", "SimpleRefCount EventImpl">>,
  <<"ExponentialRandomVariable", "RandomVariableStream">>,
  <<"GammaRandomVariable", "RandomVariableStream">>,
  <<"IntegerValue", "AttributeValue">>,
  <<"Ipv4AddressChecker", "AttributeChecker">>,
  <<"Ipv4AddressValue", "AttributeValue">>,
  <<"Ipv4MaskChecker", "AttributeChecker">>, <<"Ipv4MaskValue", "AttributeValue">>,
  <<"Ipv6AddressChecker", "AttributeChecker">>,
  <<"Ipv6AddressValue", "AttributeValue">>,
  <<"Ipv6PrefixChecker", "AttributeChecker">>,
  <<"Ipv6PrefixValue", "AttributeValue">>, <<"ListErrorModel", "ErrorModel">>,
  <<"LogNormalRandomVariable", "RandomVariableStream">>,
  <<"Mac16AddressChecker", "AttributeChecker">>,
  <<"Mac16AddressValue", "AttributeValue">>,
  <<"Mac48AddressChecker", "AttributeChecker">>,
  <<"Mac48AddressValue", "AttributeValue">>,
  <<"Mac64AddressChecker", "AttributeChecker">>,
  <<"Mac64AddressValue", "AttributeValue">>,
  <<"MinMaxAvgTotalCalculator unsigned int", "DataCalculator", "StatisticalSummary">>,
  <<"NetDevice", "Object">>, <<"NetDevice::PacketType", "NetDevice">>,
  <<"NetDeviceQueue", "SimpleRefCount NetDeviceQueue">>,
  <<"NetDeviceQueueInterface", "Object">>,
  <<"NixVector", "SimpleRefCount NixVector">>, <<"Node", "Object">>,
  <<"NormalRandomVariable", "RandomVariableStream">>,
  <<"ObjectFactoryChecker", "AttributeChecker">>,
  <<"ObjectFactoryValue", "AttributeValue">>, <<"OnOffApplication", "Application">>,
  <<"OutputStreamWrapper", "SimpleRefCount OutputStreamWrapper">>,
  <<"Packet", "SimpleRefCount Packet">>, <<"PacketSink", "Application">>,
  <<"PacketSizeMinMaxAvgTotalCalculator", "MinMaxAvgTotalCalculator unsigned int">>>>

Types_PacketSocket == <<
  <<"PacketSocket", "Socket">>, <<"PacketSocketClient", "Application">>,
  <<"PacketSocketFactory", "SocketFactory">>,
  <<"PacketSocketServer", "Application">>,
  <<"ParetoRandomVariable", "RandomVariableStream">>,
  <<"PbbAddressBlock", "SimpleRefCount PbbAddressBlock">>,
  <<"PbbAddressBlockIpv4", "PbbAddressBlock">>,
  <<"PbbAddressBlockIpv6", "PbbAddressBlock">>,
  <<"PbbMessage", "SimpleRefCount PbbMessage">>, <<"PbbMessageIpv4", "PbbMessage">>,
  <<"PbbMessageIpv6", "PbbMessage">>, <<"PbbPacket", "SimpleRefCount PbbPacket">>,
  <<"PbbTlv", "SimpleRefCount PbbTlv">>, <<"Probe", "DataCollectionObject">>,
  <<"Queue Packet", "QueueBase">>, <<"Queue QueueDiscItem", "QueueBase">>,
  <<"QueueItem", "SimpleRefCount QueueItem">>,
  <<"QueueItem::Uint8Values", "QueueItem">>,
  <<"QueueSizeChecker", "AttributeChecker">>,
  <<"QueueSizeValue", "AttributeValue">>, <<"RateErrorModel", "ErrorModel">>,
  <<"RateErrorModel::ErrorUnit", "RateErrorModel">>,
  <<"ReceiveListErrorModel", "ErrorModel">>, <<"SimpleChannel", "Channel">>,
  <<"SimpleNetDevice", "NetDevice">>, <<"ThreeGppHttpClient", "Application">>,
  <<"ThreeGppHttpClient::State_t", "ThreeGppHttpClient">>,
  <<"ThreeGppHttpServer", "Application">>,
  <<"ThreeGppHttpServer::State_t", "ThreeGppHttpServer">>,
  <<"TimeValue", "AttributeValue">>, <<"TypeIdChecker", "AttributeChecker">>,
  <<"TypeIdValue", "AttributeValue">>, <<"UdpClient", "Application">>,
  <<"UdpEchoClient", "Application">>, <<"UdpEchoServer", "Application">>,
  <<"UdpServer", "Application">>, <<"UdpTraceClient", "Application">>,
  <<"UintegerValue", "AttributeValue">>, <<"AddressChecker", "AttributeChecker">>,
  <<"AddressValue", "AttributeValue">>, <<"ApplicationPacketProbe", "Probe">>,
  <<"BinaryErrorModel", "ErrorModel">>, <<"BurstErrorModel", "ErrorModel">>,
  <<"CallbackImpl bool NetDevice Packet ushort Address Address NetDevice::PacketType", "CallbackImplBase">>>>

Types_CallbackImpl_bool_NetDevice_Packet_ushort_Address == <<
  <<"CallbackImpl bool NetDevice Packet ushort Address", "CallbackImplBase">>,
  <<"CallbackImpl bool Socket Address", "CallbackImplBase">>,
  <<"CallbackImpl ObjectBase*", "CallbackImplBase">>,
  <<"CallbackImpl void Time Address", "CallbackImplBase">>,
  <<"CallbackImpl void string string", "CallbackImplBase">>,
  <<"CallbackImpl void Packet Address Address", "CallbackImplBase">>,
  <<"CallbackImpl void Packet Address", "CallbackImplBase">>,
  <<"CallbackImpl void Packet", "CallbackImplBase">>,
  <<"CallbackImpl void QueueDiscItem", "CallbackImplBase">>,
  <<"CallbackImpl void ThreeGppHttpClient Packet", "CallbackImplBase">>,
  <<"CallbackImpl void ThreeGppHttpClient", "CallbackImplBase">>,
  <<"CallbackImpl void ThreeGppHttpServer Socket", "CallbackImplBase">>,
  <<"CallbackImpl void NetDevice Packet ushort Address Address NetDevice::PacketType", "CallbackImplBase">>,
  <<"CallbackImpl void NetDevice", "CallbackImplBase">>,
  <<"CallbackImpl void Socket Address", "CallbackImplBase">>,
  <<"CallbackImpl void Socket", "CallbackImplBase">>,
  <<"CallbackImpl void Socket uint", "CallbackImplBase">>,
  <<"CallbackImpl void", "CallbackImplBase">>,
  <<"CallbackImpl void uint", "CallbackImplBase">>,
  <<"CallbackImpl void uint uint", "CallbackImplBase">>,
  <<"CounterCalculator unsigned int", "DataCalculator">>,
  <<"DropTailQueue Packet", "Queue Packet">>,
  <<"DropTailQueue QueueDiscItem", "Queue QueueDiscItem">>,
  <<"ErrorChannel", "SimpleChannel">>,
  <<"PacketCounterCalculator", "CounterCalculator unsigned int">>,
  <<"PacketProbe", "Probe">>, <<"PbbAddressTlv", "PbbTlv">>,
  <<"QueueDiscItem", "QueueItem">>, <<"std::map< std::string, LogComponent * >">>,
  <<"std::list< Ptr< Packet > >">>, <<"std::vector< Ipv6Address >">>,
  <<"std::list< unsigned int >">>, <<"std::list< Ptr< Socket > >">>>>

\* The nested namespaces: only Hash and Hash::Function register types.

register_types_ns3_Hash == <<
  <<"Hash::Implementation", "SimpleRefCount Hash::Implementation">>,
  <<"Hash::Function::Fnv1a", "Hash::Implementation">>,
  <<"Hash::Function::Hash32", "Hash::Implementation">>,
  <<"Hash::Function::Hash64", "Hash::Implementation">>,
  <<"Hash::Function::Murmur3", "Hash::Implementation">>>>

register_types == Types_PbbAddressLength \o Types_NodeList \o Types_RadiotapHeader
  \o Types_Channel \o Types_PacketSocket \o Types_CallbackImpl_bool_NetDevice_Packet_ushort_Address
  \o register_types_ns3_Hash
=============================================================================

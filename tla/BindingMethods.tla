--------------------------- MODULE BindingMethods ---------------------------
(***************************************************************************)
(* The wrappers that the generator of the Python bindings adds, in order:  *)
(* for the functions register_Ns3..._methods from that of one class up to  *)
(* that of another, what they look up (the class they are called with, the *)
(* operand of an operator: a KeyError if not registered) and what their    *)
(* parameters, results and attributes are of.  These are classes of ns-3   *)
(* (by value, pointer or reference), types of C++ with their qualifiers    *)
(* ("std::" is left out), and signatures of callbacks (result, then        *)
(* arguments, without pointers and qualifiers).  Aliases are replaced by   *)
(* what they stand for; an iterator of a C++ container is "iterator".      *)
(* Names, defaults and whether a method is static, const or virtual are    *)
(* left out.                                                               *)
(***************************************************************************)

Wrappers(lookups, types, callbacks) ==
  [lookups |-> lookups, types |-> types, callbacks |-> callbacks]

Methods_Address == Wrappers(
  <<"Address", "ApplicationContainer">>,
  {"Address", "Application", "ApplicationContainer", "RandomVariableStream",
   "TagBuffer", "Time", "bool", "iterator", "string", "uint32_t", "uint8_t",
   "uint8_t *", "uint8_t const *", "void"},
  {})

Methods_AsciiFile == Wrappers(
  <<"AsciiFile", "AsciiTraceHelper", "AsciiTraceHelperForDevice">>,
  {"AsciiTraceHelper", "AsciiTraceHelperForDevice", "NetDevice",
   "NetDeviceContainer", "NodeContainer", "Object", "OutputStreamWrapper", "Packet",
   "bool", "ios_base::openmode", "string", "string &", "string const &", "uint32_t",
   "uint64_t &", "void"},
  {})

Methods_AttributeConstructionList == Wrappers(
  <<"AttributeConstructionList", "AttributeConstructionList::Item", "Buffer">>,
  {"AttributeChecker", "AttributeConstructionList",
   "AttributeConstructionList::Item", "AttributeValue", "Buffer",
   "Buffer::Iterator", "bool", "iterator", "ostream *", "string", "uint32_t",
   "uint8_t *", "uint8_t const *", "void"},
  {})

Methods_Buffer_Iterator == Wrappers(
  <<"Buffer::Iterator">>,
  {"Buffer::Iterator", "bool", "uint16_t", "uint32_t", "uint64_t", "uint8_t",
   "uint8_t *", "uint8_t const *", "void"},
  {})

Methods_BulkSendHelper == Wrappers(
  <<"BulkSendHelper", "ByteTagIterator", "ByteTagIterator::Item", "ByteTagList",
    "ByteTagList::Iterator", "ByteTagList::Iterator::Item">>,
  {"Address", "ApplicationContainer", "AttributeValue", "BulkSendHelper",
   "ByteTagIterator", "ByteTagIterator::Item", "ByteTagList",
   "ByteTagList::Iterator", "ByteTagList::Iterator::Item", "Node", "NodeContainer",
   "Tag", "TagBuffer", "TypeId", "bool", "int32_t", "string", "uint32_t", "void"},
  {})

Methods_CallbackBase == Wrappers(
  <<"CallbackBase", "ChannelList", "DataOutputCallback", "DataRate",
    "DefaultDeleter AttributeAccessor", "DefaultDeleter AttributeChecker">>,
  {"AttributeAccessor", "AttributeChecker", "CallbackBase", "CallbackImplBase",
   "Channel", "ChannelList", "DataOutputCallback", "DataRate",
   "DefaultDeleter AttributeAccessor", "DefaultDeleter AttributeChecker",
   "StatisticalSummary", "Time", "double", "int", "iterator", "string", "uint32_t",
   "uint64_t", "void"},
  {})

Methods_DefaultDeleter_AttributeValue == Wrappers(
  <<"DefaultDeleter AttributeValue", "DefaultDeleter CallbackImplBase",
    "DefaultDeleter EventImpl", "DefaultDeleter Hash::Implementation",
    "DefaultDeleter NetDeviceQueue", "DefaultDeleter NixVector",
    "DefaultDeleter OutputStreamWrapper", "DefaultDeleter Packet",
    "DefaultDeleter PbbAddressBlock", "DefaultDeleter PbbMessage",
    "DefaultDeleter PbbTlv", "DefaultDeleter QueueItem">>,
  {"AttributeValue", "CallbackImplBase", "DefaultDeleter AttributeValue",
   "DefaultDeleter CallbackImplBase", "DefaultDeleter EventImpl",
   "DefaultDeleter Hash::Implementation", "DefaultDeleter NetDeviceQueue",
   "DefaultDeleter NixVector", "DefaultDeleter OutputStreamWrapper",
   "DefaultDeleter Packet", "DefaultDeleter PbbAddressBlock",
   "DefaultDeleter PbbMessage", "DefaultDeleter PbbTlv", "DefaultDeleter QueueItem",
   "EventImpl", "Hash::Implementation", "NetDeviceQueue", "NixVector",
   "OutputStreamWrapper", "Packet", "PbbAddressBlock", "PbbMessage", "PbbTlv",
   "QueueItem", "void"},
  {})

Methods_DefaultDeleter_ThreeGppHttpServerTxBuffer == Wrappers(
  <<"DefaultDeleter ThreeGppHttpServerTxBuffer",
    "DefaultDeleter TraceSourceAccessor", "DelayJitterEstimation", "EventId",
    "Hasher">>,
  {"DefaultDeleter ThreeGppHttpServerTxBuffer",
   "DefaultDeleter TraceSourceAccessor", "DelayJitterEstimation", "EventId",
   "EventImpl", "Hash::Implementation", "Hasher", "Packet",
   "ThreeGppHttpServerTxBuffer", "Time", "TraceSourceAccessor", "bool",
   "char const *", "size_t const", "string const", "uint32_t", "uint64_t", "void"},
  {})

Methods_Inet6SocketAddress == Wrappers(
  <<"Inet6SocketAddress", "InetSocketAddress">>,
  {"Address", "Inet6SocketAddress", "InetSocketAddress", "Ipv4Address",
   "Ipv6Address", "bool", "char const *", "uint16_t", "uint8_t", "void"},
  {})

Methods_Ipv4Address == Wrappers(
  <<"Ipv4Address">>,
  {"Address", "Ipv4Address", "Ipv4Mask", "bool", "char const *", "ostream &",
   "uint32_t", "uint8_t *", "uint8_t const *", "void"},
  {})

Methods_Ipv4Mask == Wrappers(
  <<"Ipv4Mask">>,
  {"Ipv4Address", "Ipv4Mask", "bool", "char const *", "ostream &", "uint16_t",
   "uint32_t", "void"},
  {})

Methods_Ipv6Address == Wrappers(
  <<"Ipv6Address">>,
  {"Address", "Ipv4Address", "Ipv6Address", "Ipv6Prefix", "Mac16Address",
   "Mac48Address", "Mac64Address", "Mac8Address", "bool", "char const *",
   "ostream &", "uint8_t *", "uint8_t const *", "void"},
  {})

Methods_Ipv6Prefix == Wrappers(
  <<"Ipv6Prefix", "LogComponent">>,
  {"Ipv6Address", "Ipv6Prefix", "LogComponent", "LogLevel", "bool", "char const *",
   "ostream &", "std::map< std::string, LogComponent * >", "string",
   "string const &", "uint8_t", "uint8_t *", "void"},
  {})

Methods_Mac16Address == Wrappers(
  <<"Mac16Address", "Mac48Address">>,
  {"Address", "Ipv4Address", "Ipv6Address", "Mac16Address", "Mac48Address", "bool",
   "char const *", "uint8_t *", "uint8_t const *", "void"},
  {})

Methods_Mac64Address == Wrappers(
  <<"Mac64Address", "Mac8Address", "NetDeviceContainer">>,
  {"Address", "Mac64Address", "Mac8Address", "NetDevice", "NetDeviceContainer",
   "bool", "char const *", "iterator", "string", "uint32_t", "uint8_t", "uint8_t *",
   "uint8_t const *", "void"},
  {})

Methods_NodeContainer == Wrappers(
  <<"NodeContainer", "NodeList", "NonCopyable">>,
  {"Node", "NodeContainer", "NodeList", "bool", "iterator", "string", "uint32_t",
   "void"},
  {})

Methods_ObjectBase == Wrappers(
  <<"ObjectBase", "ObjectDeleter", "ObjectFactory", "OnOffHelper">>,
  {"Address", "ApplicationContainer", "AttributeConstructionList", "AttributeValue",
   "CallbackBase", "DataRate", "Node", "NodeContainer", "Object", "ObjectBase",
   "ObjectDeleter", "ObjectFactory", "OnOffHelper", "TypeId", "bool",
   "char const *", "int64_t", "string", "uint32_t", "void"},
  {})

Methods_PacketLossCounter == Wrappers(
  <<"PacketLossCounter", "PacketMetadata", "PacketMetadata::Item",
    "PacketMetadata::ItemIterator">>,
  {"Buffer", "Buffer::Iterator", "Header", "PacketLossCounter", "PacketMetadata",
   "PacketMetadata::Item", "PacketMetadata::Item::ItemType",
   "PacketMetadata::ItemIterator", "Trailer", "TypeId", "bool", "uint16_t",
   "uint32_t", "uint64_t", "uint8_t", "uint8_t *", "uint8_t const *", "void"},
  {})

Methods_PacketSinkHelper == Wrappers(
  <<"PacketSinkHelper", "PacketSocketAddress", "PacketSocketHelper",
    "PacketTagIterator", "PacketTagIterator::Item">>,
  {"Address", "ApplicationContainer", "AttributeValue", "Node", "NodeContainer",
   "PacketSinkHelper", "PacketSocketAddress", "PacketSocketHelper",
   "PacketTagIterator", "PacketTagIterator::Item", "Tag", "TypeId", "bool",
   "string", "uint16_t", "uint32_t", "void"},
  {})

Methods_PacketTagList == Wrappers(
  <<"PacketTagList", "PacketTagList::TagData", "ParameterLogger">>,
  {"PacketTagList", "PacketTagList::TagData", "ParameterLogger", "Tag", "TypeId",
   "bool", "ostream &", "uint32_t", "uint8_t [ 1 ]", "void"},
  {})

Methods_PbbAddressTlvBlock == Wrappers(
  <<"PbbAddressTlvBlock">>,
  {"Buffer::Iterator", "PbbAddressTlv", "PbbAddressTlvBlock", "bool", "int",
   "iterator", "ostream &", "uint32_t", "void"},
  {})

Methods_PbbTlvBlock == Wrappers(
  <<"PbbTlvBlock">>,
  {"Buffer::Iterator", "PbbTlv", "PbbTlvBlock", "bool", "int", "iterator",
   "ostream &", "uint32_t", "void"},
  {})

Methods_PcapFile == Wrappers(
  <<"PcapFile", "PcapHelper", "PcapHelperForDevice">>,
  {"Header", "NetDevice", "NetDeviceContainer", "NodeContainer", "Object", "Packet",
   "PcapFileWrapper", "PcapHelper", "PcapHelper::DataLinkType",
   "PcapHelperForDevice", "bool", "int32_t", "int32_t const", "ios_base::openmode",
   "string", "string const &", "uint16_t", "uint32_t", "uint32_t &",
   "uint32_t const", "uint8_t * const", "uint8_t const * const", "void"},
  {})

Methods_QueueSize == Wrappers(
  <<"QueueSize", "SimpleNetDeviceHelper", "SimpleRefCount Object">>,
  {"AttributeValue", "NetDeviceContainer", "Node", "NodeContainer", "QueueSize",
   "QueueSizeUnit", "SimpleChannel", "SimpleNetDeviceHelper",
   "SimpleRefCount Object", "bool", "string", "uint32_t", "void"},
  {})

Methods_Simulator == Wrappers(
  <<"Simulator", "StatisticalSummary">>,
  {"EventId", "ObjectFactory", "Simulator", "SimulatorImpl", "StatisticalSummary",
   "Time", "bool", "double", "long int", "uint32_t", "uint64_t", "void"},
  {})

Methods_SystemWallClockMs == Wrappers(
  <<"SystemWallClockMs", "Tag", "TagBuffer", "ThreeGppHttpClientHelper">>,
  {"Address", "ApplicationContainer", "AttributeValue", "Node", "NodeContainer",
   "SystemWallClockMs", "Tag", "TagBuffer", "ThreeGppHttpClientHelper", "TypeId",
   "double", "int64_t", "ostream &", "string const &", "uint16_t", "uint32_t",
   "uint64_t", "uint8_t", "uint8_t *", "uint8_t const *", "void"},
  {})

Methods_ThreeGppHttpServerHelper == Wrappers(
  <<"ThreeGppHttpServerHelper", "TimeWithUnit", "TracedValue unsigned int">>,
  {"Address", "ApplicationContainer", "AttributeValue", "CallbackBase", "Node",
   "NodeContainer", "ThreeGppHttpServerHelper", "Time", "Time::Unit",
   "TimeWithUnit", "TracedValue unsigned int", "string", "string const &",
   "unsigned int", "unsigned int const &", "void"},
  {})

Methods_TypeId == Wrappers(
  <<"TypeId">>,
  {"AttributeAccessor", "AttributeChecker", "AttributeValue", "TraceSourceAccessor",
   "TypeId", "TypeId::AttributeInformation", "TypeId::SupportLevel",
   "TypeId::TraceSourceInformation", "bool", "char const *", "size_t", "string",
   "string const &", "uint16_t", "uint32_t", "void"},
  {<<"ObjectBase*">>})

Methods_TypeId_AttributeInformation == Wrappers(
  <<"TypeId::AttributeInformation", "TypeId::TraceSourceInformation",
    "UdpClientHelper", "UdpEchoClientHelper", "UdpEchoServerHelper",
    "UdpServerHelper">>,
  {"Address", "Application", "ApplicationContainer", "AttributeAccessor",
   "AttributeChecker", "AttributeValue", "Node", "NodeContainer",
   "TraceSourceAccessor", "TypeId::AttributeInformation", "TypeId::SupportLevel",
   "TypeId::TraceSourceInformation", "UdpClientHelper", "UdpEchoClientHelper",
   "UdpEchoServerHelper", "UdpServer", "UdpServerHelper", "string", "uint16_t",
   "uint32_t", "uint8_t", "uint8_t *", "void"},
  {})

Methods_UdpTraceClientHelper == Wrappers(
  <<"UdpTraceClientHelper", "empty", "int64x64_t", "Time", "int64x64_t", "Chunk">>,
  {"Address", "ApplicationContainer", "AttributeValue", "Buffer::Iterator", "Chunk",
   "NodeContainer", "Time", "TypeId", "UdpTraceClientHelper", "double",
   "double const", "empty", "int const", "int64_t", "int64_t const", "int64x64_t",
   "int64x64_t::impl_type", "long double const", "long int const",
   "long long int const", "long long unsigned int const", "long unsigned int const",
   "ostream &", "string", "uint16_t", "uint32_t", "uint64_t", "uint64_t const",
   "unsigned int const", "void"},
  {})

Methods_DeviceNameTag == Wrappers(
  <<"DeviceNameTag", "FlowIdTag", "Header">>,
  {"Buffer::Iterator", "DeviceNameTag", "FlowIdTag", "Header", "TagBuffer",
   "TypeId", "ostream &", "string", "uint32_t", "void"},
  {})

Methods_LlcSnapHeader == Wrappers(
  <<"LlcSnapHeader", "Object", "Object::AggregateIterator">>,
  {"Buffer::Iterator", "LlcSnapHeader", "Object", "Object::AggregateIterator",
   "TypeId", "bool", "ostream &", "uint16_t", "uint32_t", "void"},
  {})

Methods_PacketBurst == Wrappers(
  <<"PacketBurst", "PacketSocketTag">>,
  {"Address", "NetDevice::PacketType", "Packet", "PacketBurst", "PacketSocketTag",
   "TagBuffer", "TypeId", "iterator", "ostream &", "std::list< Ptr< Packet > >",
   "uint32_t", "void"},
  {})

Methods_PcapFileWrapper == Wrappers(
  <<"PcapFileWrapper">>,
  {"Header", "Packet", "Time", "TypeId", "bool", "int32_t", "ios_base::openmode",
   "string const &", "uint16_t", "uint32_t", "uint8_t const *", "void"},
  {})

Methods_QueueBase == Wrappers(
  <<"QueueBase", "QueueLimits">>,
  {"QueueBase", "QueueLimits", "QueueSize", "TypeId", "bool", "int32_t", "string &",
   "string const &", "uint32_t", "void"},
  {})

Methods_RadiotapHeader == Wrappers(
  <<"RadiotapHeader", "RandomVariableStream">>,
  {"Buffer::Iterator", "RadiotapHeader", "RngStream", "TypeId", "bool", "double",
   "int64_t", "ostream &", "uint16_t", "uint32_t", "uint64_t", "uint8_t",
   "uint8_t *", "void"},
  {})

Methods_SeqTsHeader == Wrappers(
  <<"SeqTsHeader", "SequentialRandomVariable", "SimpleRefCount AttributeAccessor",
    "SimpleRefCount AttributeChecker", "SimpleRefCount AttributeValue",
    "SimpleRefCount CallbackImplBase", "SimpleRefCount EventImpl",
    "SimpleRefCount Hash::Implementation", "SimpleRefCount NetDeviceQueue",
    "SimpleRefCount NixVector">>,
  {"Buffer::Iterator", "RandomVariableStream", "SeqTsHeader",
   "SimpleRefCount AttributeAccessor", "SimpleRefCount AttributeChecker",
   "SimpleRefCount AttributeValue", "SimpleRefCount CallbackImplBase",
   "SimpleRefCount EventImpl", "SimpleRefCount Hash::Implementation",
   "SimpleRefCount NetDeviceQueue", "SimpleRefCount NixVector", "Time", "TypeId",
   "double", "ostream &", "uint32_t", "void"},
  {})

Methods_SimpleRefCount_OutputStreamWrapper == Wrappers(
  <<"SimpleRefCount OutputStreamWrapper", "SimpleRefCount Packet",
    "SimpleRefCount PbbAddressBlock", "SimpleRefCount PbbMessage",
    "SimpleRefCount PbbPacket", "SimpleRefCount PbbTlv", "SimpleRefCount QueueItem",
    "SimpleRefCount ThreeGppHttpServerTxBuffer",
    "SimpleRefCount TraceSourceAccessor", "SllHeader">>,
  {"Buffer::Iterator", "SimpleRefCount OutputStreamWrapper",
   "SimpleRefCount Packet", "SimpleRefCount PbbAddressBlock",
   "SimpleRefCount PbbMessage", "SimpleRefCount PbbPacket", "SimpleRefCount PbbTlv",
   "SimpleRefCount QueueItem", "SimpleRefCount ThreeGppHttpServerTxBuffer",
   "SimpleRefCount TraceSourceAccessor", "SllHeader", "SllHeader::PacketType",
   "TypeId", "ostream &", "uint16_t", "uint32_t", "void"},
  {})

Methods_Socket == Wrappers(
  <<"Socket">>,
  {"Address", "Ipv6Address", "NetDevice", "Node", "Packet", "Socket",
   "Socket::Ipv6MulticastFilterMode", "Socket::SocketErrno", "Socket::SocketType",
   "TypeId", "bool", "int", "std::vector< Ipv6Address >", "uint32_t", "uint8_t",
   "uint8_t *", "uint8_t const *", "void"},
  {<<"bool", "Socket", "Address">>, <<"void", "Socket">>,
   <<"void", "Socket", "Address">>, <<"void", "Socket", "uint">>})

Methods_SocketFactory == Wrappers(
  <<"SocketFactory", "SocketIpTosTag", "SocketIpTtlTag">>,
  {"Socket", "SocketFactory", "SocketIpTosTag", "SocketIpTtlTag", "TagBuffer",
   "TypeId", "ostream &", "uint32_t", "uint8_t", "void"},
  {})

Methods_SocketIpv6HopLimitTag == Wrappers(
  <<"SocketIpv6HopLimitTag", "SocketIpv6TclassTag", "SocketPriorityTag">>,
  {"SocketIpv6HopLimitTag", "SocketIpv6TclassTag", "SocketPriorityTag", "TagBuffer",
   "TypeId", "ostream &", "uint32_t", "uint8_t", "void"},
  {})

Methods_SocketSetDontFragmentTag == Wrappers(
  <<"SocketSetDontFragmentTag", "ThreeGppHttpHeader">>,
  {"Buffer::Iterator", "SocketSetDontFragmentTag", "TagBuffer",
   "ThreeGppHttpHeader", "ThreeGppHttpHeader::ContentType_t", "Time", "TypeId",
   "bool", "ostream &", "string", "uint32_t", "void"},
  {})

Methods_ThreeGppHttpServerTxBuffer == Wrappers(
  <<"ThreeGppHttpServerTxBuffer">>,
  {"EventId", "Socket", "ThreeGppHttpHeader::ContentType_t",
   "ThreeGppHttpServerTxBuffer", "Time", "bool", "uint32_t", "void"},
  {})

Methods_ThreeGppHttpVariables == Wrappers(
  <<"ThreeGppHttpVariables">>,
  {"ThreeGppHttpVariables", "Time", "TypeId", "double", "int64_t", "uint32_t",
   "void"},
  {})

Methods_Time == Wrappers(
  <<"Time", "Time", "int64x64_t">>,
  {"Time", "Time::Unit", "TimeWithUnit", "bool", "double", "int", "int64_t",
   "int64_t const &", "int64x64_t", "long int", "long long int",
   "long long unsigned int", "long unsigned int", "string const &", "uint64_t",
   "unsigned int", "void"},
  {})

Methods_TraceSourceAccessor == Wrappers(
  <<"TraceSourceAccessor", "Trailer", "TriangularRandomVariable",
    "UniformRandomVariable">>,
  {"Buffer::Iterator", "CallbackBase", "ObjectBase", "TraceSourceAccessor",
   "Trailer", "TypeId", "bool", "double", "ostream &", "string", "uint32_t", "void"},
  {})

Methods_WeibullRandomVariable == Wrappers(
  <<"WeibullRandomVariable", "ZetaRandomVariable", "ZipfRandomVariable">>,
  {"TypeId", "double", "uint32_t"},
  {})

Methods_Application == Wrappers(
  <<"Application", "AttributeAccessor", "AttributeChecker", "AttributeValue",
    "BooleanChecker">>,
  {"Application", "AttributeAccessor", "AttributeChecker", "AttributeValue",
   "BooleanChecker", "Node", "ObjectBase", "Time", "TypeId", "bool", "string",
   "void"},
  {})

Methods_BooleanValue == Wrappers(
  <<"BooleanValue", "BulkSendApplication", "CallbackChecker">>,
  {"AttributeChecker", "AttributeValue", "BooleanValue", "BulkSendApplication",
   "CallbackChecker", "Socket", "TypeId", "bool", "string", "uint64_t", "void"},
  {})

Methods_CallbackImplBase == Wrappers(
  <<"CallbackImplBase", "CallbackValue">>,
  {"AttributeChecker", "AttributeValue", "CallbackBase", "CallbackImplBase",
   "CallbackValue", "bool", "string", "string const &", "void"},
  {})

Methods_Channel == Wrappers(
  <<"Channel", "ConstantRandomVariable", "DataCalculator">>,
  {"Channel", "DataCalculator", "DataOutputCallback", "NetDevice", "Time", "TypeId",
   "bool", "double", "size_t", "string", "string const", "uint32_t", "void"},
  {})

Methods_DataCollectionObject == Wrappers(
  <<"DataCollectionObject", "DataOutputInterface", "DataRateChecker",
    "DataRateValue", "DeterministicRandomVariable">>,
  {"AttributeChecker", "AttributeValue", "DataCollectionObject", "DataCollector",
   "DataOutputInterface", "DataRate", "DataRateChecker", "DataRateValue", "TypeId",
   "bool", "double", "double *", "size_t", "string", "string const", "uint32_t",
   "void"},
  {})

Methods_DoubleValue == Wrappers(
  <<"DoubleValue", "DynamicQueueLimits", "EmpiricalRandomVariable",
    "EmptyAttributeAccessor">>,
  {"AttributeChecker", "AttributeValue", "DoubleValue", "DynamicQueueLimits",
   "EmptyAttributeAccessor", "ObjectBase", "TypeId", "bool", "double",
   "double const &", "int32_t", "string", "uint32_t", "void"},
  {})

Methods_EmptyAttributeChecker == Wrappers(
  <<"EmptyAttributeChecker", "EmptyAttributeValue", "EnumChecker", "EnumValue">>,
  {"AttributeChecker", "AttributeValue", "EmptyAttributeChecker",
   "EmptyAttributeValue", "EnumChecker", "EnumValue", "bool", "int", "string",
   "void"},
  {})

Methods_ErlangRandomVariable == Wrappers(
  <<"ErlangRandomVariable", "ErrorModel">>,
  {"ErrorModel", "Packet", "TypeId", "bool", "double", "uint32_t", "void"},
  {})

Methods_EthernetHeader == Wrappers(
  <<"EthernetHeader", "EthernetTrailer">>,
  {"Buffer::Iterator", "EthernetHeader", "EthernetTrailer", "Mac48Address",
   "Packet", "TypeId", "bool", "ethernet_header_t", "ostream &", "uint16_t",
   "uint32_t", "uint64_t", "void"},
  {})

Methods_EventImpl == Wrappers(
  <<"EventImpl", "ExponentialRandomVariable", "GammaRandomVariable", "IntegerValue",
    "Ipv4AddressChecker">>,
  {"AttributeChecker", "AttributeValue", "EventImpl", "IntegerValue",
   "Ipv4AddressChecker", "TypeId", "bool", "double", "int64_t", "int64_t const &",
   "string", "uint32_t", "void"},
  {})

Methods_Ipv4AddressValue == Wrappers(
  <<"Ipv4AddressValue", "Ipv4MaskChecker", "Ipv4MaskValue", "Ipv6AddressChecker",
    "Ipv6AddressValue", "Ipv6PrefixChecker">>,
  {"AttributeChecker", "AttributeValue", "Ipv4Address", "Ipv4AddressValue",
   "Ipv4Mask", "Ipv4MaskChecker", "Ipv4MaskValue", "Ipv6Address",
   "Ipv6AddressChecker", "Ipv6AddressValue", "Ipv6PrefixChecker", "bool", "string",
   "void"},
  {})

Methods_Ipv6PrefixValue == Wrappers(
  <<"Ipv6PrefixValue", "ListErrorModel", "LogNormalRandomVariable",
    "Mac16AddressChecker", "Mac16AddressValue", "Mac48AddressChecker">>,
  {"AttributeChecker", "AttributeValue", "Ipv6Prefix", "Ipv6PrefixValue",
   "ListErrorModel", "Mac16Address", "Mac16AddressChecker", "Mac16AddressValue",
   "Mac48AddressChecker", "Packet", "TypeId", "bool", "double",
   "std::list< unsigned int >", "string", "uint32_t", "void"},
  {})

Methods_Mac48AddressValue == Wrappers(
  <<"Mac48AddressValue", "Mac64AddressChecker", "Mac64AddressValue",
    "MinMaxAvgTotalCalculator unsigned int">>,
  {"AttributeChecker", "AttributeValue", "DataOutputCallback", "Mac48Address",
   "Mac48AddressValue", "Mac64Address", "Mac64AddressChecker", "Mac64AddressValue",
   "MinMaxAvgTotalCalculator unsigned int", "TypeId", "bool", "double", "long int",
   "string", "unsigned int const", "void"},
  {})

Methods_NetDevice == Wrappers(
  <<"NetDevice">>,
  {"Address", "Channel", "Ipv4Address", "Ipv6Address", "NetDevice", "Node",
   "Packet", "TypeId", "bool", "uint16_t", "uint16_t const", "uint32_t",
   "uint32_t const", "void"},
  {<<"bool", "NetDevice", "Packet", "ushort", "Address">>,
   <<"bool", "NetDevice", "Packet", "ushort", "Address", "Address", "NetDevice::PacketType">>,
   <<"void">>})

Methods_NetDeviceQueue == Wrappers(
  <<"NetDeviceQueue", "NetDeviceQueueInterface", "NixVector">>,
  {"NetDeviceQueue", "NetDeviceQueueInterface", "NixVector", "QueueLimits",
   "TypeId", "bool", "function", "size_t", "uint32_t", "uint32_t *",
   "uint32_t const *", "void"},
  {<<"void">>})

Methods_Node == Wrappers(
  <<"Node", "NormalRandomVariable", "ObjectFactoryChecker">>,
  {"Application", "NetDevice", "Node", "ObjectFactoryChecker", "Time", "TypeId",
   "bool", "double", "double const", "uint16_t", "uint32_t", "void"},
  {<<"void", "NetDevice">>,
   <<"void", "NetDevice", "Packet", "ushort", "Address", "Address", "NetDevice::PacketType">>})

Methods_ObjectFactoryValue == Wrappers(
  <<"ObjectFactoryValue", "OnOffApplication", "OutputStreamWrapper">>,
  {"AttributeChecker", "AttributeValue", "ObjectFactory", "ObjectFactoryValue",
   "OnOffApplication", "OutputStreamWrapper", "Socket", "TypeId", "bool", "int64_t",
   "ios_base::openmode", "ostream *", "string", "uint64_t", "void"},
  {})

Methods_Packet == Wrappers(
  <<"Packet">>,
  {"ByteTagIterator", "Header", "NixVector", "Packet",
   "PacketMetadata::ItemIterator", "PacketTagIterator", "Tag", "Trailer", "bool",
   "ostream &", "ostream *", "string", "uint32_t", "uint64_t", "uint8_t *",
   "uint8_t const *", "void"},
  {})

Methods_PacketSink == Wrappers(
  <<"PacketSink", "PacketSizeMinMaxAvgTotalCalculator">>,
  {"Mac48Address", "Packet", "PacketSink", "PacketSizeMinMaxAvgTotalCalculator",
   "Socket", "TypeId", "std::list< Ptr< Socket > >", "string", "uint64_t", "void"},
  {})

Methods_PacketSocket == Wrappers(
  <<"PacketSocket">>,
  {"Address", "Node", "Packet", "PacketSocket", "Socket::SocketErrno",
   "Socket::SocketType", "TypeId", "bool", "int", "uint32_t", "void"},
  {})

Methods_PacketSocketClient == Wrappers(
  <<"PacketSocketClient", "PacketSocketFactory", "PacketSocketServer",
    "ParetoRandomVariable">>,
  {"PacketSocketAddress", "PacketSocketClient", "PacketSocketFactory",
   "PacketSocketServer", "Socket", "TypeId", "double", "uint32_t", "uint8_t", "void"},
  {})

Methods_PbbAddressBlock == Wrappers(
  <<"PbbAddressBlock">>,
  {"Address", "Buffer::Iterator", "PbbAddressBlock", "PbbAddressTlv", "PbbTlv",
   "bool", "int", "iterator", "ostream &", "uint32_t", "uint8_t", "uint8_t *",
   "uint8_t const", "void"},
  {})

Methods_PbbAddressBlockIpv4 == Wrappers(
  <<"PbbAddressBlockIpv4", "PbbAddressBlockIpv6">>,
  {"Address", "PbbAddressBlockIpv4", "PbbAddressBlockIpv6", "iterator", "ostream &",
   "uint8_t", "uint8_t *", "void"},
  {})

Methods_PbbMessage == Wrappers(
  <<"PbbMessage">>,
  {"Address", "Buffer::Iterator", "PbbAddressBlock", "PbbAddressLength",
   "PbbMessage", "PbbTlv", "bool", "int", "iterator", "ostream &", "uint16_t",
   "uint32_t", "uint8_t", "void"},
  {})

Methods_PbbMessageIpv4 == Wrappers(
  <<"PbbMessageIpv4", "PbbMessageIpv6">>,
  {"Address", "Buffer::Iterator", "PbbAddressBlock", "PbbAddressLength",
   "PbbMessageIpv4", "PbbMessageIpv6", "ostream &", "void"},
  {})

Methods_PbbPacket == Wrappers(
  <<"PbbPacket">>,
  {"Buffer::Iterator", "PbbMessage", "PbbPacket", "PbbTlv", "TypeId", "bool", "int",
   "iterator", "ostream &", "uint16_t", "uint32_t", "uint8_t", "void"},
  {})

Methods_PbbTlv == Wrappers(
  <<"PbbTlv", "Probe">>,
  {"Buffer", "Buffer::Iterator", "Object", "PbbTlv", "Probe", "TypeId", "bool",
   "int", "ostream &", "string", "uint32_t", "uint8_t", "uint8_t const *", "void"},
  {})

Methods_Queue_Packet == Wrappers(
  <<"Queue Packet">>,
  {"Packet", "Queue Packet", "TypeId", "bool", "iterator", "void"},
  {})

Methods_Queue_QueueDiscItem == Wrappers(
  <<"Queue QueueDiscItem", "QueueItem", "QueueSizeChecker">>,
  {"Packet", "Queue QueueDiscItem", "QueueDiscItem", "QueueItem::Uint8Values",
   "QueueSizeChecker", "TypeId", "bool", "iterator", "ostream &", "uint32_t",
   "uint8_t &", "void"},
  {})

Methods_QueueSizeValue == Wrappers(
  <<"QueueSizeValue", "RateErrorModel", "ReceiveListErrorModel">>,
  {"AttributeChecker", "AttributeValue", "Packet", "QueueSize", "QueueSizeValue",
   "RandomVariableStream", "RateErrorModel", "RateErrorModel::ErrorUnit",
   "ReceiveListErrorModel", "TypeId", "bool", "double", "int64_t",
   "std::list< unsigned int >", "string", "void"},
  {})

Methods_SimpleChannel == Wrappers(
  <<"SimpleChannel">>,
  {"Mac48Address", "NetDevice", "Packet", "SimpleChannel", "SimpleNetDevice",
   "TypeId", "size_t", "uint16_t", "void"},
  {})

Methods_SimpleNetDevice == Wrappers(
  <<"SimpleNetDevice">>,
  {"Address", "Channel", "ErrorModel", "Ipv4Address", "Ipv6Address", "Mac48Address",
   "Node", "Packet", "Queue Packet", "SimpleChannel", "SimpleNetDevice", "TypeId",
   "bool", "uint16_t", "uint16_t const", "uint32_t", "uint32_t const", "void"},
  {<<"bool", "NetDevice", "Packet", "ushort", "Address">>,
   <<"bool", "NetDevice", "Packet", "ushort", "Address", "Address", "NetDevice::PacketType">>,
   <<"void">>})

Methods_ThreeGppHttpClient == Wrappers(
  <<"ThreeGppHttpClient", "ThreeGppHttpServer", "TimeValue", "TypeIdChecker">>,
  {"AttributeChecker", "AttributeValue", "Socket", "ThreeGppHttpClient",
   "ThreeGppHttpClient::State_t", "ThreeGppHttpServer",
   "ThreeGppHttpServer::State_t", "Time", "TimeValue", "TypeId", "TypeIdChecker",
   "bool", "string", "uint32_t", "void"},
  {})

Methods_TypeIdValue == Wrappers(
  <<"TypeIdValue", "UdpClient", "UdpEchoClient", "UdpEchoServer">>,
  {"Address", "AttributeChecker", "AttributeValue", "TypeId", "TypeIdValue",
   "UdpClient", "UdpEchoClient", "UdpEchoServer", "bool", "string", "uint16_t",
   "uint32_t", "uint8_t", "uint8_t *", "void"},
  {})

Methods_UdpServer == Wrappers(
  <<"UdpServer", "UdpTraceClient", "UintegerValue", "AddressChecker">>,
  {"Address", "AddressChecker", "AttributeChecker", "AttributeValue", "Ipv4Address",
   "TypeId", "UdpServer", "UdpTraceClient", "UintegerValue", "bool", "char *",
   "string", "uint16_t", "uint32_t", "uint64_t", "uint64_t const &", "void"},
  {})

Methods_AddressValue == Wrappers(
  <<"AddressValue", "ApplicationPacketProbe", "BinaryErrorModel", "BurstErrorModel",
    "CallbackImpl bool NetDevice Packet ushort Address Address NetDevice::PacketType">>,
  {"Address", "AddressValue", "ApplicationPacketProbe", "AttributeChecker",
   "AttributeValue", "BinaryErrorModel", "BurstErrorModel",
   "CallbackImpl bool NetDevice Packet ushort Address Address NetDevice::PacketType",
   "NetDevice", "NetDevice::PacketType", "Object", "Packet", "RandomVariableStream",
   "TypeId", "bool", "double", "int64_t", "short unsigned int", "string", "void"},
  {})

Methods_CallbackImpl_bool_NetDevice_Packet_ushort_Address == Wrappers(
  <<"CallbackImpl bool NetDevice Packet ushort Address",
    "CallbackImpl bool Socket Address", "CallbackImpl ObjectBase*",
    "CallbackImpl void Time Address", "CallbackImpl void string string",
    "CallbackImpl void Packet Address Address">>,
  {"Address", "CallbackImpl ObjectBase*",
   "CallbackImpl bool NetDevice Packet ushort Address",
   "CallbackImpl bool Socket Address", "CallbackImpl void Packet Address Address",
   "CallbackImpl void Time Address", "CallbackImpl void string string", "NetDevice",
   "ObjectBase", "Packet", "Socket", "Time", "bool", "short unsigned int", "string",
   "string const &", "void"},
  {})

Methods_CallbackImpl_void_Packet_Address == Wrappers(
  <<"CallbackImpl void Packet Address", "CallbackImpl void Packet",
    "CallbackImpl void QueueDiscItem",
    "CallbackImpl void ThreeGppHttpClient Packet",
    "CallbackImpl void ThreeGppHttpClient",
    "CallbackImpl void ThreeGppHttpServer Socket">>,
  {"Address", "CallbackImpl void Packet", "CallbackImpl void Packet Address",
   "CallbackImpl void QueueDiscItem", "CallbackImpl void ThreeGppHttpClient",
   "CallbackImpl void ThreeGppHttpClient Packet",
   "CallbackImpl void ThreeGppHttpServer Socket", "Packet", "QueueDiscItem",
   "Socket", "ThreeGppHttpClient", "ThreeGppHttpServer", "string", "void"},
  {})

Methods_CallbackImpl_void_NetDevice_Packet_ushort_Address_Address_NetDevice_PacketType == Wrappers(
  <<"CallbackImpl void NetDevice Packet ushort Address Address NetDevice::PacketType",
    "CallbackImpl void NetDevice", "CallbackImpl void Socket Address",
    "CallbackImpl void Socket", "CallbackImpl void Socket uint", "CallbackImpl void">>,
  {"Address", "CallbackImpl void", "CallbackImpl void NetDevice",
   "CallbackImpl void NetDevice Packet ushort Address Address NetDevice::PacketType",
   "CallbackImpl void Socket", "CallbackImpl void Socket Address",
   "CallbackImpl void Socket uint", "NetDevice", "NetDevice::PacketType", "Packet",
   "Socket", "short unsigned int", "string", "unsigned int", "void"},
  {})

Methods_CallbackImpl_void_uint == Wrappers(
  <<"CallbackImpl void uint", "CallbackImpl void uint uint",
    "CounterCalculator unsigned int", "DropTailQueue Packet",
    "DropTailQueue QueueDiscItem">>,
  {"CallbackImpl void uint", "CallbackImpl void uint uint",
   "CounterCalculator unsigned int", "DataOutputCallback", "DropTailQueue Packet",
   "DropTailQueue QueueDiscItem", "Packet", "QueueDiscItem", "TypeId", "bool",
   "string", "unsigned int", "unsigned int const", "void"},
  {})

Methods_ErrorChannel == Wrappers(
  <<"ErrorChannel", "PacketCounterCalculator", "PacketProbe", "PbbAddressTlv">>,
  {"ErrorChannel", "Mac48Address", "NetDevice", "Object", "Packet",
   "PacketCounterCalculator", "PacketProbe", "PbbAddressTlv", "SimpleNetDevice",
   "Time", "TypeId", "bool", "size_t", "string", "uint16_t", "uint8_t", "void"},
  {})

Methods_QueueDiscItem == Wrappers(
  <<"QueueDiscItem", "Hash::Implementation", "Hash::Function::Fnv1a",
    "Hash::Function::Hash32", "Hash::Function::Hash64">>,
  {"Address", "Hash::Function::Fnv1a", "Hash::Function::Hash32",
   "Hash::Function::Hash64", "Hash::Implementation", "Packet", "Time", "bool",
   "char const *", "function pointer", "ostream &", "size_t const", "uint16_t",
   "uint32_t", "uint64_t", "uint8_t", "void"},
  {})

Methods_Hash_Function_Murmur3 == Wrappers(
  <<"Hash::Function::Murmur3">>,
  {"Hash::Function::Murmur3", "char const *", "size_t const", "uint32_t",
   "uint64_t", "void"},
  {})

register_methods == <<
  Methods_Address, Methods_AsciiFile, Methods_AttributeConstructionList,
  Methods_Buffer_Iterator, Methods_BulkSendHelper, Methods_CallbackBase,
  Methods_DefaultDeleter_AttributeValue,
  Methods_DefaultDeleter_ThreeGppHttpServerTxBuffer, Methods_Inet6SocketAddress,
  Methods_Ipv4Address, Methods_Ipv4Mask, Methods_Ipv6Address, Methods_Ipv6Prefix,
  Methods_Mac16Address, Methods_Mac64Address, Methods_NodeContainer,
  Methods_ObjectBase, Methods_PacketLossCounter, Methods_PacketSinkHelper,
  Methods_PacketTagList, Methods_PbbAddressTlvBlock, Methods_PbbTlvBlock,
  Methods_PcapFile, Methods_QueueSize, Methods_Simulator, Methods_SystemWallClockMs,
  Methods_ThreeGppHttpServerHelper, Methods_TypeId,
  Methods_TypeId_AttributeInformation, Methods_UdpTraceClientHelper,
  Methods_DeviceNameTag, Methods_LlcSnapHeader, Methods_PacketBurst,
  Methods_PcapFileWrapper, Methods_QueueBase, Methods_RadiotapHeader,
  Methods_SeqTsHeader, Methods_SimpleRefCount_OutputStreamWrapper, Methods_Socket,
  Methods_SocketFactory, Methods_SocketIpv6HopLimitTag,
  Methods_SocketSetDontFragmentTag, Methods_ThreeGppHttpServerTxBuffer,
  Methods_ThreeGppHttpVariables, Methods_Time, Methods_TraceSourceAccessor,
  Methods_WeibullRandomVariable, Methods_Application, Methods_BooleanValue,
  Methods_CallbackImplBase, Methods_Channel, Methods_DataCollectionObject,
  Methods_DoubleValue, Methods_EmptyAttributeChecker, Methods_ErlangRandomVariable,
  Methods_EthernetHeader, Methods_EventImpl, Methods_Ipv4AddressValue,
  Methods_Ipv6PrefixValue, Methods_Mac48AddressValue, Methods_NetDevice,
  Methods_NetDeviceQueue, Methods_Node, Methods_ObjectFactoryValue, Methods_Packet,
  Methods_PacketSink, Methods_PacketSocket, Methods_PacketSocketClient,
  Methods_PbbAddressBlock, Methods_PbbAddressBlockIpv4, Methods_PbbMessage,
  Methods_PbbMessageIpv4, Methods_PbbPacket, Methods_PbbTlv, Methods_Queue_Packet,
  Methods_Queue_QueueDiscItem, Methods_QueueSizeValue, Methods_SimpleChannel,
  Methods_SimpleNetDevice, Methods_ThreeGppHttpClient, Methods_TypeIdValue,
  Methods_UdpServer, Methods_AddressValue,
  Methods_CallbackImpl_bool_NetDevice_Packet_ushort_Address,
  Methods_CallbackImpl_void_Packet_Address,
  Methods_CallbackImpl_void_NetDevice_Packet_ushort_Address_Address_NetDevice_PacketType,
  Methods_CallbackImpl_void_uint, Methods_ErrorChannel, Methods_QueueDiscItem,
  Methods_Hash_Function_Murmur3>>
=============================================================================

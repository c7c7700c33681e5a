------------------------------ MODULE Bindings ------------------------------
(***************************************************************************)
(* The generator of the Python bindings, which waf runs when it builds the *)
(* module: whether it runs to its end, and which wrappers it leaves out.   *)
(***************************************************************************)
EXTENDS BindingTypes, BindingMethods, Integers

-----------------------------------------------------------------------------
\* The signatures for which a callback class is generated.
callback_classes == {
  <<"ObjectBase*">>, <<"void">>,
  <<"bool", "NetDevice", "Packet", "ushort", "Address">>,
  <<"bool", "NetDevice", "Packet", "ushort", "Address", "Address", "NetDevice::PacketType">>,
  <<"void", "NetDevice", "Packet", "ushort", "Address", "Address", "NetDevice::PacketType">>,
  <<"void", "NetDevice">>, <<"void", "uint", "uint">>, <<"void", "Packet">>,
  <<"void", "QueueDiscItem">>, <<"void", "Packet", "Address">>,
  <<"void", "Socket">>, <<"bool", "Socket", "Address">>,
  <<"void", "Socket", "Address">>, <<"void", "Socket", "uint">>, <<"void", "uint">>,
  <<"void", "string", "Packet">>, <<"void", "Packet", "Address", "Address">>,
  <<"void", "ThreeGppHttpClient">>, <<"void", "ThreeGppHttpClient", "Packet">>,
  <<"void", "Time", "Address">>, <<"void", "string", "string">>,
  <<"void", "ThreeGppHttpServer", "Socket">>}

Registered(n) == {register_types[i][1] : i \in 1 .. n}

AllRegistered == Registered(Len(register_types))

\* root_module[...] finds what each registration of a type looks up.
TypesFound ==
  \A i \in 1 .. Len(register_types) :
    \A k \in 2 .. Len(register_types[i]) :
      register_types[i][k] \in Registered(i - 1)

MethodPages == {register_methods[i] : i \in 1 .. Len(register_methods)}

\* ... and what the functions for the methods look up.
ClassesFound ==
  \A page \in MethodPages :
    \A i \in 1 .. Len(page.lookups) : page.lookups[i] \in AllRegistered

\* The pages with wrappers that PyBindGen has no handler for, if the C++ types it
\* knows by itself are native: a warning each, the wrapper is left out of the
\* module and the generator goes on.
handle_error(native) ==
  {page \in MethodPages :
     ~(/\ page.types \subseteq AllRegistered \cup native
       /\ page.callbacks \subseteq callback_classes)}

\* Types, then methods (the functions of the nested namespaces add nothing): the
\* generator ends before it has written the module if it looks up what is not
\* registered.
main == TypesFound /\ ClassesFound
=============================================================================

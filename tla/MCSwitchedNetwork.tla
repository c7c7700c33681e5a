-------------------------- MODULE MCSwitchedNetwork --------------------------
(* Small instance of SwitchedNetwork: one sender per group, and in each    *)
(* network pairs of flows that share a receiver or oppose each other.      *)
EXTENDS SwitchedNetwork

Network(program, topo) == [program |-> program, topo |-> topo]

MCNetworks ==
  {Network("trafficgen_small", 1)}
  \union {Network(program, topo) :
            program \in {"trafficgen", "trafficgen_large_tests"}, topo \in {1, 2}}

MCSenders == [first |-> <<"sender">>, second |-> <<"ssender">>, third |-> <<"tsender">>]

\* Traffic and congestion of one receiver, and opposite or crossing flows.
MCFlowSets ==
  [n \in MCNetworks |->
     CASE n.program = "trafficgen_small" ->
            {{<<"sender", "receiver1">>, <<"disturbance1", "receiver1">>,
              <<"receiver1", "sender">>}}
       [] n.program = "trafficgen" ->
            {{<<"sender", "receiver3">>, <<"receiver3", "sender">>},
             {<<"sender", "receiver2">>, <<"disturbance2", "receiver2">>},
             {<<"sender", "receiver3">>, <<"disturbance2", "receiver2">>}}
       [] OTHER -> {{<<"ssender", "receiver2">>, <<"disturbance3", "receiver3">>},
                    {<<"tsender", "receiver1">>, <<"receiver3", "tsender">>}}]

\* Some flows follow up their first data frame with another.
MCMaxData ==
  [f \in UNION UNION {MCFlowSets[n] : n \in MCNetworks} |->
     IF f \in {<<"sender", "receiver1">>, <<"sender", "receiver2">>} THEN 2 ELSE 1]
=============================================================================

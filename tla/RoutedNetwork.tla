--------------------------- MODULE RoutedNetwork ---------------------------
(***************************************************************************)
(* What the network owes to TrafficPipeline, which knows no more of it     *)
(* than the devices that the packets of an application pass: every flow    *)
(* has a list of them from the start, in which none comes twice; each of   *)
(* its datagrams passes the devices of the list one after the other and no *)
(* other device, and arrives once.  Datagrams may overtake each other.     *)
(***************************************************************************)
EXTENDS Integers, Sequences

VARIABLES
  route,         \* of each flow: the devices of its way
  underWay,      \* the datagrams under way, each with the devices passed
  sent, got      \* of each flow: datagrams sent and accepted

netVars == <<route, underWay, sent, got>>

First(f, i) == {route[f][j] : j \in 1 .. i}

Init ==
  /\ \A f \in DOMAIN route :
       /\ route[f] # <<>>
       /\ \A i, j \in 1 .. Len(route[f]) : route[f][i] = route[f][j] => i = j
  /\ underWay = {}
  /\ sent = [f \in DOMAIN route |-> 0] /\ got = [f \in DOMAIN route |-> 0]

Enter(f) ==
  /\ underWay' = underWay \union {[flow |-> f, nr |-> sent[f], passed |-> First(f, 1)]}
  /\ sent' = [sent EXCEPT ![f] = @ + 1]
  /\ UNCHANGED <<route, got>>

Pass(d) ==
  /\ \E i \in 1 .. Len(route[d.flow]) - 1 :
       /\ d.passed = First(d.flow, i)
       /\ underWay' = (underWay \ {d}) \union {[d EXCEPT !.passed = First(d.flow, i + 1)]}
  /\ UNCHANGED <<route, sent, got>>

Arrive(d) ==
  /\ d.passed = First(d.flow, Len(route[d.flow]))
  /\ underWay' = underWay \ {d}
  /\ got' = [got EXCEPT ![d.flow] = @ + 1]
  /\ UNCHANGED <<route, sent>>

Next ==
  \/ \E f \in DOMAIN route : Enter(f)
  \/ \E d \in underWay : Pass(d) \/ Arrive(d)

Spec == Init /\ [][Next]_netVars
=============================================================================

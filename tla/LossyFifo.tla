----------------------------- MODULE LossyFifo -----------------------------
(***************************************************************************)
(* What the network owes to the logs of an experiment: between its sender  *)
(* and the receiver an application sees a channel that keeps the order of  *)
(* its packets and may lose any of them, one at a time; each loss is one   *)
(* line of the drop log, and a line of the packet log is about the packet  *)
(* that just arrived.                                                      *)
(***************************************************************************)
EXTENDS Integers, Sequences

CONSTANTS Apps

VARIABLES
  inTransit,     \* of each application: its packets under way, oldest first
  lost,          \* of each application: lines of the drop log
  log            \* of each application: number and contents of its last line
                 \*   in the packet log

chVars == <<inTransit, lost, log>>

Init ==
  /\ inTransit = [a \in Apps |-> <<>>]
  /\ lost = [a \in Apps |-> 0]
  /\ log = [a \in Apps |-> [line |-> 0, seq |-> <<>>]]

Enter(a) ==
  /\ UNCHANGED <<lost, log>>
  /\ Len(inTransit'[a]) = Len(inTransit[a]) + 1
  /\ inTransit' = [inTransit EXCEPT ![a] = Append(@, inTransit'[a][Len(inTransit'[a])])]

\* The oldest packet arrives, and is logged or not.
Leave(a) ==
  /\ UNCHANGED lost
  /\ inTransit[a] # <<>>
  /\ Len(inTransit'[a]) = Len(inTransit[a]) - 1
  /\ inTransit' = [inTransit EXCEPT ![a] = Tail(@)]
  /\ \/ UNCHANGED log
     \/ log' = [log EXCEPT ![a] = [line |-> @.line + 1, seq |-> <<Head(inTransit[a])>>]]

Without(list, i) == SubSeq(list, 1, i - 1) \o SubSeq(list, i + 1, Len(list))

Lose(a) ==
  /\ lost' = [lost EXCEPT ![a] = @ + 1]
  /\ UNCHANGED log
  /\ \E i \in 1 .. Len(inTransit[a]) :
        inTransit' = [inTransit EXCEPT ![a] = Without(@, i)]

\* A packet that finds the first queue full is lost at once.
Refuse(a) == lost' = [lost EXCEPT ![a] = @ + 1] /\ UNCHANGED <<inTransit, log>>

Next == \E a \in Apps : Enter(a) \/ Leave(a) \/ Lose(a) \/ Refuse(a)

Spec == Init /\ [][Next]_chVars
=============================================================================

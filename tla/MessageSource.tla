--------------------------- MODULE MessageSource ---------------------------
(***************************************************************************)
(* What one traffic application promises to the experiment that logs its   *)
(* messages: a numbered stream.  It says nothing of sockets, random draws  *)
(* or the simulator; CdfApplication implements it.                         *)
(***************************************************************************)
EXTENDS Integers, Sequences

CONSTANTS IdSpace      \* number of distinct message ids (2^32 in the code)

VARIABLES phase,       \* "idle", "active", "quiet": before, during, after
          out          \* the messages produced so far, oldest first

srcVars == <<phase, out>>

LastTime == IF out = <<>> THEN 0 ELSE out[Len(out)].at

Init == phase = "idle" /\ out = <<>>

Begin == phase = "idle" /\ phase' = "active" /\ UNCHANGED out

\* The n-th message carries id n modulo the id space and is not older than
\* the one before it.
Emit ==
  /\ phase = "active" /\ UNCHANGED phase
  /\ out' # <<>>
  /\ LET m == out'[Len(out')] IN
        /\ out' = Append(out, m)
        /\ m = [id |-> Len(out) % IdSpace, at |-> m.at]
        /\ m.at \in Nat /\ m.at >= LastTime

\* The source falls silent for good: it was stopped, or the simulation ended.
End == phase # "quiet" /\ phase' = "quiet" /\ UNCHANGED out

Next == Begin \/ Emit \/ End

Spec == Init /\ [][Next]_srcVars
=============================================================================

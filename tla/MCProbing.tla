------------------------------ MODULE MCProbing ------------------------------
(* Small instance of Probing: one client sends pairs of probes, the other  *)
(* single ones at another interval; start and stop times overlap, precede  *)
(* and miss each other.                                                    *)
EXTENDS Probing

CONSTANTS c1, c2

MCInterval == [c \in Clients |-> IF c = c1 THEN 3 ELSE 2]
MCBurstSize == [c \in Clients |-> IF c = c1 THEN 2 ELSE 1]
MCStopTimes == {Never, 2}
=============================================================================

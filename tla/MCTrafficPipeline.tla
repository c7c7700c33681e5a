-------------------------- MODULE MCTrafficPipeline --------------------------
(* Small instance of TrafficPipeline: one source behind two switches, the  *)
(* second of which it shares with the congestion application.  A message   *)
(* is shorter or longer than a segment, and switches hold one packet.      *)
EXTENDS TrafficPipeline

CONSTANTS s1, bg, n1, x, A, B

MCRoute == [a \in Apps |-> IF a = s1 THEN <<n1, A, B>> ELSE <<x, B>>]
MCQueueSize == [d \in Devices |-> IF d \in {A, B} THEN 1 ELSE 2]
MCMaxMsgs == [s \in Sources |-> 2]
MCMaxSends == [s \in Sources |-> 4]
=============================================================================

---------------------------- MODULE SegmentTags ----------------------------
(***************************************************************************)
(* What happens to the tags of experiment-tags.h when a TCP socket of ns-3 *)
(* turns messages into segments.  ns-3 is not part of the repository; the  *)
(* experiments rely on it to carry the tags of each message.               *)
(*                                                                         *)
(* A send buffer is a list of items: consecutive byte ranges [from, to),   *)
(* each with the message tag of the packet it is made of.  To cut a        *)
(* segment, items are merged (the packet tags of the first one stay) until *)
(* there are enough bytes, and the surplus is split off again (both parts  *)
(* keep the tags).                                                         *)
(***************************************************************************)
EXTENDS Integers, Sequences

Item == [from : Nat, to : Nat, msg : Nat, lastSent : Int]

Unsent == -1

Minimum(a, b) == IF a < b THEN a ELSE b

\* Where the first n bytes of a list end, or the list if it is shorter.
EndOfCut(list, n) == Minimum(list[1].from + n, list[Len(list)].to)

\* The item that holds the last of them.
ItemAt(list, end) ==
  CHOOSE k \in 1 .. Len(list) : list[k].from < end /\ end <= list[k].to

\* Mutant: the surplus of the last item merged is forgotten.
MutantCutFirst(list, n) ==
  LET end == EndOfCut(list, n)
  IN  <<[list[1] EXCEPT !.to = end]>> \o SubSeq(list, ItemAt(list, end) + 1, Len(list))

\* The list with its first n bytes made one item.  The surplus of the last item
\* merged has been part of the merged item, and so has its tag.
CutFirst(list, n) ==
  LET end == EndOfCut(list, n)
      k == ItemAt(list, end)
      surplus == [list[1] EXCEPT !.from = end, !.to = list[k].to]
  IN  <<[list[1] EXCEPT !.to = end]>>
      \o (IF list[k].to > end THEN <<surplus>> ELSE <<>>)
      \o SubSeq(list, k + 1, Len(list))

\* The same at item i of the list.
CutAt(list, i, n) ==
  SubSeq(list, 1, i - 1) \o CutFirst(SubSeq(list, i, Len(list)), n)

\* The number of items at the head of a list that end at n or before.
Acknowledged(list, n) ==
  CHOOSE k \in 0 .. Len(list) :
    /\ \A i \in 1 .. k : list[i].to <= n
    /\ k < Len(list) => list[k + 1].to > n

\* What is left of a list once all bytes before n are acknowledged.
DiscardUpTo(list, n) ==
  LET rest == SubSeq(list, Acknowledged(list, n) + 1, Len(list))
  IN  IF rest # <<>> /\ rest[1].from < n THEN [rest EXCEPT ![1].from = n] ELSE rest

\* The items cover the bytes from a to b, each once.
Covers(list, a, b) ==
  IF list = <<>> THEN a = b
  ELSE /\ list[1].from = a /\ list[Len(list)].to = b
       /\ \A i \in 1 .. Len(list) : list[i].from < list[i].to
       /\ \A i \in 1 .. Len(list) - 1 : list[i].to = list[i + 1].from
=============================================================================

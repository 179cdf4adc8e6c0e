----------------------------- MODULE LossyLink -----------------------------
(***************************************************************************)
(* What the serial link of the esp-crab promises, frames being numbered in *)
(* the order the slave writes them: a delivered frame is newer than all    *)
(* that were delivered before. It may be lost, it may carry the end of a   *)
(* newer frame than its beginning, but nothing is repeated, reordered or   *)
(* made up. Frames are delivered in batches, as events announce them.      *)
(***************************************************************************)
EXTENDS Naturals

CONSTANT MaxFrames  \* bound: frames the slave writes

VARIABLES
  sent,  \* number of the frame written last, 0 before the first
  got    \* the frame delivered last: of which frames its beginning and its
         \* end are, and how many were delivered so far

Init == sent = 0 /\ got = [head |-> 0, tail |-> 0, count |-> 0]

Write ==
  /\ sent < MaxFrames
  /\ sent' = sent + 1
  /\ UNCHANGED got

(* A batch that ends with a frame from head to tail has no more frames    *)
(* than there are numbers up to its tail.                                  *)
Deliver ==
  /\ \E head \in got.tail + 1 .. sent : \E tail \in head .. sent :
       \E batch \in 1 .. tail - got.tail :
         got' = [head |-> head, tail |-> tail, count |-> got.count + batch]
  /\ UNCHANGED sent

Next == Write \/ Deliver

Spec == Init /\ [][Next]_<<sent, got>>
=============================================================================

------------------------- MODULE MCIntervalProducer -------------------------
(***************************************************************************)
(* Both modes of the producer: with an interval, in small blocks and       *)
(* without the dev API; and on demand, in blocks that never fill up, with  *)
(* the jobs free to end within the poll that spawned them.                 *)
(***************************************************************************)
EXTENDS IntervalProducer

MCBlockCap == [interval \in BOOLEAN |-> IF interval THEN 1 ELSE 4]
MCMaxForce == [interval \in BOOLEAN |-> IF interval THEN 0 ELSE 2]
MCFastJobs == [interval \in BOOLEAN |-> ~interval]
=============================================================================

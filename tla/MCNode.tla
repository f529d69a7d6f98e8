------------------------------- MODULE MCNode ------------------------------
(***************************************************************************)
(* Instance of Node: a settlement chain of four blocks, a range of two     *)
(* blocks per request so that a gathering stops short of the tip, blocks   *)
(* with no, one and two messages, and messages to two contracts numbered   *)
(* by the one counter of the messaging contract.                           *)
(***************************************************************************)
EXTENDS Node

MCHeight == 3

MCSent ==
    [b \in 0..MCHeight |->
        CASE b = 1 -> <<[contract |-> "A", nonce |-> 0]>>
          [] b = 2 -> <<[contract |-> "B", nonce |-> 1], [contract |-> "A", nonce |-> 2]>>
          [] b = 3 -> <<[contract |-> "A", nonce |-> 3]>>
          [] OTHER -> <<>>]

MCTasks == {"Sequencing", "Messaging", "Block production", "L1 Gas Oracle Worker"}
MCCritical == {"Sequencing", "L1 Gas Oracle Worker"}
=============================================================================

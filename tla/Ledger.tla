------------------------------- MODULE Ledger -------------------------------
(***************************************************************************)
(* What a katana block producer promises, whatever its mining mode: the    *)
(* chain only ever grows by one block at a time, a block holds accepted    *)
(* transactions only, and the transactions of the chain are in the order   *)
(* in which the pool handed them over, none of them twice.                 *)
(*                                                                         *)
(* Transactions are numbered in the order in which the pool accepts them.  *)
(***************************************************************************)
EXTENDS Integers, Sequences

VARIABLES
    accepted,  \* how many transactions the pool has accepted
    chain      \* the blocks after genesis: block n holds chain[n]

vars == <<accepted, chain>>

Init == accepted = 0 /\ chain = <<>>

Accept == accepted' = accepted + 1 /\ UNCHANGED chain

Increasing(s) == \A i, j \in DOMAIN s : i < j => s[i] < s[j]

\* The block follows everything that is in the chain already.
Follows(block, c) ==
    \A n \in DOMAIN c : \A i \in DOMAIN c[n] : \A j \in DOMAIN block :
        c[n][i] < block[j]

IsBlock(block) ==
    /\ \A i \in DOMAIN block : block[i] \in 1 .. accepted
    /\ Increasing(block)
    /\ Follows(block, chain)

Mine ==
    /\ Len(chain') = Len(chain) + 1
    /\ chain' = Append(chain, chain'[Len(chain')])
    /\ IsBlock(chain'[Len(chain')])
    /\ UNCHANGED accepted

Next == Accept \/ Mine
Spec == Init /\ [][Next]_vars
=============================================================================

----------------------------- MODULE MCTxPool -----------------------------
(***************************************************************************)
(* Instances of TxPool for TLC. The transactions of an instance are the    *)
(* model values of a cfg; their senders, nonces and kinds are given here.  *)
(***************************************************************************)
EXTENDS TxPool

CONSTANTS s1, s2, s3, a0, a1, a2, b0, l0, p0, p1, c1

\* a0, a1 and a2 are the first transactions of the account s1, b0 declares the
\* class c1 for s2, l0 is a message from L1 to s2, p0 the deploy_account of s3
\* and p1 the invoke that follows it.
MCSenderOf == [x \in Txs |-> CASE x \in {b0, l0} -> s2 [] x \in {p0, p1} -> s3
                                [] OTHER -> s1]
MCNonceOf  == [x \in Txs |-> CASE x \in {a1, p1} -> 1 [] x = a2 -> 2 [] OTHER -> 0]
MCKindOf   == [x \in Txs |->
                  CASE x = b0 -> "declare"
                    [] x = l0 -> "l1handler"
                    [] x = p0 -> "deploy"
                    [] OTHER -> "invoke"]
MCClassOf  == [x \in Txs |-> c1]
=============================================================================

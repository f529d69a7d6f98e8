--------------------------- MODULE MCSyncPipeline ---------------------------
(* A chain of five blocks for SyncPipeline: two contracts, one of them moved to *)
(* another class by replace_class, a slot written in three blocks, once back to *)
(* zero, a block without transactions and a deprecated class.                   *)
EXTENDS SyncPipeline, TLC

Block(n, body, storage, nonces, deployed, replaced, declared, deprecated) ==
    [number |-> n, hash |-> 100 + n, txs |-> body, receipts |-> [i \in DOMAIN body |-> 500 + body[i]],
     storage |-> storage, nonces |-> nonces, deployed |-> deployed, replaced |-> replaced,
     declared |-> declared, deprecated |-> deprecated, classes |-> {}]

MCChain ==
    0 :> Block(0, <<>>, Empty, Empty, Empty, Empty, {}, {})
    @@ 1 :> Block(1, <<11>>, <<1, 1>> :> 5, Empty, 1 :> 41, Empty, {41}, {})
    @@ 2 :> Block(2, <<21, 22>>, <<1, 1>> :> 6, 1 :> 1, Empty, Empty, {42}, {43})
    @@ 3 :> Block(3, <<>>, <<1, 1>> :> 0 @@ <<2, 1>> :> 8, Empty, 2 :> 42, Empty, {}, {})
    @@ 4 :> Block(4, <<31>>, <<2, 1>> :> 9, 1 :> 2, Empty, 2 :> 41, {}, {})
=============================================================================

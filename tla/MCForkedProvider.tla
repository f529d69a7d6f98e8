-------------------------- MODULE MCForkedProvider -------------------------
(***************************************************************************)
(* Instance of ForkedProvider: a contract "a" of the forked network with a *)
(* nonce, a contract "b" that only exists locally, a class of the forked   *)
(* network and one that is declared locally; local blocks that set nonces  *)
(* and storage, deploy, declare, and replace the class of "a".             *)
(***************************************************************************)
EXTENDS ForkedProvider, TLC

MCRemote ==
    [nonce |-> "a" :> 3, class_hash |-> "a" :> 1, storage |-> "a" :> 5, compiled |-> 1 :> 2]

MCReads ==
    {[kind |-> "nonce", id |-> "a"], [kind |-> "class_hash", id |-> "a"],
     [kind |-> "storage", id |-> "b"], [kind |-> "class", id |-> 3], [kind |-> "compiled", id |-> 1]}

NoUpdates ==
    [nonce_updates |-> Empty, deployed_contracts |-> Empty, storage_updates |-> Empty,
     declared_classes |-> Empty]

Transfers == [NoUpdates EXCEPT !.nonce_updates = "a" :> 4, !.storage_updates = "b" :> 7]
Deploys ==
    [NoUpdates EXCEPT !.deployed_contracts = "b" :> 1, !.storage_updates = "b" :> 0,
                      !.declared_classes = 3 :> 4]
Replaces == [NoUpdates EXCEPT !.deployed_contracts = "a" :> 3]

MCHistories == {<<Deploys, Replaces, Transfers>>, <<Deploys, Transfers, Replaces>>}
=============================================================================

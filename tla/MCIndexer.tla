----------------------------- MODULE MCIndexer ------------------------------
(***************************************************************************)
(* Instance of Indexer: a world, whose events are parallel tasks, and a    *)
(* token, whose transfers are processed in turn; transactions with an      *)
(* event of the world only, and with one between two transfers.            *)
(***************************************************************************)
EXTENDS Indexer

MCShapes == {<<"world">>, <<"token", "world", "token">>}

Config(node, pendingBlocks, transactions, page, relay) ==
    [node |-> node, pendingBlocks |-> pendingBlocks, transactions |-> transactions,
     page |-> page, relay |-> relay]

MCConfigs ==
    {Config("other", FALSE, FALSE, 10, FALSE), Config("other", TRUE, FALSE, 10, FALSE),
     Config("other", TRUE, TRUE, 1, FALSE), Config("other", FALSE, TRUE, 10, TRUE),
     Config("interval", TRUE, FALSE, 2, FALSE), Config("instant", TRUE, FALSE, 1, FALSE)}

MCSmallPages == {Config("other", FALSE, FALSE, 1, FALSE)}
=============================================================================

----------------------------- MODULE EventQuery -----------------------------
(***************************************************************************)
(* starknet_getEvents of katana: the events of one contract over a range   *)
(* of mined blocks and, when the range has no upper end, of the pending    *)
(* block, page by page.  The continuation token of a page is a cursor      *)
(* (block, transaction, event), and the chain may grow between two pages.  *)
(* The node is not forked, and there is no filter on keys.                 *)
(*                                                                         *)
(* A transaction is [hash, events]: its events are the contracts that      *)
(* emit them, in order.  Block n is chain[n + 1].  A transaction of the    *)
(* pending block also says whether it succeeded: a failed one has no       *)
(* receipt and is not mined.                                               *)
(***************************************************************************)
EXTENDS Integers, Sequences, SequencesExt

VARIABLES
    chain,    \* the mined blocks
    pending   \* the transactions of the pending block

chainVars == <<chain, pending>>

Latest == Len(chain) - 1
Block(n) == chain[n + 1]

NoBlock == -1    \* block_number of an event of the pending block
None == {}       \* Option::None; Some(x) is {x}
Value(option) == CHOOSE x \in option : TRUE

Smaller(a, b) == IF a < b THEN a ELSE b

(* The elements of s that are in S, in their order. *)
Among(s, S) ==
    LET upTo[n \in 0..Len(s)] ==
            IF n = 0 THEN <<>>
            ELSE IF s[n] \in S THEN Append(upTo[n - 1], s[n]) ELSE upTo[n - 1]
    IN  upTo[Len(s)]

Where(s, Test(_)) == Among(s, {x \in ToSet(s) : Test(x)})

(* What op makes of base and the elements of seq, from the first to the    *)
(* last.  The set has one member: it binds the accumulator to its value.   *)
Fold(op(_, _), base, seq) ==
    LET upTo[n \in 0..Len(seq)] ==
            IF n = 0 THEN {base} ELSE {op(acc, seq[n]) : acc \in upTo[n - 1]}
    IN  Value(upTo[Len(seq)])

-----------------------------------------------------------------------------
(* FilteredEvents, one transaction *)

(* The events of tx that contract emits, as they are returned. *)
Filtered(tx, block, contract) ==
    LET all == [i \in DOMAIN tx.events |->
                    [block |-> block, tx |-> tx.hash, at |-> i, from |-> tx.events[i]]]
    IN  Where(all, LAMBDA e : e.from = contract)

(* What is added to the buffer, from the event next of those that match,   *)
(* and the event to go on from: of the matching ones too, but compared     *)
(* with the number of all the events of the transaction.                   *)
FetchTxEvents(next, block, tx, contract, chunk, buffer) ==
    LET room == IF Len(buffer) < chunk THEN chunk - Len(buffer) ELSE 0
        matching == Filtered(tx, block, contract)
        taken == SubSeq(matching, next + 1, Smaller(next + room, Len(matching)))
        goOn == next + (IF taken = <<>> THEN room ELSE Len(taken) - 1)
                     + (IF room = 0 THEN 0 ELSE 1)
        full == Len(buffer \o taken) >= chunk
    IN  [buffer |-> buffer \o taken,
         event |-> IF full /\ goOn < Len(tx.events) THEN {goOn} ELSE None]

-----------------------------------------------------------------------------
(* fetch_events_at_blocks and fetch_pending_events *)

(* The transactions of the pending block that succeeded. *)
Receipts(block) == Where(block, LAMBDA tx : tx.ok)

Cursor(block, idx, event) == [block |-> block, idx |-> idx, event |-> event]

(* Plausible bug: the transaction the cursor is in is skipped. *)
PositionsNextTx(cursor, to) ==
    FlattenSeq([k \in 1..(to - cursor.block + 1) |->
        LET n == cursor.block + k - 1
            skip == IF n = cursor.block THEN cursor.idx + 1 ELSE 0
        IN  [j \in 1..(IF skip < Len(Block(n)) THEN Len(Block(n)) - skip ELSE 0) |-> <<n, skip + j - 1>>]])

(* The transactions <<block, index>> of the range, from the cursor on. *)
Positions(cursor, to) ==
    FlattenSeq([k \in 1..(to - cursor.block + 1) |->
        LET n == cursor.block + k - 1
            skip == IF n = cursor.block THEN cursor.idx ELSE 0
        IN  [j \in 1..(IF skip < Len(Block(n)) THEN Len(Block(n)) - skip ELSE 0) |-> <<n, skip + j - 1>>]])

(* The transaction at <<block, index>> is added to the page, unless it is  *)
(* full or the cursor is at the end of the transaction.                    *)
FetchAt(contract, chunk, cursor, acc, at) ==
    LET tx == Block(at[1])[at[2] + 1]
        pointed == at[1] = cursor.block /\ at[2] = cursor.idx
        next == IF pointed THEN cursor.event ELSE 0
        fetched == FetchTxEvents(next, at[1], tx, contract, chunk, acc.buffer)
    IN  CASE acc.cursor # None -> acc
          [] acc.cursor = None /\ pointed /\ cursor.event >= Len(tx.events) -> acc
          [] OTHER -> [buffer |-> fetched.buffer,
                       cursor |-> {Cursor(at[1], at[2], e) : e \in fetched.event}]

FetchEventsAtBlocks(contract, chunk, cursor, to) ==
    Fold(LAMBDA acc, at : FetchAt(contract, chunk, cursor, acc, at),
         [buffer |-> <<>>, cursor |-> None], Positions(cursor, to))

(* The same for transaction at of the pending block. *)
FetchPendingAt(contract, chunk, cursor, acc, at) ==
    LET tx == Receipts(pending)[at + 1]
        next == IF at = cursor.idx THEN cursor.event ELSE 0
        fetched == FetchTxEvents(next, NoBlock, tx, contract, chunk, acc.buffer)
    IN  CASE acc.cursor # None -> acc
          [] acc.cursor = None /\ at = cursor.idx /\ Len(tx.events) < cursor.event -> acc
          [] OTHER -> [buffer |-> fetched.buffer,
                       cursor |-> {Cursor(Latest + 1, at, e) : e \in fetched.event}]

(* The pending block, from the transaction the cursor points at: the index *)
(* counts the transactions with a receipt, and the cursor of a block that  *)
(* is read to its end counts the others too.                               *)
FetchPendingEvents(contract, chunk, cursor, buffer) ==
    LET from == Smaller(cursor.idx, Len(Receipts(pending)))
        all == Fold(LAMBDA acc, at : FetchPendingAt(contract, chunk, cursor, acc, at),
                    [buffer |-> buffer, cursor |-> None],
                    [k \in 1..(Len(Receipts(pending)) - from) |-> from + k - 1])
    IN  [buffer |-> all.buffer,
         cursor |-> IF all.cursor # None THEN all.cursor
                    ELSE {Cursor(Latest + 1, Len(pending), 0)}]

-----------------------------------------------------------------------------
(* events_inner *)

FirstBlock(from, token) == IF token = None THEN Cursor(from, 0, 0) ELSE Value(token)

(* A range that ends with a block. *)
EventsUpTo(from, to, contract, chunk, token) ==
    FetchEventsAtBlocks(contract, chunk, FirstBlock(from, token), to)

(* A range that ends with the pending block, which a node that mines       *)
(* instantly does not have.  There always is a token to go on with.        *)
EventsUpToPending(from, contract, chunk, token, hasPending) ==
    LET mined == EventsUpTo(from, Latest, contract, chunk, token)
        cursor == IF token = None THEN Cursor(Latest + 1, 0, 0) ELSE Value(token)
    IN  CASE mined.cursor # None -> mined
          [] mined.cursor = None /\ hasPending ->
                 FetchPendingEvents(contract, chunk, cursor, mined.buffer)
          [] OTHER -> [buffer |-> mined.buffer, cursor |-> {Cursor(Latest + 1, 0, 0)}]

-----------------------------------------------------------------------------
(* What the pages of a range must add up to *)

(* All the events of contract in the blocks from..to. *)
MinedEvents(from, to, contract) ==
    FlattenSeq([k \in 1..(to - from + 1) |->
        FlattenSeq([j \in DOMAIN Block(from + k - 1) |->
            Filtered(Block(from + k - 1)[j], from + k - 1, contract)])])

(* What a reader gets that follows the tokens for at most n pages. *)
ReadPages(from, to, contract, chunk, n) ==
    LET Read(acc, k) ==
            IF acc.token = None THEN acc
            ELSE LET page == EventsUpTo(from, to, contract, chunk, acc.token)
                 IN  [events |-> acc.events \o page.buffer, token |-> page.cursor]
    IN  Fold(Read, [events |-> <<>>, token |-> {FirstBlock(from, None)}], [k \in 1..n |-> k])
=============================================================================

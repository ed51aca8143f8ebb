--------------------------- MODULE IndexerService ---------------------------
(***************************************************************************)
(* The EVM transaction indexer service of the JSON-RPC server              *)
(* (src/server/indexer_service.go, EVMIndexerService.OnStart).             *)
(*                                                                         *)
(* Two goroutines share the local variable latestBlock and the channel     *)
(* newBlockSignal (capacity 1):                                            *)
(*   - the header goroutine reads NewBlockHeader events, raises            *)
(*     latestBlock and does a non-blocking send on newBlockSignal;         *)
(*   - the main loop indexes heights lastIndexedBlock+1 .. latestBlock one *)
(*     by one, and when caught up marks the indexer ready and waits for a  *)
(*     signal or a 60 s timeout.                                           *)
(* Before readiness a height whose block or block results cannot be       *)
(* fetched is retried and given up after more than                         *)
(* startupIndexBlockFailureThreshold failures; after readiness it is       *)
(* retried forever.  IndexBlock errors are logged and the height passed.   *)
(*                                                                         *)
(* The environment: the chain produces blocks, the indexer db flushes what *)
(* IndexBlock wrote (EVMTxIndexer: "no guarantee data is flushed ... after *)
(* this function returns"), and the node process may crash and restart,    *)
(* losing unflushed writes and all in-memory state.                        *)
(***************************************************************************)
EXTENDS Integers, Sequences, FiniteSets

CONSTANTS
    MaxHeight,          \* the chain grows up to this height (bound)
    InitHeight,         \* chain height when the process first starts
    EarliestHeight,     \* status.SyncInfo.EarliestBlockHeight (pruning point)
    FailureThreshold,   \* startupIndexBlockFailureThreshold (10 in the code)
    MaxRestarts         \* bound on process crash/restarts

ASSUME /\ MaxHeight \in Nat \ {0}
       /\ InitHeight \in 1..MaxHeight
       /\ EarliestHeight \in 1..InitHeight
       /\ FailureThreshold \in Nat
       /\ MaxRestarts \in Nat

Heights == 1..MaxHeight
NoHeight == -1          \* LastIndexedBlock() of an empty db

VARIABLES
    chainHeight,   \* height of the latest committed block of the node
    headers,       \* NewBlockHeader events not yet taken by the goroutine
    subscribed,    \* the Subscribe call has been made in this incarnation
    latestBlock,   \* OnStart's latestBlock, shared by both goroutines
    signal,        \* number of items in newBlockSignal (capacity 1)
    pc,            \* where the main goroutine of OnStart is
    lastIndexed,   \* OnStart's lastIndexedBlock
    height,        \* the loop variable i of the inner for loop
    ready,         \* isIndexerMarkedReady (and the indexer's IsReady)
    tracker,       \* startupIndexBlockFailureTracker, 0 = no entry
    db,            \* heights whose IndexBlock writes are flushed
    unflushed,     \* heights written by IndexBlock but not yet flushed
    restarts,      \* number of crash/restarts so far
    \* history variables, used only by the properties
    startCursor,   \* lastIndexedBlock as chosen when the loop is entered
    dbLastAtLoad,  \* what LastIndexedBlock() returned in this incarnation
    failures,      \* fetch failures per height, capped at FailureThreshold+1
    skipped,       \* heights given up by the failure tracker, this incarnation
    indexFailed,   \* heights whose IndexBlock returned an error
    readyAt        \* lastIndexedBlock when Ready() was called, or NoHeight

vars == <<chainHeight, headers, subscribed, latestBlock, signal, pc,
          lastIndexed, height, ready, tracker, db, unflushed, restarts,
          startCursor, dbLastAtLoad, failures, skipped, indexFailed, readyAt>>

PCs == {"status", "subscribe", "load", "loop", "caughtUp", "wait", "fetch",
        "stopped"}

\* EVMTxIndexer.LastIndexedBlock: the highest flushed height, -1 if none.
LastIndexedBlock ==
    IF db = {} THEN NoHeight ELSE CHOOSE h \in db : \A g \in db : g <= h

-----------------------------------------------------------------------------
(* Mutants of markFailedToIndexBlock, for the mutation runs: the         *)
(* threshold compared with >= instead of >, and the count incremented on  *)
(* a copy (cnt++) without being stored back into the map.                 *)
markFailedSkipAtThreshold(trk, h) ==
    IF trk[h] > 0
    THEN [tracker |-> [trk EXCEPT ![h] = trk[h] + 1],
          skip    |-> trk[h] + 1 >= FailureThreshold]
    ELSE [tracker |-> [trk EXCEPT ![h] = 1], skip |-> FALSE]

markFailedCountNotStored(trk, h) ==
    IF trk[h] > 0
    THEN [tracker |-> trk, skip |-> trk[h] + 1 > FailureThreshold]
    ELSE [tracker |-> [trk EXCEPT ![h] = 1], skip |-> FALSE]

\* Mutant: a failure is counted but the height is never skipped.
markFailedNeverSkips(trk, h) ==
    IF trk[h] > 0
    THEN [tracker |-> [trk EXCEPT ![h] = trk[h] + 1], skip |-> FALSE]
    ELSE [tracker |-> [trk EXCEPT ![h] = 1], skip |-> FALSE]

(* markFailedToIndexBlock: count a failure of height h; the result says    *)
(* whether the height is to be skipped.                                    *)
markFailedToIndexBlock(trk, h) ==
    IF trk[h] > 0
    THEN [tracker |-> [trk EXCEPT ![h] = trk[h] + 1],
          skip    |-> trk[h] + 1 > FailureThreshold]
    ELSE [tracker |-> [trk EXCEPT ![h] = 1], skip |-> FALSE]

\* The start position of the loop, chosen from LastIndexedBlock().
StartPosition(dbLast, latest) ==
    IF dbLast = NoHeight THEN latest
    ELSE IF dbLast < EarliestHeight THEN EarliestHeight
    ELSE dbLast

-----------------------------------------------------------------------------
(* Environment *)

\* The node commits a new block; a subscribed client is sent its header.
NewBlock ==
    /\ chainHeight < MaxHeight
    /\ chainHeight' = chainHeight + 1
    /\ headers' = IF subscribed THEN Append(headers, chainHeight + 1)
                                ELSE headers
    /\ UNCHANGED <<subscribed, latestBlock, signal, pc, lastIndexed, height,
                   ready, tracker, db, unflushed, restarts, startCursor,
                   dbLastAtLoad, failures, skipped, indexFailed, readyAt>>

\* The indexer db makes the writes of past IndexBlock calls durable.
Flush ==
    /\ unflushed # {}
    /\ db' = db \cup unflushed
    /\ unflushed' = {}
    /\ UNCHANGED <<chainHeight, headers, subscribed, latestBlock, signal, pc,
                   lastIndexed, height, ready, tracker, restarts, startCursor,
                   dbLastAtLoad, failures, skipped, indexFailed, readyAt>>

\* The node process crashes and is restarted: OnStart runs again from the
\* top; goroutine, channel, tracker and unflushed writes are gone.
Restart ==
    /\ restarts < MaxRestarts
    /\ restarts' = restarts + 1
    /\ pc' = "status"
    /\ headers' = <<>>
    /\ subscribed' = FALSE
    /\ latestBlock' = 0
    /\ signal' = 0
    /\ lastIndexed' = NoHeight
    /\ height' = 0
    /\ ready' = FALSE
    /\ tracker' = [h \in Heights |-> 0]
    /\ unflushed' = {}
    /\ startCursor' = NoHeight
    /\ dbLastAtLoad' = NoHeight
    /\ skipped' = {}
    /\ readyAt' = NoHeight
    /\ UNCHANGED <<chainHeight, db, failures, indexFailed>>

-----------------------------------------------------------------------------
(* OnStart, up to the main loop.  Each RPC may fail; OnStart then returns  *)
(* the error and the service is not running.                               *)

Status ==
    /\ pc = "status"
    /\ \/ /\ latestBlock' = chainHeight
          /\ pc' = "subscribe"
       \/ /\ pc' = "stopped"
          /\ UNCHANGED latestBlock
    /\ UNCHANGED <<chainHeight, headers, subscribed, signal, lastIndexed,
                   height, ready, tracker, db, unflushed, restarts,
                   startCursor, dbLastAtLoad, failures, skipped, indexFailed,
                   readyAt>>

\* Subscribe, and start the header goroutine.  Headers of blocks committed
\* between Status and Subscribe are never delivered.
Subscribe ==
    /\ pc = "subscribe"
    /\ \/ /\ subscribed' = TRUE
          /\ pc' = "load"
       \/ /\ pc' = "stopped"
          /\ UNCHANGED subscribed
    /\ UNCHANGED <<chainHeight, headers, latestBlock, signal, lastIndexed,
                   height, ready, tracker, db, unflushed, restarts,
                   startCursor, dbLastAtLoad, failures, skipped, indexFailed,
                   readyAt>>

\* LastIndexedBlock, and the choice of where to resume.  latestBlock is
\* read here while the header goroutine may already be writing it.
LoadLastIndexedBlock ==
    /\ pc = "load"
    /\ \/ LET start == StartPosition(LastIndexedBlock, latestBlock)
          IN /\ lastIndexed' = start
             /\ startCursor' = start
             /\ dbLastAtLoad' = LastIndexedBlock
             /\ pc' = "loop"
       \/ /\ pc' = "stopped"
          /\ UNCHANGED <<lastIndexed, startCursor, dbLastAtLoad>>
    /\ UNCHANGED <<chainHeight, headers, subscribed, latestBlock, signal,
                   height, ready, tracker, db, unflushed, restarts, failures,
                   skipped, indexFailed, readyAt>>

-----------------------------------------------------------------------------
(* The header goroutine *)

\* Mutant of ReceiveHeader, for the mutation runs: newBlockSignal made
\* unbuffered, so the non-blocking send only succeeds while the main loop
\* is blocked in its select.
ReceiveHeaderUnbuffered ==
    /\ headers # <<>>
    /\ headers' = Tail(headers)
    /\ IF Head(headers) > latestBlock
       THEN /\ latestBlock' = Head(headers)
            /\ signal' = IF pc = "wait" THEN 1 ELSE signal
       ELSE UNCHANGED <<latestBlock, signal>>
    /\ UNCHANGED <<chainHeight, subscribed, pc, lastIndexed, height, ready,
                   tracker, db, unflushed, restarts, startCursor,
                   dbLastAtLoad, failures, skipped, indexFailed, readyAt>>

\* One header: raise latestBlock and notify without blocking; a signal
\* already in the channel absorbs this one.
ReceiveHeader ==
    /\ headers # <<>>
    /\ headers' = Tail(headers)
    /\ IF Head(headers) > latestBlock
       THEN /\ latestBlock' = Head(headers)
            /\ signal' = 1
       ELSE UNCHANGED <<latestBlock, signal>>
    /\ UNCHANGED <<chainHeight, subscribed, pc, lastIndexed, height, ready,
                   tracker, db, unflushed, restarts, startCursor,
                   dbLastAtLoad, failures, skipped, indexFailed, readyAt>>

-----------------------------------------------------------------------------
(* The main loop *)

\* Top of the outer for loop: compare lastIndexedBlock with latestBlock (a
\* read of the shared variable).  Caught up: go to the ready marking and
\* the wait.  Otherwise start the inner loop at lastIndexedBlock + 1.
LoopCheck ==
    /\ pc = "loop"
    /\ IF lastIndexed >= latestBlock
       THEN /\ pc' = "caughtUp"
            /\ UNCHANGED height
       ELSE /\ pc' = "fetch"
            /\ height' = lastIndexed + 1
    /\ UNCHANGED <<chainHeight, headers, subscribed, latestBlock, signal,
                   lastIndexed, ready, tracker, db, unflushed, restarts,
                   startCursor, dbLastAtLoad, failures, skipped, indexFailed,
                   readyAt>>

\* Ready() once, logging the heights left in the tracker, then the select.
\* Between the check above and the select the goroutine may run.
MarkReady ==
    /\ pc = "caughtUp"
    /\ pc' = "wait"
    /\ ready' = TRUE
    /\ readyAt' = IF ready THEN readyAt ELSE lastIndexed
    /\ UNCHANGED <<chainHeight, headers, subscribed, latestBlock, signal,
                   lastIndexed, height, tracker, db, unflushed, restarts,
                   startCursor, dbLastAtLoad, failures, skipped, indexFailed>>

WaitSignal ==
    /\ pc = "wait"
    /\ signal = 1
    /\ signal' = 0
    /\ pc' = "loop"
    /\ UNCHANGED <<chainHeight, headers, subscribed, latestBlock, lastIndexed,
                   height, ready, tracker, db, unflushed, restarts,
                   startCursor, dbLastAtLoad, failures, skipped, indexFailed,
                   readyAt>>

WaitTimeout ==
    /\ pc = "wait"
    /\ pc' = "loop"
    /\ UNCHANGED <<chainHeight, headers, subscribed, latestBlock, signal,
                   lastIndexed, height, ready, tracker, db, unflushed,
                   restarts, startCursor, dbLastAtLoad, failures, skipped,
                   indexFailed, readyAt>>

\* Block or BlockResults fails for height i: a pruned height always fails,
\* any other may fail transiently.  Before readiness the failure is
\* counted and the height skipped past the threshold; then break.
FetchFailed ==
    /\ pc = "fetch"
    /\ LET marked == markFailedToIndexBlock(tracker, height)
           skip   == ~ready /\ marked.skip
       IN /\ tracker' = IF ready THEN tracker ELSE marked.tracker
          /\ lastIndexed' = IF skip THEN height ELSE lastIndexed
          /\ skipped' = IF skip THEN skipped \cup {height} ELSE skipped
    /\ failures' = [failures EXCEPT ![height] =
                        IF @ > FailureThreshold THEN @ ELSE @ + 1]
    /\ pc' = "loop"
    /\ UNCHANGED <<chainHeight, headers, subscribed, latestBlock, signal,
                   height, ready, db, unflushed, restarts, startCursor,
                   dbLastAtLoad, indexFailed, readyAt>>

\* After one step of the inner loop: go on while i <= latestBlock (read
\* again), else back to the outer loop.
NextHeight ==
    IF height + 1 <= latestBlock
    THEN pc' = "fetch" /\ height' = height + 1
    ELSE pc' = "loop" /\ UNCHANGED height

\* Mutant of IndexBlock, for the mutation runs: `lastIndexedBlock =
\* latestBlock` written for `lastIndexedBlock = i`.
IndexBlockToLatest ==
    /\ pc = "fetch"
    /\ height >= EarliestHeight
    /\ \/ /\ unflushed' = unflushed \cup {height}
          /\ tracker' = IF ready THEN tracker
                        ELSE [tracker EXCEPT ![height] = 0]
          /\ UNCHANGED indexFailed
       \/ /\ indexFailed' = indexFailed \cup {height}
          /\ UNCHANGED <<unflushed, tracker>>
    /\ lastIndexed' = latestBlock
    /\ NextHeight
    /\ UNCHANGED <<chainHeight, headers, subscribed, latestBlock, signal,
                   ready, db, restarts, startCursor, dbLastAtLoad, failures,
                   skipped, readyAt>>

\* Both fetches succeed and IndexBlock is called.  On success the height
\* leaves the tracker (before readiness); on error it is only logged.
\* Either way lastIndexedBlock = i.
IndexBlock ==
    /\ pc = "fetch"
    /\ height >= EarliestHeight
    /\ \/ /\ unflushed' = unflushed \cup {height}
          /\ tracker' = IF ready THEN tracker
                        ELSE [tracker EXCEPT ![height] = 0]
          /\ UNCHANGED indexFailed
       \/ /\ indexFailed' = indexFailed \cup {height}
          /\ UNCHANGED <<unflushed, tracker>>
    /\ lastIndexed' = height
    /\ NextHeight
    /\ UNCHANGED <<chainHeight, headers, subscribed, latestBlock, signal,
                   ready, db, restarts, startCursor, dbLastAtLoad, failures,
                   skipped, readyAt>>

\* OnStart has returned an error: the service stays down.
Stopped ==
    /\ pc = "stopped"
    /\ UNCHANGED vars

-----------------------------------------------------------------------------
\* Initially the process is starting and the db holds a prefix of the chain,
\* possibly empty, possibly from before the node was pruned.
Init ==
    /\ chainHeight = InitHeight
    /\ headers = <<>>
    /\ subscribed = FALSE
    /\ latestBlock = 0
    /\ signal = 0
    /\ pc = "status"
    /\ lastIndexed = NoHeight
    /\ height = 0
    /\ ready = FALSE
    /\ tracker = [h \in Heights |-> 0]
    /\ \E k \in 0..InitHeight : db = 1..k
    /\ unflushed = {}
    /\ restarts = 0
    /\ startCursor = NoHeight
    /\ dbLastAtLoad = NoHeight
    /\ failures = [h \in Heights |-> 0]
    /\ skipped = {}
    /\ indexFailed = {}
    /\ readyAt = NoHeight

Next ==
    \/ NewBlock \/ Flush \/ Restart
    \/ Status \/ Subscribe \/ LoadLastIndexedBlock
    \/ ReceiveHeader
    \/ LoopCheck \/ MarkReady \/ WaitSignal \/ WaitTimeout \/ FetchFailed \/ IndexBlock
    \/ Stopped

\* Goroutines are scheduled by the Go runtime, the chain keeps committing
\* blocks and the db keeps flushing.  Neither a retry of a failing RPC
\* succeeding nor the 60 s timeout is assumed here.
Fairness ==
    /\ WF_vars(NewBlock) /\ WF_vars(Flush)
    /\ WF_vars(Status) /\ WF_vars(Subscribe) /\ WF_vars(LoadLastIndexedBlock)
    /\ WF_vars(ReceiveHeader)
    /\ WF_vars(LoopCheck) /\ WF_vars(MarkReady) /\ WF_vars(WaitSignal)
    /\ WF_vars(FetchFailed \/ IndexBlock)

Spec == Init /\ [][Next]_vars /\ Fairness

-----------------------------------------------------------------------------
(* Properties *)

TypeOK ==
    /\ chainHeight \in Heights
    /\ headers \in Seq(Heights)
    /\ subscribed \in BOOLEAN
    /\ latestBlock \in 0..MaxHeight
    /\ signal \in 0..1
    /\ pc \in PCs
    /\ lastIndexed \in NoHeight..MaxHeight
    /\ height \in 0..MaxHeight
    /\ ready \in BOOLEAN
    /\ tracker \in [Heights -> 0..FailureThreshold + 1]
    /\ db \subseteq Heights /\ unflushed \subseteq Heights
    /\ restarts \in 0..MaxRestarts
    /\ failures \in [Heights -> 0..FailureThreshold + 1]
    /\ skipped \subseteq Heights /\ indexFailed \subseteq Heights

\* The startup failure tracker (markFailedToIndexBlock, used at the Block
\* and BlockResults error paths) gives a height up only while the indexer
\* is not yet ready, and only after that height failed more than
\* startupIndexBlockFailureThreshold times: a block committed after the
\* indexer declared itself ready is never silently left out.
GiveUpOnlyAtStartup ==
    \A h \in skipped :
        /\ failures[h] > FailureThreshold
        /\ readyAt = NoHeight \/ h <= readyAt

\* The failure tracker bounds startup: even if some heights can never be
\* fetched (no RPC retry is assumed to succeed), the last incarnation of
\* OnStart reaches Ready() and stays ready, unless OnStart failed.
EventuallyReady == <>[](ready \/ pc = "stopped")

\* No lost wake-up: every height the header goroutine has published in
\* latestBlock is passed by lastIndexedBlock, through the newBlockSignal
\* channel alone (the 60 s timeout is not assumed to fire), provided RPC
\* failures are transient.
CatchUp ==
    \A h \in Heights :
        (latestBlock >= h) ~> (lastIndexed >= h \/ pc = "stopped")

\* CatchUp for the behaviours in which RPC failures are transient: a height
\* that can be fetched again and again is, eventually (strong fairness of
\* IndexBlock, assumed by this property only).
CatchUpWhenFetchesSucceed == SF_vars(IndexBlock) => CatchUp

\* Resuming from a non-empty db (the LastIndexedBlock branch of OnStart),
\* the loop starts right after the last durable height, or at the first
\* height the node still has: no block that the node can serve and the db
\* lacks lies at or below the start position, where the loop never looks.
ResumeCoversAvailableBlocks ==
    dbLastAtLoad # NoHeight =>
        \A h \in Heights :
            ~(dbLastAtLoad < h /\ EarliestHeight <= h /\ h <= startCursor)

\* Every height the loop has moved lastIndexedBlock past in this
\* incarnation is written to the indexer db, unless the startup failure
\* tracker gave it up: eth_getTransactionByHash finds the transactions of
\* every block the indexer claims to have passed.
NoBlockPassedUnindexed ==
    \A h \in Heights :
        startCursor < h /\ h <= lastIndexed =>
            h \in db \cup unflushed \cup skipped

-----------------------------------------------------------------------------
(* Refinement: the service implements the cursor of IndexerCursor, with   *)
(* lastIndexedBlock as the cursor and the db's flushed and unflushed       *)
(* writes as the index.                                                    *)

Abstract == INSTANCE IndexerCursor WITH
    chain <- chainHeight,
    cursor <- lastIndexed,
    written <- db \cup unflushed,
    failed <- indexFailed

\* Through the data race on latestBlock, the lost signals, fetch failures,
\* the startup give-up and crashes, lastIndexedBlock never goes back within
\* a run, never resumes behind the durable index, advances one height at a
\* time and never past the node's chain, and after Ready every height it
\* passes is indexed or failed in IndexBlock.
IndexerRefinement == Abstract!Spec

=============================================================================

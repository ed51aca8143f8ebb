---------------------------- MODULE IndexerCursor ----------------------------
(***************************************************************************)
(* What the EVM indexer service promises, without goroutines, signals,    *)
(* fetch retries or the failure tracker: a cursor that, once a run has    *)
(* chosen where to resume, moves through the chain one height at a time  *)
(* and never past the node's latest block.  Each height it passes is      *)
(* written to the index, unless it was given up while the service was     *)
(* not yet ready, or IndexBlock failed on it.  A crash ends the run; the  *)
(* index may lose writes that were not yet durable.                       *)
(*                                                                         *)
(* IndexerService implements this specification under the mapping given  *)
(* there (IndexerRefinement).                                              *)
(***************************************************************************)
EXTENDS Integers

CONSTANTS MaxHeight, InitHeight

NoHeight == -1

VARIABLES
    chain,     \* the node's latest block height
    cursor,    \* the last height the service has passed, NoHeight between runs
    written,   \* heights whose transactions are in the index
    failed,    \* heights on which IndexBlock returned an error
    ready      \* the service has declared itself ready in this run

vars == <<chain, cursor, written, failed, ready>>

LastWritten == IF written = {} THEN NoHeight
               ELSE CHOOSE h \in written : \A g \in written : g <= h

Init ==
    /\ chain = InitHeight
    /\ cursor = NoHeight
    /\ \E k \in 0..InitHeight : written = 1..k
    /\ failed = {}
    /\ ready = FALSE

Grow ==
    /\ chain < MaxHeight
    /\ chain' = chain + 1
    /\ UNCHANGED <<cursor, written, failed, ready>>

\* A run starts: it resumes no earlier than the last written height and no
\* later than the chain.
Resume ==
    /\ cursor = NoHeight
    /\ cursor' \in {h \in 0..chain : h >= LastWritten}
    /\ UNCHANGED <<chain, written, failed, ready>>

\* The next height is written to the index.
Record ==
    /\ cursor # NoHeight /\ cursor < chain
    /\ cursor' = cursor + 1
    /\ written' = written \cup {cursor + 1}
    /\ UNCHANGED <<chain, failed, ready>>

\* The next height is passed without being written: given up before the
\* service is ready, or IndexBlock failed on it.
Pass ==
    /\ cursor # NoHeight /\ cursor < chain
    /\ cursor' = cursor + 1
    /\ \E f \in BOOLEAN :
          /\ ~ready \/ f
          /\ failed' = IF f THEN failed \cup {cursor + 1} ELSE failed
    /\ UNCHANGED <<chain, written, ready>>

MarkReady ==
    /\ cursor # NoHeight
    /\ ~ready
    /\ ready' = TRUE
    /\ UNCHANGED <<chain, cursor, written, failed>>

\* The process crashes: the run ends and some writes may be lost.
Crash ==
    /\ cursor' = NoHeight
    /\ ready' = FALSE
    /\ written' \in SUBSET written
    /\ UNCHANGED <<chain, failed>>

Next == Grow \/ Resume \/ Record \/ Pass \/ MarkReady \/ Crash

Spec == Init /\ [][Next]_vars

=============================================================================

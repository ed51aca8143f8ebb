------------------------------ MODULE InspectCmd ------------------------------
(***************************************************************************)
(* `kairosd inspect block [latest | <height>]` and `kairosd inspect        *)
(* latest-block-number` (src/cmd/kairosd/inspect), run against the node's  *)
(* block store while the node starts, commits, prunes and stops.           *)
(*                                                                         *)
(* The block store is its base and height (cometbft's BlockStoreState):    *)
(* 0 and 0 while empty, the first block sets the base, pruning raises it.  *)
(* The database is locked while the node runs, so opening it from the      *)
(* command fails then.  A command is one step: it holds the lock from the  *)
(* open to its exit, so the node cannot change the store under it.         *)
(* An argument is abstracted to what the switch and strconv.ParseInt make *)
(* of its trimmed, lower-cased text: one of the six "latest" words, a      *)
(* decimal integer that is not one of them ("00", "-01", "7", "-2"), or a  *)
(* text ParseInt rejects.                                                  *)
(***************************************************************************)
EXTENDS Integers

CONSTANTS
    MaxHeight,   \* blocks the node commits
    Args         \* arguments of `inspect block`

Null == [height |-> 0]   \* a nil block or meta, printed as "null"
Latest == [text |-> "latest"]     \* "latest", "last", "0", "newest", "-1", ""
Num(n) == [text |-> "num", n |-> n]
Bad == [text |-> "bad"]
NoOutput == [cmd |-> "none"]

VARIABLES
    running,   \* the node process holds the block store
    base,      \* blockStoreState.Base
    height,    \* blockStoreState.Height
    cmd,       \* the last command run and its argument
    out,       \* what it printed
    status     \* how it ended: "ok", or the message it panicked with

vars == <<running, base, height, cmd, out, status>>

(* Mutant of Load, for the mutation runs: a block store that still      *)
(* returns the blocks below its base.                                      *)
LoadIgnoringBase(h) == IF 1 <= h /\ h <= height THEN [height |-> h] ELSE Null

\* BlockStore.LoadBlock and LoadBaseMeta: nil for a height not stored.
Load(h) == IF base >= 1 /\ base <= h /\ h <= height THEN [height |-> h] ELSE Null

Panic(msg) == out' = NoOutput /\ status' = msg

-----------------------------------------------------------------------------
(* The node (cometbft), the environment of the commands. *)

StartNode == ~running /\ running' = TRUE /\ UNCHANGED <<base, height, cmd, out, status>>
StopNode == running /\ running' = FALSE /\ UNCHANGED <<base, height, cmd, out, status>>

\* SaveBlock: the first block saved becomes the base.
Commit ==
    /\ running /\ height < MaxHeight
    /\ height' = height + 1
    /\ base' = IF base = 0 THEN height + 1 ELSE base
    /\ UNCHANGED <<running, cmd, out, status>>

\* PruneBlocks(retainHeight): blocks below the retain height are deleted.
Prune ==
    /\ running
    /\ \E retain \in base + 1 .. height : base' = retain
    /\ UNCHANGED <<running, height, cmd, out, status>>

-----------------------------------------------------------------------------
(* The commands. *)

\* Lines 22-40: the requested height, 0 standing for the latest, or the
\* panic for a text ParseInt rejects or a negative number.
RequestedHeight(arg) ==
    CASE arg = Latest   -> [err |-> "none", h |-> 0]
      [] arg = Bad      -> [err |-> "bad block height", h |-> 0]
      [] arg.n < 0      -> [err |-> "invalid block height", h |-> 0]
      [] OTHER          -> [err |-> "none", h |-> arg.n]

(* Mutant of ResolveHeight, for the mutation runs: a request above the    *)
(* latest height is not refused.                                           *)
ResolveHeightUnchecked(req) ==
    [err |-> "none", h |-> IF req = 0 THEN height ELSE req]

\* Lines 54-60: 0 becomes the latest height; a higher request panics.
ResolveHeight(req) ==
    CASE req = 0      -> [err |-> "none", h |-> height]
      [] req > height -> [err |-> "requested height is greater than latest height", h |-> req]
      [] OTHER        -> [err |-> "none", h |-> req]

\* BlockCmd's Run: parse, open the store, resolve the height, print the
\* header lines, the block and the base's meta.
BlockCmd(arg) ==
    LET r == RequestedHeight(arg)
        s == ResolveHeight(r.h)
    IN CASE r.err # "none" -> Panic(r.err)
         [] running        -> Panic("error while opening db")
         [] s.err # "none" -> Panic(s.err)
         [] OTHER ->
              /\ out' = [cmd |-> "block", latest |-> height,
                         requestedLatest |-> s.h = height,
                         requested |-> s.h, block |-> Load(s.h), meta |-> Load(base)]
              /\ status' = "ok"

\* LatestBlockNumberCmd's Run.
LatestBlockNumberCmd ==
    IF running THEN Panic("error while opening db")
    ELSE out' = [cmd |-> "latest-block-number", latest |-> height] /\ status' = "ok"

RunBlock ==
    \E arg \in Args :
        /\ cmd' = [name |-> "block", arg |-> arg]
        /\ BlockCmd(arg)
        /\ UNCHANGED <<running, base, height>>

RunLatestBlockNumber ==
    /\ cmd' = [name |-> "latest-block-number"]
    /\ LatestBlockNumberCmd
    /\ UNCHANGED <<running, base, height>>

Init ==
    /\ running = FALSE
    /\ base = 0 /\ height = 0
    /\ cmd = [name |-> "none"]
    /\ out = NoOutput
    /\ status = "ok"

Next ==
    \/ StartNode \/ StopNode \/ Commit \/ Prune
    \/ RunBlock \/ RunLatestBlockNumber

Spec == Init /\ [][Next]_vars

-----------------------------------------------------------------------------
TypeOK ==
    /\ running \in BOOLEAN
    /\ base \in 0..MaxHeight /\ height \in 0..MaxHeight
    /\ (base = 0) = (height = 0) /\ base <= height
    /\ status \in STRING

\* The requests inspect block can serve: a latest word or a height from 0 to
\* the latest stored one, while the node does not hold the store.
ServableRequest(a) ==
    /\ ~running
    /\ \/ a = Latest
       \/ a # Bad /\ a.n \in 0..height

=============================================================================

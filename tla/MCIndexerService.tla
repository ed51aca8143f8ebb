------------------------- MODULE MCIndexerService -------------------------
(***************************************************************************)
(* Model-checking instance of IndexerService.  The chain starts at height *)
(* 2 with blocks below 2 pruned, so the db may be empty, end below the     *)
(* pruning point, or reach the chain head; it then grows to height 4,     *)
(* which leaves room for a block to fail more than the threshold after    *)
(* the indexer became ready.  The code's threshold of 10 failures is      *)
(* scaled down to 2, the least at which skipping at the threshold-th      *)
(* failure differs from skipping at the one after it.                     *)
(***************************************************************************)
EXTENDS IndexerService

MCMaxHeight == 4
MCInitHeight == 2
MCEarliestHeight == 2
MCFailureThreshold == 2
MCMaxRestarts == 1

=============================================================================

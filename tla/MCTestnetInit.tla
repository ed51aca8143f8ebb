------------------------------ MODULE MCTestnetInit ------------------------------
(***************************************************************************)
(* Two validators, so that the normal accounts are imported twice and a   *)
(* rerun can use a smaller --v than the run before it; two normal         *)
(* accounts, so that the map has an order to visit; one failed call       *)
(* anywhere, and two runs into the same output directory, each with      *)
(* either of two node directory prefixes.                                *)
(***************************************************************************)
EXTENDS TestnetInit

MCNumValidators == 2
MCNumNormalAccounts == 2
MCMaxFailures == 1
MCMaxRuns == 2
MCNodeDirPrefixes == {"node", "n"}

=============================================================================

----------------------- MODULE MCGasAdjustmentFlags -----------------------
(***************************************************************************)
(* Every tree of three commands (a chain root > a > b, or two children of *)
(* the root) with every content of their six flag sets: the SDK default   *)
(* 1.0 and 1.5, each parsable or not.                                    *)
(***************************************************************************)
EXTENDS GasAdjustmentFlags

MCNumCommands == 3
MCFlagValues == {100, 150}
MCMinimumValue == 120

=============================================================================

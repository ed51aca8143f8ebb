------------------------------ MODULE KairosdCli ------------------------------
(***************************************************************************)
(* The kairosd binary's own subcommands that this project models, side by *)
(* side as NewRootCmd adds them to the root command                       *)
(* (src/cmd/kairosd/root.go): convert-address and inspect {block,         *)
(* latest-block-number}.  Each invocation of the binary runs one of them; *)
(* they share no state, so a step of the binary is a step of one of them *)
(* with the other's variables unchanged.  The node's block store, which   *)
(* the inspect commands read, evolves between invocations.               *)
(***************************************************************************)

EXTENDS Naturals

CONSTANTS
    Payloads, Hrps, Bech32Prefix, NextArgs,   \* see ConvertAddress
    MaxHeight, Args                           \* see InspectCmd

VARIABLES
    src, arg, caOut, caStatus,                \* convert-address
    running, base, height, cmd, inspectOut, inspectStatus   \* inspect and the block store

caVars == <<src, arg, caOut, caStatus>>
inspectVars == <<running, base, height, cmd, inspectOut, inspectStatus>>
vars == <<caVars, inspectVars>>

CA == INSTANCE ConvertAddress WITH out <- caOut, status <- caStatus
Inspect == INSTANCE InspectCmd WITH out <- inspectOut, status <- inspectStatus

Init == CA!Init /\ Inspect!Init

\* rootCmd.AddCommand(commands...): one subcommand runs per step.
Next ==
    \/ CA!Next /\ UNCHANGED inspectVars
    \/ Inspect!Next /\ UNCHANGED caVars

Spec == Init /\ [][Next]_vars

-----------------------------------------------------------------------------
TypeOK == CA!TypeOK /\ Inspect!TypeOK

\* inspect block refuses exactly the requests it cannot serve: a text that
\* is not a height, a negative height other than the "-1" keyword, a height
\* above the latest stored one, or any request while the node holds the
\* store; every other request prints, whatever the node committed and
\* pruned before.  Checked on each step that runs the block command.
RefusesExactlyUnservable ==
    [][Inspect!RunBlock => (inspectStatus' = "ok" <=> Inspect!ServableRequest(cmd'.arg))]_vars

\* An inspect block that succeeds prints, under "--- Block ---", the block
\* of the requested height whenever the store still holds it, and null
\* exactly when that height was pruned or the store is empty, still
\* exiting 0; under "--- Meta ---" it prints the meta of the store's base,
\* null only for an empty store.
PrintsNullExactlyUnstored ==
    [][Inspect!RunBlock /\ inspectStatus' = "ok" =>
         /\ (inspectOut'.block = Inspect!Null <=> inspectOut'.requested < base \/ height = 0)
         /\ inspectOut'.block # Inspect!Null => inspectOut'.block.height = inspectOut'.requested
         /\ (inspectOut'.meta = Inspect!Null <=> height = 0)]_vars

=============================================================================

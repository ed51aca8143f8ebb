-------------------------- MODULE GasAdjustmentFlags --------------------------
(***************************************************************************)
(* Raising the default --gas-adjustment of every command                   *)
(* (src/cmd/kairosd/utils/flag_util.go), which NewRootCmd                  *)
(* (src/cmd/kairosd/root.go) calls on the finished command tree when the   *)
(* SDK default is below 1.2.  The walk visits the persistent and the local *)
(* flag set of a command, then recurses into each subcommand.  A flag      *)
(* whose value parses as a number below the minimum gets the minimum as    *)
(* value and default; others are left alone.                               *)
(*                                                                         *)
(* The command tree and its flags are the input, chosen in Init over every *)
(* tree of NumCommands commands rooted at 1 and every content of each      *)
(* flag set.  A flag set holds at most one flag; its value is a number in  *)
(* hundredths, and `parses` says whether ParseFloat accepts its text.      *)
(***************************************************************************)
EXTENDS Naturals, FiniteSets

CONSTANTS
    NumCommands,     \* commands in the tree, 1 is the root
    FlagValues,      \* values a flag may hold, in hundredths
    MinimumValue     \* minimumDefaultGasAdjustment, in hundredths

Commands == 1..NumCommands
FlagSets == {"persistent", "local"}
Slots == Commands \X FlagSets

GasAdjustment == "gas-adjustment"   \* flags.FlagGasAdjustment
NoFlag == [name |-> "none"]

\* The contents a flag set may have: no flag, or a named flag with a value.
Values == FlagValues \cup {MinimumValue}

FlagContents ==
    {NoFlag} \cup
    [name : {GasAdjustment, "other"}, value : Values, def : Values,
     parses : BOOLEAN]

\* A registered flag whose value is its default, as the help text shows it.
RegisteredFlags == {f \in FlagContents : f # NoFlag => f.def = f.value}

\* A flag as registered: its value is its default.
InitialFlags == {f \in RegisteredFlags : f # NoFlag => f.value \in FlagValues}

VARIABLES
    parent,     \* parent[c]: the command c was added to, for c > 1
    flags,      \* flags[<<c, set>>]: the flag in that set of command c
    initial,    \* the flags before the walk (history)
    done        \* UpdateRegisteredGasAdjustmentFlags has returned

vars == <<parent, flags, initial, done>>

Children(c) == {d \in Commands \ {1} : parent[d] = c}

(* Mutant of tryUpdateGasAdjustmentFlag, for the mutation runs: the value *)
(* is raised but flag.DefValue is not.                                     *)
tryUpdateValueOnly(flag) ==
    IF ~flag.parses THEN flag
    ELSE IF flag.value >= MinimumValue THEN flag
    ELSE [flag EXCEPT !.value = MinimumValue]

(* tryUpdateGasAdjustmentFlag, applied by flagModifier to a gas-adjustment *)
(* flag: a value that does not parse is ignored, one at or above the       *)
(* minimum is kept, one below becomes the minimum, default included.       *)
tryUpdateGasAdjustmentFlag(flag) ==
    IF ~flag.parses THEN flag
    ELSE IF flag.value >= MinimumValue THEN flag
    ELSE [flag EXCEPT !.value = MinimumValue, !.def = MinimumValue]

\* flagModifier: only a flag named gas-adjustment is touched.
flagModifier(flag) ==
    IF flag # NoFlag /\ flag.name = GasAdjustment
    THEN tryUpdateGasAdjustmentFlag(flag)
    ELSE flag

\* VisitAll over one flag set of command c.
VisitAll(fl, c, set) == [fl EXCEPT ![<<c, set>>] = flagModifier(@)]

RECURSIVE UpdateRegisteredGasAdjustmentFlags(_, _), WalkSubCommands(_, _)

(* Mutant of UpdateRegisteredGasAdjustmentFlags, for the mutation runs:   *)
(* the subcommands' flags are updated but their subcommands not visited.  *)
UpdateOneLevel(c, fl) ==
    LET own == VisitAll(VisitAll(fl, c, "persistent"), c, "local") IN
    [s \in Slots |->
        IF s[1] \in Children(c)
        THEN flagModifier(own[s]) ELSE own[s]]

\* The walk: this command's persistent flags, its local flags, then each
\* subcommand in turn.
UpdateRegisteredGasAdjustmentFlags(c, fl) ==
    WalkSubCommands(Children(c),
                    VisitAll(VisitAll(fl, c, "persistent"), c, "local"))

WalkSubCommands(cs, fl) ==
    IF cs = {} THEN fl
    ELSE LET c == CHOOSE d \in cs : \A e \in cs : d <= e
         IN WalkSubCommands(cs \ {c}, UpdateRegisteredGasAdjustmentFlags(c, fl))

-----------------------------------------------------------------------------
Init ==
    /\ parent \in {p \in [Commands \ {1} -> Commands] : \A c \in DOMAIN p : p[c] < c}
    /\ flags \in [Slots -> InitialFlags]
    /\ initial = flags
    /\ done = FALSE

\* NewRootCmd, once the tree is built: flags.DefaultGasAdjustment is below
\* the minimum, so the walk runs from the root.
NewRootCmd ==
    /\ ~done
    /\ flags' = UpdateRegisteredGasAdjustmentFlags(1, flags)
    /\ done' = TRUE
    /\ UNCHANGED <<parent, initial>>

Finished == done /\ UNCHANGED vars

Next == NewRootCmd \/ Finished

Spec == Init /\ [][Next]_vars

-----------------------------------------------------------------------------
TypeOK ==
    /\ parent \in [Commands \ {1} -> Commands]
    /\ flags \in [Slots -> RegisteredFlags]
    /\ initial \in [Slots -> FlagContents]
    /\ done \in BOOLEAN

\* Reference: after the walk, a gas-adjustment flag of any command of the
\* tree, at any depth and in either flag set, whose value parsed below the
\* minimum holds the minimum as value and default; every other flag, an
\* unparsable one included, is as it was.
RaisedExpected(flag) ==
    IF flag # NoFlag /\ flag.name = GasAdjustment
       /\ flag.parses /\ flag.value < MinimumValue
    THEN [flag EXCEPT !.value = MinimumValue, !.def = MinimumValue]
    ELSE flag

EveryGasAdjustmentRaised ==
    done => \A s \in Slots : flags[s] = RaisedExpected(initial[s])

=============================================================================

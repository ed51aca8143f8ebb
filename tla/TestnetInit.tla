----------------------------- MODULE TestnetInit -----------------------------
(***************************************************************************)
(* `testnet init-files` (src/client/testnet.go): initTestnetFiles walks    *)
(* the validators one at a time (node directory, node key, keyring,        *)
(* validator key, the normal test accounts, key seed file, gentx,          *)
(* configs), then funds the normal accounts once each from the map it      *)
(* collected them in, writes one genesis file per node (initGenFiles) and  *)
(* rewrites each with the canonical app state and time (collectGenFiles).  *)
(*                                                                         *)
(* Every call that can fail is a step that either succeeds or, while       *)
(* fewer than MaxFailures calls have failed, fails.  A failure returns the *)
(* error, and removes the output directory exactly where the code calls    *)
(* os.RemoveAll.  Addresses are tuples; the import of a normal account     *)
(* that fails yields a nil address, whose String() is "" (NilAddr).       *)
(*                                                                         *)
(* After a run returns, the command may be run again, up to MaxRuns runs,  *)
(* with any --v and --node-dir-prefix, into the same --output-dir: the    *)
(* node directories, the gentx files <prefix><i>.json and the genesis     *)
(* files a run leaves on disk are there for the next.  The validator keys *)
(* come from the fixed validatorMnemonics, so node i has the same address *)
(* in every run, whatever its prefix.                                     *)
(*                                                                         *)
(* genutil.CollectTxs turns every genesis balance into an address with    *)
(* GetAddress (MustAccAddressFromBech32), which panics on "": the process *)
(* ends with result "panic" instead of returning.                          *)
(***************************************************************************)
EXTENDS Naturals, Sequences, SequencesExt

CONSTANTS
    NumValidators,     \* the largest --v
    NumNormalAccounts, \* len(normalAccountMnemonics)
    MaxFailures,       \* calls that may fail, over all runs
    MaxRuns,           \* invocations of init-files into the output dir
    NodeDirPrefixes           \* values of --node-dir-prefix

Nodes == 0..NumValidators - 1
ValAddr(v) == <<"val", v>>
NormalAddr(a) == <<"acct", a>>
NilAddr == <<"nil", 0>>
Addresses == {ValAddr(v) : v \in Nodes} \cup
             {NormalAddr(a) : a \in 1..NumNormalAccounts} \cup {NilAddr}

\* The steps of one loop iteration, in code order, then the steps after it.
LoopSteps == <<"mkdir", "nodeFiles", "keyring", "valKey", "normalKeys",
               "gentx", "config">>
Steps == ToSet(LoopSteps) \cup
         {"normalBalances", "initGenFiles", "collectGenFiles", "done"}

NoGenesis == [phase |-> "none", balances |-> <<>>]

VARIABLES
    v,             \* --v of the current run
    prefix,        \* --node-dir-prefix of the current run
    runs,          \* runs started so far
    pc,            \* the step initTestnetFiles is at
    result,        \* "running", or how it ended: "ok", "error" or "panic"
    failures,      \* calls that failed so far
    i,             \* validator loop index
    ai,            \* normal-account loop index
    k,             \* genesis file index in initGenFiles / collectGenFiles
    dirs,          \* node directories <prefix, i> on disk under --output-dir
    gentxs,        \* gentx files <prefix, i> in <output-dir>/gentxs
    normalAddrs,   \* keys of normalAccountAddresses
    genBalances,   \* genBalances (genAccounts is appended in step with it)
    appState,      \* collectGenFiles' canonical app state, <<>> while nil
    genesis        \* genesis[<<p, n>>]: what node directory p n's genesis holds

vars == <<v, prefix, runs, pc, result, failures, i, ai, k, dirs, gentxs, normalAddrs,
          genBalances, appState, genesis>>

Running == result = "running"

\* A call that returns an error: `_ = os.RemoveAll(args.outputDir)` first
\* where the code has it, then `return err`.
Fail(removeAll) ==
    /\ failures < MaxFailures
    /\ failures' = failures + 1
    /\ result' = "error"
    /\ IF removeAll
       THEN /\ dirs' = {}
            /\ gentxs' = {}
            /\ genesis' = [d \in NodeDirPrefixes \X Nodes |-> NoGenesis]
       ELSE UNCHANGED <<dirs, gentxs, genesis>>
    /\ UNCHANGED <<v, prefix, runs, pc, i, ai, k, normalAddrs, genBalances, appState>>

\* Go on to the next step of the same run.
Goto(step) == pc' = step /\ UNCHANGED <<v, prefix, runs, result, failures>>

\* os.MkdirAll of the node's config directory; getIP never fails for a
\* valid --starting-ip-address (calculateIP, see TestnetIP).
MkdirAll ==
    /\ Running /\ pc = "mkdir"
    /\ \/ /\ dirs' = dirs \cup {<<prefix, i>>}
          /\ Goto("nodeFiles")
          /\ UNCHANGED <<i, ai, k, gentxs, normalAddrs, genBalances, appState, genesis>>
       \/ Fail(TRUE)

\* genutil.InitializeNodeValidatorFiles; genFiles gets the node's path.
InitializeNodeValidatorFiles ==
    /\ Running /\ pc = "nodeFiles"
    /\ \/ /\ Goto("keyring")
          /\ UNCHANGED <<i, ai, k, dirs, gentxs, normalAddrs, genBalances, appState, genesis>>
       \/ Fail(TRUE)

\* keyring.New and keyring.NewSigningAlgoFromString: errors are returned
\* without removing the output directory.
KeyringNew ==
    /\ Running /\ pc = "keyring"
    /\ \/ /\ Goto("valKey")
          /\ UNCHANGED <<i, ai, k, dirs, gentxs, normalAddrs, genBalances, appState, genesis>>
       \/ Fail(FALSE)

\* testutil.GenerateSaveCoinKey for the validator's own key.
GenerateValidatorKey ==
    /\ Running /\ pc = "valKey"
    /\ \/ /\ Goto("normalKeys")
          /\ ai' = 0
          /\ UNCHANGED <<i, k, dirs, gentxs, normalAddrs, genBalances, appState, genesis>>
       \/ Fail(TRUE)

(* Mutant of ImportNormalAccount, for the mutation runs: each imported    *)
(* account is funded at once instead of being collected in the map.       *)
ImportNormalAccountUnmapped ==
    /\ Running /\ pc = "normalKeys"
    /\ ai < NumNormalAccounts
    /\ genBalances' = Append(genBalances, NormalAddr(ai + 1))
    /\ ai' = ai + 1
    /\ UNCHANGED <<v, prefix, runs, pc, result, failures, i, k, dirs, gentxs, normalAddrs, appState, genesis>>

(* One iteration of `for ai, normalAccountMnemonic := range ...`: the     *)
(* import's error is discarded (`normalAccountAddr, _, _ :=`) and the     *)
(* `if err != nil` after it tests the validator key's err, nil here, so a *)
(* failed import goes on with a nil address, stored under "".            *)
ImportNormalAccount ==
    /\ Running /\ pc = "normalKeys"
    /\ ai < NumNormalAccounts
    /\ \/ /\ normalAddrs' = normalAddrs \cup {NormalAddr(ai + 1)}
          /\ UNCHANGED failures
       \/ /\ failures < MaxFailures
          /\ failures' = failures + 1
          /\ normalAddrs' = normalAddrs \cup {NilAddr}
    /\ ai' = ai + 1
    /\ UNCHANGED <<v, prefix, runs, pc, result, i, k, dirs, gentxs, genBalances, appState, genesis>>

\* network.WriteFile of key_seed.json (json.Marshal of a string map cannot
\* fail); then the validator's balance and account are appended.
WriteKeySeed ==
    /\ Running /\ pc = "normalKeys" /\ ai = NumNormalAccounts
    /\ \/ /\ genBalances' = Append(genBalances, ValAddr(i))
          /\ Goto("gentx")
          /\ UNCHANGED <<i, ai, k, dirs, gentxs, normalAddrs, appState, genesis>>
       \/ Fail(FALSE)

\* NewMsgCreateValidator, SetMsgs, tx.Sign, TxJSONEncoder and the write of
\* the gentx file: each error is returned as is.
WriteGentx ==
    /\ Running /\ pc = "gentx"
    /\ \/ /\ gentxs' = gentxs \cup {<<prefix, i>>}
          /\ Goto("config")
          /\ UNCHANGED <<i, ai, k, dirs, normalAddrs, genBalances, appState, genesis>>
       \/ Fail(FALSE)

(* Mutant of WriteConfigs, for the mutation runs: the loop runs while    *)
(* i <= numValidators.                                                    *)
WriteConfigsInclusive ==
    /\ Running /\ pc = "config"
    /\ \/ /\ i' = i + 1
          /\ Goto(IF i + 1 <= v THEN "mkdir" ELSE "normalBalances")
          /\ UNCHANGED <<ai, k, dirs, gentxs, normalAddrs, genBalances, appState, genesis>>
       \/ Fail(FALSE)

\* InterceptConfigsPreRunHandler, app.toml, and the read and rewrite of
\* client.toml; the last validator leaves the loop.
WriteConfigs ==
    /\ Running /\ pc = "config"
    /\ \/ /\ i' = i + 1
          /\ Goto(IF i + 1 < v THEN "mkdir" ELSE "normalBalances")
          /\ UNCHANGED <<ai, k, dirs, gentxs, normalAddrs, genBalances, appState, genesis>>
       \/ Fail(FALSE)

\* `for _, normalAccountAddr := range normalAccountAddresses`: Go visits a
\* map in an unspecified order, so any order of its values.
FundNormalAccounts ==
    /\ Running /\ pc = "normalBalances"
    /\ \E order \in SetToSeqs(normalAddrs) :
          genBalances' = genBalances \o order
    /\ k' = 0
    /\ Goto("initGenFiles")
    /\ UNCHANGED <<i, ai, dirs, gentxs, normalAddrs, appState, genesis>>

(* Mutant of initGenFilesSave, for the mutation runs: collectGenFiles     *)
(* starts at the second node.                                             *)
initGenFilesSaveFrom1 ==
    /\ Running /\ pc = "initGenFiles"
    /\ \/ /\ k < v
          /\ genesis' = [genesis EXCEPT ![<<prefix, k>>] = [phase |-> "initial", balances |-> genBalances]]
          /\ k' = k + 1
          /\ UNCHANGED <<v, prefix, runs, pc, result, failures>>
       \/ /\ k = v
          /\ k' = 1
          /\ Goto("collectGenFiles")
          /\ UNCHANGED genesis
       \/ /\ k < v
          /\ Fail(FALSE)
          /\ UNCHANGED k
    /\ UNCHANGED <<i, ai, dirs, gentxs, normalAddrs, genBalances, appState>>

\* initGenFiles: genDoc.SaveAs of the same genesis to each node's file in
\* turn, stopping at the first error.
initGenFilesSave ==
    /\ Running /\ pc = "initGenFiles"
    /\ \/ /\ k < v
          /\ genesis' = [genesis EXCEPT ![<<prefix, k>>] = [phase |-> "initial", balances |-> genBalances]]
          /\ k' = k + 1
          /\ UNCHANGED <<v, prefix, runs, pc, result, failures>>
       \/ /\ k = v
          /\ k' = 0
          /\ Goto("collectGenFiles")
          /\ UNCHANGED genesis
       \/ /\ k < v
          /\ Fail(FALSE)
          /\ UNCHANGED k
    /\ UNCHANGED <<i, ai, dirs, gentxs, normalAddrs, genBalances, appState>>

\* genutil.CollectTxs, inside GenAppStateFromConfig, reads every file in
\* <output-dir>/gentxs and refuses a gentx whose delegator has no balance
\* in the node's genesis; the delegator of <p, n>.json is node n's key.
GentxsFunded(balances) == \A g \in gentxs : ValAddr(g[2]) \in ToSet(balances)

\* CollectTxs first maps every genesis balance by GetAddress, which panics
\* on the empty address.
BalancesPanic(balances) == NilAddr \in ToSet(balances)

\* The node's app state is written back as its genesis, the first one
\* kept as the canonical app state for all the nodes.
CollectInto(nodeAppState) ==
    LET canonical == IF appState = <<>> THEN nodeAppState ELSE appState
    IN /\ appState' = canonical
       /\ genesis' = [genesis EXCEPT ![<<prefix, k>>] =
                          [phase |-> "final", balances |-> canonical]]
       /\ k' = k + 1
       /\ UNCHANGED <<v, prefix, runs, pc, result, failures>>

(* Mutant of collectGenFile, for the mutation runs: the gentxs are taken  *)
(* without checking their delegators against the genesis balances.       *)
collectGenFileUnchecked ==
    /\ Running /\ pc = "collectGenFiles" /\ k < v
    /\ LET nodeAppState == genesis[<<prefix, k>>].balances
       IN \/ ~BalancesPanic(nodeAppState) /\ CollectInto(nodeAppState)
          \/ /\ BalancesPanic(nodeAppState)
             /\ result' = "panic"
             /\ UNCHANGED <<v, prefix, runs, pc, failures, k, appState, genesis>>
    /\ UNCHANGED <<i, ai, dirs, gentxs, normalAddrs, genBalances>>

\* One iteration of collectGenFiles: read node k's genesis, build its app
\* state from the gentxs, keep the first as canonical, and export the
\* canonical state with the common genesis time; any error is returned.
collectGenFile ==
    /\ Running /\ pc = "collectGenFiles" /\ k < v
    /\ LET nodeAppState == genesis[<<prefix, k>>].balances
       IN \/ /\ ~BalancesPanic(nodeAppState) /\ GentxsFunded(nodeAppState)
             /\ CollectInto(nodeAppState)
          \/ /\ ~BalancesPanic(nodeAppState) /\ ~GentxsFunded(nodeAppState)
             /\ result' = "error"
             /\ UNCHANGED <<v, prefix, runs, pc, failures, k, appState, genesis>>
          \/ /\ BalancesPanic(nodeAppState)
             /\ result' = "panic"
             /\ UNCHANGED <<v, prefix, runs, pc, failures, k, appState, genesis>>
          \/ /\ Fail(FALSE)
             /\ UNCHANGED k
    /\ UNCHANGED <<i, ai, dirs, gentxs, normalAddrs, genBalances>>

\* "Successfully initialized %d node directories".
Succeed ==
    /\ Running /\ pc = "collectGenFiles" /\ k = v
    /\ pc' = "done" /\ result' = "ok"
    /\ UNCHANGED <<v, prefix, runs, failures, i, ai, k, dirs, gentxs, normalAddrs, genBalances, appState, genesis>>

\* The command is run again into the same --output-dir, with any --v and
\* --node-dir-prefix: the files on disk stay, the run's own variables
\* start afresh.
Rerun ==
    /\ ~Running /\ runs < MaxRuns
    /\ \E nv \in 1..NumValidators : v' = nv
    /\ prefix' \in NodeDirPrefixes
    /\ runs' = runs + 1
    /\ pc' = "mkdir" /\ result' = "running"
    /\ i' = 0 /\ ai' = 0 /\ k' = 0
    /\ normalAddrs' = {} /\ genBalances' = <<>> /\ appState' = <<>>
    /\ UNCHANGED <<failures, dirs, gentxs, genesis>>

Returned == ~Running /\ runs = MaxRuns /\ UNCHANGED vars

Init ==
    /\ v \in 1..NumValidators
    /\ prefix \in NodeDirPrefixes
    /\ runs = 1
    /\ pc = "mkdir"
    /\ result = "running"
    /\ failures = 0
    /\ i = 0 /\ ai = 0 /\ k = 0
    /\ dirs = {} /\ gentxs = {}
    /\ normalAddrs = {}
    /\ genBalances = <<>>
    /\ appState = <<>>
    /\ genesis = [d \in NodeDirPrefixes \X Nodes |-> NoGenesis]

Next ==
    \/ MkdirAll \/ InitializeNodeValidatorFiles \/ KeyringNew
    \/ GenerateValidatorKey \/ ImportNormalAccount \/ WriteKeySeed
    \/ WriteGentx \/ WriteConfigs \/ FundNormalAccounts
    \/ initGenFilesSave \/ collectGenFile \/ Succeed \/ Rerun \/ Returned

Spec == Init /\ [][Next]_vars

-----------------------------------------------------------------------------
GenesisFile == [phase : {"none", "initial", "final"}, balances : Seq(Addresses)]

TypeOK ==
    /\ v \in 1..NumValidators /\ prefix \in NodeDirPrefixes /\ runs \in 1..MaxRuns
    /\ pc \in Steps
    /\ result \in {"running", "ok", "error", "panic"}
    /\ failures \in 0..MaxFailures
    /\ i \in 0..NumValidators /\ ai \in 0..NumNormalAccounts /\ k \in 0..NumValidators
    /\ dirs \subseteq NodeDirPrefixes \X Nodes /\ gentxs \subseteq NodeDirPrefixes \X Nodes
    /\ normalAddrs \subseteq Addresses
    /\ genBalances \in Seq(Addresses)
    /\ appState \in Seq(Addresses)
    /\ genesis \in [NodeDirPrefixes \X Nodes -> GenesisFile]

\* Every validator keyring imports the same normal-account mnemonics, yet a
\* genesis written by a successful run funds every address once: the map
\* normalAccountAddresses folds the repeated imports, and the validators'
\* keys are distinct.  A bank genesis with a duplicate balance is invalid.
GenesisBalancesDistinct ==
    result = "ok" => IsInjective(genBalances)

\* When init-files reports success, every node's genesis file has been
\* rewritten by collectGenFiles and holds the same balances, those the
\* loop accumulated: the nodes of the testnet start from one genesis.
GenesisFilesCanonical ==
    result = "ok" =>
        \A n \in 0..v - 1 :
            genesis[<<prefix, n>>] = [phase |-> "final", balances |-> genBalances]

\* collectGenFiles reads every gentx file under <output-dir>/gentxs, those
\* an earlier run left there included, under any prefix, and a failed run
\* leaves its gentxs behind wherever it returns without os.RemoveAll.  A
\* run that reports success has collected no gentx of a node index beyond
\* its own --v: such a validator would start the chain with no node, and
\* only CollectTxs' check of the delegator's balance keeps it out.
GentxsWithinRunNodes ==
    result = "ok" => \A g \in gentxs : g[2] < v

\* The error wrap "failed to import normal account idx %d", after
\* os.RemoveAll, says a failed import of a normal account ends the command
\* with that error: a run in which an import failed returns an error.
ImportFailureReturnsError ==
    (~Running /\ NilAddr \in normalAddrs) => result = "error"

=============================================================================

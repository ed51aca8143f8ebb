# TLA+ models of kairoschain

TLA+ specifications of the parts of kairoschain (`src/`) whose behaviour depends on
interleavings, restarts, failures or sequences of calls, with the TLC configurations that
check them. `PROJECT.json` lists every component, run, mutant, the definition-to-source
map, the findings and the hazards.

## The system and its parts

| Part | Source | State | Operations | Interacts with |
|---|---|---|---|---|
| EVM indexer service | `server/indexer_service.go`, `types/indexer.go` | `latestBlock` (shared with a goroutine), a one-slot signal channel, `lastIndexedBlock` cursor, startup failure tracker, ready flag; the indexer's db (flushed / unflushed) | Status, Subscribe, header goroutine, LastIndexedBlock, resume choice, fetch Block / BlockResults, IndexBlock, Ready, wait with 60 s timeout | the CometBFT node (RPC and event bus), the kv indexer, the RPC backend that reads what it indexed |
| Ante handler router | `app/ante/ante.go` | none | dispatch on the first extension option, else on `sdk.Tx` | the EVM / EIP-712 / cosmos decorator chains |
| EVM ante chain, fee market gate, refund, state transition | not under `src/` (tests only); spec.md §4 | ledger: balances, pending rewards, nonces, fee collector | MinGasPrice, nonce check, GasConsumption with reward fallback, CanTransfer, IncrementSenderSequence; ApplyTransaction: execute, GasToRefund, min gas multiplier, RefundGas, gas meter reset | the block driver (sequential DeliverTx) |
| JSON-RPC transaction lookups, log conversions | `rpc/backend/tx_info.go`, `x/evm/types/logs.go` | none of its own: reads the block, its results, the mempool and the indexer | GetTransactionByHash (+ pending), GetTransactionReceipt with its logs (TxLogsFromEvents, LogsToEthereum), getGasUsed, GetTransactionByBlock{Hash,Number}AndIndex | the indexer service's records |
| Testnet init-files | `client/testnet.go` | loop indices, node dirs, gentx files, the normal-account map, the genesis balances, each node's genesis file | per validator: MkdirAll + getIP, node key, keyring, validator key, normal-account imports, key seed, gentx, configs; then funding the map, initGenFiles, collectGenFiles | the SDK's keyring, genutil and file system; the chain that later starts from the genesis |
| Gas-adjustment defaults | `cmd/kairosd/utils/flag_util.go`, called at the end of `NewRootCmd` (`cmd/kairosd/root.go`) | the flags of every command of the cobra tree | the recursive walk over persistent flags, local flags and subcommands; `tryUpdateGasAdjustmentFlag` | every command that registered `--gas-adjustment` |
| inspect commands | `cmd/kairosd/inspect/` | none of their own: they read the node's block store (base, height), which the node locks while it runs | parse the height argument, open the store, resolve `latest`, refuse a height above the latest, print the block and the base's meta; print the latest height | the node, which commits and prunes the store between invocations |
| convert-address | `cmd/kairosd/convert_address.go` | none | classify, decode, encode under the chain's and the next prefix, print | — |
| CLI root, constants, test harness | `cmd/kairosd/root.go`, `cmd/config/`, `types/`, `utils/`, `integration_test_util/`, `testutil/` | none | parse, convert, print | — |

Hard behaviours the code is exposed to:
- In the indexer: a data race on `latestBlock` between the header goroutine and the loop; a one-slot signal that drops sends; a 60 s timeout racing a header; fetch failures retried with a counter before Ready and forever after; an IndexBlock error; a restart that loses unflushed writes; pruning (`EarliestBlockHeight`) below the db.
- In the fee pipeline: the refund price and the min-gas-multiplier floor, which together decide what the sender pays for the gas the receipt reports.
- In the RPC lookups: records without an `EthTxIndex`; batch transactions; the reverted-gas patch.

## Modules

Build order: each module stands alone, and the MC module instantiates it for TLC.

### `IndexerService` (+ `MCIndexerService`)
This module models `EVMIndexerService.OnStart` as a program counter `pc` over the steps of the
function: `status`, `subscribe`, `load`, `loop`, `caughtUp`, `wait`, `fetch` and `stopped`. The
header goroutine is a separate action, `ReceiveHeader`.

State:
- `latestBlock`, `signal` (0/1 for the buffered channel), `lastIndexed`, `height` (the inner loop's `i`), `ready` and `tracker` are the function's locals.
- `db` is the set of flushed heights. `LastIndexedBlock` is its max, or -1 when empty.
- `unflushed` holds what IndexBlock wrote but has not yet flushed.

Actions:
- `Status`, `Subscribe` and `LoadLastIndexedBlock` are lines 42-87. Each may fail and return an error (`stopped`).
- `StartPosition` is the resume choice, lines 81-87.
- `LoopCheck` is the check at line 107. `MarkReady` is lines 111-118.
- `WaitSignal` and `WaitTimeout` are the `select` at lines 121-124.
- `FetchFailed` is a Block or BlockResults error with `markFailedToIndexBlock`, lines 128-143.
- `IndexBlock` is lines 144-151, both the success and the error branch.
- `NextHeight` advances the `for` at line 127.

The environment:
- `NewBlock`: the chain grows, and a header is delivered only after Subscribe.
- `Flush`: the kv indexer flushes.
- `Restart`: the process restarts. Locals and unflushed writes are lost; the db survives.

History variables record what the properties need: `startCursor`, `dbLastAtLoad`, `failures` per height, `skipped`, `indexFailed` and `readyAt`.

### `IndexerCursor` (abstract) and the refinement
`IndexerCursor` states what the service promises, with no goroutines, signals, retries or tracker. It has the node's chain, a cursor, the written index, the heights IndexBlock failed on, and a ready flag.
- `Resume` picks a cursor no earlier than the last written height and no later than the chain.
- `Record` and `Pass` advance the cursor by exactly one height below the chain. `Pass` leaves the height unwritten, and is allowed only before Ready or when IndexBlock failed on it.
- `Crash` ends the run and may drop writes.

`IndexerService` instantiates it as `Abstract`, mapping `cursor <- lastIndexed`, `written <- db \cup unflushed`, `chain <- chainHeight` and `failed <- indexFailed`. `IndexerRefinement == Abstract!Spec` is checked as a PROPERTY. Each service step maps to one abstract step or to a stutter: `Flush`, the goroutine, the signal and the loop checks change no abstract variable. The abstract `Resume` allows the code's choice at the pruning point, because that off-by-one is checked on its own by `indexer_resume`.

The code's threshold of 10 is scaled down to 2, the least value at which "skip at the threshold-th failure" differs from "skip after it".

### `FeePipeline` (+ `MCFeePipeline`)
The model delivers one transaction at a time, as spec §5 requires.

`DeliverTx` routes the transaction with `AnteRoute`, a translation of `NewAnteHandler`:
- EIP-712 and cosmos transactions go to chains that are external collaborators (outcome `external`). The modelled ledger does not change.
- An unknown extension or a non-`sdk.Tx` is rejected.

`DeliverAnte` runs the EVM chain on a branch of the ledger:
- checks: MinGasPrice, then the nonce, gas limit and base fee checks;
- `DeductFee`: the fee is `effectiveGasPrice × gasLimit`, withdrawing all pending rewards first when the balance is short;
- CanTransfer, then the sequence increment.

The branch is written back only when every step passes (spec §4.2, P2).

`ApplyTransaction`:
- Treats the EVM as opaque: it succeeds or reverts with some gas used and a refund counter, or returns an error.
- Charges `max(used - GasToRefund, gasLimit × MinGasMultiplier)`.
- Refunds the leftover at the effective price from the fee collector, and transfers the value on success.
- On an error, including a refund the collector cannot cover, the message branch is dropped: the fee for the whole gas limit and the nonce stay.

These decorators, `GasToRefund`, `RefundGas` and `ApplyTransaction` are not under `src/`; only their tests are (`app/ante/evm/*_test.go`, `x/evm/keeper/*_test.go`). They are modelled from spec.md and marked `spec_modelled` in the map, and the tests were used to confirm the semantics: the min-gas-multiplier case, zero fees, and the reward fallback.

Modelled values:
- Two accounts; a1 has balance and no rewards, and a2 has rewards but little balance.
- Base fee 1, MinGasPrice 1, intrinsic gas 1, block gas limit 4.
- A refund quotient of 2, and a min gas multiplier of 1/2.
- Three deliveries.

The transaction set covers:
- every router branch;
- a fee cap below the base fee;
- a fee cap above the effective price, where the refund price matters;
- a contract creation;
- a fee the rewards rescue, and one they do not;
- a value that is no longer covered once the fee is deducted.

### `ConvertAddress` (+ `MCConvertAddress`)
The `Run` handler of `convert-address` is one operator, `Run(src, arg)`. It returns the printed lines and the exit status. `RunCommand` applies it to an input chosen in `Init`.
- Strings are abstracted to what the code tells apart. A hex string is a payload (a record with its length in bytes) plus whether it has `0x`. A bech32 string is an hrp, a payload and whether its checksum holds.
- `Classify` follows the branches at lines 45-71 in order, with the hex length tables (20 or 32 bytes).
- `DecodeBech32` is `DecodeAndConvert` followed by `"0x" + hex`. `ConvertAndEncode` always succeeds: `bech32.Encode` computes the checksum over any hrp without checking its characters, so the error paths at lines 98-101 and 112-115 are never taken and are left out.
- `NextHrp` is the trimming of the second argument; an argument of just "1" trims to nothing and counts as none. `HrpText` puts back the trailing "1" that trimming removes.

### `InspectCmd`
The two inspect commands, run against the node's block store.
- **The store** is its `base` and `height`. The node is the environment: `StartNode`, `StopNode`, `Commit` (the first block sets the base) and `Prune` (raises the base). While `running`, the node holds the database lock.
- **The arguments** are abstracted to what the switch and `strconv.ParseInt` make of the trimmed, lower-cased text:
  - `Latest` stands for the six words the switch maps to 0;
  - `Num(n)` is a decimal text that is not one of them, such as `"00"`, `"-01"`, `"-2"` or `"7"`;
  - `Bad` is a text ParseInt rejects.
- **`BlockCmd(arg)`** is the whole `Run` of `inspect block`, in the code's order. `RequestedHeight` is lines 22-40: a bad text or a negative number panics. Opening the store panics while the node runs. `ResolveHeight` is lines 54-60: 0 becomes the latest height, and a higher request panics. Then come the header lines, the block (`Load` gives `Null` for a height not stored) and the base's meta.
- **`LatestBlockNumberCmd`** opens the store and prints its height.
- **A command is one step**: it holds the lock from the open to its exit, so the node cannot change the store under it.

### `KairosdCli` (+ `MCKairosdCli`)
The subcommands `NewRootCmd` adds that this project models: `convert-address` (`ConvertAddress`) and `inspect` (`InspectCmd`). Each is an `INSTANCE`, with its output variables renamed. One invocation of the binary runs one of them, so a step of `Next` is a step of one with the other's variables unchanged. They share no state, so checking them together costs no more than checking them apart. The node's store evolves between the inspect commands.

### `TxInfo` (+ `MCTxInfo`)
One block. Clients `Submit` to the mempool, the proposer `Include`s transactions in any order, and `CommitAndIndex` commits the block and writes one indexer record per Ethereum message: tx index, msg index, eth tx index, failed flag, gas used, and cumulative gas within the tx. The eth tx index may be missing (-1) in any subset of the records.

The handlers only read, so they are operators over the state: `GetTransactionByHash`, `GetTransactionByHashPending`, `GetTransactionReceipt` with `CumulativeGasUsed` and `GetGasUsed`, and `GetTransactionByBlockAndIndex`.

`EthMsgsFromTendermintBlock` and the kv indexer's IndexBlock are not under `src/`. They are modelled from their use here and marked `spec_modelled`.

The bounds:
- three submissions drawn from four shapes: a plain tx, a reverted tx at price 3, a batch of two Ethereum messages, and a cosmos tx;
- heights 1 and 2, with the fix height 2;
- the 64-bit word scaled to 4 bits.

### `EvmLogs`
The log conversions of `x/evm/types/logs.go`, as operators: `NewLogFromEth`, `ToEthereum`, `NewLogsFromEth` and `LogsToEthereum`.
- A go-ethereum log holds its address and hashes as byte sequences. A proto log holds them as hex strings: `[has0x, chars]`, where a char is a nibble with its letter case, or `Invalid`.
- The go-ethereum conversions are modelled by what they do:
  - `AddressString` is the checksummed hex, and `HashString` the lower-case hex;
  - `FromHex` strips `0x`, puts a `0` before an odd number of digits, and decodes pairs up to the first invalid one;
  - `SetBytes` keeps the last bytes, or pads with zeros on the left.
- The EIP-55 case rule hashes the address with keccak. `ChecksumUpper` stands in for it with a fixed function of the address and the position, which is all the decoder can observe.
- `TxInfo` instantiates the module and uses it in `GetTransactionReceipt`. `TxLogsFromEvents` takes the proto logs of the tx's event for `msgIndex`; it is not under `src/` and is marked `spec_modelled`. `LogsToEthereum` turns them back into the receipt's logs.
- Addresses and hashes are scaled to 2 bytes. The sample bytes `0x1f`, `0xab` and `0x00` cover digits, letters of both cases and zeros.

### `TestnetIP` (+ `MCTestnetIP`)
The validator loop of `initTestnetFiles` calls `getIP`/`calculateIP` for validator `i`. `IncrementLastByte` is the Go loop `ipv4[3]++` written as a RECURSIVE operator, and each step wraps mod 256. The reference `AddressPlus` adds `i` to the address with carry.

### `GasAdjustmentFlags` (+ `MCGasAdjustmentFlags`)
The command tree (`parent`) and the content of each command's persistent and local flag set (`flags`) are chosen in `Init`, over every tree of `NumCommands` commands rooted at 1. A flag is a record: its name, its value and `DefValue` in hundredths, and `parses`, which says whether `strconv.ParseFloat` accepts its text. The single action `NewRootCmd` is the call at `root.go:194-199`: the SDK default 1.0 is below 1.2. It applies the whole walk at once, because nothing else runs while it does.
- `UpdateRegisteredGasAdjustmentFlags` and `WalkSubCommands` are mutually RECURSIVE, as the Go function is with its loop over `cmd.Commands()`.
- `flagModifier` and `tryUpdateGasAdjustmentFlag` keep the code's checks in order: name, parse, `>=` minimum, then value and default.
- `Value.Set` of a float on the text of 1.2 cannot fail, so that error path is left out.

### `TestnetInit` (+ `MCTestnetInit`)
`initTestnetFiles` is modelled as a program counter over the steps of one loop iteration, followed by the steps after the loop. Each fallible call is an action, named after the call. It either succeeds or fails while `failures < MaxFailures`.
- `Fail(removeAll)` is `return err`, preceded by `os.RemoveAll` only where the code calls it: MkdirAll, InitializeNodeValidatorFiles and the validator key.
- `ImportNormalAccount` keeps the code's flaw. The import's error is discarded, and the `if err != nil` tests a stale err, so a failed import adds `NilAddr` (an address whose `String()` is `""`) to the map.
- `FundNormalAccounts` appends the map's values in any order, because Go map iteration order is unspecified.
- `initGenFilesSave` and `collectGenFile` write the node genesis files one at a time. A genesis file is abstracted to its balances and to whether collectGenFiles has rewritten it. The canonical app state is the first node's.
- `collectGenFile` includes what `genutil.CollectTxs` does inside `GenAppStateFromConfig`. It first maps every genesis balance by `GetAddress`, which panics on the empty address (`BalancesPanic`; the result is `"panic"`). Then every gentx file in `<output-dir>/gentxs` is read, and a gentx whose delegator has no balance in the genesis is an error (`GentxsFunded`).
- `Rerun` runs the command again into the same `--output-dir`, with any `--v` up to `NumValidators` and any `--node-dir-prefix` of `NodeDirPrefixes`, until `MaxRuns` runs have been made. Node directories, gentx files and genesis files are keyed by `<<prefix, i>>`, as their paths are, and stay on disk. The run's own variables start afresh. The validator keys come from the fixed `validatorMnemonics`, so a node's address is the same in every run.
- Strings, keys, memos, coins and JSON are left out. Only addresses and the files that exist are tracked.

## Runs

| Run | Expect | Checks | Shows |
|---|---|---|---|
| `indexer_safety` | pass | `TypeOK`, `GiveUpOnlyAtStartup`, `EventuallyReady`, `CatchUpWhenFetchesSucceed`, `IndexerRefinement` | A height is skipped only after more than the threshold of failures, and only before Ready. Through failures, restarts and new blocks the service always reaches Ready. When fetches eventually succeed, every height the service learns of is passed by its cursor, so the one-slot signal loses no wakeup even with the data race. The service implements the abstract cursor. |
| `indexer_resume` | violation | `ResumeCoversAvailableBlocks` | Finding: resuming at `EarliestBlockHeight` skips that block. |
| `indexer_index_error` | violation | `NoBlockPassedUnindexed` | Finding: a failed IndexBlock is passed and never retried. |
| `fee_pipeline` | pass | `TypeOK`, `SenderPaysExactlyGasUsed` | The spec property P1 over every mix of outcomes. The rollback of a rejected tx (P2) and the single nonce bump (P3) are not checked: the model writes the ante branch back in one step and leaves the nonce to the ante chain, so both would hold by construction. |
| `txinfo_lookups` | pass | `TypeOK`, `ByHashAndByIndexAgree`, `ReceiptsCumulativeConsistent`, `ReceiptLogsAsEmitted` | The three lookups agree on a tx's index, and cumulative gas is consistent. A receipt carries exactly the logs its own message emitted, after their round trip through the proto logs' hex strings; this holds for each message of a batch. |
| `txinfo_gas_used` | violation | `ReceiptGasUsedWithinGasLimit` | Finding: the reverted-gas patch reports price × gas as gas used. |
| `gas_adjustment_flags` | pass | `TypeOK`, `EveryGasAdjustmentRaised` | Over every three-command tree, the walk raises each parsable gas adjustment below 1.2 together with its default, at any depth and in either flag set, and leaves every other flag as it was. |
| `kairosd_cli` | pass | `TypeOK`, `RefusesExactlyUnservable`, `PrintsNullExactlyUnstored` | convert-address runs beside inspect; its accepted set is `Classify` itself and is not restated as a property. inspect block refuses exactly these requests: a text that is not a height, a negative number other than the `-1` keyword, a height above the latest, or any request while the node runs. It prints every other request, whatever the node committed and pruned before. It prints `null` for the block exactly when the height was pruned or the store is empty. |
| `convert_address_labels` | violation | `LabelsMatchAddresses` | Finding: the line labelled with the chain's prefix can hold an address under another prefix. |
| `testnet_init` | pass | `TypeOK`, `GenesisBalancesDistinct`, `GenesisFilesCanonical`, `GentxsWithinRunNodes` | Whatever single call fails, and in every map order: a successful run funds each address once, even though each keyring re-imports the normal accounts, and every node ends with the same final genesis holding the accumulated balances. Over two runs into one output directory, under either prefix, a run that reports success has collected no gentx of a node beyond its `--v`: such a stale gentx, left by a failed run or a run with a larger `--v`, makes `CollectTxs` fail rather than enter the genesis. |
| `testnet_import` | violation | `ImportFailureReturnsError` | Finding: a failed normal-account import is ignored, and the run panics in `collectGenFiles` on the empty address instead of returning the import's error. |
| `testnet_ips` | violation | `PeersAreConsecutive` | Finding: the fourth validator from .254 gets .0 of the same /24. |

Each property of a passing run has a mutant in `PROJECT.json`: a plausible bug in the definition it names, which TLC finds under the run's own cfg.
- Indexer: skipping at `>=`, and a counter never stored.
- Indexer signal: a send that is dropped unless the loop is already waiting.
- Fee pipeline: a refund at the fee cap.
- Gas flags: a walk that stops one level below the command it starts from; a value raised without its `DefValue` (`TypeOK` requires that a flag's value is its default).
- Indexer refinement: `lastIndexedBlock = latestBlock` written for `lastIndexedBlock = i`.
- convert-address: the trailing "1" of the next prefix kept.
- inspect block: a request above the latest height not refused.
- Testnet: a loop run while `i <= numValidators`; imported accounts funded at once instead of through the map; collectGenFiles starting at the second node; collectGenFiles not checking the gentxs' delegators.
- RPC: the msg index ignored; the cumulative slice running through the tx's own result; every proto log converted from the first log of its message.

## Findings

1. **`server/indexer_service.go:83-84`**: the resume position is off by one at the pruning point. `lastIndexedBlock = EarliestBlockHeight` makes the loop start at `EarliestBlockHeight+1`.
2. **`server/indexer_service.go:144-151`**: an IndexBlock error is logged and `lastIndexedBlock = i` still runs. The block is never indexed or retried, while Block and BlockResults errors break out and retry.
3. **`rpc/backend/tx_info.go:135`**: below `FixRevertGasRefundHeight`, a failed tx's receipt has `gasUsed = price × gas`, truncated to 64 bits. That is a fee, not gas, and it exceeds the gas limit. The comment says "real gas charged", and `TestGetGasUsed` fixes the behaviour.
4. **`client/testnet.go:584-586`**: `ipv4[3]++` wraps without carry, which breaks the sequence the `--starting-ip-address` help promises. With more than 256 validators, addresses repeat.

5. **`client/testnet.go:318-319`**: `normalAccountAddr, _, _ := testutil.GenerateSaveCoinKey(...)` drops the error, and the following `if err != nil` tests the validator key's `err`, which is nil at that point. A failed import is therefore not reported. Its nil address is stored under `""` and funded in every genesis file. `collectGenFiles` then panics: `CollectTxs` maps each genesis balance through `GetAddress` (`MustAccAddressFromBech32`), which panics on `""`. The output directory is left behind. The wrap message "failed to import normal account idx %d", after `os.RemoveAll`, shows the intended behaviour: return that error.
6. **`cmd/kairosd/convert_address.go:92-103`**: line 103 always prints the label `Bech32 <chain prefix>`, but the address beside it can have another prefix.
   - For a bech32 input, the printed address is the input itself, whatever its prefix.
   - For a hex input with a second argument, lines 92-96 encode under that argument's prefix. The next-prefix address is printed twice, and the chain-prefix address never appears.
   - The help text shows one line under the chain's prefix and a separate line under the next prefix.

`inspect block` for a height below the store's base, after pruning, or `latest` on an empty store, prints `null` and exits 0. Only heights above the latest are refused. This is not a finding either: neither the help text nor spec.md says what such a request should give. `PrintsNullExactlyUnstored` pins the behaviour down. A successful run prints the requested block whenever the store holds it. It prints `null` exactly for a pruned height or an empty store. The base's meta is `null` only for an empty store.

Failures are also handled unevenly in `initTestnetFiles`: only three of its error paths remove the output directory. This is not a finding, because nothing states what a failed run must leave. `GentxsWithinRunNodes` checks one consequence: a rerun never builds a genesis with the gentx of a node index beyond its `--v`. The model also shows the cost. A run that left `<prefix><n>.json` in `gentxs/` for some `n` at or above the next run's `--v` makes every later run fail in `collectGenFiles` until the directory is removed by hand. What it does not stop is a rerun under another `--node-dir-prefix`. The old `node0.json` stays beside the new `n0.json`. Both are signed by the same key, from the fixed `validatorMnemonics[0]`, and that key is funded. So `CollectTxs` accepts both, and the genesis holds two create-validator messages for one operator. The model reaches that state, but it only fails at chain start, which is not modelled.

## Fairness

- **IndexerService.** Weak fairness holds for the service's own steps, the header goroutine, the chain and the flush: each is a goroutine or an external process the Go scheduler keeps running.
- **No fairness on `WaitTimeout`.** Without it, `CatchUpWhenFetchesSucceed` shows that the signal alone wakes the loop; the timeout is a fallback.
- **Strong fairness on a successful fetch.** It is assumed only inside the property `CatchUpWhenFetchesSucceed == SF_vars(IndexBlock) => CatchUp`: RPC errors are transient. Without it, a block that fails forever after Ready blocks the cursor forever (lines 129-135). That is a hazard, not a property.
- **`Restart` is bounded** by `MaxRestarts`.
- **FeePipeline, TxInfo, GasAdjustmentFlags, KairosdCli (ConvertAddress, InspectCmd), TestnetInit and TestnetIP** check only safety, and need no fairness.

## Bounds

- **Indexer.** Heights to 4 from a chain at 2, earliest 2, threshold 2, one restart. This bound covers:
  - an empty db, a db below the earliest block, and a db at the head;
  - a failure past the threshold before Ready, and failures after it;
  - a header racing the wait.
- **Fee pipeline.** Three deliveries: enough for a tx, then another that depends on the first's nonce and fees.
- **TxInfo.** Three submissions: enough for a cosmos tx before an Ethereum tx, and a batch after a single tx.
- **Gas flags.** Three commands give both shapes of tree: a chain, where a flag sits two levels below the root, and a root with two children. Six flag sets each hold nothing, or a gas-adjustment or other flag at 1.0 or 1.5, parsable or not. That is about a million inputs.
- **convert-address.** Payloads of 20, 32 and 33 bytes: the two hex lengths and a public key. The chain's prefix and one other. No second argument, a plain one, one with a trailing "1", and "1" alone, which trims to nothing. That is all 76 inputs.
- **inspect.** Three blocks, so that a pruned store still holds two. The arguments are a latest word, a rejected text, -2, -1 (`"-01"`), 0 (`"00"`) and every height up to one above the last block.
- **TestnetInit.** Two validators, so that the normal accounts are imported twice. Two normal accounts, so that the map has two orders. One failure at any step, including any of the genesis writes. Two runs, so that a rerun meets what the first run left; its `--v` may be smaller than the first run's, and its prefix may differ. Two prefixes are enough to tell a stale gentx under the run's own prefix from one under another.
- **TestnetIP.** Four validators from .254 cross the end of the last byte.

## Not modelled

- **The rest of the CLI**: the client context, the config templates, `newApp` and `appExport` in `root.go`, and the setters of `cmd/config`. They set fixed values through SDK calls; they keep no state and interleave nothing.
- **`json.Marshal` of a block failing** in `inspect block`: it does not fail on a block loaded from the store.
- **`Log.Validate`** in `logs.go`: nothing in `src/` calls it, and its helpers are outside `src/`.
- **A `TxLogsFromEvents` failure**, which leaves the receipt with nil logs: the events come from the EVM keeper, outside `src/`.
- **The constants, coins, utils and IBC wrapper.** They are stateless declarations and helpers. The helpers of `src/utils/utils.go` (`IsMainnet`, `IsTestnet`, `IsDevnet`, `IsSupportedKey`, `GetKairoschainAddressFromBech32`, `UseZeroGasConfig`) are called from no code under `src/`, tests included.
- **The test harnesses.**
- **`startTestnet`.** The in-process network is SDK code (`network.New`, `WaitForHeight`), followed by a wait for Enter.
- **In the fee pipeline:**
  - the check, recheck and simulate modes, priority, AccountVerification and BasicValidation's field checks;
  - a sender account that does not exist;
  - the refund quotient 0 panic: the constants assume quotient > 0.
- **In TxInfo:**
  - block or block-result lookups that fail on a pruned node;
  - `queryTendermintTxIndexer`;
  - the unchecked type assertion at `tx_info.go:163`. The modelled indexer never points at a non-Ethereum message.

## Further work

- **The indexer and the RPC lookups together**: composing `IndexerService` with `TxInfo`, so that lookups run while blocks are still being indexed.

------------------------------- MODULE TxInfo -------------------------------
(***************************************************************************)
(* Transaction lookups of the JSON-RPC backend (src/rpc/backend/          *)
(* tx_info.go) over one block: eth_getTransactionByHash (with the mempool *)
(* fallback), eth_getTransactionReceipt (cumulative gas, the reverted-gas *)
(* patch below FixRevertGasRefundHeight) and eth_getTransactionByBlock-   *)
(* {Number,Hash}AndIndex.  Clients submit transactions to the mempool,    *)
(* the proposer includes them in any order, the block is committed and    *)
(* the EVM indexer writes one record per Ethereum message; a record may   *)
(* lack its EthTxIndex (-1), which the handlers recover by scanning the   *)
(* block.  The handlers are read-only: they are operators over the state, *)
(* and the properties quantify over every hash and index a client may     *)
(* ask for.  A transaction is either a cosmos tx (one non-EVM message) or *)
(* an Ethereum tx carrying one or more MsgEthereumTx; a message's hash is *)
(* <<tx id, message position>>.                                           *)
(***************************************************************************)
EXTENDS Integers, Sequences, SequencesExt

CONSTANTS
    TxShapes,                  \* the transactions a client may submit
    MaxTxs,                    \* transactions submitted in the block
    BlockHeights,              \* heights the block may be committed at
    FixRevertGasRefundHeight,  \* cfg.JSONRPC.FixRevertGasRefundHeight
    WordModulus,               \* 2^64, the width of big.Int.Uint64()
    AddrLen, HashLen           \* bytes of an address and a hash (EvmLogs)

VARIABLES
    mempool,     \* submitted transactions not in the block
    block,       \* the block's transactions, in proposer order
    committed,   \* the block is committed and indexed
    height,      \* its height
    records,     \* EVM indexer: eth hash -> TxResult
    nextId       \* id of the next submitted transaction

vars == <<mempool, block, committed, height, records, nextId>>

Logs == INSTANCE EvmLogs

NoIndex == -1
\* Handler results: nil (not found), an error, or a record with found = "ok".
Nil == [found |-> "nil"]
Err == [found |-> "error"]

Plus(a, b) == a + b
SumSeq(s) == FoldLeft(Plus, 0, s)

\* The hashes of the Ethereum messages of tx, in message order.
EthHashes(tx) ==
    IF tx.eth THEN [m \in 1..Len(tx.msgs) |-> <<tx.id, m>>] ELSE <<>>

\* TxsResults[t].GasUsed: the gas the tx consumed, all its messages.
TxResultGasUsed(tx) == SumSeq([m \in 1..Len(tx.msgs) |-> tx.msgs[m].used])

(* EthMsgsFromTendermintBlock: the block's Ethereum messages in block     *)
(* order.  Every modelled transaction passed its ante handler.            *)
EthMsgsFromTendermintBlock == FlattenSeq([t \in 1..Len(block) |-> EthHashes(block[t])])

MsgOf(h) == LET t == SelectInSeq(block, LAMBDA tx : tx.id = h[1])
            IN block[t].msgs[h[2]]

AllHashes ==
    UNION {{<<tx.id, m>> : m \in 1..Len(tx.msgs)} :
           tx \in {block[t] : t \in 1..Len(block)} \cup mempool}

-----------------------------------------------------------------------------
(* Client and proposer steps *)

\* A client submits a transaction, which enters the mempool.
Submit ==
    /\ nextId < MaxTxs
    /\ \E shape \in TxShapes :
        mempool' = mempool \cup {[shape EXCEPT !.id = nextId]}
    /\ nextId' = nextId + 1
    /\ UNCHANGED <<block, committed, height, records>>

\* The proposer includes a mempool transaction at the end of the block.
Include ==
    /\ ~committed
    /\ \E tx \in mempool :
        /\ block' = Append(block, tx)
        /\ mempool' = mempool \ {tx}
    /\ UNCHANGED <<committed, height, records, nextId>>

(* Mutant of CommitAndIndex, for the mutation runs: TxIndex is stored    *)
(* 1-based.                                                              *)
CommitAndIndexOneBased ==
    /\ ~committed
    /\ committed' = TRUE
    /\ \E hgt \in BlockHeights :
        /\ height' = hgt
        /\ records' =
            [h \in ToSet(EthMsgsFromTendermintBlock) |->
                LET t  == SelectInSeq(block, LAMBDA tx : tx.id = h[1])
                    ms == block[t].msgs
                IN [height            |-> hgt,
                    txIndex           |-> t,
                    msgIndex          |-> h[2] - 1,
                    ethTxIndex        |-> SelectInSeq(EthMsgsFromTendermintBlock,
                                                      LAMBDA x : x = h) - 1,
                    failed            |-> ms[h[2]].failed,
                    gasUsed           |-> ms[h[2]].used,
                    cumulativeGasUsed |-> SumSeq([m \in 1..h[2] |-> ms[m].used])]]
    /\ UNCHANGED <<mempool, block, nextId>>

(* The block is committed and the indexer writes a TxResult per Ethereum  *)
(* message: tx and message position, the eth tx index in the block (or    *)
(* -1), the failed flag, its gas and the gas of the tx up to and including *)
(* it.                                                                    *)
CommitAndIndex ==
    /\ ~committed
    /\ committed' = TRUE
    /\ \E hgt \in BlockHeights, missing \in SUBSET ToSet(EthMsgsFromTendermintBlock) :
        /\ height' = hgt
        /\ records' =
            [h \in ToSet(EthMsgsFromTendermintBlock) |->
                LET t  == SelectInSeq(block, LAMBDA tx : tx.id = h[1])
                    ms == block[t].msgs
                IN [height            |-> hgt,
                    txIndex           |-> t - 1,
                    msgIndex          |-> h[2] - 1,
                    ethTxIndex        |-> IF h \in missing THEN NoIndex
                                          ELSE SelectInSeq(EthMsgsFromTendermintBlock,
                                                           LAMBDA x : x = h) - 1,
                    failed            |-> ms[h[2]].failed,
                    gasUsed           |-> ms[h[2]].used,
                    cumulativeGasUsed |-> SumSeq([m \in 1..h[2] |-> ms[m].used])]]
    /\ UNCHANGED <<mempool, block, nextId>>

\* Nothing more happens to this block; later submissions wait for the
\* next one, which is not modelled.
Done == committed /\ UNCHANGED vars

Init ==
    /\ mempool = {}
    /\ block = <<>>
    /\ committed = FALSE
    /\ height = CHOOSE hgt \in BlockHeights : TRUE
    /\ records = <<>>
    /\ nextId = 0

Next == Submit \/ Include \/ CommitAndIndex \/ Done

Spec == Init /\ [][Next]_vars

-----------------------------------------------------------------------------
(* The RPC handlers, as operators over the state *)

Indexed(h) == committed /\ h \in DOMAIN records

\* Fallback of GetTransactionByHash/GetTransactionReceipt when the record
\* has no eth tx index: the position of the hash among the block's
\* Ethereum messages, or -1.
FindEthTxIndex(h) == SelectInSeq(EthMsgsFromTendermintBlock, LAMBDA x : x = h) - 1

ResolvedEthTxIndex(res, h) ==
    IF res.ethTxIndex = NoIndex THEN FindEthTxIndex(h) ELSE res.ethTxIndex

\* getTransactionByHashPending: a mempool transaction, with zero block
\* hash, number and index; nil if the hash is nowhere.
GetTransactionByHashPending(h) ==
    IF \E tx \in mempool : tx.eth /\ tx.id = h[1]
    THEN [found |-> "ok", hash |-> h, blockNumber |-> 0, index |-> 0]
    ELSE Nil

GetTransactionByHash(h) ==
    IF ~Indexed(h) THEN GetTransactionByHashPending(h)
    ELSE LET idx == ResolvedEthTxIndex(records[h], h) IN
         IF idx = NoIndex THEN Err
         ELSE [found |-> "ok", hash |-> h, blockNumber |-> records[h].height, index |-> idx]

(* getGasUsed: below the fix height a failed tx reports price * gas,     *)
(* truncated to 64 bits by Uint64(), else the recorded gas used.         *)
GetGasUsed(success, hgt, price, gas, recordedGasUsed) ==
    IF ~success /\ hgt < FixRevertGasRefundHeight
    THEN (price * gas) % WordModulus
    ELSE recordedGasUsed

(* Mutant of CumulativeGasUsed, for the mutation runs: the slice of     *)
(* TxsResults runs through the record's own tx.                         *)
CumulativeGasUsedThroughOwnTx(res) ==
    SumSeq([t \in 1..res.txIndex + 1 |-> TxResultGasUsed(block[t])])
      + res.cumulativeGasUsed

\* The gas of the transactions before the record's tx, plus the
\* record's cumulative gas within its own tx.
CumulativeGasUsed(res) ==
    SumSeq([t \in 1..res.txIndex |-> TxResultGasUsed(block[t])])
      + res.cumulativeGasUsed

(* TxLogsFromEvents(blockRes.TxsResults[txIndex].Events, msgIndex): the  *)
(* proto logs of the msgIndex-th ethereum_tx event of the tx, which the   *)
(* EVM wrote with NewLogsFromEth for that message.                       *)
TxLogsFromEvents(res) ==
    Logs!NewLogsFromEth(block[res.txIndex + 1].msgs[res.msgIndex + 1].logs)

GetTransactionReceipt(h) ==
    IF ~Indexed(h) THEN Nil
    ELSE LET res == records[h]
             idx == ResolvedEthTxIndex(res, h)
             msg == block[res.txIndex + 1].msgs[res.msgIndex + 1]
         IN IF idx = NoIndex THEN Err
            ELSE [found             |-> "ok",
                  hash              |-> h,
                  transactionIndex  |-> idx,
                  status            |-> ~res.failed,
                  gasUsed           |-> GetGasUsed(~res.failed, res.height,
                                                   msg.price, msg.gas, res.gasUsed),
                  cumulativeGasUsed |-> CumulativeGasUsed(res),
                  logs              |-> Logs!LogsToEthereum(TxLogsFromEvents(res)),
                  blockNumber       |-> res.height]

\* GetTxByTxIndex: the indexer's record with this eth tx index, if any.
GetTxByTxIndex(idx) == {h \in DOMAIN records : records[h].ethTxIndex = idx}

(* Mutant of GetTransactionByBlockAndIndex, for the mutation runs: the    *)
(* record's MsgIndex is ignored and the tx's first message returned.     *)
GetTransactionByBlockAndIndexFirstMsg(idx) ==
    IF ~committed THEN Nil
    ELSE IF GetTxByTxIndex(idx) # {}
    THEN LET res == records[CHOOSE h \in GetTxByTxIndex(idx) : TRUE]
             tx  == block[res.txIndex + 1]
         IN IF ~tx.eth THEN Nil
            ELSE [found |-> "ok", hash |-> <<tx.id, 1>>, blockNumber |-> height, index |-> idx]
    ELSE IF idx >= Len(EthMsgsFromTendermintBlock) THEN Nil
    ELSE [found |-> "ok", hash |-> EthMsgsFromTendermintBlock[idx + 1], blockNumber |-> height,
          index |-> idx]

(* GetTransactionByBlockAndIndex: the message the indexer's record points *)
(* at, else the idx-th Ethereum message of the block, else nil.           *)
GetTransactionByBlockAndIndex(idx) ==
    IF ~committed THEN Nil
    ELSE IF GetTxByTxIndex(idx) # {}
    THEN LET res == records[CHOOSE h \in GetTxByTxIndex(idx) : TRUE]
             tx  == block[res.txIndex + 1]
         IN IF ~tx.eth THEN Nil
            ELSE [found |-> "ok", hash |-> <<tx.id, res.msgIndex + 1>>, blockNumber |-> height,
                  index |-> idx]
    ELSE IF idx >= Len(EthMsgsFromTendermintBlock) THEN Nil
    ELSE [found |-> "ok", hash |-> EthMsgsFromTendermintBlock[idx + 1], blockNumber |-> height,
          index |-> idx]

-----------------------------------------------------------------------------
(* Properties *)

EthLog == [address : Seq(0..255), topics : Seq(Seq(0..255)), data : Seq(0..255),
           blockNumber : Nat, txHash : Seq(0..255), txIndex : Nat, index : Nat,
           blockHash : Seq(0..255), removed : BOOLEAN]

Msg == [used : Nat, gas : Nat, price : Nat, failed : BOOLEAN, logs : Seq(EthLog)]

\* The store types, and every record points inside the committed block.
TypeOK ==
    /\ mempool \subseteq [id : Nat, eth : BOOLEAN, msgs : Seq(Msg)]
    /\ block \in Seq([id : Nat, eth : BOOLEAN, msgs : Seq(Msg)])
    /\ committed \in BOOLEAN
    /\ height \in BlockHeights
    /\ \A h \in DOMAIN records :
        LET r == records[h] IN
        /\ r \in [height : BlockHeights, txIndex : Int, msgIndex : Int,
                  ethTxIndex : Int, failed : BOOLEAN,
                  gasUsed : Nat, cumulativeGasUsed : Nat]
        /\ r.txIndex \in 0..Len(block) - 1
        /\ block[r.txIndex + 1].id = h[1]
        /\ r.msgIndex \in 0..Len(block[r.txIndex + 1].msgs) - 1
        /\ r.ethTxIndex \in {NoIndex} \cup 0..Len(EthMsgsFromTendermintBlock) - 1
    /\ nextId \in 0..MaxTxs

\* Every transaction eth_getTransactionByHash finds in the block is what
\* eth_getTransactionByBlockNumberAndIndex returns at the index it
\* reports, and its receipt reports the same index: whether the indexer
\* stored the eth tx index or the handlers recovered it from the block,
\* and for every message of a batch transaction.
ByHashAndByIndexAgree ==
    \A h \in AllHashes :
        LET r == GetTransactionByHash(h) IN
        r.found = "ok" /\ r.blockNumber # 0 =>
            /\ GetTransactionByBlockAndIndex(r.index).found = "ok"
            /\ GetTransactionByBlockAndIndex(r.index).hash = h
            /\ GetTransactionReceipt(h).transactionIndex = r.index

\* A receipt's cumulativeGasUsed counts the gas of every earlier Ethereum
\* message of the block and its own exactly once, and never exceeds the
\* gas used by the whole block.
ReceiptsCumulativeConsistent ==
    committed =>
      \A a, b \in DOMAIN records :
        LET ra == GetTransactionReceipt(a)
            rb == GetTransactionReceipt(b)
        IN /\ rb.cumulativeGasUsed
                 <= SumSeq([t \in 1..Len(block) |-> TxResultGasUsed(block[t])])
           /\ ra.transactionIndex < rb.transactionIndex =>
                ra.cumulativeGasUsed + records[b].gasUsed <= rb.cumulativeGasUsed

\* The logs of a receipt are the logs the EVM emitted for that message,
\* byte for byte: through the record's tx and msg index, the event the
\* message wrote, and the hex strings of the proto logs (checksummed
\* addresses included) converted back by ToEthereum, for every message of
\* a batch transaction.
ReceiptLogsAsEmitted ==
    committed =>
      \A h \in DOMAIN records :
        GetTransactionReceipt(h).found = "ok" =>
            GetTransactionReceipt(h).logs = MsgOf(h).logs

\* The gas a receipt reports never exceeds the transaction's gas limit
\* (spec: gasUsed <= gasWanted always); getGasUsed's comment says the
\* patch for reverted transactions returns the real gas charged.
ReceiptGasUsedWithinGasLimit ==
    committed =>
      \A h \in DOMAIN records : GetTransactionReceipt(h).gasUsed <= MsgOf(h).gas

=============================================================================

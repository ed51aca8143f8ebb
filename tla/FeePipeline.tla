----------------------------- MODULE FeePipeline -----------------------------
(***************************************************************************)
(* Admission and execution of transactions in DeliverTx (spec.md §4):      *)
(* the ante handler router (src/app/ante/ante.go), the EVM decorator chain *)
(* with the minimum gas price gate, gas consumption, the staking-reward    *)
(* fallback, CanTransfer and the sender sequence increment, then           *)
(* ApplyTransaction: EVM execution, GasToRefund, the minimum gas           *)
(* multiplier, RefundGas and the gas meter reset.                          *)
(*                                                                         *)
(* Transactions are delivered one at a time (spec §5).  The ante chain     *)
(* runs on a branch of the ledger written back only if every decorator     *)
(* succeeds; the message runs on another branch written back only if       *)
(* ApplyTransaction returns no error, so its fee and nonce stay.           *)
(* Only the decorators' effects on the ledger are modelled; the cosmos and *)
(* EIP-712 chains the router dispatches to are external collaborators.     *)
(***************************************************************************)
EXTENDS Integers, Sequences, FiniteSets

CONSTANTS
    Accounts,           \* externally owned accounts
    Txs,                \* the transactions a client may submit
    BaseFee,            \* fee market base fee of the block, 0 = disabled
    MinGasPrice,        \* fee market MinGasPrice, 0 = no gate
    IntrinsicGas,       \* intrinsic gas of every modelled transaction
    BlockGasLimit,      \* max gas of a block
    RefundQuotient,     \* params.RefundQuotient (London: 5)
    MinGasMultiplier,   \* <<num, den>>: share of the gas limit always charged
    MaxRefundCounter,   \* largest refund counter an execution accumulates
    InitBalance,        \* [Accounts -> Nat]
    InitRewards,        \* [Accounts -> Nat], pending delegation rewards
    MaxTxs              \* bound on delivered transactions

\* Extension option type URLs (constants.EthermintExtensionOptions*).
ExtEthereumTx == "EthereumTx"
ExtWeb3Tx     == "Web3Tx"
ExtDynamicFee == "DynamicFeeTx"

ASSUME /\ BaseFee \in Nat /\ MinGasPrice \in Nat
       /\ IntrinsicGas \in Nat /\ BlockGasLimit \in Nat
       /\ RefundQuotient \in Nat \ {0}
       /\ MinGasMultiplier[1] \in Nat /\ MinGasMultiplier[2] \in Nat \ {0}
       /\ MinGasMultiplier[1] <= MinGasMultiplier[2]

VARIABLES
    ledger,      \* balances, pending rewards, nonces, fee collector, contract
    phase,       \* "idle" or "admitted" (ante done, message pending)
    cur,         \* the transaction being processed
    delivered,   \* number of transactions delivered
    \* history variables, used only by the properties
    pre,         \* the ledger when cur was delivered
    outcome,     \* what became of cur
    gasUsed      \* ExecutionResult.GasUsed of cur

vars == <<ledger, phase, cur, delivered, pre, outcome, gasUsed>>

Outcomes == {"none", "rejected", "external", "admitted", "success",
             "reverted", "failed"}

MinNat(a, b) == IF a <= b THEN a ELSE b
MaxNat(a, b) == IF a >= b THEN a ELSE b

-----------------------------------------------------------------------------
(* The router (NewAnteHandler): the first extension option decides; a tx   *)
(* without extension options is a plain cosmos tx; nil is no tx at all.    *)
AnteRoute(tx) ==
    IF tx.extOpts # <<>>
    THEN CASE Head(tx.extOpts) = ExtEthereumTx -> "evm"
           [] Head(tx.extOpts) = ExtWeb3Tx     -> "eip712"
           [] Head(tx.extOpts) = ExtDynamicFee -> "cosmos"
           [] OTHER                            -> "ErrUnknownExtensionOptions"
    ELSE IF tx.isSdkTx THEN "cosmos" ELSE "ErrUnknownRequest"

\* effectiveGasPrice: the flat price, or min(feeCap, baseFee + tipCap).
EffectiveGasPrice(tx) ==
    IF tx.type = "legacy" THEN tx.gasPrice
    ELSE MinNat(tx.gasFeeCap, BaseFee + tx.gasTipCap)

\* EthMinGasPriceDecorator: no gate when MinGasPrice is 0.
MinGasPriceOK(tx) == MinGasPrice = 0 \/ EffectiveGasPrice(tx) >= MinGasPrice

\* A dynamic fee transaction whose fee cap is below the base fee is refused.
BaseFeeOK(tx) == tx.type = "legacy" \/ tx.gasFeeCap >= BaseFee

GasLimitOK(tx) == IntrinsicGas <= tx.gasLimit /\ tx.gasLimit <= BlockGasLimit

RequiredFee(tx) == EffectiveGasPrice(tx) * tx.gasLimit

(* EthGasConsumeDecorator on ledger l: deduct the fee into the fee         *)
(* collector, first withdrawing all pending delegation rewards of the      *)
(* sender if its balance falls short.  ok is FALSE on InsufficientFunds.   *)
DeductFee(l, tx) ==
    LET s        == tx.from
        short    == l.balance[s] < RequiredFee(tx)
        funds    == l.balance[s] + (IF short THEN l.rewards[s] ELSE 0)
        withdrew == [l EXCEPT !.balance[s] = funds,
                              !.rewards[s] = IF short THEN 0 ELSE @]
    IN [ok     |-> funds >= RequiredFee(tx),
        ledger |-> [withdrew EXCEPT !.balance[s] = @ - RequiredFee(tx),
                                    !.collector = @ + RequiredFee(tx)]]

\* Mutant of CanTransfer, for the mutation runs: the value is not checked.
CanTransferUnchecked(l, tx) == l.balance[tx.from] >= 0

\* CanTransferDecorator: the EVM's own rule, balance >= value.
CanTransfer(l, tx) == l.balance[tx.from] >= tx.value

\* EthIncrementSenderSequenceDecorator: nonce + 1, create or call alike.
IncrementSequence(l, tx) == [l EXCEPT !.nonce[tx.from] = @ + 1]

\* The checks that come before any write: message type, minimum gas
\* price, nonce, gas limit bounds and base fee.
PreChecksOK(tx) ==
    /\ tx.isEthMsg
    /\ MinGasPriceOK(tx)
    /\ tx.nonce = ledger.nonce[tx.from]
    /\ GasLimitOK(tx)
    /\ BaseFeeOK(tx)

(* The EVM ante chain on a branch of the ledger: written back only when   *)
(* every decorator succeeds, else the transaction is rejected unchanged.  *)
DeliverAnte(tx) ==
    LET charged == DeductFee(ledger, tx)
        passes  == /\ PreChecksOK(tx)
                   /\ charged.ok
                   /\ CanTransfer(charged.ledger, tx)
    IN /\ AnteRoute(tx) = "evm"
       /\ IF passes
          THEN /\ ledger' = IncrementSequence(charged.ledger, tx)
               /\ phase' = "admitted" /\ outcome' = "admitted"
          ELSE /\ phase' = "idle" /\ outcome' = "rejected"
               /\ UNCHANGED ledger

\* A transaction arrives: the router picks a chain or rejects it.
DeliverTx ==
    /\ phase = "idle"
    /\ delivered < MaxTxs
    /\ \E tx \in Txs :
        /\ cur' = tx
        /\ pre' = ledger
        /\ delivered' = delivered + 1
        /\ gasUsed' = 0
        /\ \/ DeliverAnte(tx)
           \/ /\ AnteRoute(tx) \in {"eip712", "cosmos"}
              /\ outcome' = "external" /\ UNCHANGED <<ledger, phase>>
           \/ /\ AnteRoute(tx) \notin {"evm", "eip712", "cosmos"}
              /\ outcome' = "rejected" /\ UNCHANGED <<ledger, phase>>

-----------------------------------------------------------------------------
\* GasToRefund: refund counter capped at gasUsed / refundQuotient.
GasToRefund(availableRefund, gasConsumed, refundQuotient) ==
    MinNat(availableRefund, gasConsumed \div refundQuotient)

\* Gas charged: what execution used net of refunds, but at least the
\* min gas multiplier share of the gas limit (truncated).
ChargedGas(tx, used, refundCounter) ==
    MaxNat(used - GasToRefund(refundCounter, used, RefundQuotient),
           (tx.gasLimit * MinGasMultiplier[1]) \div MinGasMultiplier[2])

(* Mutant of RefundAmount, for the mutation runs: leftover gas refunded   *)
(* at the fee cap instead of the price the fee was charged at.            *)
RefundAtFeeCap(tx, leftover) ==
    leftover * (IF tx.type = "legacy" THEN tx.gasPrice ELSE tx.gasFeeCap)

\* RefundGas: leftover gas is paid back at the effective gas price.
RefundAmount(tx, leftover) == leftover * EffectiveGasPrice(tx)

\* The EVM leaves the sender's nonce as the ante chain set it: for a
\* create, it is reset to the tx nonce before evm.Create and set to
\* nonce + 1 after it.
NonceAfterExecution(tx, n) == n

\* Value moves to the recipient, or to the created contract.
TransferValue(l, tx) ==
    IF tx.create
    THEN [l EXCEPT !.balance[tx.from] = @ - tx.value,
                   !.contract = @ + tx.value]
    ELSE [[l EXCEPT !.balance[tx.from] = @ - tx.value]
             EXCEPT !.balance[tx.to] = @ + tx.value]

(* ApplyTransaction on the admitted transaction.  The EVM is opaque: it   *)
(* succeeds or reverts having used some gas and accumulated a refund      *)
(* counter, or ApplyMessage fails (e.g. the state DB commit).  A failure, *)
(* including RefundGas finding the fee collector short, discards the      *)
(* message branch: the fee for the whole gas limit and the nonce stay.    *)
ApplyTransaction ==
    /\ phase = "admitted"
    /\ \E vm \in {"success", "revert", "error"},
          used \in IntrinsicGas..cur.gasLimit,
          counter \in 0..MaxRefundCounter :
        LET charged  == ChargedGas(cur, used, counter)
            refund   == RefundAmount(cur, cur.gasLimit - charged)
            executed == IF vm = "success" THEN TransferValue(ledger, cur)
                        ELSE ledger
            nonced   == [executed EXCEPT !.nonce[cur.from] =
                            NonceAfterExecution(cur, @)]
        IN IF vm # "error" /\ ledger.collector >= refund
           THEN /\ ledger' = [nonced EXCEPT !.collector = @ - refund,
                                            !.balance[cur.from] = @ + refund]
                /\ gasUsed' = charged
                /\ outcome' = IF vm = "success" THEN "success" ELSE "reverted"
           ELSE /\ gasUsed' = cur.gasLimit
                /\ outcome' = "failed"
                /\ UNCHANGED ledger
    /\ phase' = "idle"
    /\ UNCHANGED <<cur, delivered, pre>>

-----------------------------------------------------------------------------
Init ==
    /\ ledger = [balance   |-> InitBalance,
                 rewards   |-> InitRewards,
                 nonce     |-> [a \in Accounts |-> 0],
                 collector |-> 0,
                 contract  |-> 0]
    /\ phase = "idle"
    /\ cur = CHOOSE tx \in Txs : TRUE
    /\ delivered = 0
    /\ pre = ledger
    /\ outcome = "none"
    /\ gasUsed = 0

\* The block ends once MaxTxs transactions were delivered.
BlockDone ==
    /\ phase = "idle" /\ delivered = MaxTxs
    /\ UNCHANGED vars

Next == DeliverTx \/ ApplyTransaction \/ BlockDone

Spec == Init /\ [][Next]_vars

-----------------------------------------------------------------------------
(* Properties *)

TypeOK ==
    /\ ledger.balance \in [Accounts -> Nat]
    /\ ledger.rewards \in [Accounts -> Nat]
    /\ ledger.nonce \in [Accounts -> Nat]
    /\ ledger.collector \in Nat /\ ledger.contract \in Nat
    /\ phase \in {"idle", "admitted"}
    /\ cur \in Txs
    /\ delivered \in 0..MaxTxs
    /\ outcome \in Outcomes
    /\ gasUsed \in Nat

\* Once ApplyTransaction is done, the sender paid exactly the effective gas
\* price times the gas reported in the result, plus the value it sent,
\* net of the rewards the fallback withdrew into its balance: the fee
\* deducted by the ante chain less the refund RefundGas credited matches
\* the receipt (spec P1).
SenderPaysExactlyGasUsed ==
    outcome \in {"success", "reverted", "failed"} =>
        LET s        == cur.from
            withdrawn == pre.rewards[s] - ledger.rewards[s]
            sent     == IF outcome = "success" /\ (cur.create \/ cur.to # s)
                        THEN cur.value ELSE 0
        IN ledger.balance[s] =
               pre.balance[s] + withdrawn
                 - EffectiveGasPrice(cur) * gasUsed - sent

=============================================================================

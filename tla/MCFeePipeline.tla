-------------------------- MODULE MCFeePipeline ---------------------------
(***************************************************************************)
(* Model-checking instance of FeePipeline: two accounts, base fee 1,      *)
(* minimum gas price 1, intrinsic gas 1, block gas limit 4, London refund *)
(* quotient scaled to 2 and the min gas multiplier 1/2, three deliveries. *)
(* a1 has balance and no rewards, a2 little balance and rewards, so that  *)
(* the reward fallback both rescues and fails to rescue a fee.  The        *)
(* transactions cover every router branch, a fee cap below the base fee, *)
(* a fee cap above the effective price, a contract creation, and a value  *)
(* the balance no longer covers once the fee is deducted.                 *)
(***************************************************************************)
EXTENDS FeePipeline

MCAccounts == {"a1", "a2"}

EthTx(type, from, to, nonce, gasLimit, price, feeCap, tipCap, value, create) ==
    [extOpts |-> <<ExtEthereumTx>>, isSdkTx |-> TRUE, isEthMsg |-> TRUE,
     type |-> type, from |-> from, to |-> to, nonce |-> nonce,
     gasLimit |-> gasLimit, gasPrice |-> price, gasFeeCap |-> feeCap,
     gasTipCap |-> tipCap, value |-> value, create |-> create]

\* A transaction of another shape, as the router sees it.
OtherTx(extOpts, isSdkTx, isEthMsg) ==
    [EthTx("legacy", "a1", "a2", 0, 2, 1, 1, 1, 0, FALSE)
        EXCEPT !.extOpts = extOpts, !.isSdkTx = isSdkTx, !.isEthMsg = isEthMsg]

MCTxs ==
    { \* a1 pays 2 and sends 1
      EthTx("legacy",  "a1", "a2", 0, 2, 1, 1, 1, 1, FALSE),
      \* a1 pays 8 of its 8: nothing left for the value
      EthTx("legacy",  "a1", "a2", 0, 4, 2, 2, 2, 1, FALSE),
      \* a2 creates a contract at price min(3, 1 + 1) = 2, fee 8 via rewards
      EthTx("dynamic", "a2", "a2", 0, 4, 0, 3, 1, 0, TRUE),
      \* a2 at price 4, fee 16: rewards do not cover it
      EthTx("dynamic", "a2", "a1", 0, 4, 0, 4, 4, 0, FALSE),
      \* a2's second transaction, price 1
      EthTx("dynamic", "a2", "a1", 1, 2, 0, 2, 0, 1, FALSE),
      \* fee cap below the base fee
      EthTx("dynamic", "a1", "a2", 0, 2, 0, 0, 0, 0, FALSE),
      \* EthereumTx extension around a non-EVM message
      OtherTx(<<ExtEthereumTx>>, TRUE, FALSE),
      OtherTx(<<ExtWeb3Tx>>, TRUE, FALSE),
      OtherTx(<<ExtDynamicFee>>, TRUE, FALSE),
      OtherTx(<<"Unknown", ExtEthereumTx>>, TRUE, FALSE),
      OtherTx(<<>>, TRUE, FALSE),
      OtherTx(<<>>, FALSE, FALSE) }

MCBaseFee == 1
MCMinGasPrice == 1
MCIntrinsicGas == 1
MCBlockGasLimit == 4
MCRefundQuotient == 2
MCMinGasMultiplier == <<1, 2>>
MCMaxRefundCounter == 2
MCInitBalance == [a \in MCAccounts |-> IF a = "a1" THEN 8 ELSE 2]
MCInitRewards == [a \in MCAccounts |-> IF a = "a1" THEN 0 ELSE 6]
MCMaxTxs == 3

=============================================================================

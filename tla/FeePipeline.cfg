CONSTANTS
    Accounts <- MCAccounts
    Txs <- MCTxs
    BaseFee <- MCBaseFee
    MinGasPrice <- MCMinGasPrice
    IntrinsicGas <- MCIntrinsicGas
    BlockGasLimit <- MCBlockGasLimit
    RefundQuotient <- MCRefundQuotient
    MinGasMultiplier <- MCMinGasMultiplier
    MaxRefundCounter <- MCMaxRefundCounter
    InitBalance <- MCInitBalance
    InitRewards <- MCInitRewards
    MaxTxs <- MCMaxTxs
SPECIFICATION Spec
INVARIANT TypeOK
INVARIANT SenderPaysExactlyGasUsed

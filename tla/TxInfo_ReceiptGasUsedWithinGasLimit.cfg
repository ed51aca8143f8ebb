CONSTANTS
    TxShapes <- MCTxShapes
    MaxTxs <- MCMaxTxs
    BlockHeights <- MCBlockHeights
    FixRevertGasRefundHeight <- MCFixRevertGasRefundHeight
    WordModulus <- MCWordModulus
    AddrLen <- MCAddrLen
    HashLen <- MCHashLen
SPECIFICATION Spec
INVARIANT ReceiptGasUsedWithinGasLimit

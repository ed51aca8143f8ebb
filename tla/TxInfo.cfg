CONSTANTS
    TxShapes <- MCTxShapes
    MaxTxs <- MCMaxTxs
    BlockHeights <- MCBlockHeights
    FixRevertGasRefundHeight <- MCFixRevertGasRefundHeight
    WordModulus <- MCWordModulus
    AddrLen <- MCAddrLen
    HashLen <- MCHashLen
SPECIFICATION Spec
INVARIANT TypeOK
INVARIANT ByHashAndByIndexAgree
INVARIANT ReceiptsCumulativeConsistent
INVARIANT ReceiptLogsAsEmitted

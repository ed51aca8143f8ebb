----------------------------- MODULE MCTxInfo ------------------------------
(***************************************************************************)
(* Model-checking instance of TxInfo: three submissions from four shapes: *)
(* a plain Ethereum tx, one that reverts at gas price 3, a batch of two   *)
(* Ethereum messages, and a cosmos tx whose gas the receipts count too.   *)
(* The block is committed at height 1, below the fix height 2, or at 2.   *)
(* The 64-bit word is scaled to 4 bits.  Addresses and hashes are two     *)
(* bytes; the plain tx emits two logs, so that their order and indexes    *)
(* tell them apart, and each message of the batch emits its own log.      *)
(* The bytes 0x1f, 0xab and 0x00 have digits, letters of either case and  *)
(* zeros.                                                                  *)
(***************************************************************************)
EXTENDS TxInfo

L(addr, topics, index) ==
    [address |-> addr, topics |-> topics, data |-> <<index>>, blockNumber |-> 1,
     txHash |-> <<index, 171>>, txIndex |-> 0, index |-> index,
     blockHash |-> <<171, 0>>, removed |-> FALSE]

Log1 == L(<<31, 171>>, <<<<0, 31>>, <<171, 171>>>>, 0)
Log2 == L(<<171, 0>>, <<>>, 1)
Log3 == L(<<0, 0>>, <<<<31, 0>>>>, 2)

M(used, gas, price, failed, logs) ==
    [used |-> used, gas |-> gas, price |-> price, failed |-> failed, logs |-> logs]

MCTxShapes ==
    { [id |-> 0, eth |-> TRUE,  msgs |-> <<M(1, 2, 1, FALSE, <<Log1, Log2>>)>>],
      [id |-> 0, eth |-> TRUE,  msgs |-> <<M(2, 2, 3, TRUE, <<>>)>>],
      [id |-> 0, eth |-> TRUE,  msgs |-> <<M(1, 2, 1, FALSE, <<Log2>>),
                                          M(2, 2, 1, FALSE, <<Log3>>)>>],
      [id |-> 0, eth |-> FALSE, msgs |-> <<M(2, 2, 1, FALSE, <<>>)>>] }

MCMaxTxs == 3
MCBlockHeights == {1, 2}
MCFixRevertGasRefundHeight == 2
MCWordModulus == 16
MCAddrLen == 2
MCHashLen == 2

=============================================================================

------------------------------- MODULE EvmLogs -------------------------------
(***************************************************************************)
(* The conversions between go-ethereum logs and the chain's proto logs    *)
(* (src/x/evm/types/logs.go).  A go-ethereum log holds its address and    *)
(* hashes as bytes; the proto log holds them as hex strings.  The hex     *)
(* conversions of go-ethereum are modelled by what they do:               *)
(*   - Address.String() is "0x" and the EIP-55 checksummed hex, whose      *)
(*     letter case depends on a hash of the address; Hash.String() is     *)
(*     "0x" and lower-case hex;                                            *)
(*   - HexToAddress and HexToHash strip "0x", put a "0" before an odd      *)
(*     number of digits, decode digit pairs up to the first invalid one,   *)
(*     then keep the last AddrLen (HashLen) bytes or pad on the left with  *)
(*     zeros.                                                              *)
(* A hex string is [has0x, chars]; a char is a nibble 0..15 with its case, *)
(* or the nibble Invalid for any other character.  Widths are scaled down: *)
(* AddrLen and HashLen bytes instead of 20 and 32.                        *)
(***************************************************************************)
EXTENDS Naturals, Sequences

CONSTANTS AddrLen, HashLen

Invalid == 16

\* A hex char; only the letters a-f have a case.
Char(d, upper) == [d |-> d, upper |-> upper /\ d >= 10]

\* The two hex digits of each byte, high nibble first.
Nibbles(b) == [i \in 1..2 * Len(b) |->
                 IF i % 2 = 1 THEN b[(i + 1) \div 2] \div 16 ELSE b[i \div 2] % 16]

\* Stand-in for the EIP-55 rule (a letter is upper case when the matching
\* nibble of keccak256 of the lower-case hex is 8 or more): a fixed
\* function of the address and the position.
ChecksumUpper(b, i) == (b[1] + i) % 2 = 1

\* common.Address.String(): "0x" and the checksummed hex.
AddressString(b) ==
    [has0x |-> TRUE,
     chars |-> [i \in 1..2 * Len(b) |-> Char(Nibbles(b)[i], ChecksumUpper(b, i))]]

\* common.Hash.String(): "0x" and lower-case hex.
HashString(b) ==
    [has0x |-> TRUE, chars |-> [i \in 1..2 * Len(b) |-> Char(Nibbles(b)[i], FALSE)]]

\* hexutil FromHex: strip "0x", a "0" before an odd number of digits, then
\* Hex2Bytes, which keeps the bytes decoded before the first invalid pair.
FromHex(s) ==
    LET cs == IF Len(s.chars) % 2 = 1 THEN <<Char(0, FALSE)>> \o s.chars ELSE s.chars
        bad == {i \in 1..Len(cs) : cs[i].d = Invalid}
        pairs == IF bad = {} THEN Len(cs) \div 2
                 ELSE ((CHOOSE i \in bad : \A j \in bad : i <= j) - 1) \div 2
    IN [k \in 1..pairs |-> 16 * cs[2 * k - 1].d + cs[2 * k].d]

\* BytesToAddress / BytesToHash: the last n bytes, or left-padded with 0.
SetBytes(b, n) ==
    IF Len(b) > n THEN SubSeq(b, Len(b) - n + 1, Len(b))
    ELSE [i \in 1..n - Len(b) |-> 0] \o b

HexToAddress(s) == SetBytes(FromHex(s), AddrLen)
HexToHash(s) == SetBytes(FromHex(s), HashLen)

-----------------------------------------------------------------------------
\* NewLogFromEth: the proto log of a go-ethereum log.
NewLogFromEth(log) ==
    [address     |-> AddressString(log.address),
     topics      |-> [i \in DOMAIN log.topics |-> HashString(log.topics[i])],
     data        |-> log.data,
     blockNumber |-> log.blockNumber,
     txHash      |-> HashString(log.txHash),
     txIndex     |-> log.txIndex,
     index       |-> log.index,
     blockHash   |-> HashString(log.blockHash),
     removed     |-> log.removed]

\* (*Log).ToEthereum: the go-ethereum log of a proto log.
ToEthereum(log) ==
    [address     |-> HexToAddress(log.address),
     topics      |-> [i \in DOMAIN log.topics |-> HexToHash(log.topics[i])],
     data        |-> log.data,
     blockNumber |-> log.blockNumber,
     txHash      |-> HexToHash(log.txHash),
     txIndex     |-> log.txIndex,
     index       |-> log.index,
     blockHash   |-> HexToHash(log.blockHash),
     removed     |-> log.removed]

\* Mutant of NewLogsFromEth, for the mutation runs: every element converted
\* from the first log.
NewLogsFromEthFirst(logs) == [i \in DOMAIN logs |-> NewLogFromEth(logs[1])]

NewLogsFromEth(logs) == [i \in DOMAIN logs |-> NewLogFromEth(logs[i])]

LogsToEthereum(logs) == [i \in DOMAIN logs |-> ToEthereum(logs[i])]

=============================================================================

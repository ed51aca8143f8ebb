------------------------------ MODULE TestnetIP ------------------------------
(***************************************************************************)
(* Peer addresses of `testnet init-files` (src/client/testnet.go): the    *)
(* loop over validators asks getIP for the i-th address, which            *)
(* calculateIP derives from --starting-ip-address by incrementing the     *)
(* last byte of the IPv4 address i times.  A byte increment wraps modulo  *)
(* 256 and nothing carries into the third byte.  An address is a tuple of *)
(* four bytes; parsing the flag is abstracted to choosing the tuple.      *)
(***************************************************************************)
EXTENDS Naturals, Sequences

CONSTANTS
    StartingIP,      \* <<b1, b2, b3, b4>>, the parsed --starting-ip-address
    NumValidators    \* --v

ASSUME /\ StartingIP \in [1..4 -> 0..255]
       /\ NumValidators \in Nat

VARIABLES
    i,        \* loop index of initTestnetFiles
    peers     \* the addresses handed out so far, in validator order

vars == <<i, peers>>

\* `for j := 0; j < n; j++ { ipv4[3]++ }` on a byte slice.
RECURSIVE IncrementLastByte(_, _)
IncrementLastByte(ipv4, n) ==
    IF n = 0 THEN ipv4
    ELSE IncrementLastByte([ipv4 EXCEPT ![4] = (@ + 1) % 256], n - 1)

CalculateIP(ip, idx) == IncrementLastByte(ip, idx)

\* One iteration of the validator loop: node i gets the i-th address.
InitNode ==
    /\ i < NumValidators
    /\ peers' = Append(peers, CalculateIP(StartingIP, i))
    /\ i' = i + 1

Done == i = NumValidators /\ UNCHANGED vars

Init == i = 0 /\ peers = <<>>

Next == InitNode \/ Done

Spec == Init /\ [][Next]_vars

-----------------------------------------------------------------------------
TypeOK ==
    /\ i \in 0..NumValidators
    /\ peers \in Seq([1..4 -> 0..255])

\* The next IPv4 address: the last byte that is not 255 goes up by one and
\* every byte after it becomes 0 (carry).
NextAddress(ip) ==
    LET k == CHOOSE j \in 1..4 : ip[j] < 255 /\ \A m \in j+1..4 : ip[m] = 255
    IN [j \in 1..4 |-> IF j < k THEN ip[j] ELSE IF j = k THEN ip[j] + 1 ELSE 0]

RECURSIVE AddressPlus(_, _)
AddressPlus(ip, n) == IF n = 0 THEN ip ELSE AddressPlus(NextAddress(ip), n - 1)

\* The --starting-ip-address help promises consecutive addresses
\* ("192.168.0.1 results in ID0@192.168.0.1, ID1@192.168.0.2, ..."):
\* validator k gets the starting address plus k, as a 32-bit address.
PeersAreConsecutive ==
    \A k \in 1..Len(peers) :
        peers[k] = AddressPlus(StartingIP, k - 1)

=============================================================================

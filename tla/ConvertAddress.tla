---------------------------- MODULE ConvertAddress ----------------------------
(***************************************************************************)
(* `kairosd convert-address [address] [?next-bech32]`                      *)
(* (src/cmd/kairosd/convert_address.go).  The Run handler classifies the   *)
(* lower-cased address as hex with 0x, hex without 0x, or bech32, decodes  *)
(* it to bytes, prints the bytes, the bech32 form under the chain's prefix *)
(* and, if asked, the bech32 form under the next prefix; any error prints  *)
(* a message and exits 1.                                                  *)
(*                                                                         *)
(* Strings are abstracted to what the code tells apart: a hex string is    *)
(* its payload and whether it has 0x; a bech32 string is its prefix (hrp), *)
(* its payload and whether its checksum holds.  A payload is a record      *)
(* with its length in bytes.  The hrps in the model contain letters that   *)
(* are not hex digits, so no bech32 string matches the hex patterns.      *)
(***************************************************************************)
EXTENDS Naturals, Sequences

CONSTANTS
    Payloads,       \* byte strings: records with a field len (bytes)
    Hrps,           \* bech32 prefixes an input address may have
    Bech32Prefix,   \* constants.Bech32Prefix
    NextArgs        \* second arguments: [hrp, trailingOne], or None

None == [hrp |-> ""]
NoAddr == [enc |-> "none"]

HexAddr(p, b) == [enc |-> "hex", prefix0x |-> p, bytes |-> b]
BechAddr(h, b, ok) == [enc |-> "bech32", hrp |-> h, bytes |-> b, checksum |-> ok]
Other == [enc |-> "other"]

Inputs ==
    {HexAddr(p, b) : p \in BOOLEAN, b \in Payloads} \cup
    {BechAddr(h, b, ok) : h \in Hrps, b \in Payloads, ok \in BOOLEAN} \cup
    {Other}

\* The text of a second-argument hrp.
HrpText(h) == IF h.trailingOne THEN h.hrp \o "1" ELSE h.hrp

\* Mutant of NextHrp, for the mutation runs: the trailing "1" kept.
NextHrpUntrimmed(arg) == arg

\* Lines 37-40: the second argument, lower-cased, trimmed, with one
\* trailing "1" removed; what is left of "1" is "", as if none was given.
NextHrp(arg) ==
    IF arg = None \/ arg.hrp = "" THEN None ELSE [arg EXCEPT !.trailingOne = FALSE]

\* Lines 45-71, in their order: `^0x[a-f\d]+$` with length 42 or 66,
\* `^[a-f\d]+$` with length 40 or 64, else a "1" followed by the bech32
\* charset.  The lengths are those of 20- and 32-byte payloads.
Classify(src) ==
    CASE src.enc = "hex" /\ src.bytes.len \in {20, 32} ->
            [err |-> "none", bytesAddr |-> HexAddr(TRUE, src.bytes), bech |-> NoAddr]
      [] src.enc = "hex" ->
            [err |-> "invalid address length", bytesAddr |-> NoAddr, bech |-> NoAddr]
      [] src.enc = "bech32" ->
            [err |-> "none", bytesAddr |-> NoAddr, bech |-> src]
      [] OTHER ->
            [err |-> "not recognized address format", bytesAddr |-> NoAddr, bech |-> NoAddr]

\* bech32.ConvertAndEncode: 8-to-5-bit conversion and bech32.Encode, which
\* computes the checksum over any hrp without checking its characters, so
\* the error paths of lines 98-101 and 112-115 are never taken.
ConvertAndEncode(hrp, b) == BechAddr(HrpText(hrp), b, TRUE)

ChainHrp == [hrp |-> Bech32Prefix, trailingOne |-> FALSE]

\* Lines 73-81: bech32.DecodeAndConvert, then "0x" + lower-case hex.
DecodeBech32(bech) ==
    IF bech.checksum THEN [err |-> "none", bytesAddr |-> HexAddr(TRUE, bech.bytes)]
    ELSE [err |-> "failed to decode bech32 address", bytesAddr |-> NoAddr]

Line(label, value) == [label |-> label, value |-> value]
Result(out, err) == [out |-> out, status |-> IF err = "none" THEN "ok" ELSE err]

\* The whole Run handler: what it prints and how it ends.
Run(src, arg) ==
    LET next == NextHrp(arg)
        c == Classify(src)
        d == IF c.bytesAddr = NoAddr /\ c.bech # NoAddr THEN DecodeBech32(c.bech)
             ELSE [err |-> "none", bytesAddr |-> c.bytesAddr]
        out1 == <<Line("Bytes", d.bytesAddr)>>
        \* lines 84-103: encode under the next hrp if given, else the chain's
        e == IF c.bech = NoAddr
             THEN ConvertAndEncode(IF next = None THEN ChainHrp ELSE next,
                                   d.bytesAddr.bytes)
             ELSE c.bech
        out2 == out1 \o <<Line(Bech32Prefix, e)>>
        \* lines 105-117
        f == ConvertAndEncode(next, d.bytesAddr.bytes)
    IN CASE c.err # "none" -> Result(<<>>, c.err)
         [] d.err # "none" -> Result(<<>>, d.err)
         [] next = None    -> Result(out2, "none")
         [] OTHER          -> Result(out2 \o <<Line(HrpText(next), f)>>, "none")

VARIABLES src, arg, out, status

vars == <<src, arg, out, status>>

Init ==
    /\ src \in Inputs
    /\ arg \in NextArgs
    /\ out = <<>>
    /\ status = "running"

RunCommand ==
    /\ status = "running"
    /\ LET r == Run(src, arg) IN out' = r.out /\ status' = r.status
    /\ UNCHANGED <<src, arg>>

Exited == status # "running" /\ UNCHANGED vars

Next == RunCommand \/ Exited

Spec == Init /\ [][Next]_vars

-----------------------------------------------------------------------------
TypeOK ==
    /\ src \in Inputs
    /\ out \in Seq([label : {"Bytes"} \cup Hrps \cup {Bech32Prefix}, value : Inputs])
    /\ status \in STRING

\* The help text shows the line "Bech32 <chain prefix>: ..." holding the
\* address under the chain's prefix and a separate line for the next
\* prefix: every "Bech32 <hrp>" line holds an address with that hrp.
LabelsMatchAddresses ==
    \A n \in 2..Len(out) : out[n].value.hrp = out[n].label

=============================================================================

---------------------------- MODULE MCConvertAddress ----------------------------
(***************************************************************************)
(* An account address (20 bytes), a contract-style 32-byte value and a    *)
(* 33-byte public key; the chain's prefix and another chain's; no second  *)
(* argument, "evmos", "evmos1" (the trailing 1 is trimmed) and "1",      *)
(* which the trim leaves empty, as if no second argument was given.      *)
(***************************************************************************)
EXTENDS ConvertAddress

MCPayloads == {[id |-> 1, len |-> 20], [id |-> 2, len |-> 32], [id |-> 3, len |-> 33]}
MCHrps == {"kairos", "evmos"}
MCBech32Prefix == "kairos"
MCNextArgs ==
    {None,
     [hrp |-> "evmos", trailingOne |-> FALSE],
     [hrp |-> "evmos", trailingOne |-> TRUE],
     [hrp |-> "", trailingOne |-> TRUE]}

=============================================================================

----------------------------- MODULE MCKairosdCli -----------------------------
(***************************************************************************)
(* convert-address over the inputs of MCConvertAddress; inspect over three *)
(* blocks, so that a store can be pruned and still hold two, and every     *)
(* kind of argument: a latest word, a rejected text, -2 and "-01" (both   *)
(* negative), "00" and every height up to one above the last block.       *)
(***************************************************************************)
EXTENDS KairosdCli, Integers

\* The values of ConvertAddress!None, InspectCmd!Latest, Bad and Num(n).

MCPayloads == {[id |-> 1, len |-> 20], [id |-> 2, len |-> 32], [id |-> 3, len |-> 33]}
MCHrps == {"kairos", "evmos"}
MCBech32Prefix == "kairos"
MCNextArgs ==
    {[hrp |-> ""],
     [hrp |-> "evmos", trailingOne |-> FALSE],
     [hrp |-> "evmos", trailingOne |-> TRUE],
     [hrp |-> "", trailingOne |-> TRUE]}

MCMaxHeight == 3
MCArgs == {[text |-> "latest"], [text |-> "bad"]} \cup {[text |-> "num", n |-> n] : n \in -2..4}

=============================================================================

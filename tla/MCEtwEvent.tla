----------------------------- MODULE MCEtwEvent -----------------------------
(* Levels, contexts and messages for TLC around a metadata array of 12     *)
(* bytes: every sum from far below the limit to beyond it occurs.          *)
EXTENDS EtwEvent

MCLevels == {[trace |-> 0, header |-> 2], [trace |-> 2, header |-> 3]}

MCPairs ==
  {[kind |-> "struct", name |-> 0, fields |-> 1],
   [kind |-> "struct", name |-> 3, fields |-> 0],
   [kind |-> "value", name |-> 1, fields |-> 0],
   [kind |-> "value", name |-> 2, fields |-> 0],
   [kind |-> "unknown", name |-> 1, fields |-> 0]}

(* All short lists, lists above the limit, and lists long enough for a     *)
(* count of three bits to lose its highest one.                            *)
MCPairLists ==
  UNION {[1 .. n -> MCPairs] : n \in 0 .. 3}
    \cup {[k \in 1 .. 4 |-> p] : p \in MCPairs}
    \cup {[k \in 1 .. 9 |-> p] : p \in MCPairs}
=============================================================================

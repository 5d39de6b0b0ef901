------------------------- MODULE MCPropertyToString -------------------------
(* Arrays, buffers and failures for TLC. *)
EXTENDS PropertyToString

CONSTANT MaxPairs      \* bound: the length of the arrays tried exhaustively

Struct(n) == [struct |-> TRUE, fields |-> n, wide |-> FALSE, name |-> 2, value |-> 0]
Text(n) == [struct |-> FALSE, fields |-> 0, wide |-> FALSE, name |-> 2, value |-> n]
Wide(n) == [struct |-> FALSE, fields |-> 0, wide |-> TRUE, name |-> 2, value |-> n]

SmallPairs == {Struct(0), Struct(1), Struct(2), Text(0), Text(2), Wide(1)}

(* Every array of at most MaxPairs pairs, well-formed or not; contexts     *)
(* nested three deep, as LOG_CONTEXT_CREATE lays them out; and structs     *)
(* that follow other structs and fields.                                   *)
MCPairArrays ==
  UNION {[1 .. n -> SmallPairs] : n \in 0 .. MaxPairs}
    \cup {<<Struct(3), Struct(2), Struct(2), Text(1), Text(1), Text(1), Text(1), Text(1)>>,
          <<Struct(1), Struct(1), Struct(0)>>,
          <<Struct(2), Text(1), Struct(2), Text(1), Wide(2), Struct(1), Text(1)>>,
          <<Text(1), Struct(2), Struct(0), Struct(1), Text(1), Text(1)>>}
=============================================================================

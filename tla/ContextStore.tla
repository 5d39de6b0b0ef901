---------------------------- MODULE ContextStore ----------------------------
(***************************************************************************)
(* What a user of log contexts relies on: a context is an immutable value, *)
(* the tree made of its properties and of a copy of its parent, whatever   *)
(* happens to the parent afterwards.                                       *)
(***************************************************************************)
EXTENDS Integers, Sequences, PropertyTypes

CONSTANTS
  Handles,       \* the contexts a program uses
  PropertyLists  \* the lists of properties they are defined with

VARIABLES
  live,      \* the contexts that exist
  contents   \* contents[h]: what the pairs of context h say, in order

storeVars == <<live, contents>>

(* What a property says, and the struct with n fields that holds it. *)
Field(p) == [struct |-> FALSE, fields |-> 0, bytes |-> InitCells(p)]
Struct(n) == [struct |-> TRUE, fields |-> n, bytes |-> <<>>]

(* inherited is what the parent says: nothing when there is no parent. *)
Tree(inherited, list) ==
  <<Struct((IF inherited = <<>> THEN 0 ELSE 1) + Len(list))>>
    \o inherited
    \o [k \in 1 .. Len(list) |-> Field(list[k])]

Init ==
  /\ live = {}
  /\ contents = [h \in Handles |-> <<>>]

(* A new context is the tree asked for, or holds nothing at all. *)
Define(h) ==
  /\ h \notin live
  /\ live' = live \cup {h}
  /\ \E list \in PropertyLists, inherited \in {<<>>} \cup {contents[p] : p \in live} :
       contents' \in {[contents EXCEPT ![h] = Tree(inherited, list)], contents}

Drop(h) ==
  /\ h \in live
  /\ live' = live \ {h}
  /\ contents' = [contents EXCEPT ![h] = <<>>]

Next == \E h \in Handles : Define(h) \/ Drop(h)

Spec == Init /\ [][Next]_storeVars
=============================================================================

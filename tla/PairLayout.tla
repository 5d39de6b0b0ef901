----------------------------- MODULE PairLayout -----------------------------
(***************************************************************************)
(* The layout of a property/value pair array, as the code that builds one  *)
(* (log_context.h) and the code that reads one                             *)
(* (log_context_property_to_string.c, log_sink_etw.c) agree on it: a       *)
(* forest in prefix order.  A struct is followed by all its fields, and    *)
(* its one-byte value counts them, a nested struct counting as one field.  *)
(***************************************************************************)
EXTENDS Integers, Sequences

(* Surplus(ps)[k]: fields promised by the first k pairs minus pairs present. *)
Surplus(ps) ==
  LET s[k \in 0 .. Len(ps)] ==
        IF k = 0 THEN 0 ELSE s[k - 1] + (IF ps[k].struct THEN ps[k].fields ELSE 0) - 1
  IN  s

(* Every subtree ends inside the array. *)
WellFormed(ps) ==
  LET s == Surplus(ps)
  IN  \A i \in 1 .. Len(ps) : \E j \in i .. Len(ps) : s[j] - s[i - 1] = -1

(* The first pair is a struct that holds all the others. *)
OneTree(ps) ==
  LET s == Surplus(ps)
  IN  /\ Len(ps) > 0
      /\ ps[1].struct
      /\ s[Len(ps)] = -1
      /\ \A k \in 0 .. Len(ps) - 1 : s[k] >= 0
=============================================================================

----------------------------- MODULE LogContext -----------------------------
(***************************************************************************)
(* Log contexts (log_context.c and the macros of log_context.h): an array  *)
(* of property/value pairs and a data area the values live in.  A context  *)
(* begins with a struct pair, continues with a copy of its parent's pairs  *)
(* and ends with its own properties.                                       *)
(*                                                                         *)
(* Memory is modelled byte by byte where it matters: a pair holds a        *)
(* pointer (the context whose area it points into, and an offset), a write *)
(* stores cells at an offset, in the area or beyond it.  A context is      *)
(* built by one thread before anyone else sees it, so that a definition is *)
(* one step.                                                               *)
(***************************************************************************)
EXTENDS Integers, Sequences, SequencesExt, PairLayout, PropertyTypes

CONSTANTS
  Handles,        \* the contexts a program uses
  PropertyLists,  \* the ... arguments of LOG_CONTEXT_CREATE, LOG_CONTEXT_LOCAL_DEFINE
  MaxPairCount,   \* LOG_MAX_STACK_PROPERTY_VALUE_PAIR_COUNT
  MaxDataSize,    \* LOG_MAX_STACK_DATA_SIZE
  LengthModulus,  \* values_data_length is a uint32_t: counts modulo 2^32
  MaxPairs,       \* bound: pairs of a created context, so of a chain of parents
  NULL            \* no context

ASSUME ContextAssumption ==
  /\ NULL \notin Handles
  /\ PropertyLists \subseteq Seq(Property)
  /\ MaxPairCount \in Nat
  /\ MaxPairs \in Nat
  /\ LengthModulus \in Nat
  /\ MaxDataSize \in 0 .. LengthModulus - 1

(* The number of fields is stored in a uint8_t. *)
ASSUME FieldCountAssumption == \A list \in PropertyLists : Len(list) < 255

(* A value function fills no more than it asked for. *)
ASSUME ReserveAssumption ==
  \A list \in PropertyLists : \A k \in DOMAIN list :
    list[k].reserved > 0 => Len(InitCells(list[k])) <= list[k].reserved

VARIABLES
  live,     \* the contexts that exist: allocated, or local and in scope
  ctx,      \* ctx[h]: LOG_CONTEXT and the memory behind it
  reports   \* log_internal_error_report was called

vars == <<live, ctx, reports>>

(* local: defined on the stack; length: values_data_length; data: the      *)
(* bytes written, by offset.  History: sound, for it and its ancestors no  *)
(* formatting failed in either pass, no argument was longer in the second  *)
(* than in the first, the bytes were not too many for a uint32_t, and no   *)
(* ancestor was emptied by a limit.                                        *)
Free ==
  [local |-> FALSE, pairs |-> <<>>, length |-> 0, data |-> <<>>,
   sound |-> TRUE]

Init ==
  /\ live = {}
  /\ ctx = [h \in Handles |-> Free]
  /\ reports = FALSE

-----------------------------------------------------------------------------
(* Sizes *)

PairCount(h) == IF h = NULL THEN 0 ELSE Len(ctx[h].pairs)
DataLength(h) == IF h = NULL THEN 0 ELSE ctx[h].length

SumOfSizes(list) == FoldLeft(LAMBDA total, p : total + GetInitDataSize(p), 0, list)

NeededPairs(parent, list) == PairCount(parent) + 1 + Len(list)

NeededData(parent, list) ==
  (DataLength(parent) + 1 + SumOfSizes(list)) % LengthModulus

-----------------------------------------------------------------------------
(* Memory *)

FieldCount(n) == <<<<"fields", n % 256>>>>

PairAt(h, type, offset) == [type |-> type, area |-> h, offset |-> offset]

(* What is found through the value pointer of a pair. *)
Read(pair) ==
  Copied(IF pair.area \in live THEN ctx[pair.area].data ELSE <<>>, pair.offset, pair.type)

-----------------------------------------------------------------------------
(* The steps of a definition, in the order of the code.  A context under   *)
(* construction is a record [pairs, data].                                 *)

(* Mutant: the inherited pairs keep pointing into the parent. *)
SharesParentValues(h, parent) ==
  [pairs |-> IF parent = NULL THEN <<>> ELSE ctx[parent].pairs, data |-> <<>>]

(* internal_log_context_init_from_parent: the pairs of the parent are      *)
(* relocated behind the struct pair and their values copied.               *)
InitFromParent(h, parent) ==
  IF parent = NULL
  THEN [pairs |-> <<>>, data |-> <<>>]
  ELSE LET inherited == ctx[parent].pairs
           moved == [i \in 1 .. Len(inherited) |->
                       [inherited[i] EXCEPT !.area = h, !.offset = @ + 1]]
           Copy(data, i) == Store(data, moved[i].offset, Read(inherited[i]))
       IN  [pairs |-> moved,
            data |-> FoldLeft(Copy, <<>>, [i \in 1 .. Len(inherited) |-> i])]

(* Mutant: the parent is not counted as a field. *)
CountsOwnFieldsOnly(h, parent, list, built) ==
  [pairs |-> <<PairAt(h, "struct", 0)>> \o built.pairs,
   data |-> Store(built.data, 0, FieldCount(Len(list)))]

(* The struct pair and the field count its value holds. *)
SetupStruct(h, parent, list, built) ==
  LET count == (IF parent # NULL THEN 1 ELSE 0) + Len(list)
  IN  [pairs |-> <<PairAt(h, "struct", 0)>> \o built.pairs,
       data |-> Store(built.data, 0, FieldCount(count))]

(* SETUP_PROPERTY_PAIR of each property, data_pos advancing. *)
SetupProperties(h, parent, list, built) ==
  LET Setup(acc, p) ==
        [pairs |-> Append(acc.pairs, PairAt(h, p.type, acc.data_pos)),
         data |-> Store(acc.data, acc.data_pos, InitCells(p)),
         data_pos |-> acc.data_pos + Advance(p)]
  IN  FoldLeft(Setup,
               [pairs |-> built.pairs, data |-> built.data, data_pos |-> 1 + DataLength(parent)],
               list)

Built(h, parent, list) ==
  SetupProperties(h, parent, list,
                  SetupStruct(h, parent, list, InitFromParent(h, parent)))

Formatted(list) ==
  \A k \in DOMAIN list : ~PrintFails(list[k], list[k].counted) /\ list[k].length <= list[k].counted

Sound(parent, list) ==
  /\ Formatted(list)
  /\ DataLength(parent) + 1 + SumOfSizes(list) < LengthModulus
  /\ parent = NULL \/ (ctx[parent].sound /\ ctx[parent].pairs # <<>>)

Defined(h, parent, list, isLocal) ==
  [local |-> isLocal,
   pairs |-> Built(h, parent, list).pairs,
   length |-> NeededData(parent, list),
   data |-> Built(h, parent, list).data,
   sound |-> Sound(parent, list)]

-----------------------------------------------------------------------------
(* LOG_CONTEXT_CREATE, log_context_create *)
Create(h, parent, list) ==
  /\ h \notin live
  /\ NeededPairs(parent, list) <= MaxPairs
  /\ live' = live \cup {h}
  /\ ctx' = [ctx EXCEPT ![h] = Defined(h, parent, list, FALSE)]
  /\ UNCHANGED reports

(* malloc failed: there is no context. *)
CreateFails(h) ==
  /\ h \notin live
  /\ UNCHANGED vars

(* LOG_CONTEXT_LOCAL_DEFINE within the limits of the stack arrays. *)
LocalDefine(h, parent, list) ==
  /\ h \notin live
  /\ NeededPairs(parent, list) <= MaxPairCount
  /\ NeededData(parent, list) <= MaxDataSize
  /\ live' = live \cup {h}
  /\ ctx' = [ctx EXCEPT ![h] = Defined(h, parent, list, TRUE)]
  /\ UNCHANGED reports

(* Beyond a limit the context exists and is empty. *)
LocalDefineTooLarge(h, parent, list) ==
  /\ h \notin live
  /\ \/ NeededPairs(parent, list) > MaxPairCount
     \/ NeededData(parent, list) > MaxDataSize
  /\ live' = live \cup {h}
  /\ ctx' = [ctx EXCEPT ![h] = [Free EXCEPT !.local = TRUE]]
  /\ reports' = TRUE

(* LOG_CONTEXT_DESTROY of a created context. *)
Destroy(h) ==
  /\ h \in live
  /\ ~ctx[h].local
  /\ live' = live \ {h}
  /\ ctx' = [ctx EXCEPT ![h] = Free]
  /\ UNCHANGED reports

(* The block a local context is defined in ends. *)
LeaveScope(h) ==
  /\ h \in live
  /\ ctx[h].local
  /\ live' = live \ {h}
  /\ ctx' = [ctx EXCEPT ![h] = Free]
  /\ UNCHANGED reports

Next ==
  \E h \in Handles :
    \/ \E parent \in live \cup {NULL}, list \in PropertyLists :
         \/ Create(h, parent, list)
         \/ LocalDefine(h, parent, list)
         \/ LocalDefineTooLarge(h, parent, list)
    \/ CreateFails(h)
    \/ Destroy(h)
    \/ LeaveScope(h)

Spec == Init /\ [][Next]_vars

-----------------------------------------------------------------------------
(* Properties *)

(* What log_context_property_to_string and the ETW sink find in the array. *)
Pair(pair) ==
  IF pair.type = "struct"
  THEN [struct |-> TRUE, fields |-> Read(pair)[1][2], bytes |-> <<>>]
  ELSE [struct |-> FALSE, fields |-> 0, bytes |-> Read(pair)]

ReadBack(h) == [i \in 1 .. Len(ctx[h].pairs) |-> Pair(ctx[h].pairs[i])]

(* Contexts keep their type, and a destroyed one leaves nothing behind. *)
TypeOK ==
  /\ live \subseteq Handles
  /\ \A h \in Handles :
       /\ ctx[h].local \in BOOLEAN
       /\ ctx[h].length \in 0 .. LengthModulus - 1
       /\ ctx[h].pairs \in Seq([type : Types, area : Handles, offset : Nat])
       /\ DOMAIN ctx[h].data \subseteq Nat
       /\ ctx[h].sound \in BOOLEAN
       /\ h \notin live => ctx[h] = Free
  /\ reports \in BOOLEAN

(* Contexts keep their type, and every byte a definition stores is inside  *)
(* the data area it counted beforehand, and no two values share a byte:    *)
(* the sizes counted by COUNT_DATA_BYTES and the advances made by          *)
(* SETUP_PROPERTY_PAIR agree for every type, on top of whatever was        *)
(* inherited, and arguments that are evaluated twice may come out shorter. *)
(* The area and the pairs of a local context are within the stack arrays,  *)
(* whatever was asked for.                                                 *)
ValuesFit ==
  /\ TypeOK
  /\ \A h \in live :
       LET c == ctx[h]
           Extent(i) == c.pairs[i].offset .. c.pairs[i].offset + Len(Read(c.pairs[i])) - 1
       IN  /\ c.sound => DOMAIN c.data \subseteq 0 .. c.length - 1
           /\ c.sound => \A i, j \in 1 .. Len(c.pairs) : i # j => Extent(i) \cap Extent(j) = {}
           /\ c.local => Len(c.pairs) <= MaxPairCount /\ c.length <= MaxDataSize

(* The pairs of a context are one tree, so that a reader of the array that *)
(* trusts the field counts visits every pair and stops at the last.        *)
ContextIsOneTree ==
  \A h \in live : ctx[h].sound /\ ctx[h].pairs # <<>> => OneTree(ReadBack(h))

(* A context is an immutable tree: the values read through its pointers    *)
(* are the ones it was defined with and, for the inherited ones, the ones  *)
(* its parent had, although the parent may have been destroyed since.      *)
Store_ == INSTANCE ContextStore
            WITH contents <- [h \in Handles |-> IF ctx[h].sound THEN ReadBack(h) ELSE <<>>]

ImplementsContextStore == Store_!Spec

-----------------------------------------------------------------------------
(* What the requirements say and the code does not do. *)

(* SRS_LOG_CONTEXT_PROPERTY_TO_STRING_42_019 and the struct layout of the  *)
(* same document: the pairs after a struct are its fields, as many as its  *)
(* field count.                                                            *)
FieldsFollowStruct == \A h \in live : WellFormed(ReadBack(h))
=============================================================================

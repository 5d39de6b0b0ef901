--------------------------- MODULE PropertyTypes ---------------------------
(***************************************************************************)
(* The types of properties (log_context_property_basic_types.c,            *)
(* log_context_property_bool_type.c, log_context_property_type_*.c): how   *)
(* many bytes a value needs, which bytes it is stored as, how far it       *)
(* advances data_pos and which bytes a copy of it takes along.             *)
(***************************************************************************)
EXTENDS Integers, Sequences, FiniteSetsExt, Memory

CONSTANTS
  WCharSize,     \* sizeof(wchar_t)
  MaxWideLength  \* LOG_MAX_WCHAR_STRING_LENGTH

ASSUME WideAssumption == WCharSize \in Nat \ {0} /\ MaxWideLength \in Nat \ {0}

Sizeof ==
  [int64_t |-> 8, uint64_t |-> 8, int32_t |-> 4, uint32_t |-> 4, int16_t |-> 2,
   uint16_t |-> 2, int8_t |-> 1, uint8_t |-> 1, bool |-> 1, struct |-> 1]

Types == DOMAIN Sizeof \cup {"ascii_char_ptr", "wchar_t_ptr"}

(* A property.  A formatted string has length characters when it is stored *)
(* and had counted when its size was asked for, as its arguments are       *)
(* evaluated each time; formatting it may fail.  A value function (a       *)
(* string, too) asks for reserved bytes both times.  Only contexts         *)
(* themselves are structs: sizeof(struct) does not compile.                *)
Property ==
  [type : Types \ {"struct"}, value : STRING, length : Nat, counted : Nat, formats : BOOLEAN,
   reserved : Nat]

IsText(type) == type \in {"ascii_char_ptr", "wchar_t_ptr"}
CharSize(type) == IF type = "wchar_t_ptr" THEN WCharSize ELSE 1

(* snprintf or swprintf of n characters returns a negative value: swprintf *)
(* also when they do not fit the buffer.                                   *)
PrintFails(p, n) == ~p.formats \/ (p.type = "wchar_t_ptr" /\ n >= MaxWideLength)

(* Mutant: the terminator is not counted. *)
ForgetsTerminator(p) ==
  IF PrintFails(p, p.counted) THEN -CharSize(p.type) ELSE CharSize(p.type) * p.counted

(* get_init_data_size of a string: a failure counts as minus a character. *)
TextInitDataSize(p) ==
  IF PrintFails(p, p.counted) THEN -CharSize(p.type) ELSE CharSize(p.type) * (p.counted + 1)

(* COUNT_DATA_BYTES *)
GetInitDataSize(p) ==
  IF p.reserved > 0 THEN p.reserved
  ELSE IF IsText(p.type) THEN TextInitDataSize(p)
  ELSE Sizeof[p.type]

(* How far data_pos advances when the property is stored: the -1 of a      *)
(* failed sprintf or swprintf is made up for by the terminator added.      *)
Advance(p) ==
  IF p.reserved > 0 THEN p.reserved
  ELSE IF ~IsText(p.type) THEN Sizeof[p.type]
  ELSE IF PrintFails(p, p.length) THEN 0
  ELSE CharSize(p.type) * (p.length + 1)

-----------------------------------------------------------------------------
(* Values as sequences of bytes *)

Nul == <<"nul", 0>>
Bytes(p, n) == [k \in 1 .. n |-> <<p.value, k>>]

(* init of a type of fixed size: memcpy *)
FixedInit(p) == Bytes(p, Sizeof[p.type])

(* n characters and a terminator *)
Text(p, n) ==
  Bytes(p, CharSize(p.type) * n) \o [k \in 1 .. CharSize(p.type) |-> Nul]

(* sprintf, swprintf or a value function: a wide string that is too long   *)
(* is cut, terminated and reported as a failure.                           *)
TextInit(p) ==
  IF ~PrintFails(p, p.length) THEN Text(p, p.length)
  ELSE IF p.formats THEN Text(p, MaxWideLength - 1)
  ELSE <<>>

(* What is stored at data_pos. *)
InitCells(p) == IF IsText(p.type) THEN TextInit(p) ELSE FixedInit(p)

-----------------------------------------------------------------------------
(* copy *)

FixedCopy(block, offset, type) == Load(block, offset, Sizeof[type])

(* strcpy and wcscpy: the characters up to the terminator, and that.  A    *)
(* string that was never terminated runs on into bytes that are not        *)
(* modelled.                                                               *)
TextCopy(block, offset, type) ==
  LET size == CharSize(type)
      IsNul(n) == \A k \in 0 .. size - 1 :
                    /\ offset + size * n + k \in DOMAIN block
                    /\ block[offset + size * n + k] = Nul
      ends == {n \in 0 .. Cardinality(DOMAIN block) : IsNul(n)}
  IN  IF ends = {} THEN <<>> ELSE Load(block, offset, size * (Min(ends) + 1))

Copied(block, offset, type) ==
  IF IsText(type) THEN TextCopy(block, offset, type) ELSE FixedCopy(block, offset, type)
=============================================================================

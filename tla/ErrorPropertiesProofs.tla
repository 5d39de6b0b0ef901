----------------------- MODULE ErrorPropertiesProofs -----------------------
(***************************************************************************)
(* Proofs about ErrorProperties, for any arguments of LOGGER_LOG_EX, any   *)
(* messages, modules, codes and limits: the bytes counted in the first     *)
(* pass hold what the second one stores, the text of a code is the first   *)
(* message found for it without its newlines, and the error logged is the  *)
(* error of the caller.                                                    *)
(***************************************************************************)
EXTENDS ErrorProperties, WellFoundedInduction, TLAPS

-----------------------------------------------------------------------------
(* The bytes of a context *)

IsOffsets(f, l) ==
  /\ f \in [0 .. Len(l) -> Nat]
  /\ f[0] = 1
  /\ \A k \in 1 .. Len(l) : f[k] = f[k - 1] + NeededSize(l[k])

(* Offsets(l)[k] is where the bytes of the first k arguments end. *)
Offsets(l) == CHOOSE f : IsOffsets(f, l)

-----------------------------------------------------------------------------
(* The inductive invariant *)

Heard == Messages \cup {None}
Looking == {"format", "strip", "answer", "next"}
Filling == {"fill"} \cup Looking

Slot ==
  [code : Codes \cup {0}, text : Texts, scan : Nat, iModule : Nat, loaded : Nat,
   heard : Seq(Heard)]

Value ==
  [kind : {"errno", "lasterror", "hresult", "other"}, offset : Nat, code : Codes \cup {0},
   text : Texts, heard : Seq(Heard), loaded : Nat]

TypeInv ==
  /\ TypeOK
  /\ list \in Lists \cup {<<>>}
  /\ slot \in Slot
  /\ values \in Seq(Value)
  /\ given \in [errno : Codes, last : Codes]

(* Where the call is in its list: a search is for a code that is listed,   *)
(* and outside of a search there is none.                                  *)
PlaceInv ==
  /\ pc = "idle" => at = 1
  /\ pc \in {"idle", "size"} => values = <<>>
  /\ pc \in Looking => at <= Len(list) /\ list[at].kind \in {"lasterror", "hresult"}
  /\ pc \in {"idle", "size", "fill", "log"} => slot = NoSlot

(* The bytes counted and the bytes filled. *)
BytesInv ==
  /\ pc = "size" => data_pos = 1 /\ length = Offsets(list)[at - 1]
  /\ pc \in Filling => data_pos = Offsets(list)[at - 1] /\ length = Offsets(list)[Len(list)]
  /\ values # <<>> => data_pos <= length
  /\ \A k \in DOMAIN values :
       values[k].offset + Len(values[k].text) + 1
         <= (IF k < Len(values) THEN values[k + 1].offset ELSE data_pos)

(* The search for a message: all answers but the last held nothing, and    *)
(* what is behind scan in the last one is newlines.                        *)
SearchInv ==
  /\ pc \in Looking => Len(slot.heard) = slot.iModule + (IF pc = "format" THEN 0 ELSE 1)
  /\ pc \in Looking =>
       \A j \in DOMAIN slot.heard :
         j < Len(slot.heard) \/ pc \in {"format", "next"} => Trim(slot.heard[j]) = <<>>
  /\ pc = "strip" =>
       /\ slot.text \in Messages
       /\ slot.text = slot.heard[Len(slot.heard)]
       /\ \A j \in slot.scan + 1 .. Len(slot.text) : slot.text[j] \in Newlines
  /\ pc = "answer" =>
       /\ slot.text \in Seq({"x"} \cup Newlines)
       /\ slot.text = Trim(slot.heard[Len(slot.heard)])
       /\ Len(slot.text) < Size

(* The error of the caller. *)
AllErrno == \A k \in DOMAIN values : values[k].kind = "errno"
Quiet == \A j \in DOMAIN list : list[j].kind # "other"
ErrorInv ==
  Quiet =>
    /\ pc \in {"size"} \cup Filling => error.errno = given.errno
    /\ pc \in {"size", "fill"} /\ AllErrno => error.last = given.last
    /\ pc \in Looking /\ AllErrno /\ list[at].kind = "lasterror" => slot.code = given.last

PropertyInv ==
  /\ TypeInv /\ PlaceInv
  /\ BytesInv
  /\ SearchInv /\ FirstMessageShown
  /\ ErrorInv /\ CallersErrorLogged
-----------------------------------------------------------------------------
(* The operators of the model *)

LEMMA SizesNat ==
  ASSUME NEW p \in Argument
  PROVE  NeededSize(p) \in Nat
BY SlotAssumption DEF Argument, NeededSize

(* Every list of arguments has its offsets, argument after argument. *)
LEMMA OffsetsExist ==
  ASSUME NEW l \in Seq(Argument)
  PROVE  \E f : IsOffsets(f, l)
<1> DEFINE Upto(f, n) ==
             /\ f \in [0 .. n -> Nat]
             /\ f[0] = 1
             /\ \A k \in 1 .. n : f[k] = f[k - 1] + NeededSize(l[k])
           T == {n \in 0 .. Len(l) : ~\E f : Upto(f, n)}
           R == OpToRel(<, Nat)
<1>1. SUFFICES T = {}
  <2>1. Len(l) \in 0 .. Len(l)
    OBVIOUS
  <2>2. \E f : Upto(f, Len(l))
    BY <1>1, <2>1
  <2> QED
    BY <2>2 DEF IsOffsets
<1>2. SUFFICES ASSUME T # {}
               PROVE  FALSE
  OBVIOUS
<1>3. T \subseteq Nat
  OBVIOUS
<1>4. PICK n \in T : \A m \in T : ~(<<m, n>> \in R)
  <2> HIDE DEF T
  <2> QED
    BY <1>2, <1>3, WFMin, NatLessThanWellFounded
<1>5. n \in 0 .. Len(l) /\ ~\E f : Upto(f, n)
  OBVIOUS
<1>6. CASE n = 0
  <2>1. Upto([k \in 0 .. 0 |-> 1], 0)
    OBVIOUS
  <2> QED
    BY <1>5, <1>6, <2>1
<1>7. CASE n > 0
  <2>1. n - 1 \in 0 .. Len(l) /\ n - 1 \in Nat /\ n - 1 < n /\ n \in Nat
    BY <1>5, <1>7
  <2>2. <<n - 1, n>> \in R
    BY <2>1 DEF OpToRel
  <2>3. n - 1 \notin T
    BY <1>4, <2>2
  <2>4. PICK f : Upto(f, n - 1)
    BY <2>1, <2>3
  <2> DEFINE h == [k \in 0 .. n |-> IF k = n THEN f[n - 1] + NeededSize(l[n]) ELSE f[k]]
  <2>5. n \in 1 .. Len(l) /\ NeededSize(l[n]) \in Nat
    BY <1>5, <1>7, SizesNat
  <2>6. h \in [0 .. n -> Nat] /\ h[0] = 1
    BY <2>1, <2>4, <2>5, <1>7
  <2>7. \A k \in 1 .. n : h[k] = h[k - 1] + NeededSize(l[k])
    <3>1. SUFFICES ASSUME NEW k \in 1 .. n
                   PROVE  h[k] = h[k - 1] + NeededSize(l[k])
      OBVIOUS
    <3>2. h[k - 1] = f[k - 1]
      BY <2>1
    <3>3. CASE k = n
      BY <2>1, <3>2, <3>3
    <3>4. CASE k < n
      <4>1. k \in 1 .. n - 1 /\ h[k] = f[k]
        BY <2>1, <3>4
      <4> QED
        BY <2>4, <3>2, <4>1
    <3> QED
      BY <2>1, <3>3, <3>4
  <2>8. Upto(h, n)
    BY <2>6, <2>7
  <2> QED
    BY <1>5, <2>8
<1> QED
  BY <1>5, <1>6, <1>7

LEMMA OffsetsOK ==
  ASSUME NEW l \in Seq(Argument)
  PROVE  IsOffsets(Offsets(l), l)
BY OffsetsExist DEF Offsets

(* They do not decrease. *)
LEMMA OffsetsGrow ==
  ASSUME NEW l \in Seq(Argument), NEW k \in 0 .. Len(l)
  PROVE  Offsets(l)[k] <= Offsets(l)[Len(l)]
<1> DEFINE o == Offsets(l)
           T == {n \in 0 .. Len(l) : ~(o[Len(l) - n] <= o[Len(l)])}
           R == OpToRel(<, Nat)
<1>1. IsOffsets(o, l)
  BY OffsetsOK
<1> HIDE DEF o
<1>2. SUFFICES ASSUME T # {}
               PROVE  FALSE
  <2>1. Len(l) - k \in 0 .. Len(l) /\ Len(l) - (Len(l) - k) = k
    OBVIOUS
  <2>2. o[k] <= o[Len(l)]
    BY <1>2, <2>1
  <2> QED
    BY <2>2 DEF o
<1>3. T \subseteq Nat
  OBVIOUS
<1>4. PICK n \in T : \A m \in T : ~(<<m, n>> \in R)
  <2> HIDE DEF T
  <2> QED
    BY <1>2, <1>3, WFMin, NatLessThanWellFounded
<1>5. n \in 0 .. Len(l) /\ ~(o[Len(l) - n] <= o[Len(l)])
  OBVIOUS
<1>6. o[Len(l)] \in Nat
  BY <1>1 DEF IsOffsets
<1>7. n > 0
  <2>1. ASSUME n = 0
        PROVE  FALSE
    <3>1. Len(l) - n = Len(l)
      BY <2>1
    <3> QED
      BY <1>5, <1>6, <3>1
  <2> QED
    BY <1>5, <2>1
<1>8. n - 1 \in 0 .. Len(l) /\ <<n - 1, n>> \in R
  BY <1>5, <1>7 DEF OpToRel
<1>9. o[Len(l) - (n - 1)] <= o[Len(l)]
  BY <1>4, <1>8
<1> DEFINE m == Len(l) - n
<1>10. m \in 0 .. Len(l) /\ m + 1 \in 1 .. Len(l) /\ Len(l) - (n - 1) = m + 1 /\ m + 1 - 1 = m
  BY <1>5, <1>7
<1>11. m = Len(l) - n
  OBVIOUS
<1> HIDE DEF m
<1>12. o[m + 1] = o[m] + NeededSize(l[m + 1])
  BY <1>1, <1>10 DEF IsOffsets
<1>13. o[m] \in Nat /\ NeededSize(l[m + 1]) \in Nat
  <2>1. l[m + 1] \in Argument
    BY <1>10
  <2> QED
    BY <1>1, <1>10, <2>1, SizesNat DEF IsOffsets
<1>14. o[m + 1] <= o[Len(l)]
  BY <1>9, <1>10
<1>15. o[m] <= o[Len(l)]
  BY <1>6, <1>12, <1>13, <1>14
<1> QED
  BY <1>5, <1>11, <1>15

(* Trim keeps the characters up to the last one that is no newline. *)
LEMMA TrimIs ==
  ASSUME NEW S, NEW m \in Seq(S), NEW n \in 0 .. Len(m),
         n = 0 \/ m[n] \notin Newlines,
         \A j \in n + 1 .. Len(m) : m[j] \in Newlines
  PROVE  Trim(m) = SubSeq(m, 1, n)
<1> DEFINE kept == {0} \cup {k \in DOMAIN m : m[k] \notin Newlines}
<1>1. n \in kept
  OBVIOUS
<1>2. \A k \in kept : k \in Nat /\ n >= k
  OBVIOUS
<1>3. Max(kept) \in kept /\ \A k \in kept : Max(kept) >= k
  <2> HIDE DEF kept
  <2>1. \E x \in kept : \A y \in kept : x >= y
    BY <1>1, <1>2
  <2> QED
    BY <2>1 DEF Max
<1>4. Max(kept) = n
  <2> HIDE DEF kept
  <2>1. Max(kept) \in Nat /\ n >= Max(kept) /\ Max(kept) >= n
    BY <1>1, <1>2, <1>3
  <2> QED
    BY <2>1
<1> QED
  BY <1>4 DEF Trim

LEMMA TrimNone == Trim(None) = <<>>
<1>1. None \in Seq({"x"})
  BY DEF None
<1>2. Len(None) = 0
  BY DEF None
<1>3. 0 \in 0 .. Len(None) /\ \A j \in 0 + 1 .. Len(None) : None[j] \in Newlines
  BY <1>2
<1>4. Trim(None) = SubSeq(None, 1, 0)
  BY <1>1, <1>3, TrimIs
<1> QED
  BY <1>1, <1>4

LEMMA ChosenTexts ==
  /\ Failure \in Texts /\ Len(Failure) < Size /\ Failure # Unknown
  /\ Unknown \in Texts /\ Len(Unknown) < Size
  /\ EnumFailed \in Texts /\ Len(EnumFailed) < Size /\ EnumFailed # Unknown
  /\ <<"x">> \in Texts /\ <<"x">> # Unknown
  /\ Seq({"x"} \cup Newlines) \subseteq Texts
  /\ None \in Seq({"x"} \cup Newlines)
<1>1. FailureLength \in Nat /\ FailureLength >= 1 /\ FailureLength < Size /\ Size \in Nat
  BY SlotAssumption
<1>2. Failure[1] = "failure" /\ Len(Failure) = FailureLength
      /\ Failure \in Seq({"failure"})
  BY <1>1 DEF Failure
<1>3. Unknown[1] = "unknown HRESULT" /\ Len(Unknown) = 1 /\ Unknown \in Seq({"unknown HRESULT"})
  BY DEF Unknown
<1>4. EnumFailed[1] = "failure in EnumProcessModules" /\ Len(EnumFailed) = 1
      /\ EnumFailed \in Seq({"failure in EnumProcessModules"})
  BY DEF EnumFailed
<1>5. \A S, T : S \subseteq T => Seq(S) \subseteq Seq(T)
  OBVIOUS
<1>6. "failure" # "unknown HRESULT" /\ "failure in EnumProcessModules" # "unknown HRESULT"
      /\ "x" # "unknown HRESULT"
  OBVIOUS
<1>7. <<"x">> \in Seq({"x"}) /\ <<"x">>[1] = "x" /\ None \in Seq({"x"} \cup Newlines)
  BY DEF None
<1>8. Failure \in Texts /\ Unknown \in Texts /\ EnumFailed \in Texts /\ <<"x">> \in Texts
      /\ Seq({"x"} \cup Newlines) \subseteq Texts
  BY <1>2, <1>3, <1>4, <1>5, <1>7, ZenonT(30) DEF Texts
<1>9. Failure # Unknown /\ EnumFailed # Unknown /\ <<"x">> # Unknown
  BY <1>2, <1>3, <1>4, <1>6, <1>7, Zenon
<1>10. Len(Failure) < Size /\ Len(Unknown) < Size /\ Len(EnumFailed) < Size
  <2>1. Len(Failure) = FailureLength /\ Len(Unknown) = 1 /\ Len(EnumFailed) = 1
    BY <1>2, <1>3, <1>4, Zenon
  <2>2. 1 < Size
    BY <1>1
  <2> QED
    BY <1>1, <2>1, <2>2
<1> QED
  BY <1>7, <1>8, <1>9, <1>10, Zenon

-----------------------------------------------------------------------------
(* A property is stored *)

(* What FirstMessageShown says of one property. *)
Shown(v) ==
  LET found == {i \in DOMAIN v.heard : Trim(v.heard[i]) # <<>>}
  IN  /\ found # {} => v.text = Trim(v.heard[Min(found)])
      /\ found = {} /\ v.heard # <<>> => v.text \in {Failure, Unknown, EnumFailed}
      /\ v.text = Unknown /\ v.loaded <= MaxModules => Len(v.heard) = 1 + v.loaded

(* A text and a code that a value function may store: the text fits, and   *)
(* says what was found; the code is the one looked up.                     *)
Stores(code, chars) ==
  /\ pc \in Filling /\ at \in 1 .. Len(list) /\ list[at].kind # "message"
  /\ code \in Codes \cup {0} /\ chars \in Texts
  /\ Len(chars) < NeededSize(list[at])
  /\ Shown(Stored(code, chars))
  /\ error' \in [errno : Codes, last : Codes]
  /\ Quiet => error'.errno = error.errno
  /\ list[at].kind = "errno" => pc = "fill" /\ error' = error /\ code = error.errno
  /\ list[at].kind = "lasterror" => pc \in Looking /\ code = slot.code

LEMMA FillStores ==
  ASSUME PropertyInv, NEW code, NEW chars, Stores(code, chars), Fill(code, chars)
  PROVE  PropertyInv'
<1> DEFINE v == Stored(code, chars)
<1>1. list \in Seq(Argument) /\ at \in 1 .. Len(list) /\ list[at] \in Argument
      /\ values \in Seq(Value)
  BY DEF PropertyInv, TypeInv, TypeOK, Stores
<1>2. v \in Value
  BY <1>1 DEF Stores, Stored, Value, PropertyInv, TypeInv, TypeOK, Slot, Argument
<1>3. values' = Append(values, v) /\ pc' = "fill" /\ slot' = NoSlot /\ at' = at + 1
      /\ data_pos' = data_pos + NeededSize(list[at])
      /\ UNCHANGED <<list, length, given>>
  BY DEF Fill
<1>4. v.offset = data_pos /\ v.text = chars /\ v.kind = list[at].kind /\ v.code = code
  BY DEF Stored
<1>5. Shown(v)
  BY DEF Stores
<1> HIDE DEF v
<1>6. /\ values' \in Seq(Value) /\ Len(values') = Len(values) + 1
      /\ values'[Len(values) + 1] = v
      /\ \A k \in 1 .. Len(values) : values'[k] = values[k]
      /\ DOMAIN values = 1 .. Len(values) /\ DOMAIN values' = 1 .. Len(values) + 1
  BY <1>1, <1>2, <1>3
<1>7. NeededSize(list[at]) \in Nat
  BY <1>1, SizesNat
<1>8. TypeInv'
  <2>1. NoSlot \in Slot /\ NoSlot.text \in Texts /\ NoSlot.iModule \in 0 .. NoSlot.loaded
    <3>1. <<>> \in Texts /\ <<>> \in Seq(Heard)
      BY DEF Texts
    <3> QED
      BY <3>1 DEF NoSlot, Slot
  <2>2. TypeOK'
    <3>1. \A k \in DOMAIN values' : values'[k].text \in Texts
      <4>1. \A k \in DOMAIN values' : values'[k] \in Value
        BY <1>6
      <4> QED
        BY <4>1 DEF Value
    <3>2. at' \in 1 .. Len(list') + 1 /\ data_pos' \in Nat
      BY <1>1, <1>3, <1>7 DEF PropertyInv, TypeInv, TypeOK
    <3> QED
      BY <1>3, <2>1, <3>1, <3>2 DEF TypeOK, PropertyInv, TypeInv, Stores
  <2> QED
    BY <1>3, <1>6, <2>1, <2>2 DEF PropertyInv, TypeInv
<1>9. PlaceInv'
  BY <1>3 DEF PlaceInv, Looking
<1>10. BytesInv'
  <2>1. IsOffsets(Offsets(list), list)
    BY <1>1, OffsetsOK
  <2>2. data_pos = Offsets(list)[at - 1] /\ length = Offsets(list)[Len(list)]
    BY DEF PropertyInv, BytesInv, Stores
  <2>3. data_pos' = Offsets(list)[at]
    BY <1>1, <1>3, <2>1, <2>2 DEF IsOffsets
  <2>4. data_pos' = Offsets(list')[at' - 1] /\ length' = Offsets(list')[Len(list')]
    BY <1>1, <1>3, <2>2, <2>3
  <2>5. data_pos' <= length'
    BY <1>1, <1>3, <2>2, <2>3, OffsetsGrow
  <2>6. ASSUME NEW k \in 1 .. Len(values) + 1
        PROVE  values'[k].offset + Len(values'[k].text) + 1
                 <= (IF k < Len(values') THEN values'[k + 1].offset ELSE data_pos')
    <3>1. CASE k = Len(values) + 1
      <4>1. data_pos \in Nat /\ Len(chars) \in Nat /\ Len(chars) < NeededSize(list[at])
        BY DEF Stores, Texts, PropertyInv, TypeInv, TypeOK
      <4>2. v.offset + Len(v.text) + 1 <= data_pos'
        BY <1>3, <1>4, <1>7, <4>1
      <4> QED
        BY <1>6, <3>1, <4>2
    <3>2. CASE k = Len(values)
      <4>1. k \in DOMAIN values /\ ~(k < Len(values))
        BY <1>6, <3>2
      <4>2. values[k].offset + Len(values[k].text) + 1 <= data_pos
        BY <4>1 DEF PropertyInv, BytesInv
      <4>3. values'[k] = values[k] /\ k < Len(values') /\ values'[k + 1] = v
        BY <1>1, <1>6, <3>2, <4>1
      <4> QED
        BY <1>4, <4>2, <4>3
    <3>3. CASE k < Len(values)
      <4>1. k \in DOMAIN values /\ k + 1 \in 1 .. Len(values)
        BY <1>1, <1>6, <3>3
      <4>2. values[k].offset + Len(values[k].text) + 1 <= values[k + 1].offset
        BY <4>1, <3>3 DEF PropertyInv, BytesInv
      <4>3. values'[k] = values[k] /\ k < Len(values') /\ values'[k + 1] = values[k + 1]
        BY <1>1, <1>6, <3>3, <4>1
      <4> QED
        BY <4>2, <4>3
    <3>4. Len(values) \in Nat
      BY <1>1
    <3> QED
      BY <3>1, <3>2, <3>3, <3>4
  <2> QED
    BY <1>3, <1>6, <2>4, <2>5, <2>6 DEF BytesInv
<1>11. SearchInv'
  BY <1>3 DEF SearchInv, Looking
<1>12. FirstMessageShown'
  <2>1. \A k \in DOMAIN values : Shown(values[k])
    BY DEF PropertyInv, FirstMessageShown, Shown
  <2>2. \A k \in DOMAIN values' : Shown(values'[k])
    <3> HIDE DEF Shown
    <3>1. \A k \in 1 .. Len(values) + 1 : k \in 1 .. Len(values) \/ k = Len(values) + 1
      BY <1>1
    <3> QED
      BY <1>5, <1>6, <2>1, <3>1
  <2> QED
    BY <2>2 DEF FirstMessageShown, Shown
<1>13. ErrorInv' /\ CallersErrorLogged'
  <2>1. SUFFICES ASSUME Quiet'
                 PROVE  ErrorInv' /\ CallersErrorLogged'
    BY DEF ErrorInv, CallersErrorLogged, Quiet
  <2>2. Quiet /\ UNCHANGED given
    BY <1>3, <2>1 DEF Quiet
  <2>3. error.errno = given.errno /\ error'.errno = given.errno
    BY <2>2 DEF PropertyInv, ErrorInv, Stores
  <2>4. AllErrno' => AllErrno /\ list[at].kind = "errno"
    BY <1>1, <1>4, <1>6 DEF AllErrno
  <2>5. ErrorInv'
    <3>1. AllErrno' => error'.last = given.last
      BY <2>2, <2>4 DEF PropertyInv, ErrorInv, Stores
    <3> QED
      BY <1>3, <2>2, <2>3, <3>1 DEF ErrorInv, Looking
  <2>6. ASSUME NEW k \in DOMAIN values'
        PROVE  /\ values'[k].kind = "errno" => values'[k].code = given.errno
               /\ values'[k].kind = "lasterror"
                    /\ {values'[j].kind : j \in 1 .. k - 1} \subseteq {"errno"}
                    => values'[k].code = given.last
    <3>1. CASE k = Len(values) + 1
      <4>1. values'[k] = v
        BY <1>6, <3>1
      <4>2. v.kind = "errno" => v.code = given.errno
        BY <1>4, <2>3 DEF Stores
      <4>3. ASSUME v.kind = "lasterror", {values'[j].kind : j \in 1 .. k - 1} \subseteq {"errno"}
            PROVE  v.code = given.last
        <5>1. AllErrno
          <6>1. k - 1 = Len(values) /\ \A j \in 1 .. Len(values) : values'[j].kind = "errno"
            <7>1. k - 1 = Len(values)
              BY <1>1, <3>1
            <7>2. \A j \in 1 .. k - 1 : values'[j].kind \in {"errno"}
              BY <4>3
            <7> QED
              BY <7>1, <7>2
          <6> QED
            BY <1>6, <6>1 DEF AllErrno
        <5> QED
          BY <1>4, <2>2, <4>3, <5>1 DEF PropertyInv, ErrorInv, Stores
      <4> QED
        BY <4>1, <4>2, <4>3
    <3>2. CASE k \in DOMAIN values
      <4>1. \A j \in 1 .. k : values'[j] = values[j]
        BY <1>1, <1>6, <3>2
      <4>2. k \in 1 .. k /\ \A j \in 1 .. k - 1 : j \in 1 .. k
        BY <1>6
      <4>3. {values'[j].kind : j \in 1 .. k - 1} = {values[j].kind : j \in 1 .. k - 1}
        BY <4>1, <4>2
      <4> QED
        BY <2>2, <3>2, <4>1, <4>2, <4>3 DEF PropertyInv, CallersErrorLogged, Quiet
    <3>3. k = Len(values) + 1 \/ k \in DOMAIN values
      BY <1>1, <1>6
    <3> QED
      BY <3>1, <3>2, <3>3
  <2>7. CallersErrorLogged'
    BY <2>2, <2>6 DEF CallersErrorLogged
  <2> QED
    BY <2>5, <2>7
<1> QED
  BY <1>8, <1>9, <1>10, <1>11, <1>12, <1>13 DEF PropertyInv

(* A text that is stored without or after a search. *)
LEMMA ShownUnfound ==
  ASSUME NEW v, v.heard \in Seq(Heard),
         \A j \in DOMAIN v.heard : Trim(v.heard[j]) = <<>>,
         v.heard = <<>> \/ v.text \in {Failure, Unknown, EnumFailed},
         v.text = Unknown => Len(v.heard) = 1 + v.loaded
  PROVE  Shown(v)
BY DEF Shown

LEMMA ShownFound ==
  ASSUME NEW v, v.heard \in Seq(Heard), v.heard # <<>>,
         \A j \in DOMAIN v.heard : j < Len(v.heard) => Trim(v.heard[j]) = <<>>,
         v.text = Trim(v.heard[Len(v.heard)]), v.text # <<>>, v.text # Unknown
  PROVE  Shown(v)
<1> DEFINE n == Len(v.heard)
           found == {i \in DOMAIN v.heard : Trim(v.heard[i]) # <<>>}
<1>1. n \in Nat /\ n > 0 /\ DOMAIN v.heard = 1 .. n
  OBVIOUS
<1>2. \A i \in 1 .. n : i < n \/ i = n
  BY <1>1
<1>3. found = {n}
  BY <1>1, <1>2
<1>4. Min(found) = n
  BY <1>1, <1>3 DEF Min
<1> QED
  BY <1>3, <1>4 DEF Shown

(* Each value function stores such a text. *)
LEMMA FillStep ==
  ASSUME PropertyInv,
         \/ FillOther \/ FillErrno \/ Answered \/ LastErrorUnknown
         \/ EnumerateFails \/ HresultUnknown
  PROVE  PropertyInv'
<1>1. /\ list \in Seq(Argument) /\ at \in 1 .. Len(list) + 1 /\ slot \in Slot
      /\ error \in [errno : Codes, last : Codes]
  BY DEF PropertyInv, TypeInv, TypeOK
<1>2. \A code, chars : /\ Stored(code, chars).text = chars
                       /\ Stored(code, chars).heard = slot.heard
                       /\ Stored(code, chars).loaded = slot.loaded
  BY DEF Stored
<1>3. slot.heard \in Seq(Heard) /\ slot.code \in Codes \cup {0}
  BY <1>1 DEF Slot
<1>4. pc = "fill" => slot.heard = <<>>
  BY DEF PropertyInv, PlaceInv, NoSlot
<1>5. Size \in Nat
  BY SlotAssumption
<1>6. CASE FillOther
  <2> DEFINE chars == [k \in 1 .. list[at].size - 1 |-> "x"]
  <2>1. pc = "fill" /\ at \in 1 .. Len(list) /\ list[at].kind = "other"
        /\ Evaluate(list[at]) /\ Fill(0, chars)
    BY <1>1, <1>6 DEF FillOther, At
  <2>2. list[at].size \in Nat /\ list[at].size > 0
    <3>1. list \in Lists
      BY <1>1, <2>1 DEF PropertyInv, TypeInv
    <3> QED
      <4>1. at \in DOMAIN list /\ list[at] \in Argument
        BY <1>1, <2>1
      <4> QED
        BY <2>1, <3>1, <4>1, ListsAssumption DEF Argument
  <2>3. chars \in Seq({"x"}) /\ Len(chars) = list[at].size - 1
    BY <2>2
  <2>4. chars \in Texts
    BY <2>3 DEF Texts
  <2>5. chars # Unknown
    <3>1. Unknown[1] = "unknown HRESULT" /\ Len(Unknown) = 1
      BY DEF Unknown
    <3>2. ASSUME Len(chars) = 1
          PROVE  chars[1] = "x"
      BY <2>2, <2>3, <3>2
    <3>3. "x" # "unknown HRESULT"
      OBVIOUS
    <3> HIDE DEF chars
    <3> QED
      BY <3>1, <3>2, <3>3, Zenon
  <2> HIDE DEF chars
  <2>6. Shown(Stored(0, chars))
    BY <1>2, <1>3, <1>4, <2>1, <2>5, ShownUnfound
  <2>7. ~Quiet
    BY <2>1 DEF Quiet
  <2>8. Len(chars) < NeededSize(list[at])
    BY <2>1, <2>2, <2>3 DEF NeededSize
  <2>9. error' \in [errno : Codes, last : Codes]
    BY <2>1 DEF Evaluate
  <2>10. Stores(0, chars)
    BY <2>1, <2>4, <2>6, <2>7, <2>8, <2>9 DEF Stores, Filling
  <2> QED
    BY <2>1, <2>10, FillStores
<1>7. CASE FillErrno
  <2>1. pc = "fill" /\ at \in 1 .. Len(list) /\ list[at].kind = "errno" /\ UNCHANGED error
    BY <1>1, <1>7 DEF FillErrno, At
  <2>2. PICK chars \in {<<"x">>, Failure} : Fill(error.errno, chars)
    BY <1>7 DEF FillErrno
  <2>3. chars \in Texts /\ chars # Unknown /\ Len(chars) < Size
    <3>1. Len(<<"x">>) = 1 /\ 1 < Size
      BY SlotAssumption
    <3> QED
      BY <3>1, ChosenTexts, Zenon
  <2>4. Shown(Stored(error.errno, chars))
    BY <1>2, <1>3, <1>4, <2>1, <2>3, ShownUnfound
  <2>5. NeededSize(list[at]) = Size
    BY <2>1 DEF NeededSize
  <2>6. Stores(error.errno, chars)
    BY <1>1, <2>1, <2>3, <2>4, <2>5 DEF Stores, Filling
  <2> QED
    BY <2>2, <2>6, FillStores
<1>8. ASSUME pc \in {"answer", "next"}
      PROVE  /\ pc \in Looking /\ at \in 1 .. Len(list)
             /\ list[at].kind \in {"lasterror", "hresult"} /\ NeededSize(list[at]) = Size
             /\ slot.heard # <<>>
             /\ Len(slot.heard) = slot.iModule + 1
             /\ \A j \in DOMAIN slot.heard :
                  j < Len(slot.heard) \/ pc = "next" => Trim(slot.heard[j]) = <<>>
  <2>1. pc \in Looking /\ at \in 1 .. Len(list) /\ list[at].kind \in {"lasterror", "hresult"}
    BY <1>1, <1>8 DEF PropertyInv, PlaceInv, Looking
  <2>2. slot.iModule \in Nat /\ Len(slot.heard) = slot.iModule + 1
    BY <1>1, <1>8, <2>1 DEF PropertyInv, SearchInv, Slot
  <2>3. slot.heard # <<>>
    BY <1>3, <2>2
  <2> QED
    BY <1>8, <2>1, <2>2, <2>3 DEF PropertyInv, SearchInv, NeededSize
<1>9. ASSUME NEW chars, pc \in {"answer", "next"}, Fill(slot.code, chars),
             chars \in Texts, Len(chars) < Size,
             error' \in [errno : Codes, last : Codes], error'.errno = error.errno,
             Shown(Stored(slot.code, chars))
      PROVE  PropertyInv'
  <2>1. Stores(slot.code, chars)
    BY <1>3, <1>8, <1>9 DEF Stores, Filling
  <2> QED
    BY <1>9, <2>1, FillStores
<1>10. ASSUME NEW chars, pc \in {"answer", "next"}, chars \in {Failure, Unknown, EnumFailed},
              chars = Unknown => slot.iModule = slot.loaded,
              pc = "answer" => slot.text = <<>>
       PROVE  chars \in Texts /\ Len(chars) < Size /\ Shown(Stored(slot.code, chars))
  <2>1. \A j \in DOMAIN slot.heard : Trim(slot.heard[j]) = <<>>
    <3>1. \A j \in DOMAIN slot.heard : j < Len(slot.heard) \/ j = Len(slot.heard)
      BY <1>3
    <3>2. pc = "answer" => Trim(slot.heard[Len(slot.heard)]) = <<>>
      BY <1>10 DEF PropertyInv, SearchInv
    <3> QED
      BY <1>8, <1>10, <3>1, <3>2
  <2>2. chars = Unknown => Len(slot.heard) = 1 + slot.loaded
    BY <1>1, <1>8, <1>10 DEF Slot
  <2>3. Shown(Stored(slot.code, chars))
    BY <1>2, <1>3, <1>10, <2>1, <2>2, ShownUnfound
  <2> QED
    BY <1>10, <2>3, ChosenTexts
<1>11. CASE Answered
  <2>1. pc = "answer" /\ slot.text # <<>> /\ Fill(slot.code, slot.text) /\ UNCHANGED error
    BY <1>11 DEF Answered
  <2>2. /\ slot.text \in Seq({"x"} \cup Newlines) /\ Len(slot.text) < Size
        /\ slot.text = Trim(slot.heard[Len(slot.heard)])
    BY <2>1 DEF PropertyInv, SearchInv
  <2>3. slot.text # Unknown
    <3>1. slot.text[1] \in {"x"} \cup Newlines
      BY <2>1, <2>2
    <3> QED
      <4>1. Unknown[1] = "unknown HRESULT"
        BY DEF Unknown
      <4>2. "unknown HRESULT" \notin {"x"} \cup Newlines
        BY DEF Newlines
      <4> QED
        BY <3>1, <4>1, <4>2
  <2>4. Shown(Stored(slot.code, slot.text))
    BY <1>2, <1>3, <1>8, <2>1, <2>2, <2>3, ShownFound
  <2> QED
    BY <1>1, <1>9, <2>1, <2>2, <2>4, ChosenTexts
<1>12. CASE LastErrorUnknown
  <2>1. pc = "answer" /\ slot.text = <<>> /\ Fill(slot.code, Failure) /\ UNCHANGED error
    BY <1>12 DEF LastErrorUnknown, Unanswered
  <2>2. Failure # Unknown
    BY ChosenTexts
  <2> QED
    BY <1>1, <1>9, <1>10, <2>1, <2>2
<1>13. CASE EnumerateFails
  <2>1. pc = "answer" /\ slot.text = <<>>
        /\ error' \in [errno : {error.errno}, last : Codes]
    BY <1>13 DEF EnumerateFails, Unanswered
  <2>2. error' \in [errno : Codes, last : Codes] /\ error'.errno = error.errno
    BY <1>1, <2>1
  <2>3. PICK chars \in {EnumFailed, Failure} : Fill(slot.code, chars)
    BY <1>13 DEF EnumerateFails
  <2>4. chars # Unknown
    BY ChosenTexts
  <2> QED
    BY <1>9, <1>10, <2>1, <2>2, <2>3, <2>4
<1>14. CASE HresultUnknown
  <2>1. pc = "next" /\ slot.iModule = slot.loaded /\ UNCHANGED error
    BY <1>14 DEF HresultUnknown
  <2>2. PICK chars \in {Unknown, Failure} : Fill(slot.code, chars)
    BY <1>14 DEF HresultUnknown
  <2> QED
    BY <1>1, <1>9, <1>10, <2>1, <2>2
<1> QED
  BY <1>6, <1>7, <1>11, <1>12, <1>13, <1>14

-----------------------------------------------------------------------------
(* The search for a message *)

(* What is said of the properties that are stored stays true. *)
LEMMA ContextKept ==
  ASSUME UNCHANGED <<list, values, given>>
  PROVE  /\ FirstMessageShown => FirstMessageShown'
         /\ CallersErrorLogged => CallersErrorLogged'
<1>1. FirstMessageShown => FirstMessageShown'
  <2>1. FirstMessageShown <=> \A k \in DOMAIN values : Shown(values[k])
    BY DEF FirstMessageShown, Shown
  <2>2. FirstMessageShown' <=> \A k \in DOMAIN values' : Shown(values'[k])
    BY DEF FirstMessageShown, Shown
  <2> QED
    BY <2>1, <2>2
<1>2. CallersErrorLogged => CallersErrorLogged'
  BY DEF CallersErrorLogged
<1> QED
  BY <1>1, <1>2

(* A step of it leaves the context alone; what remains to be shown is      *)
(* about the search itself.                                                *)
LEMMA SearchKeeps ==
  ASSUME PropertyInv, UNCHANGED lists, pc \in Filling, pc' \in Looking,
         at <= Len(list), list[at].kind \in {"lasterror", "hresult"},
         slot' \in Slot, slot'.iModule <= slot'.loaded,
         pc' = "strip" => slot'.scan <= Len(slot'.text),
         error' \in [errno : Codes, last : Codes], error'.errno = error.errno,
         IF pc = "fill" THEN list[at].kind = "lasterror" => slot'.code = error.last
                        ELSE slot'.code = slot.code,
         SearchInv'
  PROVE  PropertyInv'
<1>1. UNCHANGED <<list, at, length, data_pos, values, given>>
  BY DEF lists
<1>2. TypeInv'
  <2>1. slot'.text \in Texts /\ slot'.iModule \in 0 .. slot'.loaded
        /\ (pc' = "strip" => slot'.scan \in 0 .. Len(slot'.text))
    BY DEF Slot, Texts
  <2>2. TypeOK'
    BY <1>1, <2>1 DEF PropertyInv, TypeInv, TypeOK, Looking
  <2> QED
    BY <1>1, <2>2 DEF PropertyInv, TypeInv
<1>3. PlaceInv'
  BY <1>1 DEF PlaceInv, Looking
<1>4. BytesInv'
  BY <1>1 DEF PropertyInv, BytesInv, Looking, Filling
<1>5. FirstMessageShown' /\ CallersErrorLogged'
  BY <1>1, ContextKept DEF PropertyInv
<1>6. ErrorInv'
  <2>1. AllErrno' = AllErrno /\ Quiet' = Quiet
    BY <1>1 DEF AllErrno, Quiet
  <2>2. pc = "fill" \/ pc \in Looking
    BY DEF Filling
  <2>3. Quiet => error'.errno = given'.errno
    BY <1>1 DEF PropertyInv, ErrorInv
  <2>4. Quiet /\ AllErrno /\ list[at].kind = "lasterror" => slot'.code = given'.last
    BY <1>1, <2>2 DEF PropertyInv, ErrorInv, Looking
  <2>5. pc' \notin {"size", "fill"}
    BY DEF Looking
  <2> QED
    BY <1>1, <2>1, <2>3, <2>4, <2>5 DEF ErrorInv
<1> QED
  BY <1>2, <1>3, <1>4, <1>5, <1>6 DEF PropertyInv

LEMMA NoSlotOK == NoSlot \in Slot
<1>1. <<>> \in Texts /\ <<>> \in Seq(Heard)
  BY DEF Texts
<1> QED
  BY <1>1 DEF NoSlot, Slot

LEMMA BeginStep ==
  ASSUME PropertyInv, BeginLastError \/ BeginHresult
  PROVE  PropertyInv'
<1>1. PICK code :
        /\ At("lasterror") \/ At("hresult")
        /\ code = IF At("lasterror") THEN error.last ELSE list[at].code
        /\ Begin(code)
  BY DEF BeginLastError, BeginHresult, At
<1>2. /\ pc = "fill" /\ at \in 1 .. Len(list) /\ list[at] \in Argument
      /\ error \in [errno : Codes, last : Codes]
      /\ list[at].kind \in {"lasterror", "hresult"}
  BY <1>1 DEF PropertyInv, TypeInv, TypeOK, At
<1>3. code \in Codes /\ (list[at].kind = "lasterror" => code = error.last)
  BY <1>1, <1>2 DEF Argument, At
<1>4. pc' = "format" /\ slot' = [NoSlot EXCEPT !.code = code] /\ UNCHANGED <<error, lists>>
  BY <1>1 DEF Begin
<1>5. /\ slot' \in Slot /\ slot'.code = code /\ slot'.iModule = 0 /\ slot'.loaded = 0
      /\ slot'.heard = <<>>
  BY <1>3, <1>4, NoSlotOK DEF NoSlot, Slot
<1>6. SearchInv'
  BY <1>4, <1>5 DEF SearchInv
<1> QED
  BY <1>2, <1>3, <1>4, <1>5, <1>6, SearchKeeps DEF Filling, Looking

LEMMA FormatStep ==
  ASSUME PropertyInv, FormatMessageFails \/ \E m \in Messages : FormatMessage(m)
  PROVE  PropertyInv'
<1>1. /\ pc = "format" /\ at <= Len(list) /\ list[at].kind \in {"lasterror", "hresult"}
      /\ slot \in Slot /\ error \in [errno : Codes, last : Codes]
      /\ slot.iModule <= slot.loaded
  <2>1. pc = "format"
    BY DEF FormatMessageFails, FormatMessage
  <2> QED
    BY <2>1 DEF PropertyInv, PlaceInv, TypeInv, TypeOK, Looking, Slot
<1>2. /\ slot.heard \in Seq(Heard) /\ Len(slot.heard) = slot.iModule /\ slot.iModule \in Nat
      /\ \A j \in DOMAIN slot.heard : Trim(slot.heard[j]) = <<>>
  BY <1>1 DEF PropertyInv, SearchInv, Looking, Slot
<1>3. ASSUME NEW m \in Heard
      PROVE  /\ Append(slot.heard, m) \in Seq(Heard)
             /\ Len(Append(slot.heard, m)) = slot.iModule + 1
             /\ Append(slot.heard, m)[slot.iModule + 1] = m
             /\ \A j \in DOMAIN Append(slot.heard, m) :
                  j < slot.iModule + 1 => Trim(Append(slot.heard, m)[j]) = <<>>
  BY <1>2
<1>4. CASE FormatMessageFails
  <2>1. /\ slot' = [slot EXCEPT !.text = None, !.heard = Append(slot.heard, None)]
        /\ error' \in [errno : {error.errno}, last : Codes]
        /\ pc' = "answer" /\ UNCHANGED lists
    BY <1>4 DEF FormatMessageFails
  <2>2. error' \in [errno : Codes, last : Codes] /\ error'.errno = error.errno
    BY <1>1, <2>1
  <2>3. None \in Heard /\ None \in Texts
    BY ChosenTexts DEF Heard
  <2>4. /\ slot'.heard = Append(slot.heard, None) /\ slot'.text = None
        /\ slot'.iModule = slot.iModule /\ slot'.loaded = slot.loaded
        /\ slot'.code = slot.code /\ slot' \in Slot
    BY <1>1, <1>3, <2>1, <2>3 DEF Slot
  <2>5. slot'.text \in Seq({"x"} \cup Newlines) /\ Len(slot'.text) < Size
    <3>1. Len(None) = 0 /\ 0 < Size
      BY SlotAssumption DEF None
    <3> QED
      BY <2>4, <3>1, ChosenTexts
  <2>6. slot'.text = Trim(slot'.heard[Len(slot'.heard)])
    BY <1>3, <2>3, <2>4, TrimNone DEF None
  <2>7. SearchInv'
    BY <1>3, <2>1, <2>3, <2>4, <2>5, <2>6 DEF SearchInv
  <2> QED
    BY <1>1, <2>1, <2>2, <2>4, <2>7, SearchKeeps DEF Filling, Looking
<1>5. ASSUME NEW m \in Messages, FormatMessage(m)
      PROVE  PropertyInv'
  <2>1. /\ slot' = [slot EXCEPT !.text = m, !.scan = Len(m), !.heard = Append(slot.heard, m)]
        /\ pc' = "strip" /\ UNCHANGED <<error, lists>>
    BY <1>5 DEF FormatMessage
  <2>2. m \in Heard /\ m \in Seq({"x"} \cup Newlines) /\ m \in Texts /\ Len(m) \in Nat
    BY SlotAssumption, ChosenTexts DEF Heard
  <2>3. /\ slot'.heard = Append(slot.heard, m) /\ slot'.text = m /\ slot'.scan = Len(m)
        /\ slot'.iModule = slot.iModule /\ slot'.loaded = slot.loaded
        /\ slot'.code = slot.code /\ slot' \in Slot
    BY <1>1, <1>3, <2>1, <2>2 DEF Slot
  <2>4. \A j \in slot'.scan + 1 .. Len(slot'.text) : slot'.text[j] \in Newlines
    BY <2>2, <2>3
  <2>5. SearchInv'
    BY <1>3, <2>1, <2>2, <2>3, <2>4 DEF SearchInv
  <2> QED
    BY <1>1, <2>1, <2>2, <2>3, <2>5, SearchKeeps DEF Filling, Looking
<1> QED
  BY <1>4, <1>5

LEMMA StripStep ==
  ASSUME PropertyInv, Strip
  PROVE  PropertyInv'
<1>1. /\ pc = "strip" /\ at <= Len(list) /\ list[at].kind \in {"lasterror", "hresult"}
      /\ slot \in Slot /\ error \in [errno : Codes, last : Codes]
      /\ slot.iModule <= slot.loaded /\ slot.scan \in 0 .. Len(slot.text)
      /\ UNCHANGED <<error, lists>>
  BY DEF Strip, PropertyInv, PlaceInv, TypeInv, TypeOK, Looking, Slot
<1>2. /\ slot.text \in Messages
      /\ slot.text = slot.heard[Len(slot.heard)]
      /\ \A j \in slot.scan + 1 .. Len(slot.text) : slot.text[j] \in Newlines
      /\ Len(slot.heard) = slot.iModule + 1
      /\ \A j \in DOMAIN slot.heard : j < Len(slot.heard) => Trim(slot.heard[j]) = <<>>
  BY <1>1 DEF PropertyInv, SearchInv, Looking
<1>3. slot.text \in Seq({"x"} \cup Newlines) /\ Len(slot.text) \in Nat
      /\ Len(slot.text) < Size
  BY <1>2, SlotAssumption
<1>4. CASE slot.scan >= 1 /\ slot.text[slot.scan] \in Newlines
  <2>1. pc' = "strip" /\ slot' = [slot EXCEPT !.scan = slot.scan - 1]
    BY <1>1, <1>4 DEF Strip, PassNewline
  <2>2. /\ slot'.heard = slot.heard /\ slot'.text = slot.text /\ slot'.scan = slot.scan - 1
        /\ slot'.iModule = slot.iModule /\ slot'.loaded = slot.loaded
        /\ slot'.code = slot.code /\ slot' \in Slot
    BY <1>1, <1>4, <2>1 DEF Slot
  <2>3. \A j \in slot'.scan + 1 .. Len(slot'.text) : slot'.text[j] \in Newlines
    <3>1. \A j \in slot.scan - 1 + 1 .. Len(slot.text) :
            j = slot.scan \/ j \in slot.scan + 1 .. Len(slot.text)
      BY <1>1, <1>3
    <3> QED
      BY <1>2, <1>4, <2>2, <3>1
  <2>4. SearchInv'
    BY <1>2, <2>1, <2>2, <2>3 DEF SearchInv
  <2>5. slot'.scan <= Len(slot'.text)
    BY <1>1, <1>3, <2>2
  <2> QED
    BY <1>1, <2>1, <2>2, <2>4, <2>5, SearchKeeps DEF Filling, Looking
<1>5. CASE ~(slot.scan >= 1 /\ slot.text[slot.scan] \in Newlines)
  <2> DEFINE chars == SubSeq(slot.text, 1, slot.scan)
  <2>1. pc' = "answer" /\ slot' = [slot EXCEPT !.text = chars]
    BY <1>1, <1>5 DEF Strip, Terminate
  <2>2. chars \in Seq({"x"} \cup Newlines) /\ Len(chars) < Size
    BY <1>1, <1>3, SlotAssumption
  <2>3. chars = Trim(slot.text)
    <3>1. slot.scan = 0 \/ slot.text[slot.scan] \notin Newlines
      BY <1>1, <1>3, <1>5
    <3> QED
      BY <1>1, <1>2, <1>3, <3>1, TrimIs
  <2> HIDE DEF chars
  <2>4. /\ slot'.heard = slot.heard /\ slot'.text = chars
        /\ slot'.iModule = slot.iModule /\ slot'.loaded = slot.loaded
        /\ slot'.code = slot.code /\ slot' \in Slot
    BY <1>1, <2>1, <2>2, ChosenTexts DEF Slot
  <2>5. SearchInv'
    BY <1>2, <2>1, <2>2, <2>3, <2>4 DEF SearchInv
  <2> QED
    BY <1>1, <2>1, <2>4, <2>5, SearchKeeps DEF Filling, Looking
<1> QED
  BY <1>4, <1>5

LEMMA ModulesStep ==
  ASSUME PropertyInv, ModuleUnknown \/ NextModule \/ \E n \in Loaded : Enumerate(n)
  PROVE  PropertyInv'
<1>1. /\ pc \in {"answer", "next"} /\ at <= Len(list)
      /\ list[at].kind \in {"lasterror", "hresult"}
      /\ slot \in Slot /\ error \in [errno : Codes, last : Codes]
      /\ slot.iModule \in Nat /\ slot.iModule <= slot.loaded
      /\ UNCHANGED <<error, lists>>
  BY DEF ModuleUnknown, NextModule, Enumerate, Unanswered, PropertyInv, PlaceInv, TypeInv,
         TypeOK, Looking, Slot
<1>2. /\ Len(slot.heard) = slot.iModule + 1 /\ slot.heard \in Seq(Heard)
      /\ \A j \in DOMAIN slot.heard :
           j < Len(slot.heard) \/ pc = "next" => Trim(slot.heard[j]) = <<>>
  BY <1>1 DEF PropertyInv, SearchInv, Looking, Slot
<1>3. ASSUME pc = "answer", slot.text = <<>>
      PROVE  \A j \in DOMAIN slot.heard : Trim(slot.heard[j]) = <<>>
  <2>1. \A j \in DOMAIN slot.heard : j < Len(slot.heard) \/ j = Len(slot.heard)
    BY <1>2
  <2>2. Trim(slot.heard[Len(slot.heard)]) = <<>>
    BY <1>3 DEF PropertyInv, SearchInv
  <2> QED
    BY <1>2, <2>1, <2>2
<1>4. CASE ModuleUnknown
  <2>1. pc = "answer" /\ slot.text = <<>> /\ pc' = "next" /\ slot' = slot
    BY <1>4 DEF ModuleUnknown, Unanswered
  <2>2. SearchInv'
    BY <1>2, <1>3, <2>1 DEF SearchInv
  <2> QED
    BY <1>1, <2>1, <2>2, SearchKeeps DEF Filling, Looking
<1>5. CASE NextModule
  <2>1. /\ pc = "next" /\ pc' = "format" /\ slot.iModule < slot.loaded
        /\ slot' = [slot EXCEPT !.iModule = slot.iModule + 1]
    BY <1>5 DEF NextModule
  <2>2. /\ slot'.heard = slot.heard /\ slot'.iModule = slot.iModule + 1
        /\ slot'.loaded = slot.loaded /\ slot'.code = slot.code /\ slot' \in Slot
    BY <1>1, <2>1, SMTT(30) DEF Slot
  <2>3. SearchInv'
    BY <1>2, <2>1, <2>2 DEF SearchInv
  <2>4. slot'.iModule <= slot'.loaded
    BY <1>1, <2>1, <2>2 DEF Slot
  <2> QED
    BY <1>1, <2>1, <2>2, <2>3, <2>4, SearchKeeps DEF Filling, Looking
<1>6. ASSUME NEW n \in Loaded, Enumerate(n)
      PROVE  PropertyInv'
  <2>1. /\ pc = "answer" /\ slot.text = <<>> /\ slot.iModule = 0 /\ pc' = "next"
        /\ slot' = [slot EXCEPT !.loaded = n]
    BY <1>6 DEF Enumerate, Unanswered
  <2>2. n \in Nat
    BY ListsAssumption
  <2>3. /\ slot'.heard = slot.heard /\ slot'.iModule = 0
        /\ slot'.loaded = n /\ slot'.code = slot.code /\ slot' \in Slot
    BY <1>1, <2>1, <2>2 DEF Slot
  <2>4. SearchInv'
    BY <1>2, <1>3, <2>1, <2>3 DEF SearchInv
  <2> QED
    BY <1>1, <2>1, <2>2, <2>3, <2>4, SearchKeeps DEF Filling, Looking
<1> QED
  BY <1>4, <1>5, <1>6

-----------------------------------------------------------------------------
(* The passes over the list *)

(* Nothing is stored or being filled. *)
LEMMA EmptyOK ==
  ASSUME TypeInv', PlaceInv', ErrorInv', values' = <<>>, pc' \in {"idle", "size", "log"},
         pc' = "size" => data_pos' = 1 /\ length' = Offsets(list')[at' - 1]
  PROVE  PropertyInv'
<1>1. BytesInv'
  BY DEF BytesInv, Filling, Looking
<1>2. SearchInv'
  BY DEF SearchInv, Looking
<1>3. FirstMessageShown' /\ CallersErrorLogged'
  BY DEF FirstMessageShown, CallersErrorLogged
<1> QED
  BY <1>1, <1>2, <1>3 DEF PropertyInv

LEMMA PropertyInit == Init => PropertyInv
<1> SUFFICES ASSUME Init
             PROVE  PropertyInv
  OBVIOUS
<1>1. TypeInv
  BY NoSlotOK DEF Init, TypeInv, TypeOK, Slot, NoSlot
<1>2. PlaceInv
  BY DEF Init, PlaceInv, Looking
<1>3. BytesInv /\ SearchInv /\ FirstMessageShown /\ ErrorInv /\ CallersErrorLogged
  BY DEF Init, BytesInv, SearchInv, FirstMessageShown, ErrorInv, CallersErrorLogged,
         Looking, Filling
<1> QED
  BY <1>1, <1>2, <1>3 DEF PropertyInv

LEMMA CallStep ==
  ASSUME PropertyInv, NEW l \in Lists, Call(l)
  PROVE  PropertyInv'
<1>1. /\ pc = "idle" /\ pc' \in {"log", "size"}
      /\ error' \in [errno : Codes, last : Codes] /\ given' = error'
      /\ list' = l /\ length' = 1 /\ data_pos' = 1
      /\ UNCHANGED <<at, slot, values>>
  BY DEF Call
<1>2. at = 1 /\ values = <<>> /\ slot = NoSlot /\ l \in Seq(Argument) /\ Len(l) \in Nat
  BY <1>1, ListsAssumption DEF PropertyInv, PlaceInv
<1>3. TypeInv'
  BY <1>1, <1>2 DEF PropertyInv, TypeInv, TypeOK
<1>4. PlaceInv'
  BY <1>1, <1>2 DEF PlaceInv, Looking
<1>5. ErrorInv'
  BY <1>1 DEF ErrorInv, Looking, Filling
<1>6. Offsets(l)[0] = 1
  BY <1>2, OffsetsOK DEF IsOffsets
<1> QED
  BY <1>1, <1>2, <1>3, <1>4, <1>5, <1>6, EmptyOK

LEMMA SizeStep ==
  ASSUME PropertyInv, SizeProperty
  PROVE  PropertyInv'
<1>1. /\ pc = "size" /\ at \in 1 .. Len(list) /\ list \in Seq(Argument)
      /\ list[at] \in Argument /\ values = <<>> /\ slot = NoSlot
      /\ data_pos = 1 /\ length = Offsets(list)[at - 1]
      /\ error \in [errno : Codes, last : Codes]
  BY DEF SizeProperty, PropertyInv, TypeInv, TypeOK, PlaceInv, BytesInv
<1>2. /\ length' = length + NeededSize(list[at]) /\ at' = at + 1
      /\ UNCHANGED <<pc, list, data_pos, slot, values, given>>
  BY DEF SizeProperty
<1>3. /\ error' \in [errno : Codes, last : Codes]
      /\ Quiet => error' = error
  BY <1>1 DEF SizeProperty, Evaluate, Quiet
<1>4. length' = Offsets(list)[at] /\ length' \in Nat
  BY <1>1, <1>2, OffsetsOK DEF IsOffsets
<1>5. at' - 1 = at /\ at' \in 1 .. Len(list) + 1
  BY <1>1, <1>2
<1>6. TypeInv'
  BY <1>1, <1>2, <1>3, <1>4, <1>5 DEF PropertyInv, TypeInv, TypeOK
<1>7. PlaceInv'
  BY <1>1, <1>2 DEF PlaceInv, Looking
<1>8. ErrorInv'
  <2>1. Quiet' = Quiet /\ AllErrno' = AllErrno
    BY <1>2 DEF Quiet, AllErrno
  <2> QED
    BY <1>1, <1>2, <1>3, <2>1 DEF PropertyInv, ErrorInv, Looking
<1> QED
  BY <1>1, <1>2, <1>4, <1>5, <1>6, <1>7, <1>8, EmptyOK

LEMMA SizedStep ==
  ASSUME PropertyInv, Sized
  PROVE  PropertyInv'
<1>1. /\ pc = "size" /\ at = Len(list) + 1 /\ list \in Seq(Argument) /\ Len(list) \in Nat
      /\ values = <<>> /\ slot = NoSlot
      /\ data_pos = 1 /\ length = Offsets(list)[at - 1] /\ length \in Nat
  BY DEF Sized, PropertyInv, TypeInv, TypeOK, PlaceInv, BytesInv
<1>2. /\ at' = 1 /\ UNCHANGED <<error, list, data_pos, slot, values, given>>
      /\ (pc' = "log" /\ length' = 0) \/ (pc' = "fill" /\ length' = length)
  BY DEF Sized
<1>3. TypeInv'
  BY <1>1, <1>2 DEF PropertyInv, TypeInv, TypeOK
<1>4. PlaceInv'
  BY <1>1, <1>2 DEF PlaceInv, Looking
<1>5. ErrorInv'
  <2>1. Quiet' = Quiet /\ AllErrno' = AllErrno
    BY <1>2 DEF Quiet, AllErrno
  <2> QED
    BY <1>1, <1>2, <2>1 DEF PropertyInv, ErrorInv, Looking, Filling
<1>6. BytesInv'
  <2>1. at - 1 = Len(list) /\ at' - 1 = 0 /\ Offsets(list)[0] = 1
    BY <1>1, <1>2, OffsetsOK DEF IsOffsets
  <2>2. data_pos' = Offsets(list')[at' - 1]
    BY <1>1, <1>2, <2>1
  <2>3. pc' = "fill" => length' = Offsets(list')[Len(list')]
    BY <1>1, <1>2, <2>1
  <2> QED
    BY <1>1, <1>2, <2>2, <2>3 DEF BytesInv, Filling, Looking
<1>7. SearchInv'
  BY <1>2 DEF SearchInv, Looking
<1>8. FirstMessageShown' /\ CallersErrorLogged'
  BY <1>2, ContextKept DEF PropertyInv
<1> QED
  BY <1>3, <1>4, <1>5, <1>6, <1>7, <1>8 DEF PropertyInv

LEMMA PassStep ==
  ASSUME PropertyInv, SkipMessage \/ Filled \/ Faults
  PROVE  PropertyInv'
<1>1. /\ list \in Seq(Argument) /\ at \in 1 .. Len(list) + 1 /\ Len(list) \in Nat
      /\ data_pos \in Nat
  BY DEF PropertyInv, TypeInv, TypeOK
<1>2. UNCHANGED <<error, list, length, data_pos, slot, values, given>>
  BY DEF SkipMessage, Filled, Faults, lists
<1>3. FirstMessageShown' /\ CallersErrorLogged'
  BY <1>2, ContextKept DEF PropertyInv
<1>4. Quiet' = Quiet /\ AllErrno' = AllErrno
  BY <1>2 DEF Quiet, AllErrno
<1>5. CASE SkipMessage
  <2>1. pc = "fill" /\ pc' = "fill" /\ at \in 1 .. Len(list) /\ at' = at + 1
        /\ list[at].kind = "message"
    BY <1>1, <1>5 DEF SkipMessage, At
  <2>2. TypeInv'
    BY <1>1, <1>2, <2>1 DEF PropertyInv, TypeInv, TypeOK
  <2>3. PlaceInv' /\ SearchInv'
    BY <1>2, <2>1 DEF PropertyInv, PlaceInv, SearchInv, Looking
  <2>4. ErrorInv'
    BY <1>2, <1>4, <2>1 DEF PropertyInv, ErrorInv, Looking
  <2>5. NeededSize(list[at]) = 0 /\ at' - 1 = at
    BY <1>1, <2>1 DEF NeededSize
  <2>6. Offsets(list)[at] = Offsets(list)[at - 1] + 0
    BY <1>1, <2>1, <2>5, OffsetsOK DEF IsOffsets
  <2>7. data_pos = Offsets(list)[at - 1]
    BY <2>1 DEF PropertyInv, BytesInv, Filling
  <2>8. data_pos' = Offsets(list')[at' - 1]
    BY <1>1, <1>2, <2>5, <2>6, <2>7
  <2>9. BytesInv'
    BY <1>2, <2>1, <2>8 DEF PropertyInv, BytesInv, Filling, Looking
  <2> QED
    BY <1>3, <2>2, <2>3, <2>4, <2>9 DEF PropertyInv
<1>6. CASE Filled \/ Faults
  <2>1. (pc = "fill" /\ pc' = "log") \/ (pc = "format" /\ pc' = "faulted")
    BY <1>6 DEF Filled, Faults
  <2>2. at' = at
    BY <1>6 DEF Filled, Faults, lists
  <2>3. TypeInv'
    BY <1>2, <2>1, <2>2 DEF PropertyInv, TypeInv, TypeOK
  <2>4. PlaceInv' /\ SearchInv' /\ BytesInv' /\ ErrorInv'
    BY <1>2, <2>1 DEF PropertyInv, PlaceInv, SearchInv, BytesInv, ErrorInv, Looking, Filling
  <2> QED
    BY <1>3, <2>3, <2>4 DEF PropertyInv
<1> QED
  BY <1>5, <1>6

LEMMA LogStep ==
  ASSUME PropertyInv, Log
  PROVE  PropertyInv'
<1>1. /\ pc = "log" /\ pc' = "idle" /\ list' = <<>> /\ at' = 1 /\ length' = 0
      /\ data_pos' = 0 /\ values' = <<>> /\ UNCHANGED <<error, slot, given>>
  BY DEF Log
<1>2. slot = NoSlot
  BY <1>1 DEF PropertyInv, PlaceInv
<1>3. TypeInv'
  BY <1>1 DEF PropertyInv, TypeInv, TypeOK
<1>4. PlaceInv'
  BY <1>1, <1>2 DEF PlaceInv, Looking
<1>5. ErrorInv'
  BY <1>1 DEF ErrorInv, Looking, Filling
<1> QED
  BY <1>1, <1>3, <1>4, <1>5, EmptyOK

LEMMA PropertyNext == PropertyInv /\ [Next]_vars => PropertyInv'
<1> SUFFICES ASSUME PropertyInv, [Next]_vars
             PROVE  PropertyInv'
  OBVIOUS
<1>1. CASE \E l \in Lists : Call(l)
  BY <1>1, CallStep
<1>2. CASE Step
  BY <1>2, SizeStep, SizedStep, FillStep, BeginStep, FormatStep, StripStep, ModulesStep,
     PassStep, LogStep DEF Step
<1>3. CASE UNCHANGED vars
  <2>1. UNCHANGED <<error, pc, list, at, length, data_pos, slot, values, given>>
    BY <1>3 DEF vars
  <2>2. TypeInv' /\ PlaceInv'
    BY <2>1 DEF PropertyInv, TypeInv, TypeOK, PlaceInv
  <2>3. BytesInv' /\ SearchInv'
    BY <2>1 DEF PropertyInv, BytesInv, SearchInv
  <2>4. ErrorInv'
    BY <2>1 DEF PropertyInv, ErrorInv, Quiet, AllErrno
  <2>5. FirstMessageShown' /\ CallersErrorLogged'
    BY <2>1, ContextKept DEF PropertyInv
  <2> QED
    BY <2>2, <2>3, <2>4, <2>5 DEF PropertyInv
<1> QED
  BY <1>1, <1>2, <1>3 DEF Next, ProcessEnded

-----------------------------------------------------------------------------
(* The theorems *)

(* PropertyInv holds in every state. *)
THEOREM PropertyInvariance == Spec => []PropertyInv
BY PropertyInit, PropertyNext, PTL DEF Spec

(* A value function fills no more than it asked for when it was called     *)
(* with NULL: every text ends, terminator included, before the next value  *)
(* and inside the bytes the first pass of LOG_CONTEXT_LOCAL_DEFINE         *)
(* counted.                                                                *)
THEOREM ValuesStayInSlots == Spec => []ValuesInSlots
<1>1. PropertyInv => ValuesInSlots
  <2> SUFFICES ASSUME PropertyInv
               PROVE  ValuesInSlots
    OBVIOUS
  <2>1. values \in Seq(Value) /\ TypeOK
    BY DEF PropertyInv, TypeInv
  <2>2. ASSUME NEW k \in DOMAIN values
        PROVE  values[k].offset + Len(values[k].text) + 1
                 <= (IF k < Len(values) THEN values[k + 1].offset ELSE length)
    <3>1. values[k] \in Value /\ values # <<>>
      BY <2>1
    <3>2. values[k].offset \in Nat /\ Len(values[k].text) \in Nat
      BY <3>1 DEF Value, Texts
    <3>3. data_pos <= length /\ data_pos \in Nat /\ length \in Nat
      BY <2>1, <3>1 DEF PropertyInv, BytesInv, TypeOK
    <3>4. values[k].offset + Len(values[k].text) + 1
            <= (IF k < Len(values) THEN values[k + 1].offset ELSE data_pos)
      BY DEF PropertyInv, BytesInv
    <3> QED
      BY <3>2, <3>3, <3>4
  <2> QED
    BY <2>1, <2>2 DEF ValuesInSlots
<1> QED
  BY <1>1, PropertyInvariance, PTL

(* The text stored for a code is the first message FormatMessageA found    *)
(* for it, of the system or of a module, without the newlines at its end,  *)
(* and a failure text only when there was none.                            *)
THEOREM ShowsFirstMessage == Spec => []FirstMessageShown
<1>1. PropertyInv => FirstMessageShown
  BY DEF PropertyInv
<1> QED
  BY <1>1, PropertyInvariance, PTL

(* The codes of errno and of the last error that are logged are those of   *)
(* the caller, where only value functions run before they are read.        *)
THEOREM LogsCallersError == Spec => []CallersErrorLogged
<1>1. PropertyInv => CallersErrorLogged
  BY DEF PropertyInv
<1> QED
  BY <1>1, PropertyInvariance, PTL
=============================================================================

----------------------- MODULE PropertyToStringProofs -----------------------
(***************************************************************************)
(* For every array of pairs, well-formed or not, every nesting of structs, *)
(* every buffer size and every pattern of printf failures:                 *)
(* log_context_property_to_string stays in its buffer, accounts for every  *)
(* byte, is a bounded writer to its callers, terminates what it returns,   *)
(* and prints every pair of a well-formed array exactly once.              *)
(***************************************************************************)
EXTENDS PropertyToString, WellFoundedInduction, TLAPS

(* One activation that was called with the buffer at start: its buffer     *)
(* ends where the caller's buffer of room bytes ends, and its result is at *)
(* most what it advanced by.                                               *)
FrameOK(f, start, room, exact) ==
  /\ f \in FrameType
  /\ f.start = start
  /\ f.start <= f.buffer
  /\ f.buffer + f.left = room
  /\ f.result >= -1
  /\ f.result <= f.buffer - f.start
  /\ exact => f.result = f.buffer - f.start

(* The activations on the stack: each was called where its caller stands. *)
FramesOK(fs, room, exact) ==
  /\ fs \in Seq(FrameType)
  /\ \A k \in 1 .. Len(fs) : FrameOK(fs[k], IF k = 1 THEN 0 ELSE fs[k - 1].buffer, room, exact)

(* No name has failed, so that the results are exact. *)
Exact == "name" \notin failed

(* The inductive invariant. *)
WriterInv ==
  /\ TypeOK
  /\ FramesOK(frames, size, Exact)
  /\ touched <= size
  /\ pc = "done" => ret \in (-1) .. size
  /\ pc # "done" => ret = 0
  /\ pc = "call" => frames = <<>>
  /\ pc \in {"loop", "value", "close"} => Len(frames) > 0
  /\ pc = "value" => Index < Len(pairs)

-----------------------------------------------------------------------------
(* The buffer sizes are natural numbers. *)
LEMMA SizeNat == ASSUME TypeOK PROVE size \in Nat
BY InputAssumption DEF TypeOK

(* The components of a pair that are numbers. *)
LEMMA PairNumbers ==
  ASSUME NEW p \in Pair
  PROVE  p.name \in Nat /\ p.value \in Nat /\ p.fields \in Nat
BY DEF Pair

(* The pair the innermost activation looks at is a pair of the array. *)
LEMMA CurrentType ==
  ASSUME TypeOK, Len(frames) > 0, Index < Len(pairs)
  PROVE  /\ Index \in Nat
         /\ Current \in Pair
         /\ Current.name \in Nat
         /\ Current.value \in Nat
         /\ Current.fields \in Nat
<1>1. Top \in FrameType
  BY DEF TypeOK, Top
<1>2. Index \in Nat
  BY <1>1 DEF Index, FrameType
<1>3. pairs \in Seq(Pair)
  BY InputAssumption DEF TypeOK
<1>4. Current \in Pair
  BY <1>2, <1>3 DEF Current
<1> QED
  BY <1>2, <1>4, PairNumbers

(* UPDATE_BUFFER_AND_SIZE keeps an activation in order, whatever length a  *)
(* printf-class call returned.                                             *)
LEMMA AdvanceOK ==
  ASSUME NEW f, NEW start \in Nat, NEW room \in Nat, NEW exact \in BOOLEAN,
         FrameOK(f, start, room, exact), NEW bytes \in Nat
  PROVE  /\ FrameOK(Advance(f, bytes), start, room, exact)
         /\ Advance(f, bytes).buffer + Advance(f, bytes).left = room
         /\ Advance(f, bytes).buffer \in Nat
         /\ Advance(f, bytes).left \in Nat
<1> DEFINE n == Smaller(bytes, f.left)
           g == Advance(f, bytes)
<1>1. f \in FrameType
  BY DEF FrameOK
<1>2. n \in 0 .. f.left
  BY <1>1 DEF Smaller, FrameType
<1>3. g = [f EXCEPT !.buffer = f.buffer + n, !.left = f.left - n, !.result = f.result + n]
  BY DEF Advance
<1> HIDE DEF n
<1>4. g \in FrameType
  <2>1. f.buffer + n \in Nat /\ f.left - n \in Nat /\ f.result + n \in Int
    BY <1>1, <1>2 DEF FrameType
  <2> QED
    BY <1>1, <1>3, <2>1 DEF FrameType
<1>5. /\ g.start = f.start
      /\ g.buffer = f.buffer + n
      /\ g.left = f.left - n
      /\ g.result = f.result + n
  BY <1>1, <1>3 DEF FrameType
<1> HIDE DEF g
<1>6. FrameOK(g, start, room, exact)
  BY <1>1, <1>2, <1>4, <1>5 DEF FrameOK, FrameType
<1> QED
  BY <1>1, <1>2, <1>4, <1>5, <1>6 DEF FrameOK, FrameType, g

(* Weakening: an account that is exact is an account. *)
LEMMA FrameWeaken ==
  ASSUME NEW f, NEW start, NEW room, NEW exact \in BOOLEAN, NEW exact2 \in BOOLEAN,
         FrameOK(f, start, room, exact), exact2 => exact
  PROVE  FrameOK(f, start, room, exact2)
BY DEF FrameOK

(* The same of the whole stack. *)
LEMMA FramesWeaken ==
  ASSUME NEW fs, NEW room, NEW exact \in BOOLEAN, NEW exact2 \in BOOLEAN,
         FramesOK(fs, room, exact), exact2 => exact
  PROVE  FramesOK(fs, room, exact2)
BY FrameWeaken DEF FramesOK

(* The innermost activation is in order. *)
LEMMA TopOK ==
  ASSUME NEW room \in Nat, NEW exact \in BOOLEAN,
         FramesOK(frames, room, exact), Len(frames) > 0
  PROVE  /\ Top \in FrameType
         /\ Top.start \in Nat
         /\ FrameOK(Top, Top.start, room, exact)
         /\ Top.start = IF Len(frames) = 1 THEN 0 ELSE frames[Len(frames) - 1].buffer
<1> DEFINE start == IF Len(frames) = 1 THEN 0 ELSE frames[Len(frames) - 1].buffer
<1>1. Len(frames) \in 1 .. Len(frames)
  BY DEF FramesOK
<1>2. FrameOK(Top, start, room, exact)
  BY <1>1 DEF FramesOK, Top
<1> HIDE DEF start
<1>3. Top \in FrameType /\ Top.start = start
  BY <1>2 DEF FrameOK
<1>4. Top.start \in Nat
  BY <1>3 DEF FrameType
<1> QED
  BY <1>2, <1>3, <1>4 DEF start

(* Replacing the innermost activation by one that began at the same place. *)
LEMMA SetTopOK ==
  ASSUME NEW room \in Nat, NEW exact \in BOOLEAN, NEW exact2 \in BOOLEAN, exact2 => exact,
         FramesOK(frames, room, exact), Len(frames) > 0,
         NEW f, FrameOK(f, Top.start, room, exact2)
  PROVE  /\ FramesOK(SetTop(f), room, exact2)
         /\ Len(SetTop(f)) = Len(frames)
         /\ SetTop(f)[Len(frames)] = f
<1> DEFINE fs == SetTop(f)
           At(s, k) == IF k = 1 THEN 0 ELSE s[k - 1].buffer
<1>1. f \in FrameType /\ frames \in Seq(FrameType)
  BY DEF FrameOK, FramesOK
<1>2. /\ fs \in Seq(FrameType)
      /\ Len(fs) = Len(frames)
      /\ fs[Len(frames)] = f
      /\ \A k \in 1 .. Len(frames) - 1 : fs[k] = frames[k]
  BY <1>1 DEF SetTop
<1>3. \A k \in 1 .. Len(frames) : At(fs, k) = At(frames, k)
  BY <1>1, <1>2
<1> HIDE DEF fs
<1>4. ASSUME NEW k \in 1 .. Len(fs) PROVE FrameOK(fs[k], At(fs, k), room, exact2)
  <2>1. At(fs, k) = At(frames, k)
    BY <1>2, <1>3
  <2>2. CASE k = Len(frames)
    <3>1. Top.start = At(frames, k)
      BY <2>2, TopOK
    <3> HIDE DEF At
    <3> QED
      BY <1>2, <2>1, <2>2, <3>1
  <2>3. CASE k # Len(frames)
    <3>1. k \in 1 .. Len(frames) - 1 /\ k \in 1 .. Len(frames)
      BY <1>1, <1>2, <2>3
    <3>2. FrameOK(frames[k], At(frames, k), room, exact)
      BY <3>1 DEF FramesOK
    <3> HIDE DEF At
    <3> QED
      BY <1>2, <2>1, <3>1, <3>2, FrameWeaken
  <2> QED
    BY <2>2, <2>3
<1> QED
  BY <1>2, <1>4 DEF FramesOK, fs

(* A call: the new activation begins where its caller stands. *)
LEMMA PushOK ==
  ASSUME NEW room \in Nat, NEW exact \in BOOLEAN, NEW fs, FramesOK(fs, room, exact),
         Len(fs) > 0, NEW f, FrameOK(f, fs[Len(fs)].buffer, room, exact)
  PROVE  FramesOK(Append(fs, f), room, exact) /\ Len(Append(fs, f)) = Len(fs) + 1
<1> DEFINE gs == Append(fs, f)
           At(s, k) == IF k = 1 THEN 0 ELSE s[k - 1].buffer
<1>1. f \in FrameType /\ fs \in Seq(FrameType)
  BY DEF FrameOK, FramesOK
<1>2. /\ gs \in Seq(FrameType)
      /\ Len(gs) = Len(fs) + 1
      /\ gs[Len(fs) + 1] = f
      /\ \A k \in 1 .. Len(fs) : gs[k] = fs[k]
  BY <1>1
<1> HIDE DEF gs
<1>3. ASSUME NEW k \in 1 .. Len(gs) PROVE FrameOK(gs[k], At(gs, k), room, exact)
  <2>1. CASE k = Len(fs) + 1
    <3>1. At(gs, k) = fs[Len(fs)].buffer
      BY <1>1, <1>2, <2>1
    <3> HIDE DEF At
    <3> QED
      BY <1>2, <2>1, <3>1
  <2>2. CASE k # Len(fs) + 1
    <3>1. k \in 1 .. Len(fs) /\ At(gs, k) = At(fs, k)
      BY <1>1, <1>2, <2>2
    <3>2. FrameOK(fs[k], At(fs, k), room, exact)
      BY <3>1 DEF FramesOK
    <3> HIDE DEF At
    <3> QED
      BY <1>2, <3>1, <3>2
  <2> QED
    BY <2>1, <2>2
<1> QED
  BY <1>2, <1>3 DEF FramesOK, gs

(* A return: the innermost activation goes, its caller goes on. *)
LEMMA PopOK ==
  ASSUME NEW room \in Nat, NEW exact \in BOOLEAN, FramesOK(frames, room, exact),
         Depth > 0, NEW f, FrameOK(f, frames[Depth].start, room, exact)
  PROVE  /\ FramesOK(Append(SubSeq(frames, 1, Depth - 1), f), room, exact)
         /\ Len(Append(SubSeq(frames, 1, Depth - 1), f)) = Depth
<1> DEFINE gs == Append(SubSeq(frames, 1, Depth - 1), f)
           At(s, k) == IF k = 1 THEN 0 ELSE s[k - 1].buffer
<1>1. f \in FrameType /\ frames \in Seq(FrameType)
  BY DEF FrameOK, FramesOK
<1>2. Depth \in Nat /\ Depth > 0 /\ Depth = Len(frames) - 1
  <2>1. Len(frames) \in Nat
    BY <1>1
  <2> QED
    BY <2>1 DEF Depth
<1>3. /\ SubSeq(frames, 1, Depth - 1) \in Seq(FrameType)
      /\ Len(SubSeq(frames, 1, Depth - 1)) = Depth - 1
      /\ \A k \in 1 .. Depth - 1 : SubSeq(frames, 1, Depth - 1)[k] = frames[k]
  BY <1>1, <1>2
<1>4. /\ gs \in Seq(FrameType)
      /\ Len(gs) = Depth
      /\ gs[Depth] = f
      /\ \A k \in 1 .. Depth - 1 : gs[k] = frames[k]
  BY <1>1, <1>2, <1>3
<1> HIDE DEF gs
<1>5. ASSUME NEW k \in 1 .. Len(gs) PROVE FrameOK(gs[k], At(gs, k), room, exact)
  <2>1. k \in 1 .. Len(frames) /\ At(gs, k) = At(frames, k)
    BY <1>2, <1>4
  <2>2. FrameOK(frames[k], At(frames, k), room, exact)
    BY <2>1 DEF FramesOK
  <2>3. CASE k = Depth
    <3>1. frames[Depth].start = At(frames, k)
      BY <2>2, <2>3 DEF FrameOK
    <3> HIDE DEF At
    <3> QED
      BY <1>4, <2>1, <2>3, <3>1
  <2>4. CASE k # Depth
    <3>1. gs[k] = frames[k]
      BY <1>2, <1>4, <2>4
    <3> HIDE DEF At
    <3> QED
      BY <2>1, <2>2, <3>1
  <2> QED
    BY <2>3, <2>4
<1> QED
  BY <1>4, <1>5 DEF FramesOK, gs

(* A new activation is in order at the place it is called with. *)
LEMMA FrameFresh ==
  ASSUME NEW base \in Nat, NEW count \in Nat, NEW buffer \in Nat, NEW left \in Nat,
         NEW exact \in BOOLEAN
  PROVE  FrameOK(Frame(base, count, buffer, left), buffer, buffer + left, exact)
<1>1. Frame(base, count, buffer, left) \in FrameType
  BY DEF Frame, FrameType
<1> QED
  BY <1>1 DEF Frame, FrameOK

(* Counting a pair does not move an activation. *)
LEMMA CountOK ==
  ASSUME NEW f, NEW start, NEW room, NEW exact \in BOOLEAN,
         FrameOK(f, start, room, exact), NEW n \in Nat
  PROVE  /\ FrameOK([f EXCEPT !.added = @ + 1], start, room, exact)
         /\ FrameOK([f EXCEPT !.i = @ + n], start, room, exact)
<1>1. f \in FrameType
  BY DEF FrameOK
<1>2. f.added + 1 \in Nat /\ f.i + n \in Nat
  BY <1>1 DEF FrameType
<1>3. [f EXCEPT !.added = @ + 1] \in FrameType /\ [f EXCEPT !.i = @ + n] \in FrameType
  BY <1>1, <1>2 DEF FrameType
<1> QED
  BY <1>1, <1>3 DEF FrameOK, FrameType

(* snprintf at the place of an activation writes inside the buffer, and    *)
(* leaves a terminator there whenever there is room.                       *)
LEMMA SnprintfStays ==
  ASSUME TypeOK, touched <= size, NEW f, NEW start, NEW exact \in BOOLEAN,
         FrameOK(f, start, size, exact), NEW bytes \in Nat, Snprintf(f, bytes)
  PROVE  /\ touched' \in Nat
         /\ touched' >= touched
         /\ touched' <= size
         /\ nul' \in Nat
         /\ nul < size \/ f.left > 0 => nul' < size
<1>1. /\ f.buffer \in Nat
      /\ f.left \in Nat
      /\ f.buffer + f.left = size
  BY DEF FrameOK, FrameType
<1>2. size \in Nat /\ touched \in Nat /\ nul \in Nat
  BY SizeNat DEF TypeOK
<1> QED
  BY <1>1, <1>2 DEF Snprintf, Smaller, Larger

(* So does wcstombs, without the promise of a terminator. *)
LEMMA WcstombsStays ==
  ASSUME TypeOK, touched <= size, NEW f, NEW start, NEW exact \in BOOLEAN,
         FrameOK(f, start, size, exact), NEW bytes \in Nat, Wcstombs(f, bytes)
  PROVE  /\ touched' \in Nat
         /\ touched' >= touched
         /\ touched' <= size
         /\ nul' \in Nat
<1>1. /\ f.buffer \in Nat
      /\ f.left \in Nat
      /\ f.buffer + f.left = size
  BY DEF FrameOK, FrameType
<1>2. size \in Nat /\ touched \in Nat /\ nul \in Nat
  BY SizeNat DEF TypeOK
<1> QED
  BY <1>1, <1>2 DEF Wcstombs, Smaller, Larger

-----------------------------------------------------------------------------
(* What every step does besides keeping the invariant: the input stays,    *)
(* bytes once written stay written, and the step that returns writes none. *)
Monotone ==
  /\ UNCHANGED inputVars
  /\ touched' >= touched
  /\ pc' = "done" => UNCHANGED touched

(* Steps that return, with whatever result the caller may advance by. *)
LEMMA DoneKeeps ==
  ASSUME WriterInv, pc' = "done", ret' \in (-1) .. size, failed \subseteq failed',
         failed' \subseteq Printers, wild' \in BOOLEAN,
         UNCHANGED <<inputVars, frames, touched, nul, printed>>
  PROVE  WriterInv' /\ Monotone
<1>1. size \in Nat /\ touched \in Nat
  BY SizeNat DEF WriterInv, TypeOK
<1>2. FramesOK(frames, size, Exact')
  <2>1. Exact' => Exact
    BY DEF Exact
  <2>2. Exact \in BOOLEAN /\ Exact' \in BOOLEAN
    BY DEF Exact
  <2> QED
    BY <2>1, <2>2, FramesWeaken DEF WriterInv
<1>3. FramesOK(frames', size', Exact')
  BY <1>2 DEF inputVars
<1>4. TypeOK'
  BY <1>1 DEF WriterInv, TypeOK, inputVars
<1> QED
  BY <1>1, <1>3, <1>4 DEF WriterInv, inputVars, Monotone

(* The first step: the arguments are checked. *)
LEMMA StartKeeps == ASSUME WriterInv, Start PROVE WriterInv' /\ Monotone
<1>1. size \in Nat /\ touched \in Nat /\ pairs \in Seq(Pair)
  BY SizeNat, InputAssumption DEF WriterInv, TypeOK
<1>2. CASE null \/ size = 0 \/ Len(pairs) = 0
  <2>1. /\ pc' = "done"
        /\ ret' \in (-1) .. size
        /\ failed' = failed
        /\ UNCHANGED <<inputVars, frames, touched, nul, printed, wild>>
    BY <1>1, <1>2 DEF Start
  <2>2. failed' \subseteq Printers /\ wild' \in BOOLEAN
    BY <2>1 DEF WriterInv, TypeOK
  <2> QED
    BY <2>1, <2>2, DoneKeeps
<1>3. CASE ~(null \/ size = 0 \/ Len(pairs) = 0)
  <2> DEFINE f == Frame(0, Len(pairs), 0, size)
  <2>1. Exact \in BOOLEAN
    BY DEF Exact
  <2>2. FrameOK(f, 0, size, Exact)
    BY <1>1, <2>1, FrameFresh
  <2>3. f \in FrameType
    BY <2>2 DEF FrameOK
  <2>4. /\ frames' = <<f>>
        /\ pc' = "loop"
        /\ UNCHANGED <<inputVars, ret, touched, nul, printed, failed, wild>>
    BY <1>3 DEF Start
  <2> HIDE DEF f
  <2>5. frames' \in Seq(FrameType) /\ Len(frames') = 1 /\ frames'[1] = f
    BY <2>3, <2>4
  <2>6. FramesOK(frames', size, Exact)
    BY <2>2, <2>5 DEF FramesOK
  <2>7. pc = "call" /\ ret = 0
    BY DEF Start, WriterInv
  <2> QED
    BY <1>1, <2>4, <2>5, <2>6, <2>7 DEF WriterInv, TypeOK, Exact, inputVars, Monotone
<1> QED
  BY <1>2, <1>3

(* A printf-class call failed and the function returns. *)
LEMMA FailKeeps ==
  ASSUME WriterInv, NEW printer \in Printers, Fail(printer)
  PROVE  WriterInv' /\ Monotone
<1>1. size \in Nat
  BY SizeNat DEF WriterInv
<1>2. /\ pc' = "done"
      /\ ret' \in (-1) .. size
      /\ failed' = failed \cup {printer}
      /\ UNCHANGED <<inputVars, frames, touched, nul, printed, wild>>
  BY <1>1 DEF Fail
<1>3. failed' \subseteq Printers /\ wild' \in BOOLEAN
  BY <1>2 DEF WriterInv, TypeOK
<1> QED
  BY <1>2, <1>3, DoneKeeps

(* The outermost activation returns its result. *)
LEMMA ReturnKeeps == ASSUME WriterInv, Return PROVE WriterInv' /\ Monotone
<1>1. size \in Nat /\ Exact \in BOOLEAN /\ Len(frames) > 0
  BY SizeNat DEF WriterInv, Return, Exact
<1>2. FrameOK(Top, 0, size, Exact) /\ Top \in FrameType
  BY <1>1, TopOK DEF WriterInv, Return, Depth, TypeOK
<1>3. Top.result \in (-1) .. size
  BY <1>1, <1>2 DEF FrameOK, FrameType
<1>4. /\ pc' = "done"
      /\ ret' \in (-1) .. size
      /\ failed' = failed
      /\ UNCHANGED <<inputVars, frames, touched, nul, printed, wild>>
  BY <1>3 DEF Return
<1>5. failed' \subseteq Printers /\ wild' \in BOOLEAN
  BY <1>4 DEF WriterInv, TypeOK
<1> QED
  BY <1>4, <1>5, DoneKeeps

(* The array was left: what happens then is not modelled further. *)
LEMMA ReadPastEndKeeps == ASSUME WriterInv, ReadPastEnd PROVE WriterInv' /\ Monotone
<1>1. size \in Nat /\ ret = 0
  BY SizeNat DEF WriterInv, ReadPastEnd
<1>2. /\ pc' = "done"
      /\ ret' \in (-1) .. size
      /\ failed' = failed
      /\ wild' \in BOOLEAN
      /\ UNCHANGED <<inputVars, frames, touched, nul, printed>>
  BY <1>1 DEF ReadPastEnd
<1>3. failed' \subseteq Printers
  BY <1>2 DEF WriterInv, TypeOK
<1> QED
  BY <1>2, <1>3, DoneKeeps

(* Steps that go on. *)
LEMMA ContinueKeeps ==
  ASSUME WriterInv, pc # "done", pc' \in {"loop", "value", "close"},
         FramesOK(frames', size, Exact'), Len(frames') > 0,
         pc' = "value" => Index' < Len(pairs),
         touched' \in Nat, touched' >= touched, touched' <= size, nul' \in Nat,
         printed' \in Seq(Nat), failed' \subseteq Printers,
         UNCHANGED <<inputVars, ret, wild>>
  PROVE  WriterInv' /\ Monotone
<1>1. FramesOK(frames', size', Exact')
  BY DEF inputVars
<1>2. TypeOK'
  BY <1>1 DEF WriterInv, TypeOK, inputVars, FramesOK
<1> QED
  BY <1>1, <1>2 DEF WriterInv, inputVars, Monotone

(* A struct is opened and its fields begin. *)
LEMMA OpenStructKeeps == ASSUME WriterInv, OpenStruct PROVE WriterInv' /\ Monotone
<1>1. CASE Fail("open")
  BY <1>1, FailKeeps DEF Printers
<1>2. CASE ~Fail("open")
  <2> DEFINE g == [Top EXCEPT !.added = @ + 1]
             f == Advance(g, Current.name)
             new == Frame(Index + 1, Current.fields, f.buffer, f.left)
  <2>1. /\ pc = "loop"
        /\ Index < Len(pairs)
        /\ Snprintf(Top, Current.name)
        /\ frames' = Append(SetTop(f), new)
        /\ printed' = Append(printed, Index)
        /\ UNCHANGED <<inputVars, pc, ret, failed, wild>>
    BY <1>2 DEF OpenStruct, AtPair
  <2>2. size \in Nat /\ Exact \in BOOLEAN /\ Len(frames) > 0 /\ TypeOK
    BY <2>1, SizeNat DEF WriterInv, Exact
  <2>3. Index \in Nat /\ Current.name \in Nat /\ Current.fields \in Nat
    BY <2>1, <2>2, CurrentType
  <2>4. FrameOK(Top, Top.start, size, Exact) /\ Top.start \in Nat
    BY <2>2, TopOK DEF WriterInv
  <2>5. FrameOK(g, Top.start, size, Exact)
    BY <2>4, <2>2, CountOK
  <2> HIDE DEF g
  <2>6. /\ FrameOK(f, Top.start, size, Exact)
        /\ f.buffer \in Nat
        /\ f.left \in Nat
        /\ f.buffer + f.left = size
    <3>1. FrameOK(f, Top.start, size, Exact)
      BY <2>2, <2>3, <2>4, <2>5, AdvanceOK
    <3> HIDE DEF f
    <3> QED
      BY <3>1 DEF FrameOK, FrameType
  <2> HIDE DEF f
  <2>7. FrameOK(new, f.buffer, size, Exact)
    <3>1. Index + 1 \in Nat
      BY <2>3
    <3>2. FrameOK(new, f.buffer, f.buffer + f.left, Exact)
      BY <2>2, <2>3, <2>6, <3>1, FrameFresh, ZenonT(30)
    <3> QED
      BY <2>6, <3>2
  <2> HIDE DEF new
  <2>8. /\ FramesOK(SetTop(f), size, Exact)
        /\ Len(SetTop(f)) = Len(frames)
        /\ SetTop(f)[Len(frames)] = f
    BY <2>2, <2>6, SetTopOK DEF WriterInv
  <2>9. FramesOK(frames', size, Exact) /\ Len(frames') > 0
    <3>1. /\ FramesOK(Append(SetTop(f), new), size, Exact)
          /\ Len(Append(SetTop(f), new)) = Len(SetTop(f)) + 1
      BY <2>2, <2>7, <2>8, PushOK
    <3>2. Len(frames) \in Nat
      BY <2>2 DEF TypeOK
    <3> QED
      BY <2>1, <2>8, <3>1, <3>2
  <2>10. /\ touched' \in Nat
         /\ touched' >= touched
         /\ touched' <= size
         /\ nul' \in Nat
    BY <2>1, <2>2, <2>3, <2>4, SnprintfStays DEF WriterInv
  <2>11. printed' \in Seq(Nat)
    BY <2>1, <2>2, <2>3 DEF TypeOK
  <2>12. Exact' = Exact /\ failed' \subseteq Printers
    BY <2>1, <2>2 DEF Exact, TypeOK
  <2> QED
    BY <2>1, <2>9, <2>10, <2>11, <2>12, ContinueKeeps
<1> QED
  BY <1>1, <1>2

(* The name of a field is printed, or fails and is noted in the result. *)
LEMMA NameFieldKeeps == ASSUME WriterInv, NameField PROVE WriterInv' /\ Monotone
<1>1. pc = "loop" /\ Index < Len(pairs) /\ TypeOK
  BY DEF NameField, AtPair, WriterInv
<1>2. size \in Nat /\ Exact \in BOOLEAN /\ Exact' \in BOOLEAN /\ Len(frames) > 0
  BY <1>1, SizeNat DEF WriterInv, Exact
<1>3. Index \in Nat /\ Current.name \in Nat
  BY <1>1, <1>2, CurrentType
<1>4. FrameOK(Top, Top.start, size, Exact) /\ Top.start \in Nat /\ Top \in FrameType
  BY <1>2, TopOK DEF WriterInv
<1>5. CASE "name" \in Failures /\ failed' = failed \cup {"name"}
             /\ frames' = SetTop([Top EXCEPT !.added = @ + 1, !.i = @ + 1, !.result = -1])
             /\ UNCHANGED <<inputVars, pc, ret, touched, nul, printed, wild>>
  <2> DEFINE f == [Top EXCEPT !.added = @ + 1, !.i = @ + 1, !.result = -1]
  <2>1. Exact' = FALSE /\ failed' \subseteq Printers
    BY <1>1, <1>5 DEF Exact, TypeOK, Printers
  <2>2. f \in FrameType
    <3>1. Top.added + 1 \in Nat /\ Top.i + 1 \in Nat /\ -1 \in Int
      BY <1>4 DEF FrameType
    <3>2. ASSUME NEW t \in FrameType, NEW a \in Nat, NEW b \in Nat, NEW c \in Int
          PROVE  [t EXCEPT !.added = a, !.i = b, !.result = c] \in FrameType
      BY DEF FrameType
    <3> QED
      BY <1>4, <3>1, <3>2
  <2>3. FrameOK(f, Top.start, size, FALSE)
    BY <1>4, <2>2 DEF FrameOK, FrameType
  <2> HIDE DEF f
  <2>4. FramesOK(SetTop(f), size, FALSE) /\ Len(SetTop(f)) = Len(frames)
    BY <1>2, <2>3, SetTopOK DEF WriterInv
  <2>5. FramesOK(frames', size, Exact') /\ Len(frames') > 0
    BY <1>2, <1>5, <2>1, <2>4 DEF f
  <2>6. touched' \in Nat /\ touched' >= touched /\ touched' <= size /\ nul' \in Nat
    BY <1>1, <1>5 DEF WriterInv, TypeOK
  <2>7. printed' \in Seq(Nat)
    BY <1>1, <1>5 DEF TypeOK
  <2> QED
    BY <1>1, <1>5, <2>1, <2>5, <2>6, <2>7, ContinueKeeps
<1>6. CASE /\ Snprintf(Top, Current.name)
           /\ frames' = SetTop(Advance([Top EXCEPT !.added = @ + 1], Current.name))
           /\ pc' = "value"
           /\ UNCHANGED <<inputVars, ret, printed, failed, wild>>
  <2> DEFINE g == [Top EXCEPT !.added = @ + 1]
             f == Advance(g, Current.name)
  <2>1. FrameOK(g, Top.start, size, Exact)
    BY <1>2, <1>4, CountOK
  <2>2. FrameOK(f, Top.start, size, Exact)
    <3> HIDE DEF g
    <3> QED
      BY <1>2, <1>3, <1>4, <2>1, AdvanceOK
  <2>3. f.base = Top.base /\ f.i = Top.i
    BY <1>4 DEF Advance, FrameType
  <2>4. frames' = SetTop(f)
    BY <1>6
  <2> HIDE DEF f, g
  <2>5. FramesOK(frames', size, Exact) /\ Len(frames') = Len(frames)
          /\ frames'[Len(frames)] = f
    BY <1>2, <2>2, <2>4, SetTopOK DEF WriterInv
  <2>6. Index' = Index
    BY <2>3, <2>5 DEF Index, Top
  <2>7. /\ touched' \in Nat
        /\ touched' >= touched
        /\ touched' <= size
        /\ nul' \in Nat
    BY <1>1, <1>2, <1>3, <1>4, <1>6, SnprintfStays DEF WriterInv
  <2>8. Exact' = Exact /\ failed' \subseteq Printers /\ printed' \in Seq(Nat)
    BY <1>1, <1>6 DEF Exact, TypeOK
  <2> QED
    BY <1>1, <1>2, <1>6, <2>5, <2>6, <2>7, <2>8, ContinueKeeps
<1> QED
  BY <1>5, <1>6 DEF NameField

(* The innermost activation counts a pair and advances by some bytes: what *)
(* the value of a field and the end of a struct have in common.            *)
LEMMA CountAndAdvance ==
  ASSUME WriterInv, Len(frames) > 0, NEW bytes \in Nat,
         frames' = SetTop(Advance([Top EXCEPT !.i = @ + 1], bytes))
  PROVE  FramesOK(frames', size, Exact) /\ Len(frames') > 0
<1> DEFINE g == [Top EXCEPT !.i = @ + 1]
           f == Advance(g, bytes)
<1>1. size \in Nat /\ Exact \in BOOLEAN
  BY SizeNat DEF WriterInv, Exact
<1>2. FrameOK(Top, Top.start, size, Exact) /\ Top.start \in Nat
  BY <1>1, TopOK DEF WriterInv
<1>3. FrameOK(g, Top.start, size, Exact)
  BY <1>1, <1>2, CountOK
<1> HIDE DEF g
<1>4. FrameOK(f, Top.start, size, Exact)
  BY <1>1, <1>2, <1>3, AdvanceOK
<1>5. frames' = SetTop(f)
  BY DEF g
<1> HIDE DEF f
<1> QED
  BY <1>1, <1>4, <1>5, SetTopOK DEF WriterInv

(* The value of a field is printed. *)
LEMMA PrintFieldKeeps == ASSUME WriterInv, PrintField PROVE WriterInv' /\ Monotone
<1>1. CASE Fail("value")
  BY <1>1, FailKeeps DEF Printers
<1>2. CASE ~Fail("value")
  <2>1. /\ pc = "value"
        /\ IF Current.wide THEN Wcstombs(Top, Current.value) ELSE Snprintf(Top, Current.value)
        /\ frames' = SetTop(Advance([Top EXCEPT !.i = @ + 1], Current.value))
        /\ printed' = Append(printed, Index)
        /\ pc' = "loop"
        /\ UNCHANGED <<inputVars, ret, failed, wild>>
    BY <1>2 DEF PrintField
  <2>2. /\ size \in Nat
        /\ Exact \in BOOLEAN
        /\ Len(frames) > 0
        /\ TypeOK
        /\ Index < Len(pairs)
    BY <2>1, SizeNat DEF WriterInv, Exact
  <2>3. Index \in Nat /\ Current.value \in Nat
    BY <2>2, CurrentType
  <2>4. FrameOK(Top, Top.start, size, Exact)
    BY <2>2, TopOK DEF WriterInv
  <2>5. FramesOK(frames', size, Exact) /\ Len(frames') > 0
    BY <2>1, <2>2, <2>3, CountAndAdvance
  <2>6. /\ touched' \in Nat
        /\ touched' >= touched
        /\ touched' <= size
        /\ nul' \in Nat
    BY <2>1, <2>2, <2>3, <2>4, SnprintfStays, WcstombsStays DEF WriterInv
  <2>7. printed' \in Seq(Nat)
    BY <2>1, <2>2, <2>3 DEF TypeOK
  <2>8. Exact' = Exact /\ failed' \subseteq Printers
    BY <2>1, <2>2 DEF Exact, TypeOK
  <2> QED
    BY <2>1, <2>5, <2>6, <2>7, <2>8, ContinueKeeps
<1> QED
  BY <1>1, <1>2

(* The end of a struct is printed. *)
LEMMA CloseStructKeeps == ASSUME WriterInv, CloseStruct PROVE WriterInv' /\ Monotone
<1>1. CASE Fail("close")
  BY <1>1, FailKeeps DEF Printers
<1>2. CASE ~Fail("close")
  <2>1. /\ pc = "close"
        /\ Snprintf(Top, 2)
        /\ frames' = SetTop(Advance([Top EXCEPT !.i = @ + 1], 2))
        /\ pc' = "loop"
        /\ UNCHANGED <<inputVars, ret, printed, failed, wild>>
    BY <1>2 DEF CloseStruct
  <2>2. size \in Nat /\ Exact \in BOOLEAN /\ Len(frames) > 0 /\ TypeOK
    BY <2>1, SizeNat DEF WriterInv, Exact
  <2>3. FrameOK(Top, Top.start, size, Exact)
    BY <2>2, TopOK DEF WriterInv
  <2>4. FramesOK(frames', size, Exact) /\ Len(frames') > 0
    BY <2>1, <2>2, CountAndAdvance
  <2>5. /\ touched' \in Nat
        /\ touched' >= touched
        /\ touched' <= size
        /\ nul' \in Nat
    BY <2>1, <2>2, <2>3, SnprintfStays DEF WriterInv
  <2>6. Exact' = Exact /\ failed' \subseteq Printers /\ printed' \in Seq(Nat)
    BY <2>1, <2>2 DEF Exact, TypeOK
  <2> QED
    BY <2>1, <2>4, <2>5, <2>6, ContinueKeeps
<1> QED
  BY <1>1, <1>2

(* A nested activation returns; its caller advances by its result. *)
LEMMA ReturnToCallerKeeps == ASSUME WriterInv, ReturnToCaller PROVE WriterInv' /\ Monotone
<1>1. /\ pc = "loop"
      /\ Depth > 0
      /\ TypeOK
      /\ UNCHANGED <<inputVars, touched, nul, printed, failed, wild>>
  BY DEF ReturnToCaller, WriterInv
<1>2. size \in Nat /\ Exact \in BOOLEAN /\ Len(frames) > 0 /\ Len(frames) \in Nat
  BY <1>1, SizeNat DEF WriterInv, Exact, TypeOK
<1>3. CASE Top.result < 0
  <2>1. /\ pc' = "done"
        /\ ret' \in (-1) .. size
        /\ UNCHANGED frames
    BY <1>2, <1>3 DEF ReturnToCaller
  <2>2. failed' \subseteq Printers /\ wild' \in BOOLEAN
    BY <1>1 DEF TypeOK
  <2> QED
    BY <1>1, <2>1, <2>2, DoneKeeps
<1>4. CASE ~(Top.result < 0)
  <2> DEFINE caller == frames[Depth]
             g == [caller EXCEPT !.i = @ + Top.i]
             f == Advance(g, Top.result)
  <2>1. /\ frames' = Append(SubSeq(frames, 1, Depth - 1), f)
        /\ pc' = "close"
        /\ UNCHANGED ret
    BY <1>4 DEF ReturnToCaller
  <2>2. Top \in FrameType
    BY <1>2, TopOK DEF WriterInv
  <2>3. Top.result \in Nat /\ Top.i \in Nat
    BY <1>4, <2>2 DEF FrameType
  <2>4. Depth \in 1 .. Len(frames)
    BY <1>1, <1>2 DEF Depth
  <2>5. FrameOK(caller, caller.start, size, Exact) /\ caller.start \in Nat
    <3>1. FrameOK(caller, IF Depth = 1 THEN 0 ELSE frames[Depth - 1].buffer, size, Exact)
      BY <2>4 DEF WriterInv, FramesOK
    <3> HIDE DEF caller
    <3> QED
      BY <3>1 DEF FrameOK, FrameType
  <2>6. FrameOK(g, caller.start, size, Exact)
    <3> HIDE DEF caller
    <3> QED
      BY <1>2, <2>3, <2>5, CountOK
  <2>7. FrameOK(f, caller.start, size, Exact)
    <3> HIDE DEF g
    <3> QED
      BY <1>2, <2>3, <2>5, <2>6, AdvanceOK
  <2> HIDE DEF f
  <2>8. FramesOK(frames', size, Exact) /\ Len(frames') > 0
    BY <1>1, <1>2, <2>1, <2>7, PopOK DEF WriterInv
  <2>9. touched' \in Nat /\ touched' >= touched /\ touched' <= size /\ nul' \in Nat
    BY <1>1 DEF WriterInv, TypeOK
  <2>10. Exact' = Exact /\ failed' \subseteq Printers /\ printed' \in Seq(Nat)
    BY <1>1 DEF Exact, TypeOK
  <2> QED
    BY <1>1, <2>1, <2>8, <2>9, <2>10, ContinueKeeps
<1> QED
  BY <1>3, <1>4

(* Every step keeps the invariant and only adds bytes. *)
LEMMA StepKeeps == ASSUME WriterInv, Step PROVE WriterInv' /\ Monotone
BY StartKeeps, OpenStructKeeps, NameFieldKeeps, PrintFieldKeeps, ReturnToCallerKeeps,
   CloseStructKeeps, ReturnKeeps, ReadPastEndKeeps
DEF Step

-----------------------------------------------------------------------------
(* WriterInv holds throughout every call. *)
THEOREM WriterInvariance == Spec => []WriterInv
<1>1. Init => WriterInv
  <2> SUFFICES ASSUME Init PROVE WriterInv
    OBVIOUS
  <2>1. size \in Nat
    BY InputAssumption DEF Init
  <2>2. frames \in Seq(FrameType) /\ printed \in Seq(Nat) /\ Len(frames) = 0
    BY DEF Init
  <2>3. TypeOK
    <3>1. ret \in Int /\ touched \in Nat /\ nul \in Nat
      BY <2>1 DEF Init
    <3>2. failed \subseteq Printers /\ wild \in BOOLEAN
      BY DEF Init
    <3>3. pairs \in PairArrays /\ size \in BufferSizes /\ null \in BOOLEAN
      BY DEF Init
    <3>4. pc \in {"call", "loop", "value", "close", "done"}
      BY DEF Init
    <3> QED
      BY <2>2, <3>1, <3>2, <3>3, <3>4 DEF TypeOK
  <2>4. FramesOK(frames, size, Exact)
    BY <2>2 DEF FramesOK
  <2> QED
    BY <2>1, <2>3, <2>4 DEF Init, WriterInv
<1>2. WriterInv /\ [Next]_vars => WriterInv'
  <2> SUFFICES ASSUME WriterInv, [Next]_vars PROVE WriterInv'
    OBVIOUS
  <2>1. CASE Step
    BY <2>1, StepKeeps
  <2>2. CASE UNCHANGED vars
    BY <2>2 DEF vars, WriterInv, TypeOK, Exact, Index, Top
  <2> QED
    BY <2>1, <2>2 DEF Next, Done
<1> QED
  BY <1>1, <1>2, PTL DEF Spec

(* The type invariant; in particular, no activation's remaining size ever  *)
(* falls below zero.                                                       *)
THEOREM WriterTypeCorrect == Spec => []TypeOK
<1>1. WriterInv => TypeOK
  BY DEF WriterInv
<1> QED
  BY <1>1, WriterInvariance, PTL

(* At every depth of the recursion buffer and remaining size end at the    *)
(* end of the caller's buffer, a callee began where its caller stands, and *)
(* results count what was advanced by.                                     *)
THEOREM WriterAccounts == Spec => []BytesAccounted
<1>1. WriterInv => BytesAccounted
  BY DEF WriterInv, BytesAccounted, FramesOK, FrameOK, Exact
<1> QED
  BY <1>1, WriterInvariance, PTL

(* Nothing is ever written outside the caller's buffer, and the result     *)
(* never claims more than the buffer holds.                                *)
THEOREM WriterStays == Spec => []StaysInBuffer
<1>1. WriterInv => StaysInBuffer
  BY DEF WriterInv, StaysInBuffer
<1> QED
  BY <1>1, WriterInvariance, PTL

(* To its callers, whatever it prints, the function is a bounded writer:   *)
(* it writes inside the buffer it was given, then answers once with a      *)
(* negative value or a number of bytes the caller may advance by.          *)
THEOREM WriterRefinement == Spec => ImplementsBoundedWriter
<1>1. Init => Promise!Init
  BY InputAssumption DEF Init, Promise!Init
<1>2. WriterInv /\ [Next]_vars => [Promise!Next]_(Promise!writerVars)
  <2> SUFFICES ASSUME WriterInv, [Next]_vars
               PROVE  [Promise!Next]_(Promise!writerVars)
    OBVIOUS
  <2>1. CASE Step
    <3>1. WriterInv' /\ Monotone
      BY <2>1, StepKeeps
    <3>2. size \in Nat /\ size' = size /\ touched \in Nat /\ touched' \in Nat
      BY <3>1, SizeNat DEF Monotone, inputVars, WriterInv, TypeOK
    <3>3. pc # "done"
      BY <2>1 DEF Step, Start, OpenStruct, NameField, AtPair, PrintField, ReturnToCaller,
                  CloseStruct, Return, ReadPastEnd
    <3>4. CASE pc' = "done"
      <4>1. touched' = touched /\ ret' \in (-1) .. size
        BY <3>1, <3>2, <3>4 DEF Monotone, WriterInv
      <4> QED
        BY <3>2, <3>3, <3>4, <4>1 DEF Promise!Next, Promise!Answer
    <3>5. CASE pc' # "done"
      <4>1. ret' = ret
        BY <3>1, <3>3, <3>5 DEF WriterInv
      <4>2. touched' \in touched .. size
        BY <3>1, <3>2 DEF Monotone, WriterInv
      <4> QED
        BY <3>2, <3>3, <3>5, <4>1, <4>2 DEF Promise!Next, Promise!Write
    <3> QED
      BY <3>4, <3>5
  <2>2. CASE UNCHANGED vars
    BY <2>2 DEF vars, Promise!writerVars
  <2> QED
    BY <2>1, <2>2 DEF Next, Done
<1> QED
  BY <1>1, <1>2, WriterInvariance, PTL DEF Spec, ImplementsBoundedWriter, Promise!Spec

-----------------------------------------------------------------------------
(* The terminator *)

(* The outermost activation goes over the whole array, and until something *)
(* was printed the whole buffer is left and the result says so.            *)
Unprinted ==
  /\ pc = "loop" /\ Len(frames) = 1
  /\ frames[1].left = size
  /\ frames[1].result = IF frames[1].i = 0 THEN 0 ELSE -1

NoWide == \A k \in 1 .. Len(pairs) : ~pairs[k].wide

TerminatorInv ==
  /\ pc \in {"loop", "value", "close"} =>
       /\ frames[1].base = 0 /\ frames[1].count = Len(pairs)
       /\ size > 0 /\ Len(pairs) > 0
       /\ NoWide => nul < size \/ Unprinted
  /\ LineTerminated

-----------------------------------------------------------------------------
(* The layout of the array *)

(* The activation f stands behind the first n pairs, none of which belongs *)
(* to a struct that encloses it; open: it is in the middle of a pair.      *)
StandsAt(ps, f, n, open) ==
  /\ n \in f.base .. Len(ps)
  /\ \A m \in f.base .. n : Surplus(ps)[m] >= Surplus(ps)[n]
  /\ Surplus(ps)[n] = Surplus(ps)[f.base] - f.added + (IF open THEN 1 ELSE 0)

(* The activation f is for the fields of the struct its caller is at. *)
PrintsFieldsOf(ps, f, caller) ==
  /\ f.base = caller.base + caller.i + 1
  /\ f.base <= Len(ps)
  /\ ps[f.base].struct
  /\ f.count = ps[f.base].fields
  /\ f.added <= f.count

(* Every activation is for the struct its caller stands at. *)
Nested(ps, fs) ==
  \A k \in 1 .. Len(fs) - 1 :
    /\ StandsAt(ps, fs[k], fs[k].base + fs[k].i, TRUE)
    /\ PrintsFieldsOf(ps, fs[k + 1], fs[k])

(* A struct that is being closed has been printed. *)
Here == Index + (IF pc = "close" THEN 1 ELSE 0)

FirstIndices(n) == [k \in 1 .. n |-> k - 1]

Standing ==
  /\ Nested(pairs, frames)
  /\ StandsAt(pairs, Top, Here, pc = "value")
  /\ pc = "value" => ~Current.struct
  /\ failed = {} => printed = FirstIndices(Here)

LayoutInv ==
  WellFormed(pairs) =>
    /\ ~wild
    /\ pc = "call" => printed = <<>>
    /\ pc \in {"loop", "value", "close"} => Standing
    /\ pc = "done" /\ ret >= 0 /\ failed = {} => printed = FirstIndices(Len(pairs))

-----------------------------------------------------------------------------
(* The activations, one by one *)

(* Moving an activation changes what it is for in nothing. *)
LEMMA AdvanceFields ==
  ASSUME NEW f \in FrameType, NEW bytes \in Nat
  PROVE  /\ Advance(f, bytes) \in FrameType
         /\ Advance(f, bytes).base = f.base /\ Advance(f, bytes).count = f.count
         /\ Advance(f, bytes).i = f.i /\ Advance(f, bytes).added = f.added
<1> DEFINE n == Smaller(bytes, f.left)
<1>1. n \in 0 .. f.left
  BY DEF Smaller, FrameType
<1>2. Advance(f, bytes)
        = [f EXCEPT !.buffer = f.buffer + n, !.left = f.left - n, !.result = f.result + n]
  BY DEF Advance
<1> HIDE DEF n
<1>3. f.buffer + n \in Nat /\ f.left - n \in Nat /\ f.result + n \in Int
  BY <1>1 DEF FrameType
<1> QED
  BY <1>2, <1>3 DEF FrameType

LEMMA CountFields ==
  ASSUME NEW f \in FrameType, NEW n \in Nat
  PROVE  /\ [f EXCEPT !.added = @ + 1] \in FrameType
         /\ [f EXCEPT !.added = @ + 1].base = f.base
         /\ [f EXCEPT !.added = @ + 1].count = f.count
         /\ [f EXCEPT !.added = @ + 1].i = f.i
         /\ [f EXCEPT !.added = @ + 1].added = f.added + 1
         /\ [f EXCEPT !.i = @ + n] \in FrameType
         /\ [f EXCEPT !.i = @ + n].base = f.base
         /\ [f EXCEPT !.i = @ + n].count = f.count
         /\ [f EXCEPT !.i = @ + n].i = f.i + n
         /\ [f EXCEPT !.i = @ + n].added = f.added
<1>1. f.added + 1 \in Nat /\ f.i + n \in Nat
  BY DEF FrameType
<1> QED
  BY <1>1 DEF FrameType

LEMMA SetTopIs ==
  ASSUME frames \in Seq(FrameType), Len(frames) > 0, NEW f \in FrameType
  PROVE  /\ SetTop(f) \in Seq(FrameType) /\ Len(SetTop(f)) = Len(frames)
         /\ SetTop(f)[Len(frames)] = f
         /\ \A k \in 1 .. Len(frames) - 1 : SetTop(f)[k] = frames[k]
BY DEF SetTop

LEMMA PushIs ==
  ASSUME NEW fs \in Seq(FrameType), NEW f \in FrameType
  PROVE  /\ Append(fs, f) \in Seq(FrameType) /\ Len(Append(fs, f)) = Len(fs) + 1
         /\ Append(fs, f)[Len(fs) + 1] = f
         /\ \A k \in 1 .. Len(fs) : Append(fs, f)[k] = fs[k]
OBVIOUS

LEMMA PopIs ==
  ASSUME frames \in Seq(FrameType), Depth > 0, NEW f \in FrameType,
         NEW fs, fs = Append(SubSeq(frames, 1, Depth - 1), f)
  PROVE  /\ fs \in Seq(FrameType) /\ Len(fs) = Depth /\ fs[Depth] = f
         /\ \A k \in 1 .. Depth - 1 : fs[k] = frames[k]
<1>1. Depth \in Nat /\ Depth > 0 /\ Depth = Len(frames) - 1
  <2>1. Len(frames) \in Nat
    OBVIOUS
  <2> QED
    BY <2>1 DEF Depth
<1>2. /\ SubSeq(frames, 1, Depth - 1) \in Seq(FrameType)
      /\ Len(SubSeq(frames, 1, Depth - 1)) = Depth - 1
      /\ \A k \in 1 .. Depth - 1 : SubSeq(frames, 1, Depth - 1)[k] = frames[k]
  <2> DEFINE n == Depth - 1
  <2>1. n \in Nat /\ n <= Len(frames)
    BY <1>1
  <2> HIDE DEF n
  <2>2. /\ SubSeq(frames, 1, n) \in Seq(FrameType) /\ Len(SubSeq(frames, 1, n)) = n
        /\ \A k \in 1 .. n : SubSeq(frames, 1, n)[k] = frames[k]
    BY <2>1
  <2> QED
    BY <2>2 DEF n
<1> QED
  BY <1>1, <1>2

(* What every state with an activation has. *)
LEMMA TopFacts ==
  ASSUME WriterInv, pc \in {"loop", "value", "close"}
  PROVE  /\ frames \in Seq(FrameType) /\ Len(frames) \in Nat /\ Len(frames) > 0
         /\ Top \in FrameType /\ Top = frames[Len(frames)]
         /\ Depth \in Nat /\ Depth = Len(frames) - 1
         /\ Top.base \in Nat /\ Top.i \in Nat /\ Top.added \in Nat /\ Top.count \in Nat
         /\ Top.result \in Int /\ Index \in Nat /\ Index = Top.base + Top.i
         /\ pairs \in Seq(Pair) /\ Len(pairs) \in Nat /\ size \in Nat /\ nul \in Nat
<1>1. frames \in Seq(FrameType) /\ Len(frames) > 0 /\ Len(frames) \in Nat
  BY DEF WriterInv, TypeOK
<1>2. Top \in FrameType /\ Top = frames[Len(frames)]
  BY <1>1 DEF Top
<1>3. /\ Top.base \in Nat /\ Top.i \in Nat /\ Top.added \in Nat /\ Top.count \in Nat
      /\ Top.result \in Int
  BY <1>2 DEF FrameType
<1>4. Index \in Nat /\ Index = Top.base + Top.i
  BY <1>3 DEF Index
<1>5. Depth \in Nat /\ Depth = Len(frames) - 1
  BY <1>1 DEF Depth
<1>6. pairs \in Seq(Pair) /\ Len(pairs) \in Nat /\ size \in Nat /\ nul \in Nat
  BY SizeNat, InputAssumption DEF WriterInv, TypeOK
<1> QED
  BY <1>1, <1>2, <1>3, <1>4, <1>5, <1>6

(* What the steps that go on make of the activations: the innermost one is *)
(* moved or, for a struct, one is put on top of it or taken off again.     *)
LEMMA MoveIs ==
  ASSUME WriterInv, pc \in {"loop", "value", "close"}, NEW f \in FrameType, frames' = SetTop(f)
  PROVE  /\ Len(frames') = Len(frames) /\ Depth' = Depth /\ Top' = f
         /\ \A k \in 1 .. Depth : frames'[k] = frames[k]
<1>1. /\ frames \in Seq(FrameType) /\ Len(frames) \in Nat /\ Len(frames) > 0
      /\ Depth = Len(frames) - 1
  BY TopFacts
<1>2. /\ Len(frames') = Len(frames) /\ frames'[Len(frames)] = f
      /\ \A k \in 1 .. Len(frames) - 1 : frames'[k] = frames[k]
  BY <1>1, SetTopIs
<1> QED
  BY <1>1, <1>2 DEF Depth, Top

LEMMA OpenIs ==
  ASSUME WriterInv, pc \in {"loop", "value", "close"}, NEW f \in FrameType, NEW g \in FrameType,
         frames' = Append(SetTop(f), g)
  PROVE  /\ Len(frames') = Len(frames) + 1 /\ Depth' = Len(frames) /\ Top' = g
         /\ frames'[Len(frames)] = f
         /\ \A k \in 1 .. Depth : frames'[k] = frames[k]
<1>1. /\ frames \in Seq(FrameType) /\ Len(frames) \in Nat /\ Len(frames) > 0
      /\ Depth = Len(frames) - 1
  BY TopFacts
<1> DEFINE fs == SetTop(f)
<1>2. /\ fs \in Seq(FrameType) /\ Len(fs) = Len(frames) /\ fs[Len(frames)] = f
      /\ \A k \in 1 .. Len(frames) - 1 : fs[k] = frames[k]
  BY <1>1, SetTopIs
<1>3. frames' = Append(fs, g)
  OBVIOUS
<1> HIDE DEF fs
<1>4. /\ Len(frames') = Len(frames) + 1 /\ frames'[Len(frames) + 1] = g
      /\ \A k \in 1 .. Len(frames) : frames'[k] = fs[k]
  BY <1>2, <1>3, PushIs
<1>5. Depth' = Len(frames) /\ Top' = g
  BY <1>1, <1>4 DEF Depth, Top
<1>6. frames'[Len(frames)] = f /\ \A k \in 1 .. Depth : frames'[k] = frames[k]
  BY <1>1, <1>2, <1>4
<1> QED
  BY <1>4, <1>5, <1>6

LEMMA CloseIs ==
  ASSUME WriterInv, pc = "loop", Depth > 0, NEW f \in FrameType,
         frames' = Append(SubSeq(frames, 1, Depth - 1), f)
  PROVE  /\ Len(frames') = Depth /\ Depth' = Depth - 1 /\ Top' = f
         /\ \A k \in 1 .. Depth - 1 : frames'[k] = frames[k]
<1>1. frames \in Seq(FrameType) /\ Depth \in Nat
  BY TopFacts
<1>2. /\ Len(frames') = Depth /\ frames'[Depth] = f
      /\ \A k \in 1 .. Depth - 1 : frames'[k] = frames[k]
  BY <1>1, PopIs
<1> QED
  BY <1>1, <1>2 DEF Depth, Top

-----------------------------------------------------------------------------
(* The terminator, step by step *)

Going == {"loop", "value", "close"}

(* A step that goes on from a state in which something was printed, or     *)
(* prints something now.                                                   *)
LEMMA PrintedKeeps ==
  ASSUME WriterInv, TerminatorInv, pc \in Going, pc' \in Going, UNCHANGED inputVars,
         frames'[1].base = frames[1].base, frames'[1].count = frames[1].count,
         NoWide => nul' < size
  PROVE  TerminatorInv'
<1>1. NoWide' = NoWide
  BY DEF NoWide, inputVars
<1>2. pc' # "done" /\ size' = size /\ pairs' = pairs
  BY DEF Going, inputVars
<1> QED
  BY <1>1, <1>2 DEF TerminatorInv, Going, LineTerminated

LEMMA FailsTerminated ==
  ASSUME pc' = "done", ret' = -1
  PROVE  TerminatorInv'
BY DEF TerminatorInv, LineTerminated

(* snprintf leaves a terminator, at the latest with the first pair. *)
LEMMA SnprintfTerminates ==
  ASSUME WriterInv, TerminatorInv, pc \in Going, NEW bytes \in Nat, Snprintf(Top, bytes), NoWide
  PROVE  nul' < size
<1>1. size \in Nat /\ Exact \in BOOLEAN /\ TypeOK /\ touched <= size
      /\ FramesOK(frames, size, Exact) /\ Len(frames) > 0
  BY SizeNat DEF WriterInv, Exact, Going
<1>2. FrameOK(Top, Top.start, size, Exact)
  BY <1>1, TopOK
<1>3. nul < size \/ Top.left > 0
  <2>1. CASE nul < size
    BY <2>1
  <2>2. CASE Unprinted
    BY <2>2 DEF Unprinted, Top, TerminatorInv, Going
  <2> QED
    BY <2>1, <2>2 DEF TerminatorInv, Going
<1> QED
  BY <1>1, <1>2, <1>3, SnprintfStays

LEMMA OpenTerminated == ASSUME WriterInv, TerminatorInv, OpenStruct PROVE TerminatorInv'
<1>1. CASE Fail("open")
  BY <1>1, FailsTerminated DEF Fail
<1>2. CASE ~Fail("open")
  <2> DEFINE f0 == [Top EXCEPT !.added = @ + 1]
             f == Advance(f0, Current.name)
             g == Frame(Index + 1, Current.fields, f.buffer, f.left)
  <2>1. /\ pc = "loop" /\ Index < Len(pairs) /\ Snprintf(Top, Current.name)
        /\ frames' = Append(SetTop(f), g) /\ UNCHANGED <<inputVars, pc>>
    BY <1>2 DEF OpenStruct, AtPair
  <2>2. Top \in FrameType /\ Len(frames) \in Nat /\ Len(frames) > 0 /\ Depth = Len(frames) - 1
        /\ Top = frames[Len(frames)]
    BY <2>1, TopFacts
  <2>3. Current.name \in Nat /\ Current.fields \in Nat /\ Index \in Nat
    BY <2>1, <2>2, CurrentType DEF WriterInv
  <2>4. f0 \in FrameType /\ f0.base = Top.base /\ f0.count = Top.count
    BY <2>2, CountFields
  <2> HIDE DEF f0
  <2>5. f \in FrameType /\ f.base = Top.base /\ f.count = Top.count
    BY <2>3, <2>4, AdvanceFields
  <2> HIDE DEF f
  <2>6. g \in FrameType
    BY <2>3, <2>5 DEF Frame, FrameType
  <2> HIDE DEF g
  <2>7. frames'[Len(frames)] = f /\ \A k \in 1 .. Depth : frames'[k] = frames[k]
    BY <2>1, <2>5, <2>6, OpenIs
  <2>8. frames'[1].base = frames[1].base /\ frames'[1].count = frames[1].count
    BY <2>2, <2>5, <2>7
  <2>9. NoWide => nul' < size
    BY <2>1, <2>3, SnprintfTerminates DEF Going
  <2> QED
    BY <2>1, <2>8, <2>9, PrintedKeeps DEF Going
<1> QED
  BY <1>1, <1>2

(* The innermost activation is replaced by one for the same pairs. *)
LEMMA OutermostStays ==
  ASSUME WriterInv, pc \in Going, NEW f \in FrameType, frames' = SetTop(f),
         f.base = Top.base, f.count = Top.count
  PROVE  frames'[1].base = frames[1].base /\ frames'[1].count = frames[1].count
<1>1. /\ Len(frames) \in Nat /\ Len(frames) > 0 /\ Depth = Len(frames) - 1
      /\ Top = frames[Len(frames)]
  BY TopFacts DEF Going
<1>2. Len(frames') = Len(frames) /\ Top' = f /\ \A k \in 1 .. Depth : frames'[k] = frames[k]
  BY MoveIs DEF Going
<1>3. frames'[Len(frames)] = f
  BY <1>2 DEF Top
<1> QED
  BY <1>1, <1>2, <1>3

LEMMA NameTerminated == ASSUME WriterInv, TerminatorInv, NameField PROVE TerminatorInv'
<1>1. pc = "loop" /\ Index < Len(pairs) /\ UNCHANGED inputVars
  BY DEF NameField, AtPair
<1>2. /\ Top \in FrameType /\ Len(frames) \in Nat /\ Len(frames) > 0
      /\ Top = frames[Len(frames)] /\ Top.i \in Nat /\ nul \in Nat /\ size \in Nat
  BY <1>1, TopFacts
<1>3. Current.name \in Nat
  BY <1>1, <1>2, CurrentType DEF WriterInv
<1>4. CASE frames' = SetTop([Top EXCEPT !.added = @ + 1, !.i = @ + 1, !.result = -1])
           /\ UNCHANGED <<pc, nul>>
  <2> DEFINE f == [Top EXCEPT !.added = @ + 1, !.i = @ + 1, !.result = -1]
  <2>1. /\ f \in FrameType /\ f.base = Top.base /\ f.count = Top.count
        /\ f.i = Top.i + 1 /\ f.left = Top.left /\ f.result = -1
    <3>1. Top.added + 1 \in Nat /\ Top.i + 1 \in Nat /\ -1 \in Int
      BY <1>2 DEF FrameType
    <3> QED
      BY <1>2, <3>1 DEF FrameType
  <2> HIDE DEF f
  <2>2. frames' = SetTop(f)
    BY <1>4 DEF f
  <2>3. frames'[1].base = frames[1].base /\ frames'[1].count = frames[1].count
    BY <1>1, <2>1, <2>2, OutermostStays DEF Going
  <2>4. CASE nul < size
    BY <1>1, <1>4, <2>3, <2>4, PrintedKeeps DEF Going
  <2>5. CASE Unprinted
    <3>1. Len(frames') = Len(frames) /\ Top' = f
      BY <1>1, <2>1, <2>2, MoveIs
    <3>2. Len(frames) = 1 /\ frames'[1] = f /\ Top.left = size
      BY <2>5, <3>1 DEF Unprinted, Top
    <3>3. f.i # 0
      BY <1>2, <2>1
    <3>4. Unprinted'
      BY <1>1, <1>4, <2>1, <3>1, <3>2, <3>3 DEF Unprinted, inputVars
    <3>5. NoWide' = NoWide /\ pc' = "loop" /\ size' = size /\ pairs' = pairs
      BY <1>1, <1>4 DEF NoWide, inputVars
    <3> QED
      BY <1>1, <2>3, <3>4, <3>5 DEF TerminatorInv, LineTerminated, Going
  <2>6. CASE ~NoWide
    BY <1>1, <1>4, <2>3, <2>6, PrintedKeeps DEF Going
  <2> QED
    BY <1>1, <2>4, <2>5, <2>6 DEF TerminatorInv
<1>5. CASE /\ Snprintf(Top, Current.name) /\ pc' = "value"
           /\ frames' = SetTop(Advance([Top EXCEPT !.added = @ + 1], Current.name))
  <2> DEFINE g == [Top EXCEPT !.added = @ + 1]
             f == Advance(g, Current.name)
  <2>1. g \in FrameType /\ g.base = Top.base /\ g.count = Top.count
    BY <1>2, CountFields
  <2> HIDE DEF g
  <2>2. f \in FrameType /\ f.base = Top.base /\ f.count = Top.count
    BY <1>3, <2>1, AdvanceFields
  <2>3. frames' = SetTop(f)
    BY <1>5 DEF g
  <2> HIDE DEF f
  <2>4. frames'[1].base = frames[1].base /\ frames'[1].count = frames[1].count
    BY <1>1, <2>2, <2>3, OutermostStays DEF Going
  <2>5. NoWide => nul' < size
    BY <1>1, <1>3, <1>5, SnprintfTerminates DEF Going
  <2> QED
    BY <1>1, <1>5, <2>4, <2>5, PrintedKeeps DEF Going
<1> QED
  BY <1>4, <1>5 DEF NameField

(* A value, or the end of a struct. *)
LEMMA ValueTerminated ==
  ASSUME WriterInv, TerminatorInv, PrintField \/ CloseStruct
  PROVE  TerminatorInv'
<1>1. CASE Fail("value") \/ Fail("close")
  BY <1>1, FailsTerminated DEF Fail
<1>2. CASE ~(Fail("value") \/ Fail("close"))
  <2>1. PICK bytes \in Nat :
          /\ frames' = SetTop(Advance([Top EXCEPT !.i = @ + 1], bytes))
          /\ pc \in {"value", "close"} /\ pc' = "loop" /\ UNCHANGED inputVars
          /\ NoWide => Snprintf(Top, bytes)
    <3>1. CASE CloseStruct
      BY <1>2, <3>1 DEF CloseStruct
    <3>2. CASE PrintField
      <4>1. pc = "value" /\ Index < Len(pairs)
        BY <3>2 DEF PrintField, WriterInv
      <4>2. Len(frames) > 0 /\ Index \in Nat /\ Len(pairs) \in Nat
        BY <4>1, TopFacts
      <4>3. Current.value \in Nat
        BY <4>1, <4>2, CurrentType DEF WriterInv
      <4>4. NoWide => ~Current.wide
        BY <4>1, <4>2 DEF NoWide, Current
      <4> QED
        BY <1>2, <3>2, <4>1, <4>3, <4>4 DEF PrintField
    <3> QED
      BY <3>1, <3>2
  <2>2. Top \in FrameType
    BY <2>1, TopFacts
  <2> DEFINE g == [Top EXCEPT !.i = @ + 1]
             f == Advance(g, bytes)
  <2>3. g \in FrameType /\ g.base = Top.base /\ g.count = Top.count
    BY <2>2, CountFields
  <2> HIDE DEF g
  <2>4. f \in FrameType /\ f.base = Top.base /\ f.count = Top.count
    BY <2>3, AdvanceFields
  <2>5. frames' = SetTop(f)
    BY <2>1 DEF g
  <2> HIDE DEF f
  <2>6. frames'[1].base = frames[1].base /\ frames'[1].count = frames[1].count
    BY <2>1, <2>4, <2>5, OutermostStays DEF Going
  <2>7. NoWide => nul' < size
    BY <2>1, SnprintfTerminates DEF Going
  <2> QED
    BY <2>1, <2>6, <2>7, PrintedKeeps DEF Going
<1> QED
  BY <1>1, <1>2

(* A caller finds its callee's text terminated. *)
LEMMA ReturnToCallerTerminated ==
  ASSUME WriterInv, TerminatorInv, ReturnToCaller
  PROVE  TerminatorInv'
<1>1. /\ pc = "loop" /\ Depth > 0 /\ UNCHANGED inputVars /\ nul' = nul
  BY DEF ReturnToCaller
<1>2. /\ frames \in Seq(FrameType) /\ Top \in FrameType /\ Len(frames) \in Nat
      /\ Depth \in Nat /\ Depth = Len(frames) - 1
  BY <1>1, TopFacts
<1>3. CASE Top.result < 0
  BY <1>3, FailsTerminated DEF ReturnToCaller
<1>4. CASE ~(Top.result < 0)
  <2> DEFINE g == [frames[Depth] EXCEPT !.i = @ + Top.i]
             f == Advance(g, Top.result)
  <2>1. frames[Depth] \in FrameType
    BY <1>1, <1>2
  <2>2. Top.i \in Nat /\ Top.result \in Nat
    BY <1>2, <1>4 DEF FrameType
  <2>3. g \in FrameType /\ g.base = frames[Depth].base /\ g.count = frames[Depth].count
    BY <2>1, <2>2, CountFields
  <2>4. frames' = Append(SubSeq(frames, 1, Depth - 1), f) /\ pc' = "close"
    BY <1>4 DEF ReturnToCaller
  <2> HIDE DEF g
  <2>5. f \in FrameType /\ f.base = g.base /\ f.count = g.count
    BY <2>2, <2>3, AdvanceFields
  <2> HIDE DEF f
  <2>6. /\ Len(frames') = Depth /\ Top' = f
        /\ \A k \in 1 .. Depth - 1 : frames'[k] = frames[k]
    BY <1>1, <2>4, <2>5, CloseIs
  <2>7. frames'[Depth] = f
    BY <2>6 DEF Top
  <2>8. frames'[1].base = frames[1].base /\ frames'[1].count = frames[1].count
    BY <1>1, <1>2, <2>3, <2>5, <2>6, <2>7
  <2>9. NoWide => nul' < size
    BY <1>1, <1>2 DEF TerminatorInv, Unprinted
  <2> QED
    BY <1>1, <2>4, <2>8, <2>9, PrintedKeeps DEF Going
<1> QED
  BY <1>3, <1>4

(* The outermost loop ends behind the last pair. *)
LEMMA ReturnTerminated == ASSUME WriterInv, TerminatorInv, Return PROVE TerminatorInv'
<1>1. /\ pc = "loop" /\ ~More /\ Depth = 0 /\ pc' = "done" /\ ret' = Top.result
      /\ UNCHANGED <<inputVars, nul>>
  BY DEF Return
<1>2. /\ Len(frames) \in Nat /\ Depth = Len(frames) - 1 /\ Top = frames[Len(frames)]
      /\ Top.i \in Nat /\ Len(pairs) \in Nat /\ Top.result \in Int
  BY <1>1, TopFacts
<1>3. Len(frames) = 1 /\ Top = frames[1]
  <2>1. Len(frames) = 1
    BY <1>1, <1>2
  <2> QED
    BY <2>1, <1>2
<1>4. Top.i # 0
  BY <1>1, <1>2, <1>3 DEF More, TerminatorInv
<1>5. NoWide /\ ret' >= 0 => nul < size
  BY <1>1, <1>2, <1>3, <1>4 DEF TerminatorInv, Unprinted
<1> QED
  BY <1>1, <1>5 DEF TerminatorInv, LineTerminated, NoWide, inputVars

(* Only an activation for a struct goes past the end of the array. *)
LEMMA ReadPastEndTerminated == ASSUME WriterInv, TerminatorInv, ReadPastEnd PROVE TerminatorInv'
<1>1. /\ pc = "loop" /\ More /\ Index >= Len(pairs) /\ pc' = "done"
      /\ UNCHANGED <<inputVars, nul>>
  BY DEF ReadPastEnd
<1>2. /\ Len(frames) \in Nat /\ Depth = Len(frames) - 1 /\ Top = frames[Len(frames)]
      /\ Top.i \in Nat /\ Len(pairs) \in Nat /\ Depth \in Nat
      /\ Top.base \in Nat /\ Index = Top.base + Top.i
  BY <1>1, TopFacts
<1>3. Depth # 0
  <2> SUFFICES ASSUME Depth = 0 PROVE FALSE
    OBVIOUS
  <2>1. Len(frames) = 1
    BY <1>2
  <2>2. Top = frames[1]
    BY <2>1, <1>2
  <2> QED
    BY <1>1, <1>2, <2>2 DEF More, TerminatorInv
<1>4. ~Unprinted
  BY <1>2, <1>3 DEF Unprinted
<1> QED
  BY <1>1, <1>4 DEF TerminatorInv, LineTerminated, NoWide, inputVars

LEMMA StartTerminated == ASSUME WriterInv, Start PROVE TerminatorInv'
<1>1. CASE null \/ size = 0 \/ Len(pairs) = 0
  BY <1>1, FailsTerminated DEF Start
<1>2. CASE ~(null \/ size = 0 \/ Len(pairs) = 0)
  <2>1. size \in Nat /\ Len(pairs) \in Nat
    BY SizeNat, InputAssumption DEF WriterInv, TypeOK
  <2>2. /\ pc' = "loop" /\ frames' = <<Frame(0, Len(pairs), 0, size)>>
        /\ size' = size /\ pairs' = pairs
    BY <1>2 DEF Start, inputVars
  <2>3. Len(frames') = 1 /\ frames'[1] = Frame(0, Len(pairs), 0, size)
    BY <2>2
  <2>4. /\ frames'[1].base = 0 /\ frames'[1].count = Len(pairs) /\ frames'[1].left = size
        /\ frames'[1].i = 0 /\ frames'[1].result = 0
    BY <2>3 DEF Frame
  <2>5. Unprinted'
    BY <2>2, <2>3, <2>4 DEF Unprinted
  <2> QED
    BY <1>2, <2>1, <2>2, <2>4, <2>5 DEF TerminatorInv, LineTerminated
<1> QED
  BY <1>1, <1>2

LEMMA StepTerminated == ASSUME WriterInv, TerminatorInv, Step PROVE TerminatorInv'
BY StartTerminated, OpenTerminated, NameTerminated, ValueTerminated, ReturnToCallerTerminated,
   ReturnTerminated, ReadPastEndTerminated DEF Step

(* The terminator invariant holds in every reachable state, for every      *)
(* array, buffer size and choice of failures.                              *)
THEOREM TerminatorInvariance == Spec => []TerminatorInv
<1>1. Init => TerminatorInv
  BY DEF Init, TerminatorInv, LineTerminated
<1>2. WriterInv /\ TerminatorInv /\ [Next]_vars => TerminatorInv'
  <2> SUFFICES ASSUME WriterInv, TerminatorInv, [Next]_vars PROVE TerminatorInv'
    OBVIOUS
  <2>1. CASE Step
    BY <2>1, StepTerminated
  <2>2. CASE UNCHANGED vars
    BY <2>2 DEF vars, TerminatorInv, LineTerminated, NoWide, Unprinted
  <2> QED
    BY <2>1, <2>2 DEF Next, Done
<1> QED
  BY <1>1, <1>2, WriterInvariance, PTL DEF Spec

(* A successful call leaves a terminated string in the buffer, however     *)
(* deep the structs nest, wherever the text was cut off and whichever      *)
(* printf-class call failed, when no property is a wide string.            *)
THEOREM WriterTerminates == Spec => []LineTerminated
<1>1. TerminatorInv => LineTerminated
  BY DEF TerminatorInv
<1> QED
  BY <1>1, TerminatorInvariance, PTL

-----------------------------------------------------------------------------
(* The arithmetic of the layout *)

(* Counting up from 0, in the form of a set of numbers. *)
LEMMA CountUp ==
  ASSUME NEW n \in Nat, NEW T, 0 \in T, \A k \in 0 .. n - 1 : k \in T => k + 1 \in T
  PROVE  \A k \in 0 .. n : k \in T
<1> DEFINE U == {k \in 0 .. n : k \notin T}
           R == OpToRel(<, Nat)
<1>1. SUFFICES ASSUME U # {}
               PROVE  FALSE
  OBVIOUS
<1>2. U \subseteq Nat
  OBVIOUS
<1>3. PICK m \in U : \A j \in U : ~(<<j, m>> \in R)
  <2> HIDE DEF U
  <2> QED
    BY <1>1, <1>2, WFMin, NatLessThanWellFounded
<1>4. m \in 1 .. n /\ m \notin T
  OBVIOUS
<1>5. m - 1 \in 0 .. n - 1 /\ <<m - 1, m>> \in R /\ m - 1 + 1 = m
  BY <1>4 DEF OpToRel
<1>6. m - 1 \notin U
  BY <1>3, <1>5
<1>7. m - 1 \in T
  <2>1. m - 1 \in 0 .. n
    BY <1>4
  <2> QED
    BY <1>6, <2>1
<1> QED
  BY <1>4, <1>5, <1>7

(* What one pair adds to the surplus. *)
Adds(p) == (IF p.struct THEN p.fields ELSE 0) - 1

IsSurplus(s, ps) ==
  /\ s \in [0 .. Len(ps) -> Int]
  /\ s[0] = 0
  /\ \A k \in 1 .. Len(ps) : s[k] = s[k - 1] + Adds(ps[k])

LEMMA AddsInt ==
  ASSUME NEW p \in Pair
  PROVE  Adds(p) \in Int /\ (IF p.struct THEN p.fields ELSE 0) \in Int
BY DEF Adds, Pair

LEMMA SurplusExists ==
  ASSUME NEW ps \in Seq(Pair)
  PROVE  \E s : IsSurplus(s, ps)
<1> DEFINE Upto(f, n) ==
             /\ f \in [0 .. n -> Int]
             /\ f[0] = 0
             /\ \A k \in 1 .. n : f[k] = f[k - 1] + Adds(ps[k])
           T == {n \in Nat : \E f : Upto(f, n)}
<1>1. 0 \in T
  <2>1. Upto([k \in 0 .. 0 |-> 0], 0)
    OBVIOUS
  <2> QED
    BY <2>1
<1>2. ASSUME NEW n \in 0 .. Len(ps) - 1, n \in T
      PROVE  n + 1 \in T
  <2>1. PICK f : Upto(f, n)
    BY <1>2
  <2>2. n \in Nat /\ n + 1 \in 1 .. Len(ps) /\ ps[n + 1] \in Pair
    OBVIOUS
  <2> DEFINE v == f[n] + Adds(ps[n + 1])
             h == [k \in 0 .. n + 1 |-> IF k = n + 1 THEN v ELSE f[k]]
  <2>3. v \in Int
    BY <2>1, <2>2, AddsInt
  <2>4. v = f[n] + Adds(ps[n + 1])
    OBVIOUS
  <2> HIDE DEF v
  <2>5. h \in [0 .. n + 1 -> Int] /\ h[0] = 0
    BY <2>1, <2>2, <2>3
  <2>6. ASSUME NEW k \in 1 .. n + 1
        PROVE  h[k] = h[k - 1] + Adds(ps[k])
    <3>1. h[k - 1] = f[k - 1]
      BY <2>2
    <3>2. CASE k = n + 1
      <4>1. h[k] = v /\ k - 1 = n
        BY <2>2, <3>2
      <4> HIDE DEF h
      <4> QED
        BY <2>4, <3>1, <3>2, <4>1
    <3>3. CASE k \in 1 .. n
      <4>1. h[k] = f[k]
        BY <2>2, <3>3
      <4>2. f[k] = f[k - 1] + Adds(ps[k])
        BY <2>1, <3>3
      <4> HIDE DEF h
      <4> QED
        BY <3>1, <4>1, <4>2
    <3> QED
      BY <2>2, <3>2, <3>3
  <2>7. Upto(h, n + 1)
    <3> HIDE DEF h
    <3> QED
      BY <2>5, <2>6
  <2>8. n + 1 \in Nat
    BY <2>2
  <2> HIDE DEF Upto, h
  <2> QED
    BY <2>7, <2>8
<1>3. Len(ps) \in T
  <2> HIDE DEF T
  <2>1. Len(ps) \in Nat /\ Len(ps) \in 0 .. Len(ps)
    OBVIOUS
  <2> QED
    BY <1>1, <1>2, <2>1, CountUp
<1> QED
  BY <1>3 DEF IsSurplus

(* The recursive function is the one its equations describe. *)
LEMMA SurplusOK ==
  ASSUME NEW ps \in Seq(Pair)
  PROVE  IsSurplus(Surplus(ps), ps)
<1> DEFINE n == Len(ps)
           F == Surplus(ps)
<1>1. PICK g : IsSurplus(g, ps)
  BY SurplusExists
<1>2. n \in Nat
  OBVIOUS
<1>3. g = [k \in 0 .. n |-> IF k = 0 THEN 0
                            ELSE g[k - 1] + (IF ps[k].struct THEN ps[k].fields ELSE 0) - 1]
  <2>1. ASSUME NEW k \in 0 .. n
        PROVE  g[k] = IF k = 0 THEN 0
                      ELSE g[k - 1] + (IF ps[k].struct THEN ps[k].fields ELSE 0) - 1
    <3>1. CASE k = 0
      BY <1>1, <3>1 DEF IsSurplus
    <3>2. CASE k # 0
      <4>1. k \in 1 .. n /\ k - 1 \in 0 .. n /\ ps[k] \in Pair
        BY <1>2, <3>2
      <4>2. g[k] = g[k - 1] + Adds(ps[k]) /\ g[k - 1] \in Int
        BY <1>1, <4>1 DEF IsSurplus
      <4>3. (IF ps[k].struct THEN ps[k].fields ELSE 0) \in Int
        BY <4>1, AddsInt
      <4> QED
        BY <3>2, <4>2, <4>3 DEF Adds
    <3> QED
      BY <3>1, <3>2
  <2>2. g \in [0 .. n -> Int]
    BY <1>1 DEF IsSurplus
  <2> HIDE DEF n
  <2> QED
    BY <2>1, <2>2
<1>4. F = [k \in 0 .. n |-> IF k = 0 THEN 0
                            ELSE F[k - 1] + (IF ps[k].struct THEN ps[k].fields ELSE 0) - 1]
  BY <1>3 DEF Surplus
<1> HIDE DEF F
<1> DEFINE T == {k \in Nat : F[k] = g[k]}
<1>5. 0 \in T
  BY <1>1, <1>2, <1>4 DEF IsSurplus
<1>6. ASSUME NEW k \in 0 .. n - 1, k \in T
      PROVE  k + 1 \in T
  <2>1. k + 1 \in 0 .. n /\ k + 1 - 1 = k /\ k + 1 # 0 /\ F[k] = g[k]
    BY <1>2, <1>6
  <2> HIDE DEF n
  <2> DEFINE m == k + 1
  <2>2. F[m] = F[m - 1] + (IF ps[m].struct THEN ps[m].fields ELSE 0) - 1
    BY <1>4, <2>1
  <2>3. g[m] = g[m - 1] + (IF ps[m].struct THEN ps[m].fields ELSE 0) - 1
    BY <1>3, <2>1
  <2> QED
    BY <2>1, <2>2, <2>3
<1>7. \A k \in 0 .. n : k \in T
  <2> HIDE DEF T, n
  <2> QED
    BY <1>2, <1>5, <1>6, CountUp
<1>8. F = g
  <2>1. \A k \in 0 .. n : F[k] = g[k]
    BY <1>7
  <2>2. g \in [0 .. n -> Int]
    BY <1>1 DEF IsSurplus
  <2>3. F = [k \in 0 .. n |-> F[k]]
    BY <1>4
  <2> HIDE DEF n
  <2> QED
    BY <2>1, <2>2, <2>3
<1> QED
  BY <1>1, <1>8 DEF F

(* The surplus, pair by pair. *)
LEMMA SurplusFacts ==
  ASSUME NEW ps \in Seq(Pair)
  PROVE  /\ Len(ps) \in Nat
         /\ \A k \in 0 .. Len(ps) : Surplus(ps)[k] \in Int
         /\ \A k \in 0 .. Len(ps) - 1 :
              /\ ps[k + 1].struct => Surplus(ps)[k + 1] = Surplus(ps)[k] + ps[k + 1].fields - 1
              /\ ~ps[k + 1].struct => Surplus(ps)[k + 1] = Surplus(ps)[k] - 1
<1> DEFINE s == Surplus(ps)
<1>1. IsSurplus(s, ps) /\ Len(ps) \in Nat
  BY SurplusOK
<1> HIDE DEF s
<1>2. \A k \in 0 .. Len(ps) : s[k] \in Int
  BY <1>1 DEF IsSurplus
<1>3. ASSUME NEW k \in 0 .. Len(ps) - 1
      PROVE  /\ ps[k + 1].struct => s[k + 1] = s[k] + ps[k + 1].fields - 1
             /\ ~ps[k + 1].struct => s[k + 1] = s[k] - 1
  <2>1. k + 1 \in 1 .. Len(ps) /\ k + 1 - 1 = k /\ k \in 0 .. Len(ps) /\ ps[k + 1] \in Pair
    BY <1>1
  <2>2. s[k + 1] = s[k] + Adds(ps[k + 1]) /\ s[k] \in Int
    BY <1>1, <1>2, <2>1 DEF IsSurplus
  <2>3. ps[k + 1].fields \in Int
    BY <2>1, PairNumbers
  <2> QED
    BY <2>2, <2>3 DEF Adds
<1> QED
  BY <1>1, <1>2, <1>3 DEF s

(* An activation begins at the pair it is called for. *)
LEMMA StandsFresh ==
  ASSUME NEW ps \in Seq(Pair), NEW f \in FrameType, f.base <= Len(ps), f.added = 0
  PROVE  StandsAt(ps, f, f.base, FALSE)
<1>1. f.base \in Nat /\ f.base \in f.base .. Len(ps) /\ f.base \in 0 .. Len(ps)
  BY SurplusFacts DEF FrameType
<1>2. Surplus(ps)[f.base] \in Int
  BY <1>1, SurplusFacts
<1> QED
  BY <1>1, <1>2 DEF StandsAt

(* Counting a pair opens it. *)
LEMMA StandsOpen ==
  ASSUME NEW ps \in Seq(Pair), NEW f \in FrameType, NEW g \in FrameType, NEW n \in Nat,
         StandsAt(ps, f, n, FALSE), g.base = f.base, g.added = f.added + 1
  PROVE  StandsAt(ps, g, n, TRUE)
<1>1. f.base \in Nat /\ f.added \in Nat /\ f.base \in 0 .. Len(ps)
  BY SurplusFacts, SMTT(30) DEF FrameType, StandsAt
<1>2. Surplus(ps)[f.base] \in Int
  BY <1>1, SurplusFacts
<1> QED
  BY <1>1, <1>2 DEF StandsAt

(* Where an activation stands depends on its start and its count only. *)
LEMMA StandsSame ==
  ASSUME NEW ps, NEW f, NEW g, NEW n, NEW open,
         StandsAt(ps, f, n, open), g.base = f.base, g.added = f.added
  PROVE  StandsAt(ps, g, n, open)
BY DEF StandsAt

(* Behind a field. *)
LEMMA StandsBehind ==
  ASSUME NEW ps \in Seq(Pair), NEW f \in FrameType, NEW n \in Nat, n < Len(ps),
         StandsAt(ps, f, n, TRUE), ~ps[n + 1].struct
  PROVE  StandsAt(ps, f, n + 1, FALSE)
<1> DEFINE s == Surplus(ps)
<1>1. /\ f.base \in Nat /\ f.added \in Nat /\ f.base \in 0 .. n /\ Len(ps) \in Nat
      /\ n \in 0 .. Len(ps) - 1 /\ n \in 0 .. Len(ps)
  BY SurplusFacts DEF FrameType, StandsAt
<1>2. s[n + 1] = s[n] - 1 /\ \A k \in 0 .. Len(ps) : s[k] \in Int
  BY <1>1, SurplusFacts
<1>3. (\A m \in f.base .. n : s[m] >= s[n]) /\ s[n] = s[f.base] - f.added + 1
  BY DEF StandsAt
<1> HIDE DEF s
<1>4. s[n] \in Int /\ s[f.base] \in Int
  BY <1>1, <1>2
<1>5. ASSUME NEW m \in f.base .. n + 1
      PROVE  s[m] >= s[n + 1]
  <2>1. CASE m = n + 1
    BY <1>2, <1>4, <2>1
  <2>2. CASE m # n + 1
    <3>1. m \in f.base .. n /\ m \in 0 .. Len(ps)
      BY <1>1, <2>2
    <3>2. s[m] >= s[n] /\ s[m] \in Int
      BY <1>2, <1>3, <3>1
    <3> QED
      BY <1>2, <1>4, <3>2
  <2> QED
    BY <2>1, <2>2
<1>6. s[n + 1] = s[f.base] - f.added + 0
  BY <1>1, <1>2, <1>3, <1>4
<1>7. n + 1 \in f.base .. Len(ps)
  BY <1>1
<1> QED
  BY <1>5, <1>6, <1>7 DEF s, StandsAt

(* Behind a struct: its caller takes over where its last field ended. *)
LEMMA StandsBehindStruct ==
  ASSUME NEW ps \in Seq(Pair), NEW f \in FrameType, NEW caller \in FrameType, NEW n \in Nat,
         StandsAt(ps, caller, caller.base + caller.i, TRUE), PrintsFieldsOf(ps, f, caller),
         StandsAt(ps, f, n, FALSE), f.added = f.count
  PROVE  StandsAt(ps, caller, n, FALSE)
<1> DEFINE s == Surplus(ps)
           c == caller.base + caller.i
<1>1. /\ caller.base \in Nat /\ caller.i \in Nat /\ caller.added \in Nat
      /\ f.base \in Nat /\ f.added \in Nat /\ Len(ps) \in Nat
  BY SurplusFacts DEF FrameType
<1>2. /\ f.base = c + 1 /\ c + 1 <= Len(ps) /\ ps[c + 1].struct /\ f.count = ps[c + 1].fields
      /\ n \in f.base .. Len(ps)
      /\ (\A m \in f.base .. n : s[m] >= s[n]) /\ s[n] = s[f.base] - f.added + 0
      /\ (\A m \in caller.base .. c : s[m] >= s[c])
      /\ s[c] = s[caller.base] - caller.added + 1
  BY <1>1 DEF PrintsFieldsOf, StandsAt
<1>3. c \in Nat /\ c \in 0 .. Len(ps) - 1 /\ caller.base <= c
  BY <1>1, <1>2
<1>4. s[c + 1] = s[c] + ps[c + 1].fields - 1 /\ \A k \in 0 .. Len(ps) : s[k] \in Int
  BY <1>2, <1>3, SurplusFacts
<1> HIDE DEF s, c
<1>5. s[c] \in Int /\ s[c + 1] \in Int /\ s[caller.base] \in Int /\ s[n] \in Int
  <2>1. /\ c \in 0 .. Len(ps) /\ c + 1 \in 0 .. Len(ps) /\ caller.base \in 0 .. Len(ps)
        /\ n \in 0 .. Len(ps)
    BY <1>1, <1>2, <1>3
  <2> QED
    BY <1>4, <2>1
<1>6. s[n] = s[c] - 1
  <2>1. f.added = ps[c + 1].fields /\ s[n] = s[c + 1] - f.added
    BY <1>1, <1>2, <1>5, SMTT(30)
  <2> QED
    BY <1>1, <1>4, <1>5, <2>1, SMTT(30)
<1>7. ASSUME NEW m \in caller.base .. n
      PROVE  s[m] >= s[n]
  <2>1. CASE m <= c
    <3>1. m \in caller.base .. c /\ m \in 0 .. Len(ps)
      BY <1>1, <1>3, <2>1
    <3>2. s[m] >= s[c] /\ s[m] \in Int
      BY <1>2, <1>4, <3>1
    <3> QED
      BY <1>5, <1>6, <3>2
  <2>2. CASE m > c
    <3>1. m \in f.base .. n
      BY <1>1, <1>2, <1>3, <2>2
    <3> QED
      BY <1>2, <3>1
  <2> QED
    BY <1>1, <1>3, <2>1, <2>2
<1>8. s[n] = s[caller.base] - caller.added + 0
  BY <1>1, <1>2, <1>5, <1>6
<1>9. n \in caller.base .. Len(ps)
  BY <1>1, <1>2, <1>3
<1> QED
  BY <1>7, <1>8, <1>9 DEF s, StandsAt

(* In a well-formed array a struct with fields to come has pairs to come. *)
LEMMA FieldsToCome ==
  ASSUME NEW ps \in Seq(Pair), WellFormed(ps), NEW f \in FrameType, NEW caller \in FrameType,
         PrintsFieldsOf(ps, f, caller), NEW n \in Nat, StandsAt(ps, f, n, FALSE),
         f.added < f.count
  PROVE  n < Len(ps)
<1> DEFINE s == Surplus(ps)
           c == caller.base + caller.i
<1>1. /\ caller.base \in Nat /\ caller.i \in Nat
      /\ f.base \in Nat /\ f.added \in Nat /\ f.count \in Nat /\ Len(ps) \in Nat
  BY SurplusFacts DEF FrameType
<1>2. /\ f.base = c + 1 /\ c + 1 <= Len(ps) /\ ps[c + 1].struct /\ f.count = ps[c + 1].fields
      /\ n \in f.base .. Len(ps)
      /\ (\A m \in f.base .. n : s[m] >= s[n]) /\ s[n] = s[f.base] - f.added + 0
  BY <1>1 DEF PrintsFieldsOf, StandsAt
<1>3. c \in Nat /\ c \in 0 .. Len(ps) - 1 /\ c + 1 \in 1 .. Len(ps) /\ c + 1 - 1 = c
  BY <1>1, <1>2
<1>4. s[c + 1] = s[c] + ps[c + 1].fields - 1 /\ \A k \in 0 .. Len(ps) : s[k] \in Int
  BY <1>2, <1>3, SurplusFacts
<1>5. PICK j \in c + 1 .. Len(ps) : s[j] - s[c] = -1
  BY <1>3 DEF WellFormed
<1> HIDE DEF s, c
<1>6. s[c] \in Int /\ s[c + 1] \in Int /\ s[n] \in Int /\ s[j] \in Int
  BY <1>1, <1>2, <1>3, <1>4, <1>5, SMTT(30)
<1>7. s[n] >= s[c]
  <2>1. s[n] = s[c + 1] - f.added /\ f.count = ps[c + 1].fields
    BY <1>1, <1>2, <1>6
  <2> QED
    BY <1>1, <1>4, <1>6, <2>1, SMTT(30)
<1>8. ~(s[j] >= s[n])
  BY <1>5, <1>6, <1>7
<1>9. j \notin f.base .. n
  BY <1>2, <1>8
<1> QED
  BY <1>1, <1>2, <1>3, <1>5, <1>9

LEMMA NextIndex ==
  ASSUME NEW n \in Nat
  PROVE  FirstIndices(n + 1) = Append(FirstIndices(n), n)
<1>1. FirstIndices(n) \in Seq(Nat) /\ Len(FirstIndices(n)) = n
  BY DEF FirstIndices
<1> QED
  BY <1>1 DEF FirstIndices

-----------------------------------------------------------------------------
(* The layout, step by step *)

LEMMA LayoutDone ==
  ASSUME LayoutInv, pc' = "done", ret' = -1, UNCHANGED inputVars, wild' = wild
  PROVE  LayoutInv'
BY DEF LayoutInv, inputVars

LEMMA LayoutGoes ==
  ASSUME LayoutInv, pc' \in Going, UNCHANGED inputVars, wild' = wild,
         WellFormed(pairs) => Standing'
  PROVE  LayoutInv'
BY DEF LayoutInv, Going, inputVars

(* Activations are left, and the innermost one that stays is moved. *)
LEMMA NestedKeeps ==
  ASSUME NEW ps, NEW fs, Len(fs) \in Nat, Nested(ps, fs), NEW gs, Len(gs) \in 1 .. Len(fs),
         \A k \in 1 .. Len(gs) - 1 : gs[k] = fs[k],
         gs[Len(gs)].base = fs[Len(gs)].base, gs[Len(gs)].count = fs[Len(gs)].count,
         Len(gs) > 1 => gs[Len(gs)].added <= gs[Len(gs)].count
  PROVE  Nested(ps, gs)
<1>1. SUFFICES ASSUME NEW k \in 1 .. Len(gs) - 1
               PROVE  /\ StandsAt(ps, gs[k], gs[k].base + gs[k].i, TRUE)
                      /\ PrintsFieldsOf(ps, gs[k + 1], gs[k])
  BY DEF Nested
<1>2. gs[k] = fs[k] /\ k \in 1 .. Len(fs) - 1
  OBVIOUS
<1>3. StandsAt(ps, fs[k], fs[k].base + fs[k].i, TRUE) /\ PrintsFieldsOf(ps, fs[k + 1], fs[k])
  BY <1>2 DEF Nested
<1>4. CASE k + 1 = Len(gs)
  <2>1. Len(gs) > 1
    BY <1>4
  <2>2. /\ gs[k + 1].base = fs[k + 1].base /\ gs[k + 1].count = fs[k + 1].count
        /\ gs[k + 1].added <= gs[k + 1].count
    BY <1>4, <2>1
  <2> QED
    BY <1>2, <1>3, <2>2 DEF PrintsFieldsOf
<1>5. CASE k + 1 # Len(gs)
  <2>1. gs[k + 1] = fs[k + 1]
    BY <1>5
  <2> QED
    BY <1>2, <1>3, <2>1
<1> QED
  BY <1>4, <1>5

(* What the layout says of the state before a step. *)
LEMMA StandingFacts ==
  ASSUME WriterInv, LayoutInv, WellFormed(pairs), pc \in Going
  PROVE  /\ Nested(pairs, frames)
         /\ pc = "loop" => StandsAt(pairs, Top, Index, FALSE)
         /\ pc = "value" => StandsAt(pairs, Top, Index, TRUE) /\ ~Current.struct
         /\ pc = "close" => StandsAt(pairs, Top, Index + 1, FALSE)
         /\ failed = {} /\ pc # "close" => printed = FirstIndices(Index)
         /\ failed = {} /\ pc = "close" => printed = FirstIndices(Index + 1)
<1>1. Standing
  BY DEF LayoutInv, Going
<1>2. Index \in Nat
  BY TopFacts DEF Going
<1>3. Here = IF pc = "close" THEN Index + 1 ELSE Index
  BY <1>2 DEF Here
<1> QED
  BY <1>1, <1>3 DEF Standing, StandsAt

(* A struct nested in another one is not full when a pair of it is taken. *)
LEMMA CountsOne ==
  ASSUME WriterInv, pc = "loop", More, Len(frames) > 1
  PROVE  Top.added + 1 <= Top.count
<1>1. Top.added \in Nat /\ Top.count \in Nat /\ Len(frames) \in Nat /\ Depth = Len(frames) - 1
  BY TopFacts
<1>2. Depth # 0
  BY <1>1
<1> QED
  BY <1>1, <1>2 DEF More

LEMMA OpenLaid == ASSUME WriterInv, LayoutInv, OpenStruct PROVE LayoutInv'
<1>1. CASE Fail("open")
  BY <1>1, LayoutDone DEF Fail
<1>2. CASE ~Fail("open")
  <2> DEFINE f0 == [Top EXCEPT !.added = @ + 1]
             f == Advance(f0, Current.name)
             g == Frame(Index + 1, Current.fields, f.buffer, f.left)
             L == Len(frames)
  <2>1. /\ pc = "loop" /\ More /\ Index < Len(pairs) /\ Current.struct
        /\ frames' = Append(SetTop(f), g) /\ printed' = Append(printed, Index)
        /\ UNCHANGED <<inputVars, pc, failed, wild>>
    BY <1>2 DEF OpenStruct, AtPair
  <2>2. /\ Top \in FrameType /\ L \in Nat /\ L > 0 /\ Depth = L - 1 /\ Top = frames[L]
        /\ Index \in Nat /\ Index = Top.base + Top.i /\ Top.added \in Nat
        /\ pairs \in Seq(Pair) /\ Len(pairs) \in Nat
    BY <2>1, TopFacts
  <2>3. Current.name \in Nat /\ Current.fields \in Nat
    BY <2>1, <2>2, CurrentType DEF WriterInv
  <2>4. /\ f0 \in FrameType /\ f0.base = Top.base /\ f0.count = Top.count
        /\ f0.i = Top.i /\ f0.added = Top.added + 1
    BY <2>2, CountFields
  <2> HIDE DEF f0
  <2>5. /\ f \in FrameType /\ f.base = Top.base /\ f.count = Top.count
        /\ f.i = Top.i /\ f.added = Top.added + 1
    BY <2>3, <2>4, AdvanceFields
  <2> HIDE DEF f
  <2>6. /\ g \in FrameType /\ g.base = Index + 1 /\ g.count = Current.fields
        /\ g.i = 0 /\ g.added = 0
    <3>1. g \in FrameType
      <4>1. /\ Index \in Nat /\ Current.fields \in Nat
            /\ f \in FrameType
        BY <2>2, <2>3, <2>5
      <4> QED
        BY <4>1 DEF Frame, FrameType
    <3>2. g.base = Index + 1 /\ g.count = Current.fields /\ g.i = 0 /\ g.added = 0
      BY DEF Frame
    <3> QED
      BY <3>1, <3>2
  <2> HIDE DEF g
  <2>7. /\ Len(frames') = L + 1 /\ Top' = g /\ frames'[L] = f
        /\ \A k \in 1 .. Depth : frames'[k] = frames[k]
    BY <2>1, <2>5, <2>6, OpenIs
  <2>8. frames'[L + 1] = g
    BY <2>7 DEF Top
  <2>9. SUFFICES ASSUME WellFormed(pairs)
                 PROVE  Standing'
    BY <2>1, LayoutGoes DEF Going
  <2>10. /\ Nested(pairs, frames) /\ StandsAt(pairs, Top, Index, FALSE)
         /\ failed = {} => printed = FirstIndices(Index)
    BY <2>1, <2>9, StandingFacts DEF Going
  <2>11. StandsAt(pairs, f, Index, TRUE)
    BY <2>2, <2>5, <2>10, StandsOpen
  <2>12. L > 1 => f.added <= f.count
    BY <2>1, <2>5, CountsOne
  <2>13. PrintsFieldsOf(pairs, g, f)
    <3>1. g.base = f.base + f.i + 1 /\ g.base <= Len(pairs) /\ g.added <= g.count
      BY <2>1, <2>2, <2>3, <2>5, <2>6
    <3>2. pairs[g.base] = Current
      BY <2>6 DEF Current
    <3> QED
      BY <2>1, <2>6, <3>1, <3>2 DEF PrintsFieldsOf
  <2>14. Nested(pairs, frames')
    <3>1. SUFFICES ASSUME NEW k \in 1 .. L
                   PROVE  /\ StandsAt(pairs, frames'[k], frames'[k].base + frames'[k].i, TRUE)
                          /\ PrintsFieldsOf(pairs, frames'[k + 1], frames'[k])
      <4>1. Len(frames') - 1 = L
        BY <2>2, <2>7
      <4> QED
        BY <4>1 DEF Nested
    <3>2. CASE k = L
      <4>1. f.base + f.i = Index
        BY <2>2, <2>5
      <4> QED
        BY <2>7, <2>8, <2>11, <2>13, <3>2, <4>1
    <3>3. CASE k # L
      <4>1. k \in 1 .. L - 1 /\ frames'[k] = frames[k]
        BY <2>2, <2>7, <3>3
      <4>2. /\ StandsAt(pairs, frames[k], frames[k].base + frames[k].i, TRUE)
            /\ PrintsFieldsOf(pairs, frames[k + 1], frames[k])
        BY <2>10, <4>1 DEF Nested
      <4>3. CASE k + 1 = L
        <5>1. frames'[k + 1] = f /\ frames[k + 1] = Top /\ L > 1
          BY <2>2, <2>7, <4>1, <4>3
        <5> QED
          BY <2>5, <2>12, <4>1, <4>2, <5>1 DEF PrintsFieldsOf
      <4>4. CASE k + 1 # L
        <5>1. frames'[k + 1] = frames[k + 1]
          BY <2>2, <2>7, <4>1, <4>4
        <5> QED
          BY <4>1, <4>2, <5>1
      <4> QED
        BY <4>3, <4>4
    <3> QED
      BY <3>2, <3>3
  <2>15. StandsAt(pairs, g, Index + 1, FALSE)
    <3>1. g.base <= Len(pairs)
      BY <2>1, <2>2, <2>6
    <3> QED
      BY <2>2, <2>6, <3>1, StandsFresh
  <2>16. Here' = Index + 1
    BY <2>1, <2>2, <2>6, <2>7 DEF Here, Index
  <2>17. failed' = {} => printed' = FirstIndices(Index + 1)
    BY <2>1, <2>2, <2>10, NextIndex
  <2>18. pairs' = pairs /\ pc' = "loop"
    BY <2>1 DEF inputVars
  <2> QED
    BY <2>7, <2>14, <2>15, <2>16, <2>17, <2>18 DEF Standing
<1> QED
  BY <1>1, <1>2

(* A struct never counts more fields than it has. *)
LEMMA CountsAtMost ==
  ASSUME NEW ps, NEW fs, Len(fs) \in Nat, Nested(ps, fs), NEW k \in 2 .. Len(fs)
  PROVE  fs[k].added <= fs[k].count /\ PrintsFieldsOf(ps, fs[k], fs[k - 1])
<1>1. k - 1 \in 1 .. Len(fs) - 1 /\ k - 1 + 1 = k
  OBVIOUS
<1>2. PrintsFieldsOf(ps, fs[k - 1 + 1], fs[k - 1])
  BY <1>1 DEF Nested
<1> QED
  BY <1>1, <1>2 DEF PrintsFieldsOf

(* The innermost activation is moved. *)
LEMMA MoveLaid ==
  ASSUME WriterInv, LayoutInv, WellFormed(pairs), pc \in Going, UNCHANGED inputVars,
         pc' \in {"loop", "value"}, NEW f \in FrameType, frames' = SetTop(f),
         f.base = Top.base, f.count = Top.count, Len(frames) > 1 => f.added <= f.count,
         StandsAt(pairs, f, f.base + f.i, pc' = "value"),
         pc' = "value" => f.i = Top.i /\ ~Current.struct,
         failed' = {} => printed' = FirstIndices(f.base + f.i)
  PROVE  Standing'
<1> DEFINE L == Len(frames)
<1>1. L \in Nat /\ L > 0 /\ Depth = L - 1 /\ Top = frames[L] /\ Index = Top.base + Top.i
  BY TopFacts DEF Going
<1>2. Len(frames') = L /\ Top' = f /\ \A k \in 1 .. Depth : frames'[k] = frames[k]
  BY MoveIs DEF Going
<1>3. frames'[L] = f
  BY <1>2 DEF Top
<1>4. Nested(pairs, frames)
  BY StandingFacts
<1>5. Nested(pairs, frames')
  <2>1. Len(frames') \in 1 .. Len(frames)
    BY <1>1, <1>2
  <2>2. \A k \in 1 .. Len(frames') - 1 : frames'[k] = frames[k]
    BY <1>1, <1>2
  <2>3. /\ frames'[Len(frames')].base = frames[Len(frames')].base
        /\ frames'[Len(frames')].count = frames[Len(frames')].count
        /\ Len(frames') > 1 => frames'[Len(frames')].added <= frames'[Len(frames')].count
    BY <1>1, <1>2, <1>3
  <2> DEFINE fs == frames
             gs == frames'
  <2>4. Len(fs) \in Nat /\ Nested(pairs, fs)
    BY <1>1, <1>4
  <2> HIDE DEF gs, fs
  <2> QED
    BY <2>1, <2>2, <2>3, <2>4, NestedKeeps DEF gs, fs
<1>6. f.base \in Nat /\ f.i \in Nat
  BY DEF FrameType
<1>7. Here' = f.base + f.i
  BY <1>2, <1>6 DEF Here, Index
<1>8. pc' = "value" => ~Current'.struct
  <2> SUFFICES ASSUME pc' = "value" PROVE Current' = Current
    OBVIOUS
  <2>1. Index' = Index
    BY <1>1, <1>2 DEF Index
  <2> QED
    BY <2>1 DEF Current, inputVars
<1>9. pairs' = pairs
  BY DEF inputVars
<1> QED
  BY <1>2, <1>5, <1>7, <1>8, <1>9 DEF Standing

LEMMA NameLaid == ASSUME WriterInv, LayoutInv, NameField PROVE LayoutInv'
<1>1. /\ pc = "loop" /\ More /\ Index < Len(pairs) /\ ~Current.struct
      /\ UNCHANGED <<inputVars, printed, wild>> /\ pc' \in {"loop", "value"}
  BY DEF NameField, AtPair
<1>2. /\ Top \in FrameType /\ Index \in Nat /\ Index = Top.base + Top.i /\ pairs \in Seq(Pair)
      /\ Top.i \in Nat /\ Top.base \in Nat /\ Top.added \in Nat /\ Len(frames) > 0
  BY <1>1, TopFacts
<1>3. Current.name \in Nat
  BY <1>1, <1>2, CurrentType DEF WriterInv
<1>4. SUFFICES ASSUME WellFormed(pairs)
               PROVE  Standing'
  BY <1>1, LayoutGoes DEF Going
<1>5. /\ StandsAt(pairs, Top, Index, FALSE)
      /\ failed = {} => printed = FirstIndices(Index)
  BY <1>1, <1>4, StandingFacts DEF Going
<1>6. Len(frames) > 1 => Top.added + 1 <= Top.count
  BY <1>1, CountsOne
<1>7. CASE frames' = SetTop([Top EXCEPT !.added = @ + 1, !.i = @ + 1, !.result = -1])
           /\ failed' = failed \cup {"name"} /\ pc' = pc
  <2> DEFINE f == [Top EXCEPT !.added = @ + 1, !.i = @ + 1, !.result = -1]
  <2>1. /\ f \in FrameType /\ f.base = Top.base /\ f.count = Top.count
        /\ f.i = Top.i + 1 /\ f.added = Top.added + 1
    <3>1. Top.added + 1 \in Nat /\ Top.i + 1 \in Nat /\ -1 \in Int
      BY <1>2
    <3> QED
      BY <1>2, <3>1 DEF FrameType
  <2>2. frames' = SetTop(f)
    BY <1>7
  <2> HIDE DEF f
  <2>3. StandsAt(pairs, f, Index, TRUE)
    BY <1>2, <1>5, <2>1, StandsOpen
  <2>4. StandsAt(pairs, f, Index + 1, FALSE)
    <3>1. ~pairs[Index + 1].struct
      BY <1>1 DEF Current
    <3> QED
      BY <1>1, <1>2, <2>1, <2>3, <3>1, StandsBehind
  <2>5. f.base + f.i = Index + 1 /\ failed' # {} /\ pc' = "loop"
    BY <1>1, <1>2, <1>7, <2>1
  <2>6. StandsAt(pairs, f, f.base + f.i, pc' = "value")
    BY <2>4, <2>5 DEF StandsAt
  <2> QED
    BY <1>1, <1>4, <1>6, <2>1, <2>2, <2>5, <2>6, MoveLaid DEF Going
<1>8. CASE /\ frames' = SetTop(Advance([Top EXCEPT !.added = @ + 1], Current.name))
           /\ pc' = "value" /\ failed' = failed
  <2> DEFINE g == [Top EXCEPT !.added = @ + 1]
             f == Advance(g, Current.name)
  <2>1. /\ g \in FrameType /\ g.base = Top.base /\ g.count = Top.count
        /\ g.i = Top.i /\ g.added = Top.added + 1
    BY <1>2, CountFields
  <2>2. frames' = SetTop(f)
    BY <1>8
  <2> HIDE DEF g
  <2>3. /\ f \in FrameType /\ f.base = Top.base /\ f.count = Top.count
        /\ f.i = Top.i /\ f.added = Top.added + 1
    BY <1>3, <2>1, AdvanceFields
  <2> HIDE DEF f
  <2>4. StandsAt(pairs, f, Index, TRUE)
    BY <1>2, <1>5, <2>3, StandsOpen
  <2>5. f.base + f.i = Index
    BY <1>2, <2>3
  <2>6. StandsAt(pairs, f, f.base + f.i, pc' = "value")
    BY <1>8, <2>4, <2>5 DEF StandsAt
  <2> QED
    BY <1>1, <1>4, <1>5, <1>6, <1>8, <2>2, <2>3, <2>5, <2>6, MoveLaid DEF Going
<1> QED
  BY <1>7, <1>8 DEF NameField

(* A value, or the end of a struct. *)
LEMMA ValueLaid ==
  ASSUME WriterInv, LayoutInv, PrintField \/ CloseStruct
  PROVE  LayoutInv'
<1>1. CASE Fail("value") \/ Fail("close")
  BY <1>1, LayoutDone DEF Fail
<1>2. CASE ~(Fail("value") \/ Fail("close"))
  <2>1. PICK bytes \in Nat :
          /\ frames' = SetTop(Advance([Top EXCEPT !.i = @ + 1], bytes))
          /\ pc \in {"value", "close"} /\ pc' = "loop"
          /\ UNCHANGED <<inputVars, failed, wild>>
          /\ printed' = IF pc = "value" THEN Append(printed, Index) ELSE printed
          /\ pc = "value" => Index < Len(pairs)
    <3>1. CASE CloseStruct
      BY <1>2, <3>1 DEF CloseStruct
    <3>2. CASE PrintField
      <4>1. pc = "value" /\ Index < Len(pairs)
        BY <3>2 DEF PrintField, WriterInv
      <4>2. Len(frames) > 0 /\ Index \in Nat /\ Len(pairs) \in Nat
        BY <4>1, TopFacts
      <4>3. Current.value \in Nat
        BY <4>1, <4>2, CurrentType DEF WriterInv
      <4> QED
        BY <1>2, <3>2, <4>1, <4>3 DEF PrintField
    <3> QED
      BY <3>1, <3>2
  <2>2. /\ Top \in FrameType /\ Index \in Nat /\ Index = Top.base + Top.i /\ pairs \in Seq(Pair)
        /\ Top.i \in Nat /\ Top.base \in Nat /\ Len(frames) \in Nat /\ Len(frames) > 0
        /\ Top = frames[Len(frames)]
    BY <2>1, TopFacts
  <2> DEFINE g == [Top EXCEPT !.i = @ + 1]
             f == Advance(g, bytes)
  <2>3. /\ g \in FrameType /\ g.base = Top.base /\ g.count = Top.count
        /\ g.i = Top.i + 1 /\ g.added = Top.added
    <3>1. Top \in FrameType /\ 1 \in Nat
      BY <2>2
    <3> QED
      BY <3>1, CountFields
  <2>4. frames' = SetTop(f)
    BY <2>1
  <2> HIDE DEF g
  <2>5. /\ f \in FrameType /\ f.base = Top.base /\ f.count = Top.count
        /\ f.i = Top.i + 1 /\ f.added = Top.added
    BY <2>3, AdvanceFields
  <2> HIDE DEF f
  <2>6. SUFFICES ASSUME WellFormed(pairs)
                 PROVE  Standing'
    BY <2>1, LayoutGoes DEF Going
  <2>7. f.base + f.i = Index + 1
    BY <2>2, <2>5
  <2>8. StandsAt(pairs, Top, Index + 1, FALSE)
    <3>1. CASE pc = "close"
      BY <2>6, <3>1, StandingFacts DEF Going
    <3>2. CASE pc = "value"
      <4>1. StandsAt(pairs, Top, Index, TRUE) /\ ~Current.struct
        BY <2>6, <3>2, StandingFacts DEF Going
      <4>2. ~pairs[Index + 1].struct
        BY <4>1 DEF Current
      <4> QED
        BY <2>1, <2>2, <3>2, <4>1, <4>2, StandsBehind
    <3> QED
      BY <2>1, <3>1, <3>2
  <2>9. StandsAt(pairs, f, f.base + f.i, pc' = "value")
    BY <2>1, <2>5, <2>7, <2>8 DEF StandsAt
  <2>10. failed' = {} => printed' = FirstIndices(f.base + f.i)
    <3>1. CASE pc = "close"
      BY <2>1, <2>6, <2>7, <3>1, StandingFacts DEF Going
    <3>2. CASE pc = "value"
      <4>1. failed = {} => printed = FirstIndices(Index)
        BY <2>6, <3>2, StandingFacts DEF Going
      <4> QED
        BY <2>1, <2>2, <2>7, <3>2, <4>1, NextIndex
    <3> QED
      BY <2>1, <3>1, <3>2
  <2>11. Len(frames) > 1 => f.added <= f.count
    <3> SUFFICES ASSUME Len(frames) > 1 PROVE f.added <= f.count
      OBVIOUS
    <3>1. Len(frames) \in 2 .. Len(frames)
      BY <2>2
    <3>2. Nested(pairs, frames)
      BY <2>1, <2>6, StandingFacts DEF Going
    <3>3. frames[Len(frames)].added <= frames[Len(frames)].count
      BY <2>2, <3>1, <3>2, CountsAtMost
    <3> QED
      BY <2>2, <2>5, <3>3
  <2> QED
    BY <2>1, <2>4, <2>5, <2>6, <2>9, <2>10, <2>11, MoveLaid DEF Going
<1> QED
  BY <1>1, <1>2

(* The caller goes on behind the last pair its callee printed. *)
LEMMA ReturnToCallerLaid ==
  ASSUME WriterInv, LayoutInv, ReturnToCaller
  PROVE  LayoutInv'
<1>1. /\ pc = "loop" /\ ~More /\ Depth > 0 /\ UNCHANGED <<inputVars, printed, failed, wild>>
  BY DEF ReturnToCaller
<1>2. /\ frames \in Seq(FrameType) /\ Top \in FrameType /\ Len(frames) \in Nat
      /\ Depth \in Nat /\ Depth = Len(frames) - 1 /\ Top = frames[Len(frames)]
      /\ Index \in Nat /\ Index = Top.base + Top.i /\ pairs \in Seq(Pair)
      /\ Top.added \in Nat /\ Top.count \in Nat
  BY <1>1, TopFacts
<1>3. CASE Top.result < 0
  <2>1. pc' = "done" /\ ret' = -1
    BY <1>3 DEF ReturnToCaller
  <2> QED
    BY <1>1, <2>1, LayoutDone
<1>4. CASE ~(Top.result < 0)
  <2> DEFINE caller == frames[Depth]
             g == [caller EXCEPT !.i = @ + Top.i]
             f == Advance(g, Top.result)
  <2>1. caller \in FrameType
    BY <1>1, <1>2
  <2>2. Top.i \in Nat /\ Top.result \in Nat /\ Top.base \in Nat
    <3>1. Top.i \in Nat /\ Top.result \in Int /\ Top.base \in Nat
      BY <1>1, TopFacts
    <3> QED
      BY <1>4, <3>1
  <2>3. frames' = Append(SubSeq(frames, 1, Depth - 1), f) /\ pc' = "close"
    BY <1>4 DEF ReturnToCaller
  <2>4. caller = frames[Depth]
    OBVIOUS
  <2> HIDE DEF caller
  <2>5. /\ g \in FrameType /\ g.base = caller.base /\ g.count = caller.count
        /\ g.i = caller.i + Top.i /\ g.added = caller.added
    BY <2>1, <2>2, CountFields
  <2> HIDE DEF g
  <2>6. /\ f \in FrameType /\ f.base = caller.base /\ f.count = caller.count
        /\ f.i = caller.i + Top.i /\ f.added = caller.added
    BY <2>2, <2>5, AdvanceFields
  <2> HIDE DEF f
  <2>7. /\ Len(frames') = Depth /\ Top' = f
        /\ \A k \in 1 .. Depth - 1 : frames'[k] = frames[k]
    BY <1>1, <2>3, <2>6, CloseIs
  <2>8. frames'[Depth] = f
    BY <2>7 DEF Top
  <2>9. SUFFICES ASSUME WellFormed(pairs)
                 PROVE  Standing'
    BY <1>1, <2>3, LayoutGoes DEF Going
  <2>10. /\ Nested(pairs, frames) /\ StandsAt(pairs, Top, Index, FALSE)
         /\ failed = {} => printed = FirstIndices(Index)
    BY <1>1, <2>9, StandingFacts DEF Going
  <2>11. Len(frames) \in 2 .. Len(frames) /\ Len(frames) - 1 = Depth
    BY <1>1, <1>2
  <2>12. PrintsFieldsOf(pairs, Top, caller) /\ Top.added <= Top.count
    <3>1. /\ frames[Len(frames)].added <= frames[Len(frames)].count
          /\ PrintsFieldsOf(pairs, frames[Len(frames)], frames[Len(frames) - 1])
      BY <1>2, <2>10, <2>11, CountsAtMost
    <3> QED
      BY <1>2, <2>4, <2>11, <3>1
  <2>13. Top.added = Top.count
    <3>1. Depth # 0
      BY <1>1, <1>2
    <3>2. ~(Top.added < Top.count)
      BY <1>1, <3>1 DEF More
    <3> QED
      BY <1>2, <2>12, <3>2
  <2>14. StandsAt(pairs, caller, caller.base + caller.i, TRUE)
    <3>1. Depth \in 1 .. Len(frames) - 1
      BY <1>1, <1>2
    <3> QED
      BY <2>4, <2>10, <3>1 DEF Nested
  <2>15. StandsAt(pairs, caller, Index, FALSE)
    BY <1>2, <2>1, <2>10, <2>12, <2>13, <2>14, StandsBehindStruct
  <2>16. StandsAt(pairs, f, Index, FALSE)
    BY <2>6, <2>15, StandsSame
  <2>17. Nested(pairs, frames')
    <3>1. Len(frames') \in 1 .. Len(frames)
      BY <1>1, <1>2, <2>7
    <3>2. \A k \in 1 .. Len(frames') - 1 : frames'[k] = frames[k]
      BY <2>7
    <3>3. /\ frames'[Len(frames')].base = frames[Len(frames')].base
          /\ frames'[Len(frames')].count = frames[Len(frames')].count
      BY <2>4, <2>6, <2>7, <2>8
    <3>4. ASSUME Len(frames') > 1
          PROVE  frames'[Len(frames')].added <= frames'[Len(frames')].count
      <4>1. Depth \in 2 .. Len(frames)
        BY <1>2, <2>7, <3>4
      <4>2. caller.added <= caller.count
        BY <1>2, <2>4, <2>10, <4>1, CountsAtMost
      <4> QED
        BY <2>6, <2>7, <2>8, <4>2
    <3> DEFINE fs == frames
               gs == frames'
    <3>5. Len(fs) \in Nat /\ Nested(pairs, fs)
      BY <1>2, <2>10
    <3> HIDE DEF fs, gs
    <3> QED
      BY <3>1, <3>2, <3>3, <3>4, <3>5, NestedKeeps DEF fs, gs
  <2>18. Here' = Index
    <3>1. Top.base = caller.base + caller.i + 1
      BY <2>12 DEF PrintsFieldsOf
    <3>2. caller.base \in Nat /\ caller.i \in Nat
      BY <2>1 DEF FrameType
    <3>3. Here' = f.base + f.i + 1
      BY <2>3, <2>7 DEF Here, Index
    <3> QED
      BY <1>2, <2>2, <2>6, <3>1, <3>2, <3>3, SMTT(30)
  <2>19. pairs' = pairs /\ printed' = printed /\ failed' = failed
    BY <1>1 DEF inputVars
  <2>20. StandsAt(pairs', Top', Here', (pc = "value")')
    BY <2>3, <2>7, <2>16, <2>18, <2>19 DEF StandsAt
  <2> QED
    BY <2>3, <2>10, <2>17, <2>18, <2>19, <2>20 DEF Standing
<1> QED
  BY <1>3, <1>4

(* The outermost loop ends where the array ends. *)
LEMMA ReturnLaid ==
  ASSUME WriterInv, TerminatorInv, LayoutInv, Return
  PROVE  LayoutInv'
<1>1. /\ pc = "loop" /\ ~More /\ Depth = 0 /\ pc' = "done"
      /\ UNCHANGED <<inputVars, printed, failed, wild>>
  BY DEF Return
<1>2. /\ Len(frames) \in Nat /\ Depth = Len(frames) - 1 /\ Top = frames[Len(frames)]
      /\ Top.i \in Nat /\ Len(pairs) \in Nat /\ Index = Top.base + Top.i
  BY <1>1, TopFacts
<1>3. Len(frames) = 1
  BY <1>1, <1>2
<1>4. Top.base = 0 /\ Top.count = Len(pairs)
  BY <1>1, <1>2, <1>3 DEF TerminatorInv
<1>5. SUFFICES ASSUME WellFormed(pairs)
               PROVE  ~wild /\ (failed = {} => printed = FirstIndices(Len(pairs)))
  BY <1>1 DEF LayoutInv, inputVars
<1>6. /\ StandsAt(pairs, Top, Index, FALSE)
      /\ failed = {} => printed = FirstIndices(Index)
  BY <1>1, <1>5, StandingFacts DEF Going
<1>7. Index = Len(pairs)
  <2>1. Index \in 0 .. Len(pairs)
    BY <1>4, <1>6 DEF StandsAt
  <2>2. ~(Top.i < Len(pairs))
    BY <1>1, <1>4 DEF More
  <2> QED
    BY <1>2, <1>4, <2>1, <2>2
<1> QED
  BY <1>5, <1>6, <1>7 DEF LayoutInv

(* A well-formed array is not read past its end. *)
LEMMA ReadPastEndLaid ==
  ASSUME WriterInv, TerminatorInv, LayoutInv, ReadPastEnd
  PROVE  LayoutInv'
<1>1. /\ pc = "loop" /\ More /\ Index >= Len(pairs) /\ UNCHANGED inputVars
  BY DEF ReadPastEnd
<1>2. /\ Len(frames) \in Nat /\ Len(frames) > 0 /\ Depth = Len(frames) - 1
      /\ Top = frames[Len(frames)] /\ frames \in Seq(FrameType) /\ Top \in FrameType
      /\ Top.i \in Nat /\ Len(pairs) \in Nat /\ Index \in Nat /\ Index = Top.base + Top.i
      /\ pairs \in Seq(Pair)
  BY <1>1, TopFacts
<1>3. SUFFICES ASSUME WellFormed(pairs)
               PROVE  FALSE
  BY <1>1 DEF LayoutInv, inputVars
<1>4. CASE Depth = 0
  <2>1. Len(frames) = 1
    BY <1>2, <1>4
  <2>2. Top.base = 0 /\ Top.count = Len(pairs)
    BY <1>1, <1>2, <2>1 DEF TerminatorInv
  <2>3. Top.i < Len(pairs)
    BY <1>1, <1>4, <2>2 DEF More
  <2> QED
    BY <1>1, <1>2, <2>2, <2>3
<1>5. CASE Depth # 0
  <2>1. Len(frames) \in 2 .. Len(frames) /\ frames[Len(frames) - 1] \in FrameType
    <3>1. Len(frames) \in 2 .. Len(frames) /\ Len(frames) - 1 \in 1 .. Len(frames)
      BY <1>2, <1>5
    <3> QED
      BY <1>2, <3>1
  <2>2. Nested(pairs, frames) /\ StandsAt(pairs, Top, Index, FALSE)
    BY <1>1, <1>3, StandingFacts DEF Going
  <2>3. PrintsFieldsOf(pairs, Top, frames[Len(frames) - 1])
    <3>1. PrintsFieldsOf(pairs, frames[Len(frames)], frames[Len(frames) - 1])
      BY <1>2, <2>1, <2>2, CountsAtMost
    <3> QED
      BY <1>2, <3>1
  <2>4. Top.added < Top.count
    BY <1>1, <1>5 DEF More
  <2>5. Index < Len(pairs)
    BY <1>2, <1>3, <2>1, <2>2, <2>3, <2>4, FieldsToCome
  <2> QED
    BY <1>1, <1>2, <2>5
<1> QED
  BY <1>4, <1>5

LEMMA StartLaid == ASSUME WriterInv, LayoutInv, Start PROVE LayoutInv'
<1>1. CASE null \/ size = 0 \/ Len(pairs) = 0
  BY <1>1, LayoutDone DEF Start
<1>2. CASE ~(null \/ size = 0 \/ Len(pairs) = 0)
  <2>1. size \in Nat /\ Len(pairs) \in Nat /\ pairs \in Seq(Pair)
    BY SizeNat, InputAssumption DEF WriterInv, TypeOK
  <2> DEFINE f == Frame(0, Len(pairs), 0, size)
  <2>2. f \in FrameType
    BY <2>1 DEF Frame, FrameType
  <2>3. f.base = 0 /\ f.i = 0 /\ f.added = 0
    BY DEF Frame
  <2>4. /\ pc' = "loop" /\ frames' = <<f>>
        /\ UNCHANGED <<inputVars, printed, wild, failed>>
    BY <1>2 DEF Start
  <2> HIDE DEF f
  <2>5. Len(frames') = 1 /\ frames'[1] = f /\ Top' = f
    BY <2>4 DEF Top
  <2>6. SUFFICES ASSUME WellFormed(pairs)
                  PROVE  Standing'
    BY <2>4, LayoutGoes DEF Going
  <2>7. StandsAt(pairs, f, 0, FALSE)
    <3>1. f.base <= Len(pairs)
      BY <2>1, <2>3
    <3> QED
      BY <2>1, <2>2, <2>3, <3>1, StandsFresh
  <2>8. Here' = 0
    BY <2>3, <2>4, <2>5 DEF Here, Index
  <2>9. Nested(pairs, frames')
    BY <2>5 DEF Nested
  <2>10. printed' = FirstIndices(0)
    <3>1. printed = <<>>
      BY <2>6 DEF Start, LayoutInv
    <3> QED
      BY <2>4, <3>1 DEF FirstIndices
  <2>11. pairs' = pairs
    BY <2>4 DEF inputVars
  <2> QED
    BY <2>4, <2>5, <2>7, <2>8, <2>9, <2>10, <2>11 DEF Standing
<1> QED
  BY <1>1, <1>2

LEMMA StepLaid == ASSUME WriterInv, TerminatorInv, LayoutInv, Step PROVE LayoutInv'
BY StartLaid, OpenLaid, NameLaid, ValueLaid, ReturnToCallerLaid, ReturnLaid, ReadPastEndLaid
   DEF Step

(* The layout invariant holds in every reachable state, for every array,   *)
(* buffer size and choice of failures.                                     *)
THEOREM LayoutInvariance == Spec => []LayoutInv
<1>1. Init => LayoutInv
  BY DEF Init, LayoutInv
<1>2. WriterInv /\ TerminatorInv /\ LayoutInv /\ [Next]_vars => LayoutInv'
  <2> SUFFICES ASSUME WriterInv, TerminatorInv, LayoutInv, [Next]_vars PROVE LayoutInv'
    OBVIOUS
  <2>1. CASE Step
    BY <2>1, StepLaid
  <2>2. CASE UNCHANGED vars
    <3>1. Standing' = Standing
      BY <2>2 DEF vars, Standing, Here, Index, Top, Current
    <3> QED
      BY <2>2, <3>1 DEF vars, LayoutInv
  <2> QED
    BY <2>1, <2>2 DEF Next, Done
<1> QED
  BY <1>1, <1>2, WriterInvariance, TerminatorInvariance, PTL DEF Spec

(* A well-formed array, of any length and with structs nested to any       *)
(* depth, is never read past its end, and a successful call prints every   *)
(* pair of it exactly once and in order.                                   *)
THEOREM WriterPrintsEveryPair == Spec => []EveryPairOnce
<1>1. LayoutInv => EveryPairOnce
  BY DEF LayoutInv, EveryPairOnce, FirstIndices
<1> QED
  BY <1>1, LayoutInvariance, PTL

=============================================================================

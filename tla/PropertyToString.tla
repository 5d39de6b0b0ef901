-------------------------- MODULE PropertyToString --------------------------
(***************************************************************************)
(* log_context_property_to_string.c: prints an array of property/value     *)
(* pairs into a caller's buffer.  A struct pair owns the pairs that follow *)
(* it, as many as its one-byte field count says, nested structs included;  *)
(* log_n_properties recurses on it and then skips what the recursion       *)
(* consumed.                                                               *)
(*                                                                         *)
(* The recursion is an explicit stack of frames, one step per printf-class *)
(* call.  Text is abstracted to its length; any printf-class call may fail *)
(* with an encoding error when Failures names it.                          *)
(***************************************************************************)
EXTENDS Integers, Sequences, PairLayout

CONSTANTS
  PairArrays,   \* the arrays printed, see Pair below
  BufferSizes,  \* the values of buffer_size
  Failures,     \* the printf-class calls that may fail: a subset of Printers
  MaxSize       \* bound on BufferSizes

Printers == {"open", "close", "name", "value"}

(* LOG_CONTEXT_PROPERTY_VALUE_PAIR as this code sees it: whether it is a   *)
(* struct and then its field count, whether its to_string is the wcstombs  *)
(* one, and how many bytes its name and its value print.                   *)
Pair == [struct : BOOLEAN, fields : 0 .. 255, wide : BOOLEAN, name : Nat, value : Nat]

ASSUME InputAssumption ==
  /\ PairArrays \subseteq Seq(Pair)
  /\ MaxSize \in Nat
  /\ BufferSizes \subseteq 0 .. MaxSize
  /\ Failures \subseteq Printers

VARIABLES
  pairs,     \* property_value_pairs[0 .. property_value_pair_count - 1]
  size,      \* buffer_size of the call
  null,      \* buffer or property_value_pairs is NULL
  pc,        \* the next thing the innermost frame does
  frames,    \* the activations of log_n_properties, the innermost last
  ret,       \* the return value, once pc = "done"
  touched,   \* history: bytes of the buffer written so far
  nul,       \* history: position of the terminator, size when there is none
  printed,   \* history: the indices of the pairs printed, in order
  failed,    \* history: the printf-class calls that failed
  wild       \* history: a pair outside the array was read

vars == <<pairs, size, null, pc, frames, ret, touched, nul, printed, failed, wild>>
inputVars == <<pairs, size, null>>

Smaller(a, b) == IF a < b THEN a ELSE b
Larger(a, b) == IF a < b THEN b ELSE a

(* The locals of log_n_properties.  base is the index property_value_pairs *)
(* points at; start, the buffer it was called with, is history.            *)
Frame(base, count, buffer, buffer_size) ==
  [base |-> base, count |-> count, i |-> 0, added |-> 0,
   start |-> buffer, buffer |-> buffer, left |-> buffer_size, result |-> 0]

Top == frames[Len(frames)]
Depth == Len(frames) - 1
SetTop(f) == [frames EXCEPT ![Len(frames)] = f]

(* The pair at property_value_pairs[i] of the innermost frame. *)
Index == Top.base + Top.i
Current == pairs[Index + 1]

Init ==
  /\ pairs \in PairArrays
  /\ size \in BufferSizes
  /\ null \in BOOLEAN
  /\ pc = "call"
  /\ frames = <<>>
  /\ ret = 0
  /\ touched = 0
  /\ nul = size
  /\ printed = <<>>
  /\ failed = {}
  /\ wild = FALSE

(* log_context_property_to_string: a NULL buffer or array, an empty buffer *)
(* and an empty array all fail.                                            *)
Start ==
  /\ pc = "call"
  /\ IF null \/ size = 0 \/ Len(pairs) = 0
     THEN /\ pc' = "done"
          /\ ret' = -1
          /\ UNCHANGED frames
     ELSE /\ pc' = "loop"
          /\ frames' = <<Frame(0, Len(pairs), 0, size)>>
          /\ UNCHANGED ret
  /\ UNCHANGED <<inputVars, touched, nul, printed, failed, wild>>

(* At depth 0 the loop runs over the array; inside a struct it runs until  *)
(* it has printed as many fields as the struct has.                        *)
More == IF Depth = 0 THEN Top.i < Top.count ELSE Top.added < Top.count

(* Mutant: the would-be length of a truncated text is not cut down to what  *)
(* is left.                                                                *)
AdvancesUnclamped(f, bytes) ==
  [f EXCEPT !.buffer = @ + bytes, !.left = @ - bytes, !.result = @ + bytes]

(* Mutant: the bytes are not added to the result. *)
AdvancesUncounted(f, bytes) ==
  LET n == Smaller(bytes, f.left)
  IN  [f EXCEPT !.buffer = @ + n, !.left = @ - n]

(* UPDATE_BUFFER_AND_SIZE: a result larger than what is left only consumes *)
(* what is left.                                                           *)
Advance(f, bytes) ==
  LET n == Smaller(bytes, f.left)
  IN  [f EXCEPT !.buffer = @ + n, !.left = @ - n, !.result = @ + n]

(* Mutant: no room is kept for the terminator. *)
SnprintfFillsBuffer(f, bytes) ==
  LET end == f.buffer + Smaller(bytes, f.left)
  IN  /\ touched' = Larger(touched, end)
      /\ nul' = end

(* Mutant: the text is written as by sprintf. *)
Sprintf(f, bytes) ==
  /\ touched' = Larger(touched, f.buffer + bytes + 1)
  /\ nul' = f.buffer + bytes

(* What snprintf(buffer, left, ...) with a text of that many bytes leaves  *)
(* in memory: a terminated prefix of the text, nothing at all when left is *)
(* 0.                                                                      *)
Snprintf(f, bytes) ==
  IF f.left = 0
  THEN UNCHANGED <<touched, nul>>
  ELSE LET end == f.buffer + Smaller(bytes, f.left - 1)
       IN  /\ touched' = Larger(touched, end + 1)
           /\ nul' = end

(* The same for wcstombs(buffer, value, left): no terminator is written    *)
(* when the text fills what is left.                                       *)
Wcstombs(f, bytes) ==
  IF f.left = 0
  THEN UNCHANGED <<touched, nul>>
  ELSE LET end == f.buffer + Smaller(bytes, f.left)
       IN  /\ touched' = Larger(touched, Smaller(end + 1, size))
           /\ nul' = end

(* result = -1 and break: the loops of the callers break as well. *)
Fail(printer) ==
  /\ printer \in Failures
  /\ failed' = failed \cup {printer}
  /\ pc' = "done"
  /\ ret' = -1
  /\ UNCHANGED <<inputVars, frames, touched, nul, printed, wild>>

AtPair(isStruct) ==
  /\ pc = "loop"
  /\ More
  /\ Index < Len(pairs)
  /\ Current.struct = isStruct

(* " name={" of a struct, and the recursive call for its fields. *)
OpenStruct ==
  /\ AtPair(TRUE)
  /\ \/ Fail("open")
     \/ LET f == Advance([Top EXCEPT !.added = @ + 1], Current.name)
        IN  /\ Snprintf(Top, Current.name)
            /\ frames' = Append(SetTop(f),
                                Frame(Index + 1, Current.fields, f.buffer, f.left))
            /\ printed' = Append(printed, Index)
            /\ UNCHANGED <<inputVars, pc, ret, failed, wild>>

(* " name=" of a field.  A failure is noted in result, and the loop goes   *)
(* on with the next pair.                                                  *)
NameField ==
  /\ AtPair(FALSE)
  /\ \/ /\ "name" \in Failures
        /\ failed' = failed \cup {"name"}
        /\ frames' = SetTop([Top EXCEPT !.added = @ + 1, !.i = @ + 1, !.result = -1])
        /\ UNCHANGED <<inputVars, pc, ret, touched, nul, printed, wild>>
     \/ /\ Snprintf(Top, Current.name)
        /\ frames' = SetTop(Advance([Top EXCEPT !.added = @ + 1], Current.name))
        /\ pc' = "value"
        /\ UNCHANGED <<inputVars, ret, printed, failed, wild>>

(* Mutant: a value that finds no room is tried again. *)
RetriesWithoutRoom ==
  /\ pc = "value"
  /\ IF Top.left = 0
     THEN UNCHANGED vars
     ELSE /\ Snprintf(Top, Current.value)
          /\ frames' = SetTop(Advance([Top EXCEPT !.i = @ + 1], Current.value))
          /\ printed' = Append(printed, Index)
          /\ pc' = "loop"
          /\ UNCHANGED <<inputVars, ret, failed, wild>>

(* The value of the field, by the to_string of its type. *)
PrintField ==
  /\ pc = "value"
  /\ \/ Fail("value")
     \/ /\ IF Current.wide THEN Wcstombs(Top, Current.value) ELSE Snprintf(Top, Current.value)
        /\ frames' = SetTop(Advance([Top EXCEPT !.i = @ + 1], Current.value))
        /\ printed' = Append(printed, Index)
        /\ pc' = "loop"
        /\ UNCHANGED <<inputVars, ret, failed, wild>>

(* Mutant: i += increment_i is missing. *)
ReturnsWithoutSkipping ==
  /\ pc = "loop"
  /\ ~More
  /\ Depth > 0
  /\ frames' = Append(SubSeq(frames, 1, Depth - 1), Advance(frames[Depth], Top.result))
  /\ pc' = "close"
  /\ UNCHANGED <<inputVars, ret, touched, nul, printed, failed, wild>>

(* The loop of a nested activation ends: its caller advances by its result *)
(* and skips the pairs it consumed.  A negative result makes the caller's  *)
(* loop break too.                                                         *)
ReturnToCaller ==
  /\ pc = "loop"
  /\ ~More
  /\ Depth > 0
  /\ LET caller == frames[Depth]
         outer == SubSeq(frames, 1, Depth - 1)
     IN  IF Top.result < 0
         THEN /\ pc' = "done"
              /\ ret' = -1
              /\ UNCHANGED frames
         ELSE /\ frames' = Append(outer, Advance([caller EXCEPT !.i = @ + Top.i], Top.result))
              /\ pc' = "close"
              /\ UNCHANGED ret
  /\ UNCHANGED <<inputVars, touched, nul, printed, failed, wild>>

(* " }" *)
CloseStruct ==
  /\ pc = "close"
  /\ \/ Fail("close")
     \/ /\ Snprintf(Top, 2)
        /\ frames' = SetTop(Advance([Top EXCEPT !.i = @ + 1], 2))
        /\ pc' = "loop"
        /\ UNCHANGED <<inputVars, ret, printed, failed, wild>>

Return ==
  /\ pc = "loop"
  /\ ~More
  /\ Depth = 0
  /\ pc' = "done"
  /\ ret' = Top.result
  /\ UNCHANGED <<inputVars, frames, touched, nul, printed, failed, wild>>

(* The loop goes on past the end of the array: what it reads is not a pair. *)
ReadPastEnd ==
  /\ pc = "loop"
  /\ More
  /\ Index >= Len(pairs)
  /\ wild' = TRUE
  /\ pc' = "done"
  /\ UNCHANGED <<inputVars, frames, ret, touched, nul, printed, failed>>

Done == pc = "done" /\ UNCHANGED vars

Step ==
  \/ Start
  \/ OpenStruct
  \/ NameField
  \/ PrintField
  \/ ReturnToCaller
  \/ CloseStruct
  \/ Return
  \/ ReadPastEnd

Next == Step \/ Done

(* The function runs by itself once it is called. *)
Spec == Init /\ [][Next]_vars

FairSpec == Spec /\ WF_vars(Step)

-----------------------------------------------------------------------------
(* Properties *)

FrameType ==
  [base : Nat, count : Nat, i : Nat, added : Nat,
   start : Nat, buffer : Nat, left : Nat, result : Int]

(* The locals of log_n_properties keep their types: no size goes below 0. *)
TypeOK ==
  /\ pairs \in PairArrays
  /\ size \in BufferSizes
  /\ null \in BOOLEAN
  /\ pc \in {"call", "loop", "value", "close", "done"}
  /\ frames \in Seq(FrameType)
  /\ ret \in Int
  /\ touched \in Nat
  /\ nul \in Nat
  /\ printed \in Seq(Nat)
  /\ failed \subseteq Printers
  /\ wild \in BOOLEAN

(* Every activation, however deep, has the same end of buffer, began where *)
(* its caller stands and never counts more bytes than it advanced by;      *)
(* without a failed name the count is exact, so that the caller that       *)
(* advances by the result stands where the callee stopped.                 *)
BytesAccounted ==
  \A k \in 1 .. Len(frames) :
    LET f == frames[k]
    IN  /\ f.buffer + f.left = size
        /\ f.start = (IF k = 1 THEN 0 ELSE frames[k - 1].buffer)
        /\ f.start <= f.buffer
        /\ f.result <= f.buffer - f.start
        /\ "name" \notin failed => f.result = f.buffer - f.start

(* Nothing is written outside the caller's buffer and the return value     *)
(* never claims more than the buffer.                                      *)
StaysInBuffer ==
  /\ touched <= size
  /\ pc = "done" => ret \in (-1) .. size

(* A well-formed array is never read past its end, and a successful call   *)
(* prints every pair of it exactly once and in order: the recursion on a   *)
(* struct and the skipping of its fields agree at every depth.             *)
EveryPairOnce ==
  WellFormed(pairs) =>
    /\ ~wild
    /\ pc = "done" /\ ret >= 0 /\ failed = {} => printed = [k \in 1 .. Len(pairs) |-> k - 1]

(* The string a successful call leaves in the buffer is terminated inside  *)
(* the buffer, truncated or not, when no property is a wide string.        *)
LineTerminated ==
  pc = "done" /\ ret >= 0 /\ (\A k \in 1 .. Len(pairs) : ~pairs[k].wide) => nul < size

(* The function returns: no nesting of structs makes a loop run for ever. *)
Terminates == <>(pc = "done")

(* Seen by its caller the function is a bounded writer. *)
Promise == INSTANCE BoundedWriter
             WITH room <- size, returned <- (pc = "done"), answer <- ret

ImplementsBoundedWriter == Promise!Spec

-----------------------------------------------------------------------------
(* What the requirements say and the code does not do. *)

(* SRS_LOG_CONTEXT_PROPERTY_TO_STRING_42_022: any printf-class failure     *)
(* makes the function return a negative value.                             *)
FailureIsReported == WellFormed(pairs) /\ pc = "done" /\ failed # {} => ret < 0

(* SRS_LOG_CONTEXT_PROPERTY_TO_STRING_42_028: with a buffer of 0 bytes the *)
(* function returns 0.                                                     *)
EmptyBufferReturnsZero ==
  pc = "done" /\ size = 0 /\ ~null /\ Len(pairs) > 0 => ret = 0
=============================================================================

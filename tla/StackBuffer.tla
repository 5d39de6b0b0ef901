----------------------------- MODULE StackBuffer -----------------------------
(***************************************************************************)
(* The text get_thread_stack.c puts together: a sequence of                *)
(* snprintf_fallback calls, one per line, that share destination and       *)
(* destinationSize; when a line does not fit, a fallback string is copied  *)
(* instead, as much of it as there is room for, without a terminator.      *)
(* Text is abstracted to its length.                                       *)
(***************************************************************************)
EXTENDS Integers

CONSTANTS
  Sizes,         \* the values of destinationSize
  LineLengths,   \* the lengths of the lines written
  FallbackSize,  \* sizeof(snprintfFailed), its terminator included
  MaxLines       \* bound: the lines of a call

ASSUME BufferAssumption ==
  /\ Sizes \subseteq Nat
  /\ LineLengths \subseteq Nat
  /\ FallbackSize \in Nat \ {0}
  /\ MaxLines \in Nat

VARIABLES
  size,         \* destinationSize of the call
  pc,
  destination,  \* the position it points at
  left,         \* what is left of destinationSize
  nul,          \* position of the terminator, size when there is none
  touched,      \* history: bytes of the buffer written so far
  lines         \* lines written

vars == <<size, pc, destination, left, nul, touched, lines>>

Smaller(a, b) == IF a < b THEN a ELSE b
Larger(a, b) == IF a < b THEN b ELSE a

Init ==
  /\ size \in Sizes
  /\ pc = "call"
  /\ destination = 0
  /\ left = size
  /\ nul = size
  /\ touched = 0
  /\ lines = 0

(* A buffer of no size is left alone. *)
InvalidParameter ==
  /\ pc = "call"
  /\ size = 0
  /\ pc' = "returned"
  /\ UNCHANGED <<size, destination, left, nul, touched, lines>>

(* destination[0] = '\0' *)
Start ==
  /\ pc = "call"
  /\ size > 0
  /\ pc' = "walk"
  /\ nul' = 0
  /\ touched' = 1
  /\ UNCHANGED <<size, destination, left, lines>>

(* vsnprintf of a line that fits. *)
Append(length) ==
  /\ length < left
  /\ destination' = destination + length
  /\ left' = left - length
  /\ nul' = destination + length
  /\ touched' = Larger(touched, destination + length + 1)

(* Mutant: the whole fallback is copied whether it fits or not. *)
FallbackWhole(truncated) ==
  /\ destination' = destination + FallbackSize - 1
  /\ left' = left - (FallbackSize - 1)
  /\ nul' = destination + FallbackSize - 1
  /\ touched' = Larger(touched, destination + FallbackSize - 1)

(* Of a line that does not, or whose formatting failed: the fallback is    *)
(* copied over what vsnprintf left, and over its terminator when there is  *)
(* less room than the fallback is long.                                    *)
Fallback(truncated) ==
  LET copied == IF left < FallbackSize THEN left ELSE FallbackSize - 1
      end == IF truncated /\ left > 0 THEN destination + left - 1 ELSE nul
  IN  /\ destination' = destination + copied
      /\ left' = left - copied
      /\ nul' = IF end < destination + copied /\ left > 0 THEN size ELSE end
      /\ touched' = Larger(touched, IF truncated THEN size ELSE destination + copied)

(* snprintf_fallback *)
SnprintfFallback(length) ==
  \/ Append(length)
  \/ length >= left /\ Fallback(TRUE)
  \/ Fallback(FALSE)

(* The symbol handler is not initialised, or the platform has none: one    *)
(* line says so.                                                           *)
NotInitialized(length) ==
  /\ pc = "call"
  /\ size > 0
  /\ SnprintfFallback(length)
  /\ pc' = "reported"
  /\ lines' = lines + 1
  /\ UNCHANGED size

(* A frame, or the failure of a call. *)
WriteLine(length) ==
  /\ pc = "walk"
  /\ lines < MaxLines
  /\ SnprintfFallback(length)
  /\ lines' = lines + 1
  /\ UNCHANGED <<size, pc>>

(* Mutant: the last byte is taken at the offset of the original size. *)
TerminateAtOriginalSize ==
  /\ pc = "walk"
  /\ nul' = IF destination = 0 THEN Smaller(nul, size - 1) ELSE nul
  /\ touched' = Larger(touched, destination + size)
  /\ pc' = "returned"
  /\ UNCHANGED <<size, destination, left, lines>>

(* destination[destinationSize - 1] = '\0' *)
Terminate ==
  /\ pc = "walk"
  /\ nul' = Smaller(nul, destination + left - 1)
  /\ touched' = Larger(touched, destination + left)
  /\ pc' = "returned"
  /\ UNCHANGED <<size, destination, left, lines>>

(* ResumeThread failed: an early return. *)
ResumeFails ==
  /\ pc = "walk"
  /\ pc' = "abandoned"
  /\ UNCHANGED <<size, destination, left, nul, touched, lines>>

Done == pc \in {"reported", "returned", "abandoned"} /\ UNCHANGED vars

Next ==
  \/ InvalidParameter
  \/ Start
  \/ \E length \in LineLengths : NotInitialized(length) \/ WriteLine(length)
  \/ Terminate
  \/ ResumeFails
  \/ Done

Spec == Init /\ [][Next]_vars

-----------------------------------------------------------------------------
(* Properties *)

(* The locals of get_thread_stack keep their types: destinationSize never  *)
(* wraps below 0.                                                          *)
TypeOK ==
  /\ size \in Sizes
  /\ pc \in {"call", "walk", "reported", "returned", "abandoned"}
  /\ destination \in Nat
  /\ left \in Nat
  /\ nul \in Nat
  /\ touched \in Nat
  /\ lines \in Nat

(* However many lines overflow, the pointer and the remaining size end at  *)
(* the end of the caller's buffer and nothing is written beyond it; this   *)
(* is what makes the last assignment, which indexes from the moved         *)
(* pointer, hit the last byte of the buffer, also when nothing is left.    *)
StaysInBuffer ==
  /\ TypeOK
  /\ destination + left = size
  /\ touched <= size

(* A call that walks the stack and returns leaves a string, thanks to the  *)
(* last assignment, whatever the fallback overwrote.  (A call that only    *)
(* reports that there is no symbol handler makes no such assignment, and   *)
(* leaves none in a buffer smaller than the fallback.)                     *)
ReturnsString == pc = "returned" /\ size > 0 => nul < size
=============================================================================

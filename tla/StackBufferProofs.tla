-------------------------- MODULE StackBufferProofs --------------------------
(***************************************************************************)
(* For every buffer size, line length and length of the fallback string:   *)
(* the text of a call stack stays in the caller's buffer, and a walk that  *)
(* returns leaves a string.                                                *)
(***************************************************************************)
EXTENDS StackBuffer, TLAPS

(* The inductive invariant: besides the properties, that the walk only     *)
(* begins with a buffer of some size.                                      *)
BufferInv ==
  /\ TypeOK
  /\ StaysInBuffer
  /\ ReturnsString
  /\ pc = "walk" => size > 0

(* A snprintf_fallback call keeps destination and left ending at the end   *)
(* of the buffer and writes nothing behind it, whether the line fits, is   *)
(* replaced by the fallback string, or by a part of it.                    *)
LEMMA FallbackStays ==
  ASSUME TypeOK, StaysInBuffer, NEW length \in LineLengths, SnprintfFallback(length)
  PROVE  /\ destination' \in Nat
         /\ left' \in Nat
         /\ nul' \in Nat
         /\ touched' \in Nat
         /\ destination' + left' = size
         /\ touched' <= size
<1> USE BufferAssumption
<1>0. length \in Nat /\ size \in Nat
  BY DEF TypeOK
<1>1. CASE Append(length)
  BY <1>0, <1>1 DEF Append, TypeOK, StaysInBuffer, Larger
<1>2. ASSUME NEW truncated \in BOOLEAN, Fallback(truncated)
      PROVE  /\ destination' \in Nat
             /\ left' \in Nat
             /\ nul' \in Nat
             /\ touched' \in Nat
             /\ destination' + left' = size
             /\ touched' <= size
  <2> DEFINE copied == IF left < FallbackSize THEN left ELSE FallbackSize - 1
  <2>1. copied \in 0 .. left
    BY DEF TypeOK
  <2>2. destination' = destination + copied /\ left' = left - copied
    BY <1>2 DEF Fallback
  <2>3. nul' \in Nat
    BY <1>0, <1>2, <2>1 DEF Fallback, TypeOK
  <2>4. touched' \in Nat /\ touched' <= size
    BY <1>0, <1>2, <2>1 DEF Fallback, TypeOK, StaysInBuffer, Larger
  <2> QED
    BY <1>0, <2>1, <2>2, <2>3, <2>4 DEF TypeOK, StaysInBuffer
<1> QED
  BY <1>1, <1>2 DEF SnprintfFallback

(* BufferInv holds throughout every call. *)
THEOREM BufferInvariance == Spec => []BufferInv
<1>1. Init => BufferInv
  BY BufferAssumption DEF Init, BufferInv, TypeOK, StaysInBuffer, ReturnsString
<1>2. BufferInv /\ [Next]_vars => BufferInv'
  <2> SUFFICES ASSUME BufferInv, [Next]_vars PROVE BufferInv'
    OBVIOUS
  <2>0. size \in Nat
    BY BufferAssumption DEF BufferInv, TypeOK
  <2>1. CASE InvalidParameter
    BY <2>1 DEF InvalidParameter, BufferInv, TypeOK, StaysInBuffer, ReturnsString
  <2>2. CASE Start
    BY <2>0, <2>2 DEF Start, BufferInv, TypeOK, StaysInBuffer, ReturnsString
  <2>3. ASSUME NEW length \in LineLengths, NotInitialized(length) PROVE BufferInv'
    <3>1. SnprintfFallback(length)
      BY <2>3 DEF NotInitialized
    <3> QED
      BY <2>3, <3>1, FallbackStays
      DEF NotInitialized, BufferInv, TypeOK, StaysInBuffer, ReturnsString
  <2>4. ASSUME NEW length \in LineLengths, WriteLine(length) PROVE BufferInv'
    <3>1. SnprintfFallback(length)
      BY <2>4 DEF WriteLine
    <3> QED
      BY <2>4, <3>1, FallbackStays
      DEF WriteLine, BufferInv, TypeOK, StaysInBuffer, ReturnsString
  <2>5. CASE Terminate
    BY <2>0, <2>5
    DEF Terminate, BufferInv, TypeOK, StaysInBuffer, ReturnsString, Smaller, Larger
  <2>6. CASE ResumeFails
    BY <2>6 DEF ResumeFails, BufferInv, TypeOK, StaysInBuffer, ReturnsString
  <2>7. CASE UNCHANGED vars
    BY <2>7 DEF vars, BufferInv, TypeOK, StaysInBuffer, ReturnsString
  <2> QED
    BY <2>1, <2>2, <2>3, <2>4, <2>5, <2>6, <2>7 DEF Next, Done
<1> QED
  BY <1>1, <1>2, PTL DEF Spec

(* destination and destinationSize always end at the end of the caller's   *)
(* buffer and nothing is written behind it: the closing assignment, which  *)
(* indexes from the moved pointer, hits the last byte of the buffer.       *)
THEOREM BufferStays == Spec => []StaysInBuffer
<1>1. BufferInv => StaysInBuffer
  BY DEF BufferInv
<1> QED
  BY <1>1, BufferInvariance, PTL

(* A call that walks the stack and returns leaves a terminated string in   *)
(* the caller's buffer, however many of its lines were truncated.          *)
THEOREM WalkReturnsString == Spec => []ReturnsString
<1>1. BufferInv => ReturnsString
  BY DEF BufferInv
<1> QED
  BY <1>1, BufferInvariance, PTL
=============================================================================

---------------------------- MODULE BoundedWriter ----------------------------
(***************************************************************************)
(* What the caller of a function that prints into a buffer of a given size *)
(* relies on: whatever the function prints, it touches only the bytes of   *)
(* the buffer, and it returns either a negative value or a number of bytes *)
(* that the caller may advance its own pointer by.                         *)
(***************************************************************************)
EXTENDS Integers

CONSTANT MaxSize     \* bound: the largest buffer offered

VARIABLES
  room,      \* the buffer size offered by the caller, fixed during the call
  touched,   \* the number of leading bytes of the buffer written so far
  returned,  \* the function has returned
  answer     \* what it returned, 0 until then

writerVars == <<room, touched, returned, answer>>

Init ==
  /\ room \in 0 .. MaxSize
  /\ touched = 0
  /\ returned = FALSE
  /\ answer = 0

Write ==
  /\ ~returned
  /\ touched' \in touched .. room
  /\ UNCHANGED <<room, returned, answer>>

Answer ==
  /\ ~returned
  /\ returned' = TRUE
  /\ answer' \in (-1) .. room
  /\ UNCHANGED <<room, touched>>

Next == Write \/ Answer

Spec == Init /\ [][Next]_writerVars
=============================================================================

------------------------------- MODULE Memory -------------------------------
(***************************************************************************)
(* A block of memory as the bytes written so far, by offset.  A write      *)
(* beyond the end of a block extends the domain, so that a module can say  *)
(* of its blocks that nothing was written there.                           *)
(***************************************************************************)
EXTENDS Integers, Sequences

(* memcpy(block + offset, cells, Len(cells)) *)
Store(block, offset, cells) ==
  [o \in DOMAIN block \cup {offset + k - 1 : k \in DOMAIN cells} |->
     IF o - offset + 1 \in DOMAIN cells THEN cells[o - offset + 1] ELSE block[o]]

Garbage == <<"garbage", 0>>

(* n bytes read at offset. *)
Load(block, offset, n) ==
  [k \in 1 .. n |->
     IF offset + k - 1 \in DOMAIN block THEN block[offset + k - 1] ELSE Garbage]
=============================================================================

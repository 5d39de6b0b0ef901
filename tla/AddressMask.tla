---------------------------- MODULE AddressMask ----------------------------
(***************************************************************************)
(* The mask get_thread_stack_init computes on ARM64 to strip the pointer   *)
(* authentication bits of return addresses.  A 64-bit word is the set of   *)
(* the positions of its 1 bits.                                            *)
(***************************************************************************)
EXTENDS Integers

Word == SUBSET (0 .. 63)

(* ~(DWORD64)0: no masking until the mask is computed *)
AllOnes == 0 .. 63

(* w |= w >> n *)
Smear(w, n) == w \cup {b - n : b \in {c \in w : c >= n}}

(* Mutant: one of the shifts is missing. *)
SkipsAShift(w) == Smear(Smear(Smear(Smear(Smear(w, 1), 2), 4), 8), 32)

(* The bits below the most significant one are filled. *)
Fill(w) == Smear(Smear(Smear(Smear(Smear(Smear(w, 1), 2), 4), 8), 16), 32)

(* strip_pac *)
StripPac(address, mask) == address \cap mask
=============================================================================

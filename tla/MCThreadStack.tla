--------------------------- MODULE MCThreadStack ---------------------------
(* Modules for TLC: "c:\a" and "c:\bb", "c:\a\p" of which the first is a    *)
(* part, a long directory and one that is too long.  The lengths are       *)
(* scaled down with the array.                                             *)
EXTENDS ThreadStack

MCDirectories == {"a", "bb", "a/p", "long", "toolong"}
MCLengthOf == [d \in MCDirectories |->
  CASE d = "a" -> 1 [] d = "bb" -> 2 [] d = "a/p" -> 3 [] d = "long" -> 4 [] d = "toolong" -> 9]
MCInside == [d \in MCDirectories |-> IF d = "a/p" THEN {"a", "a/p"} ELSE {d}]

(* The array holds eight characters. *)
MCSnapshots ==
  {<<>>, <<NoBackslash, "toolong">>,
   <<"a", "bb", "a">>,
   <<"a/p", "a">>, <<"a", "a/p", "a">>,
   <<"bb", "a", "a/p", "bb">>,
   <<"long", "a/p", "a">>,
   <<"long", "bb", "a", "a">>}

MCOneSnapshot == {<<"a">>}

(* 2^46: the bits below are all to be filled. *)
MCMaxAddress == {46}
=============================================================================

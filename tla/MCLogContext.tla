---------------------------- MODULE MCLogContext ----------------------------
(* Property lists for TLC: values of fixed size, strings, wide strings and *)
(* a value function that asks for more than it fills.                      *)
EXTENDS LogContext

Fixed(t, v) ==
  [type |-> t, value |-> v, length |-> 0, counted |-> 0, formats |-> TRUE, reserved |-> 0]
String(v, n) == [Fixed("ascii_char_ptr", v) EXCEPT !.length = n, !.counted = n]
Wide(v, n) == [String(v, n) EXCEPT !.type = "wchar_t_ptr"]
Custom(v, n, size) == [String(v, n) EXCEPT !.reserved = size]
Unformattable(p) == [p EXCEPT !.formats = FALSE]
Changing(p, n) == [p EXCEPT !.length = n]

MCPropertyLists ==
  {<<>>,
   <<String("s", 1), Fixed("bool", "y")>>,
   <<Custom("c", 1, 4), Wide("w", 1)>>,
   <<Wide("v", 0), String("e", 0), Fixed("uint8_t", "z")>>}

(* The same with formatting that fails, for itself or for a wide string    *)
(* that is too long, and arguments that are shorter or longer the second   *)
(* time.                                                                   *)
MCFailingLists ==
  MCPropertyLists \cup {<<Unformattable(String("f", 1)), Fixed("int8_t", "y")>>,
                        <<Wide("g", MaxWideLength)>>,
                        <<Changing(Wide("h", MaxWideLength), 0)>>,
                        <<Changing(String("t", 2), 1), Fixed("int16_t", "x")>>,
                        <<Changing(String("u", 0), 1)>>}
=============================================================================

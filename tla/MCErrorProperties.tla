------------------------- MODULE MCErrorProperties -------------------------
(* Argument lists and messages for TLC. *)
EXTENDS ErrorProperties

Hresult(c) == [kind |-> "hresult", code |-> c, size |-> 0]
Other(n) == [Item("other") EXCEPT !.size = n]

(* The macros of version 1, every order of the three error properties that *)
(* matters, and lists that exceed the pairs or the data.                   *)
MCLists ==
  {<<>>, <<Item("message")>>, LogLastError, LogErrorNo,
   <<Item("errno"), Item("lasterror"), Item("message")>>,
   <<Hresult(1), Item("lasterror")>>,
   <<Item("lasterror"), Hresult(2), Other(2)>>,
   <<Other(3), Item("errno"), Item("message"), Other(1)>>,
   <<Hresult(1), Hresult(2), Item("errno")>>,
   <<Other(1), Other(1), Other(1), Other(1)>>}

MCMessages ==
  {<<"x">>, <<"x", "\r", "\n">>, <<"\n">>, <<"\r", "\n">>, <<"x", "\n", "x", "\n">>}
=============================================================================

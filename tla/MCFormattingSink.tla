-------------------------- MODULE MCFormattingSink --------------------------
(* Requests for TLC, around a buffer of 8 characters. *)
EXTENDS FormattingSink

NoContext == [given |-> FALSE, pairs |-> 0, bytes |-> 0, wide |-> {}]
EmptyContext == [given |-> TRUE, pairs |-> 0, bytes |-> 0, wide |-> {}]
TextContext(n) == [given |-> TRUE, pairs |-> 3, bytes |-> n, wide |-> {}]

(* A wide string, and the closing brace after it. *)
WideContext == [given |-> TRUE, pairs |-> 3, bytes |-> 5, wide |-> {3}]

Log(sink, level, header, context, message) ==
  [sink |-> sink, level |-> level, format |-> TRUE,
   header |-> header, context |-> context, message |-> message]

(* Lines that fit, that fill the buffer exactly, that overflow it in the   *)
(* header, in the context and in the message.                              *)
Lines ==
  {Log("console", 0, h, c, m) :
     h \in {3, 6, 8}, c \in {NoContext, TextContext(2), TextContext(4)}, m \in {1, 4}}

Others ==
  {Log("callback", l, 3, c, 1) : l \in {1, 4}, c \in {NoContext, EmptyContext, WideContext}}
    \cup {Log("callback", 1, h, WideContext, 1) : h \in {5, 6}}
    \cup {[Log(s, 2, 3, NoContext, 1) EXCEPT !.format = FALSE] : s \in {"console", "callback"}}

MCRequests == Lines \cup Others

(* Few requests, for two threads. *)
SharedRequests ==
  {Log("console", 0, 3, NoContext, 1), Log("callback", 1, 3, TextContext(4), 1),
   Log("callback", 2, 8, NoContext, 1)}
=============================================================================

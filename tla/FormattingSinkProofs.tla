------------------------ MODULE FormattingSinkProofs ------------------------
(***************************************************************************)
(* Proofs about FormattingSink, for any number of threads, any calls, any  *)
(* size of the line buffer and any failures of the printf-class functions, *)
(* an overlooked one included: a call emits once, what it emits is the     *)
(* line or an error that has a reason, a line none of whose pieces failed  *)
(* is complete or cut at the end of the buffer, and the maximum level is   *)
(* obeyed although it changes in the middle of calls.                      *)
(***************************************************************************)
EXTENDS FormattingSink, TLAPS

-----------------------------------------------------------------------------
(* The inductive invariant.  It says of one call, place by place, what its *)
(* locals are: where the call is, the request r, its line l, the failures  *)
(* f, the maximum levels s it has seen and the output o, while the maximum *)
(* level is m.                                                             *)

(* log_context_property_to_string has nothing to print or no room. *)
Refused(r) == r.context.given /\ (r.context.pairs = 0 \/ r.header >= MaxLength)

(* The header and the context. *)
Prefix(r) == r.header + (IF r.context.given THEN r.context.bytes ELSE 0)

(* The buffer after that many bytes, cut at its end. *)
Holds(l, bytes) ==
  /\ l.buffer = Smaller(bytes, MaxLength)
  /\ l.nul = Smaller(bytes, MaxLength - 1)

Before == {"idle", "entered", "header", "header_without_time"}
Admitted == {"header", "header_without_time", "context", "message", "emit", "error"}

LineInv(where, r, l, f) ==
  /\ l.buffer + l.left = MaxLength
  /\ where \in Before => l.buffer = 0
  /\ where = "context" => r.context.given /\ Holds(l, r.header)
  /\ where = "message" /\ f = {} /\ ~FilledByWide(r) => Holds(l, Prefix(r))
  /\ where = "emit" /\ f = {} /\ ~FilledByWide(r)
       => l.nul = Smaller(FullLength(r), MaxLength - 1)
  /\ where \in {"message", "emit"} /\ r.context.wide = {} => l.nul < MaxLength

ErrorInv(where, r, f) ==
  /\ where \in Before \cup {"context"} => f = {}
  /\ where \in {"message", "emit"} => f \subseteq {"name"} /\ ~Refused(r)
  /\ where = "error" => f # {} \/ Refused(r)
  /\ where \in Admitted => r.format

FilterInv(where, r, s, m) ==
  /\ where # "idle" => m \in s
  /\ where \in Admitted /\ r.sink = "callback" => \E n \in s : r.level <= n

(* What a finished call may have emitted. *)
OutputInv(r, f, s, o) ==
  \/ /\ o = <<>>
     /\ r.sink = "callback" /\ r.format
     /\ \E n \in s : r.level > n
  \/ /\ o = <<o[1]>>
     /\ r.sink = "callback" /\ r.format => \E n \in s : r.level <= n
     /\ \/ /\ o[1].text = "line"
           /\ r.format /\ f \subseteq {"name"} /\ ~Refused(r)
           /\ f = {} /\ ~FilledByWide(r) => o[1].length = Smaller(FullLength(r), MaxLength - 1)
           /\ r.context.wide = {} => o[1].length < MaxLength
        \/ o[1].text = "error" /\ r.format /\ (f # {} \/ Refused(r))
        \/ o[1].text = "invalid" /\ ~r.format

CallInv(where, r, l, f, s, o, m) ==
  /\ LineInv(where, r, l, f)
  /\ ErrorInv(where, r, f)
  /\ FilterInv(where, r, s, m)
  /\ IF where = "done" THEN OutputInv(r, f, s, o) ELSE o = <<>>

SinkInv ==
  /\ TypeOK
  /\ out = [t \in Threads |-> out[t]]
  /\ \A t \in Threads :
       CallInv(pc[t], req[t], line[t], failed[t], seen[t], out[t], max_level)

-----------------------------------------------------------------------------
(* The line buffer *)

Line == [buffer : 0 .. MaxLength, left : 0 .. MaxLength, nul : 0 .. MaxLength, time : Threads]

LEMMA FreshOK ==
  ASSUME NEW t \in Threads
  PROVE  FreshLine(t) \in Line /\ FreshLine(t).buffer = 0 /\ FreshLine(t).left = MaxLength
BY SinkAssumption DEF FreshLine, Line

(* A piece is printed at buffer, terminated inside what is left. *)
LEMMA SnprintfOK ==
  ASSUME NEW l \in Line, NEW bytes \in Nat, l.buffer + l.left = MaxLength, l.left > 0
  PROVE  /\ Snprintf(l, bytes) \in Line
         /\ Snprintf(l, bytes).buffer = l.buffer
         /\ Snprintf(l, bytes).left = l.left
         /\ Snprintf(l, bytes).nul = l.buffer + Smaller(bytes, l.left - 1)
         /\ Snprintf(l, bytes).time = l.time
BY SinkAssumption DEF Line, Snprintf, Smaller

(* The pointer and the remaining size move by the same amount. *)
LEMMA AdvanceOK ==
  ASSUME NEW l \in Line, NEW bytes \in Nat, l.buffer + l.left = MaxLength
  PROVE  /\ Advance(l, bytes) \in Line
         /\ Advance(l, bytes).buffer = l.buffer + Smaller(bytes, l.left)
         /\ Advance(l, bytes).left = l.left - Smaller(bytes, l.left)
         /\ Advance(l, bytes).buffer + Advance(l, bytes).left = MaxLength
         /\ Advance(l, bytes).nul = l.nul
         /\ Advance(l, bytes).time = l.time
<1> DEFINE n == Smaller(bytes, l.left)
<1>1. n \in 0 .. l.left
  BY DEF Line, Smaller
<1>2. l.buffer + n \in 0 .. MaxLength /\ l.left - n \in 0 .. MaxLength
  BY <1>1, SinkAssumption DEF Line
<1>3. Advance(l, bytes) = [l EXCEPT !.buffer = @ + n, !.left = @ - n]
  BY DEF Advance
<1>4. n = Smaller(bytes, l.left)
  OBVIOUS
<1> HIDE DEF n
<1>5. Advance(l, bytes) =
        [buffer |-> l.buffer + n, left |-> l.left - n, nul |-> l.nul, time |-> l.time]
  BY <1>3 DEF Line
<1>6. l.buffer + n + (l.left - n) = MaxLength
  BY <1>1, SinkAssumption DEF Line
<1> QED
  BY <1>2, <1>4, <1>5, <1>6 DEF Line

(* A line that holds some bytes and is given more holds the sum. *)
LEMMA HoldsMore ==
  ASSUME NEW l \in Line, NEW held \in Nat, NEW bytes \in Nat,
         l.buffer + l.left = MaxLength, l.left > 0, l.buffer = Smaller(held, MaxLength)
  PROVE  Holds(Advance(Snprintf(l, bytes), bytes), held + bytes)
<1>1. l.buffer = held /\ l.left = MaxLength - held /\ held < MaxLength
  BY SinkAssumption DEF Line, Smaller
<1> DEFINE p == Snprintf(l, bytes)
           a == Advance(p, bytes)
<1>2. p \in Line /\ p.buffer = l.buffer /\ p.left = l.left
      /\ p.nul = l.buffer + Smaller(bytes, l.left - 1)
  BY SnprintfOK
<1> HIDE DEF p
<1>3. a.buffer = p.buffer + Smaller(bytes, p.left) /\ a.nul = p.nul
  BY <1>2, AdvanceOK
<1> HIDE DEF a
<1>4. Holds(a, held + bytes)
  BY <1>1, <1>2, <1>3, SinkAssumption DEF Holds, Smaller
<1> QED
  BY <1>4 DEF a, p

-----------------------------------------------------------------------------
(* One call takes a step *)

(* What the other calls rely on does not change with it. *)
LEMMA OneCall ==
  ASSUME SinkInv, NEW t \in Threads, TypeOK', UNCHANGED max_level,
         NEW o, out' = [out EXCEPT ![t] = o],
         \A u \in Threads \ {t} :
           /\ pc'[u] = pc[u] /\ req'[u] = req[u] /\ line'[u] = line[u]
           /\ failed'[u] = failed[u] /\ seen'[u] = seen[u],
         CallInv(pc'[t], req'[t], line'[t], failed'[t], seen'[t], o, max_level)
  PROVE  SinkInv'
<1>1. out' = [u \in Threads |-> out'[u]] /\ out'[t] = o
      /\ \A u \in Threads \ {t} : out'[u] = out[u]
  BY DEF SinkInv
<1>2. ASSUME NEW u \in Threads
      PROVE  CallInv(pc'[u], req'[u], line'[u], failed'[u], seen'[u], out'[u], max_level')
  <2>1. CASE u = t
    BY <1>1, <2>1
  <2>2. CASE u # t
    BY <1>1, <2>2 DEF SinkInv
  <2> QED
    BY <2>1, <2>2
<1> QED
  BY <1>1, <1>2 DEF SinkInv

(* The types of a request. *)
LEMMA RequestOK ==
  ASSUME TypeOK, NEW t \in Threads
  PROVE  /\ req[t] \in Requests /\ req[t] \in Request
         /\ req[t].header \in Nat /\ req[t].message \in Nat /\ req[t].level \in Levels
         /\ req[t].context \in Context /\ req[t].context.bytes \in Nat
         /\ req[t].context.pairs \in Nat /\ req[t].context.wide \in SUBSET Nat
         /\ Prefix(req[t]) \in Nat
         /\ FullLength(req[t]) = Prefix(req[t]) + 1 + req[t].message
<1>1. req[t] \in Requests /\ req[t] \in Request
  BY SinkAssumption DEF TypeOK
<1> QED
  BY <1>1 DEF Request, Context, Prefix, FullLength

LEMMA LineType == TypeOK => line \in [Threads -> Line]
BY DEF TypeOK, Line
LEMMA InitOK == Init => SinkInv
<1> SUFFICES ASSUME Init PROVE SinkInv
  OBVIOUS
<1>1. NoRequest \in Requests
  BY SinkAssumption DEF NoRequest
<1>2. line \in [Threads -> Line] /\ \A t \in Threads : line[t].buffer = 0 /\ line[t].left = MaxLength
  BY FreshOK DEF Init
<1>3. TypeOK
  BY <1>1, <1>2 DEF Init, TypeOK, Noop, Levels, CRITICAL, VERBOSE, Line
<1>4. ASSUME NEW t \in Threads
      PROVE  CallInv(pc[t], req[t], line[t], failed[t], seen[t], out[t], max_level)
  <2>1. pc[t] = "idle" /\ failed[t] = {} /\ out[t] = <<>>
    BY DEF Init
  <2>2. line[t].buffer + line[t].left = MaxLength /\ line[t].buffer = 0
    BY <1>2, SinkAssumption
  <2> QED
    BY <2>1, <2>2 DEF CallInv, LineInv, ErrorInv, FilterInv, Before, Admitted
<1> QED
  BY <1>3, <1>4 DEF SinkInv, Init

(* log_sink_callback_set_callback and log_sink_callback_set_max_level *)
LEMMA SettingsStep ==
  ASSUME SinkInv,
         \/ \E c \in Callbacks, context \in CallbackContexts : SetCallback(c, context)
         \/ SetNullCallback
         \/ \E level \in MaxLevels : SetMaxLevel(level)
  PROVE  SinkInv'
<1>1. CASE \E c \in Callbacks, context \in CallbackContexts : SetCallback(c, context)
  BY <1>1 DEF SetCallback, SinkInv, TypeOK
<1>2. CASE SetNullCallback
  BY <1>2 DEF SetNullCallback, SinkInv, TypeOK, vars, settings
<1>3. ASSUME NEW level \in MaxLevels, SetMaxLevel(level)
      PROVE  SinkInv'
  <2>1. level \in Levels
    BY SinkAssumption
  <2>2. TypeOK'
    BY <1>3, <2>1 DEF SetMaxLevel, SinkInv, TypeOK
  <2>3. ASSUME NEW t \in Threads
        PROVE  CallInv(pc[t], req[t], line[t], failed[t], seen'[t], out[t], level)
    <3>1. CallInv(pc[t], req[t], line[t], failed[t], seen[t], out[t], max_level)
      BY DEF SinkInv
    <3>2. CASE pc[t] = "idle"
      BY <3>1, <3>2 DEF CallInv, FilterInv, Admitted
    <3>3. CASE pc[t] # "idle"
      <4>1. seen'[t] = seen[t] \cup {level}
        BY <1>3, <3>3 DEF SetMaxLevel
      <4>2. FilterInv(pc[t], req[t], seen'[t], level)
        BY <3>1, <4>1 DEF CallInv, FilterInv
      <4>3. OutputInv(req[t], failed[t], seen[t], out[t])
              => OutputInv(req[t], failed[t], seen'[t], out[t])
        BY <4>1 DEF OutputInv
      <4> QED
        BY <3>1, <4>2, <4>3 DEF CallInv
    <3> QED
      BY <3>2, <3>3
  <2> QED
    BY <1>3, <2>2, <2>3 DEF SetMaxLevel, SinkInv
<1> QED
  BY <1>1, <1>2, <1>3

LEMMA EnterStep ==
  ASSUME SinkInv, NEW t \in Threads, NEW r \in Requests, Enter(t, r)
  PROVE  SinkInv'
<1>1. TypeOK'
  BY DEF SinkInv, TypeOK, Enter, Goto, settings
<1>2. /\ pc[t] = "idle" /\ pc'[t] = "entered" /\ req'[t] = r /\ seen'[t] = {max_level}
      /\ UNCHANGED <<max_level, line, failed, out>>
      /\ \A u \in Threads \ {t} : pc'[u] = pc[u] /\ req'[u] = req[u] /\ seen'[u] = seen[u]
  BY DEF SinkInv, TypeOK, Enter, Goto, settings
<1>3. CallInv(pc'[t], req'[t], line'[t], failed'[t], seen'[t], out[t], max_level)
  BY <1>2 DEF SinkInv, CallInv, LineInv, ErrorInv, FilterInv, Before, Admitted
<1>4. out' = [out EXCEPT ![t] = out[t]]
  BY <1>2 DEF SinkInv
<1> QED
  BY <1>1, <1>2, <1>3, <1>4, OneCall, ZenonT(30)

(* A step that only moves the call on, and perhaps takes the time. *)
LEMMA MoveStep ==
  ASSUME SinkInv, NEW t \in Threads,
         DropMessage(t) \/ TakeTime(t) \/ TimeFails(t) \/ NoRoomForMessage(t)
  PROVE  SinkInv'
<1>1. TypeOK'
  BY DEF SinkInv, TypeOK, DropMessage, TakeTime, TimeFails, NoRoomForMessage, Goto, settings
<1>2. /\ UNCHANGED <<max_level, req, line, failed, out, seen>>
      /\ \A u \in Threads \ {t} : pc'[u] = pc[u]
  BY DEF SinkInv, TypeOK, DropMessage, TakeTime, TimeFails, NoRoomForMessage, Goto, settings
<1>3. CallInv(pc[t], req[t], line[t], failed[t], seen[t], out[t], max_level)
  BY DEF SinkInv
<1>4. req[t].level \in 0 .. 4 /\ max_level \in 0 .. 4
  BY RequestOK DEF SinkInv, TypeOK, Levels, CRITICAL, VERBOSE
<1>5. CallInv(pc'[t], req[t], line[t], failed[t], seen[t], out[t], max_level)
  <2>1. CASE DropMessage(t)
    <3>1. pc[t] = "entered" /\ pc'[t] = "done" /\ req[t].format
          /\ req[t].sink = "callback" /\ req[t].level > max_level
      BY <2>1 DEF DropMessage, Goto, TooVerbose, SinkInv, TypeOK
    <3> QED
      BY <1>3, <3>1 DEF CallInv, LineInv, ErrorInv, FilterInv, OutputInv, Before, Admitted
  <2>2. CASE TakeTime(t) \/ TimeFails(t)
    <3>1. pc[t] = "entered" /\ pc'[t] \in {"header", "header_without_time"} /\ req[t].format
          /\ (req[t].sink = "callback" => req[t].level <= max_level)
      BY <1>4, <2>2 DEF TakeTime, TimeFails, Goto, TooVerbose, SinkInv, TypeOK
    <3> QED
      BY <1>3, <3>1 DEF CallInv, LineInv, ErrorInv, FilterInv, Before, Admitted
  <2>3. CASE NoRoomForMessage(t)
    <3>1. pc[t] = "message" /\ pc'[t] = "emit" /\ line[t].left <= 1
      BY <2>3 DEF NoRoomForMessage, Goto, SinkInv, TypeOK
    <3>2. failed[t] = {} /\ ~FilledByWide(req[t])
            => line[t].nul = Smaller(FullLength(req[t]), MaxLength - 1)
      <4>1. line[t] \in Line
        BY LineType DEF SinkInv
      <4>2. failed[t] = {} /\ ~FilledByWide(req[t]) => Holds(line[t], Prefix(req[t]))
        BY <1>3, <3>1 DEF CallInv, LineInv
      <4>3. line[t].buffer + line[t].left = MaxLength
        BY <1>3 DEF CallInv, LineInv
      <4>4. /\ Prefix(req[t]) \in Nat /\ req[t].message \in Nat
            /\ FullLength(req[t]) = Prefix(req[t]) + 1 + req[t].message
        BY RequestOK DEF SinkInv
      <4> QED
        BY <3>1, <4>1, <4>2, <4>3, <4>4, SinkAssumption DEF Holds, Smaller, Line
    <3> QED
      BY <1>3, <3>1, <3>2 DEF CallInv, LineInv, ErrorInv, FilterInv, Before, Admitted
  <2> QED
    BY <2>1, <2>2, <2>3
<1>6. out' = [out EXCEPT ![t] = out[t]]
  BY <1>2 DEF SinkInv
<1> QED
  BY <1>1, <1>2, <1>5, <1>6, OneCall
(* A printf-class function fails, or the context is refused. *)
LEMMA FailStep ==
  ASSUME SinkInv, NEW t \in Threads, NEW f \in SUBSET Pieces,
         pc[t] \in {"header", "header_without_time", "context", "message"},
         f # {} \/ Refused(req[t]),
         failed' = [failed EXCEPT ![t] = f],
         Goto(t, "error"),
         UNCHANGED <<settings, timeText, req, line, out, seen>>
  PROVE  SinkInv'
<1>1. TypeOK'
  BY DEF SinkInv, TypeOK, Goto, settings
<1>2. /\ pc'[t] = "error" /\ failed'[t] = f /\ UNCHANGED max_level
      /\ \A u \in Threads \ {t} : pc'[u] = pc[u] /\ failed'[u] = failed[u]
  BY DEF SinkInv, TypeOK, Goto, settings
<1>3. CallInv(pc[t], req[t], line[t], failed[t], seen[t], out[t], max_level)
  BY DEF SinkInv
<1>4. CallInv("error", req[t], line[t], f, seen[t], out[t], max_level)
  BY <1>3 DEF CallInv, LineInv, ErrorInv, FilterInv, Before, Admitted
<1>5. out' = [out EXCEPT ![t] = out[t]]
  BY DEF SinkInv
<1> QED
  BY <1>1, <1>2, <1>4, <1>5, OneCall

LEMMA FailPiece ==
  ASSUME SinkInv, NEW t \in Threads, NEW piece, Fail(t, piece),
         pc[t] \in {"header", "header_without_time", "context", "message"}
  PROVE  SinkInv'
<1> DEFINE f == failed[t] \cup {piece}
<1>1. f \in SUBSET Pieces /\ f # {} /\ failed' = [failed EXCEPT ![t] = f]
  BY SinkAssumption DEF Fail, SinkInv, TypeOK
<1> HIDE DEF f
<1> QED
  BY <1>1, FailStep DEF Fail

(* A piece is printed: the line changes and the call moves on. *)
LEMMA PieceStep ==
  ASSUME SinkInv, NEW t \in Threads, NEW l \in Line, NEW where \in {"context", "message", "emit"},
         pc[t] \in {"header", "header_without_time", "context", "message"},
         line' = [line EXCEPT ![t] = l],
         Goto(t, where),
         NEW f \in SUBSET Pieces, failed' = [failed EXCEPT ![t] = f],
         LineInv(where, req[t], l, f),
         where = "context" => f = {},
         where \in {"message", "emit"} => f \subseteq {"name"} /\ ~Refused(req[t]),
         UNCHANGED <<settings, timeText, req, out, seen>>
  PROVE  SinkInv'
<1>1. TypeOK'
  BY DEF SinkInv, TypeOK, Goto, settings, Line
<1>2. /\ pc'[t] = where /\ line'[t] = l /\ failed'[t] = f /\ UNCHANGED max_level
      /\ \A u \in Threads \ {t} : pc'[u] = pc[u] /\ line'[u] = line[u] /\ failed'[u] = failed[u]
  BY DEF SinkInv, TypeOK, Goto, settings
<1>3. CallInv(pc[t], req[t], line[t], failed[t], seen[t], out[t], max_level)
  BY DEF SinkInv
<1>4. CallInv(where, req[t], l, f, seen[t], out[t], max_level)
  BY <1>3 DEF CallInv, ErrorInv, FilterInv, Before, Admitted
<1>5. out' = [out EXCEPT ![t] = out[t]]
  BY DEF SinkInv
<1> QED
  BY <1>1, <1>2, <1>4, <1>5, OneCall, ZenonT(90)

LEMMA HeaderStep ==
  ASSUME SinkInv, NEW t \in Threads, FormatHeader(t)
  PROVE  SinkInv'
<1>1. CASE Fail(t, "header")
  BY <1>1, FailPiece DEF FormatHeader
<1>2. CASE ~Fail(t, "header")
  <2> DEFINE h == req[t].header
             a == Advance(Snprintf(line[t], h), h)
             shown == IF pc[t] = "header" THEN timeText ELSE line[t].time
             l == [a EXCEPT !.time = shown]
             where == IF req[t].context.given THEN "context" ELSE "message"
  <2>1. line[t] \in Line /\ timeText \in Threads /\ pc[t] \in Before
    BY LineType DEF SinkInv, TypeOK, FormatHeader, Before
  <2>2. line[t].buffer = 0 /\ line[t].left = MaxLength
    BY <2>1, SinkAssumption DEF SinkInv, CallInv, LineInv, Line
  <2>3. h \in Nat /\ req[t].context.bytes \in Nat
    BY RequestOK DEF SinkInv
  <2>4. Snprintf(line[t], h) \in Line
        /\ Snprintf(line[t], h).buffer + Snprintf(line[t], h).left = MaxLength
    BY <2>1, <2>2, <2>3, SnprintfOK, SinkAssumption
  <2>5. a \in Line /\ a.buffer + a.left = MaxLength
    BY <2>3, <2>4, AdvanceOK
  <2>6. line[t].buffer = Smaller(0, MaxLength) /\ line[t].left > 0
        /\ line[t].buffer + line[t].left = MaxLength
    BY <2>2, SinkAssumption DEF Smaller
  <2>7. Holds(a, 0 + h)
    BY <2>1, <2>3, <2>6, HoldsMore
  <2>8. line' = [line EXCEPT ![t] = l] /\ Goto(t, where)
        /\ UNCHANGED <<settings, timeText, req, failed, out, seen>>
    BY <1>2 DEF FormatHeader
  <2> HIDE DEF a
  <2>9. Holds(a, h)
    <3>1. 0 + h = h
      BY <2>3
    <3> QED
      BY <2>7, <3>1
  <2>10. l \in Line /\ l.buffer = a.buffer /\ l.left = a.left /\ l.nul = a.nul
    BY <2>1, <2>5 DEF Line
  <2> HIDE DEF l
  <2>11. LineInv(where, req[t], l, {})
    <3>1. Prefix(req[t]) = h \/ where = "context"
      BY <2>3 DEF Prefix
    <3>2. l.nul < MaxLength /\ Holds(l, h)
      BY <2>3, <2>9, <2>10, SinkAssumption DEF Holds, Smaller
    <3> QED
      BY <2>5, <2>10, <3>1, <3>2 DEF LineInv, Before
  <2>12. where = "message" => ~Refused(req[t])
    BY DEF Refused
  <2>13. failed' = [failed EXCEPT ![t] = {}]
    BY <2>1, <2>8 DEF SinkInv, TypeOK, CallInv, ErrorInv
  <2> QED
    BY <2>8, <2>10, <2>11, <2>12, <2>13, PieceStep DEF FormatHeader
<1> QED
  BY <1>1, <1>2

(* A context's text stays in the buffer and is terminated in it unless a   *)
(* wide string filled it.                                                  *)
LEMMA ContextTextOK ==
  ASSUME NEW l \in Line, NEW bytes \in Nat, NEW filled \in BOOLEAN,
         l.buffer + l.left = MaxLength, l.left > 0
  PROVE  /\ ContextText(l, bytes, filled) \in Line
         /\ ContextText(l, bytes, filled).buffer + ContextText(l, bytes, filled).left = MaxLength
         /\ ~filled => ContextText(l, bytes, filled).nul < MaxLength
<1> DEFINE p == IF filled THEN [l EXCEPT !.nul = MaxLength] ELSE Snprintf(l, bytes)
<1>1. p \in Line /\ p.buffer + p.left = MaxLength
  BY SnprintfOK, SinkAssumption DEF Line
<1>2. ~filled => p.nul < MaxLength
  <2>1. ~filled => p.nul = l.buffer + Smaller(bytes, l.left - 1)
    BY SnprintfOK
  <2> QED
    BY <2>1, SinkAssumption DEF Line, Smaller
<1>3. ContextText(l, bytes, filled) = Advance(p, bytes)
  BY DEF ContextText
<1> HIDE DEF p
<1>4. Advance(p, bytes) \in Line /\ Advance(p, bytes).buffer + Advance(p, bytes).left = MaxLength
      /\ Advance(p, bytes).nul = p.nul
  BY <1>1, AdvanceOK
<1> QED
  BY <1>2, <1>3, <1>4

LEMMA ContextStep ==
  ASSUME SinkInv, NEW t \in Threads, PrintContext(t)
  PROVE  SinkInv'
<1> DEFINE r == req[t]
           bytes == r.context.bytes
           l == line[t]
           filled == bytes >= l.left /\ l.left \in r.context.wide
           a == ContextText(l, bytes, filled)
<1>1. pc[t] = "context" /\ l.left > 0 /\ r.context.pairs > 0 /\ l \in Line
  BY LineType DEF PrintContext, Printable, SinkInv
<1>2. r.context.given /\ Holds(l, r.header) /\ l.buffer + l.left = MaxLength /\ failed[t] = {}
  BY <1>1 DEF SinkInv, CallInv, LineInv, ErrorInv
<1>3. r.header \in Nat /\ bytes \in Nat /\ r.context.pairs \in Nat /\ filled \in BOOLEAN
  BY RequestOK DEF SinkInv
<1>4. l.buffer = r.header /\ l.left = MaxLength - r.header /\ r.header < MaxLength
  BY <1>1, <1>2, <1>3, SinkAssumption DEF Holds, Smaller, Line
<1>5. filled <=> FilledByWide(r)
  <2>1. bytes >= l.left <=> r.header + bytes >= MaxLength
    BY <1>3, <1>4, SinkAssumption
  <2> QED
    BY <1>2, <1>4, <2>1 DEF FilledByWide
<1>6. ~Refused(r)
  BY <1>1, <1>3, <1>4, SinkAssumption DEF Refused
<1>7. line' = [line EXCEPT ![t] = a] /\ Goto(t, "message")
      /\ UNCHANGED <<settings, timeText, req, failed, out, seen>>
  BY DEF PrintContext
<1>8. ~filled => Holds(a, r.header + bytes)
  <2>1. l.buffer = Smaller(r.header, MaxLength)
    BY <1>2 DEF Holds
  <2>2. Holds(Advance(Snprintf(l, bytes), bytes), r.header + bytes)
    BY <1>1, <1>2, <1>3, <2>1, HoldsMore
  <2> QED
    BY <2>2 DEF ContextText
<1>9. FilledByWide(r) => r.context.wide # {}
  BY DEF FilledByWide
<1>10. Prefix(r) = r.header + bytes
  BY <1>2 DEF Prefix
<1> HIDE DEF filled
<1>11. a \in Line /\ a.buffer + a.left = MaxLength /\ (~filled => a.nul < MaxLength)
  BY <1>1, <1>2, <1>3, ContextTextOK
<1> HIDE DEF a
<1>12. LineInv("message", r, a, {})
  BY <1>5, <1>8, <1>9, <1>10, <1>11 DEF LineInv, Before
<1>13. failed' = [failed EXCEPT ![t] = {}]
  BY <1>2, <1>7 DEF SinkInv, TypeOK
<1> QED
  BY <1>1, <1>6, <1>7, <1>11, <1>12, <1>13, PieceStep

LEMMA OverlookStep ==
  ASSUME SinkInv, NEW t \in Threads, OverlookName(t)
  PROVE  SinkInv'
<1> DEFINE r == req[t]
           l == line[t]
<1>1. pc[t] = "context" /\ l.left > 0 /\ r.context.pairs > 0 /\ l \in Line
  BY LineType DEF OverlookName, Printable, SinkInv
<1>2. r.context.given /\ Holds(l, r.header) /\ l.buffer + l.left = MaxLength /\ failed[t] = {}
  BY <1>1 DEF SinkInv, CallInv, LineInv, ErrorInv
<1>3. r.header \in Nat /\ r.context.bytes \in Nat /\ r.context.pairs \in Nat
  BY RequestOK DEF SinkInv
<1>4. ~Refused(r)
  BY <1>1, <1>2, <1>3, SinkAssumption DEF Refused, Holds, Smaller, Line
<1>5. PICK n \in 0 .. (r.context.bytes - 1), filled \in BOOLEAN :
        /\ filled => r.context.wide # {} /\ n >= l.left
        /\ line' = [line EXCEPT ![t] = ContextText(@, n, filled)]
  BY DEF OverlookName
<1> DEFINE a == ContextText(l, n, filled)
<1>6. line' = [line EXCEPT ![t] = a]
  BY <1>5
<1>7. n \in Nat
  BY <1>3
<1>8. a \in Line /\ a.buffer + a.left = MaxLength /\ (~filled => a.nul < MaxLength)
  BY <1>1, <1>2, <1>7, ContextTextOK
<1> HIDE DEF a
<1>9. LineInv("message", r, a, {"name"})
  BY <1>5, <1>8 DEF LineInv, Before
<1>10. failed' = [failed EXCEPT ![t] = {"name"}] /\ {"name"} \in SUBSET Pieces
  BY <1>2 DEF OverlookName, Pieces
<1>11. Goto(t, "message") /\ UNCHANGED <<settings, timeText, req, out, seen>>
  BY DEF OverlookName
<1> QED
  BY <1>1, <1>4, <1>6, <1>8, <1>9, <1>10, <1>11, PieceStep

LEMMA ContextFailsStep ==
  ASSUME SinkInv, NEW t \in Threads, ContextFails(t)
  PROVE  SinkInv'
<1>1. CASE \E piece \in {"name", "context"} : Fail(t, piece)
  BY <1>1, FailPiece DEF ContextFails
<1>2. CASE ~\E piece \in {"name", "context"} : Fail(t, piece)
  <2>1. pc[t] = "context" /\ (line[t].left = 0 \/ req[t].context.pairs = 0)
    <3>1. line[t] \in Line /\ req[t].context.pairs \in Nat
      BY RequestOK, LineType DEF SinkInv
    <3> QED
      BY <1>2, <3>1 DEF ContextFails, Printable, Line
  <2>2. req[t].context.given /\ Holds(line[t], req[t].header)
        /\ line[t].buffer + line[t].left = MaxLength
    BY <2>1 DEF SinkInv, CallInv, LineInv
  <2>3. req[t].header \in Nat /\ line[t] \in Line
    BY RequestOK, LineType DEF SinkInv
  <2>4. Refused(req[t])
    BY <2>1, <2>2, <2>3, SinkAssumption DEF Refused, Holds, Smaller, Line
  <2>5. failed' = [failed EXCEPT ![t] = failed[t]] /\ failed[t] \in SUBSET Pieces
    BY <1>2 DEF ContextFails, SinkInv, TypeOK
  <2> QED
    BY <1>2, <2>1, <2>4, <2>5, FailStep DEF ContextFails
<1> QED
  BY <1>1, <1>2

LEMMA MessageStep ==
  ASSUME SinkInv, NEW t \in Threads, FormatMessage(t)
  PROVE  SinkInv'
<1>1. CASE Fail(t, "message")
  BY <1>1, FailPiece DEF FormatMessage
<1>2. CASE ~Fail(t, "message")
  <2> DEFINE r == req[t]
             b == Advance(line[t], 1)
             l == Snprintf(b, r.message)
  <2>1. pc[t] = "message" /\ line[t].left > 1 /\ line[t] \in Line
    BY LineType DEF FormatMessage, SinkInv
  <2>2. line[t].buffer + line[t].left = MaxLength /\ ~Refused(r)
        /\ failed[t] \subseteq {"name"}
        /\ (failed[t] = {} /\ ~FilledByWide(r) => Holds(line[t], Prefix(r)))
    BY <2>1 DEF SinkInv, CallInv, LineInv, ErrorInv
  <2>3. r.message \in Nat /\ Prefix(r) \in Nat /\ FullLength(r) = Prefix(r) + 1 + r.message
    BY RequestOK DEF SinkInv
  <2>4. b \in Line /\ b.buffer = line[t].buffer + 1 /\ b.left = line[t].left - 1
        /\ b.buffer + b.left = MaxLength
    BY <2>1, <2>2, AdvanceOK DEF Smaller, Line
  <2>5. b.left > 0
    BY <2>1, <2>4 DEF Line
  <2> HIDE DEF b
  <2>6. l \in Line /\ l.buffer = b.buffer /\ l.left = b.left
        /\ l.nul = b.buffer + Smaller(r.message, b.left - 1)
    BY <2>3, <2>4, <2>5, SnprintfOK
  <2>7. line' = [line EXCEPT ![t] = l] /\ Goto(t, "emit")
        /\ UNCHANGED <<settings, timeText, req, failed, out, seen>>
    BY <1>2 DEF FormatMessage, b
  <2> HIDE DEF l
  <2>8. failed[t] = {} /\ ~FilledByWide(r) => l.nul = Smaller(FullLength(r), MaxLength - 1)
    BY <2>1, <2>2, <2>3, <2>4, <2>6, SinkAssumption DEF Holds, Smaller, Line
  <2>9. l.nul < MaxLength
    BY <2>3, <2>4, <2>5, <2>6, SinkAssumption DEF Smaller, Line
  <2>10. LineInv("emit", r, l, failed[t])
    BY <2>4, <2>6, <2>8, <2>9 DEF LineInv, Before
  <2>11. failed' = [failed EXCEPT ![t] = failed[t]] /\ failed[t] \in SUBSET Pieces
    BY <2>7 DEF SinkInv, TypeOK
  <2> QED
    BY <2>1, <2>2, <2>6, <2>7, <2>10, <2>11, PieceStep
<1> QED
  BY <1>1, <1>2
(* The line, an error in its place or the report of invalid arguments *)
LEMMA EmitStep ==
  ASSUME SinkInv, NEW t \in Threads, InvalidArguments(t) \/ EmitLine(t) \/ EmitError(t)
  PROVE  SinkInv'
<1>1. TypeOK'
  BY DEF SinkInv, TypeOK, InvalidArguments, EmitLine, EmitError, Goto, settings
<1>2. /\ pc'[t] = "done" /\ UNCHANGED <<max_level, req, line, failed, seen>>
      /\ \A u \in Threads \ {t} : pc'[u] = pc[u]
  BY DEF SinkInv, TypeOK, InvalidArguments, EmitLine, EmitError, Goto, settings
<1>3. CallInv(pc[t], req[t], line[t], failed[t], seen[t], out[t], max_level)
  BY DEF SinkInv
<1>4. out[t] = <<>>
  BY <1>3 DEF CallInv, InvalidArguments, EmitLine, EmitError
<1>5. ASSUME NEW level, NEW text, EmitOne(t, level, text)
      PROVE  \E e : /\ out' = [out EXCEPT ![t] = <<e>>]
                    /\ e.text = text /\ e.length = line[t].nul
  <2>1. out' = [out EXCEPT ![t] = <<Emission(t, level, text)>>]
    BY <1>4, <1>5 DEF EmitOne
  <2>2. Emission(t, level, text).text = text /\ Emission(t, level, text).length = line[t].nul
    BY DEF Emission
  <2> QED
    BY <2>1, <2>2
<1>6. \E e : /\ out' = [out EXCEPT ![t] = <<e>>]
             /\ CallInv("done", req[t], line[t], failed[t], seen[t], <<e>>, max_level)
  <2>1. CASE InvalidArguments(t)
    <3>1. PICK e : out' = [out EXCEPT ![t] = <<e>>] /\ e.text = "invalid"
      BY <1>5, <2>1 DEF InvalidArguments
    <3>2. pc[t] = "entered" /\ ~req[t].format
      BY <2>1 DEF InvalidArguments
    <3>3. CallInv("done", req[t], line[t], failed[t], seen[t], <<e>>, max_level)
      BY <1>3, <3>1, <3>2
         DEF CallInv, LineInv, ErrorInv, FilterInv, OutputInv, Before, Admitted
    <3> QED
      BY <3>1, <3>3
  <2>2. CASE EmitLine(t)
    <3>1. PICK e : out' = [out EXCEPT ![t] = <<e>>] /\ e.text = "line" /\ e.length = line[t].nul
      BY <1>5, <2>2 DEF EmitLine
    <3>2. pc[t] = "emit"
      BY <2>2 DEF EmitLine
    <3>3. CallInv("done", req[t], line[t], failed[t], seen[t], <<e>>, max_level)
      BY <1>3, <3>1, <3>2
         DEF CallInv, LineInv, ErrorInv, FilterInv, OutputInv, Before, Admitted
    <3> QED
      BY <3>1, <3>3
  <2>3. CASE EmitError(t)
    <3>1. PICK e : out' = [out EXCEPT ![t] = <<e>>] /\ e.text = "error"
      BY <1>5, <2>3 DEF EmitError
    <3>2. pc[t] = "error"
      BY <2>3 DEF EmitError
    <3>3. CallInv("done", req[t], line[t], failed[t], seen[t], <<e>>, max_level)
      BY <1>3, <3>1, <3>2
         DEF CallInv, LineInv, ErrorInv, FilterInv, OutputInv, Before, Admitted
    <3> QED
      BY <3>1, <3>3
  <2> QED
    BY <2>1, <2>2, <2>3
<1> QED
  BY <1>1, <1>2, <1>6, OneCall

LEMMA ReturnStep ==
  ASSUME SinkInv, NEW t \in Threads, Return(t)
  PROVE  SinkInv'
<1>1. NoRequest \in Requests
  BY SinkAssumption DEF NoRequest
<1>2. FreshLine(t) \in Line /\ FreshLine(t).buffer = 0 /\ FreshLine(t).left = MaxLength
  BY FreshOK
<1>3. TypeOK'
  BY <1>1, <1>2 DEF SinkInv, TypeOK, Return, Goto, settings, Line
<1>4. /\ pc'[t] = "idle" /\ line'[t] = FreshLine(t) /\ failed'[t] = {} /\ UNCHANGED max_level
      /\ out' = [out EXCEPT ![t] = <<>>]
      /\ \A u \in Threads \ {t} :
           /\ pc'[u] = pc[u] /\ req'[u] = req[u] /\ line'[u] = line[u]
           /\ failed'[u] = failed[u] /\ seen'[u] = seen[u]
  BY DEF SinkInv, TypeOK, Return, Goto, settings
<1>5. 0 + MaxLength = MaxLength
  BY SinkAssumption
<1>6. CallInv("idle", req'[t], FreshLine(t), {}, seen'[t], <<>>, max_level)
  BY <1>2, <1>5 DEF CallInv, LineInv, ErrorInv, FilterInv, Before, Admitted
<1> QED
  BY <1>3, <1>4, <1>6, OneCall

LEMMA NextStep == ASSUME SinkInv, [Next]_vars PROVE SinkInv'
<1>1. ASSUME NEW t \in Threads, Continue(t)
      PROVE  SinkInv'
  BY <1>1, MoveStep, HeaderStep, ContextStep, OverlookStep, ContextFailsStep, MessageStep, EmitStep, ReturnStep
     DEF Continue
<1>2. ASSUME NEW t \in Threads, NEW r \in Requests, Enter(t, r)
      PROVE  SinkInv'
  BY <1>2, EnterStep
<1>3. CASE UNCHANGED vars
  BY <1>3 DEF vars, settings, SinkInv, TypeOK
<1> QED
  BY <1>1, <1>2, <1>3, SettingsStep DEF Next

-----------------------------------------------------------------------------
(* Theorems *)

(* What the locals of every log call of the two sinks are, place by place. *)
THEOREM SinkInvariance == Spec => []SinkInv
<1>1. Init => SinkInv
  BY InitOK
<1>2. SinkInv /\ [Next]_vars => SinkInv'
  BY NextStep
<1> QED
  BY <1>1, <1>2, PTL DEF Spec

(* buffer and buffer_size of log_sink_console_log and                      *)
(* log_sink_callback_log always add up to LOG_MAX_MESSAGE_LENGTH.          *)
THEOREM SinkAccounts == Spec => []BufferAccounted
<1>1. SinkInv => BufferAccounted
  BY DEF SinkInv, CallInv, LineInv, BufferAccounted
<1> QED
  BY <1>1, SinkInvariance, PTL

(* A log call prints or calls back exactly once and at its end, unless the *)
(* message was filtered: never a line and an error, never two errors.      *)
THEOREM SinkEmitsOnce == Spec => []EmitsOnce
<1>1. SinkInv => EmitsOnce
  <2> SUFFICES ASSUME SinkInv, NEW t \in Threads
               PROVE  IF pc[t] # "done" THEN out[t] = <<>>
                      ELSE \/ Len(out[t]) = 1
                           \/ out[t] = <<>> /\ req[t].sink = "callback" /\ req[t].format
    BY DEF EmitsOnce
  <2>1. CallInv(pc[t], req[t], line[t], failed[t], seen[t], out[t], max_level)
    BY DEF SinkInv
  <2> QED
    BY <2>1 DEF CallInv, OutputInv
<1> QED
  BY <1>1, SinkInvariance, PTL

(* What an emitted line is: the only element of out, with these lengths. *)
LEMMA EmittedLine ==
  ASSUME SinkInv, NEW t \in Threads, pc[t] = "done",
         NEW i \in DOMAIN out[t], out[t][i].text = "line"
  PROVE  /\ failed[t] = {} /\ ~FilledByWide(req[t])
              => out[t][i].length = Smaller(FullLength(req[t]), MaxLength - 1)
         /\ req[t].context.wide = {} => out[t][i].length < MaxLength
<1>1. OutputInv(req[t], failed[t], seen[t], out[t])
  BY DEF SinkInv, CallInv
<1>2. out[t] # <<>>
  OBVIOUS
<1>3. out[t] = <<out[t][1]>> /\ i = 1
  BY <1>1, <1>2 DEF OutputInv
<1> QED
  BY <1>1, <1>2, <1>3 DEF OutputInv

(* The line handed to printf or to the callback is terminated inside the   *)
(* buffer, even after an overlooked name, unless a wide string of the      *)
(* context filled the buffer.                                              *)
THEOREM SinkTerminates == Spec => []LineTerminated
<1>1. SinkInv => LineTerminated
  <2> SUFFICES ASSUME SinkInv, NEW t \in Threads, pc[t] = "done",
                      req[t].context.wide = {} \/ (failed[t] = {} /\ ~FilledByWide(req[t])),
                      NEW i \in DOMAIN out[t], out[t][i].text = "line"
               PROVE  out[t][i].length < MaxLength
    BY DEF LineTerminated
  <2>1. FullLength(req[t]) \in Nat
    BY RequestOK DEF SinkInv
  <2> QED
    BY <2>1, EmittedLine, SinkAssumption DEF Smaller
<1> QED
  BY <1>1, SinkInvariance, PTL

(* When nothing failed, a line that fits is emitted whole and any other is *)
(* cut only at the end of the buffer, whichever of its pieces reached it.  *)
THEOREM SinkCompletes == Spec => []LineComplete
<1>1. SinkInv => LineComplete
  <2> SUFFICES ASSUME SinkInv, NEW t \in Threads, pc[t] = "done",
                      failed[t] = {}, ~FilledByWide(req[t]),
                      NEW i \in DOMAIN out[t], out[t][i].text = "line"
               PROVE  IF FullLength(req[t]) < MaxLength
                      THEN out[t][i].length = FullLength(req[t])
                      ELSE out[t][i].length = MaxLength - 1
    BY DEF LineComplete
  <2>1. FullLength(req[t]) \in Nat
    BY RequestOK DEF SinkInv
  <2> QED
    BY <2>1, EmittedLine, SinkAssumption DEF Smaller
<1> QED
  BY <1>1, SinkInvariance, PTL

(* The error text always has a reason: a printf-class function failed or   *)
(* the context was refused.  The line is emitted only if nothing failed    *)
(* but a name that log_context_property_to_string overlooked.              *)
THEOREM SinkErrorsExplained == Spec => []ErrorExplained
<1>1. SinkInv => ErrorExplained
  <2> SUFFICES ASSUME SinkInv, NEW t \in Threads, pc[t] = "done", req[t].format, out[t] # <<>>
               PROVE  IF out[t][1].text = "error"
                      THEN failed[t] # {} \/ Refused(req[t])
                      ELSE failed[t] \subseteq {"name"}
                           /\ ~(req[t].context.given /\ req[t].context.pairs = 0)
    BY DEF ErrorExplained, Refused
  <2>1. OutputInv(req[t], failed[t], seen[t], out[t])
    BY DEF SinkInv, CallInv
  <2> QED
    BY <2>1 DEF OutputInv, Refused
<1> QED
  BY <1>1, SinkInvariance, PTL

(* A message is delivered or dropped as some maximum level in force during *)
(* its call demands, whenever log_sink_callback_set_max_level is called.   *)
THEOREM SinkFilters == Spec => []FilterFollowsMaxLevel
<1>1. SinkInv => FilterFollowsMaxLevel
  <2> SUFFICES ASSUME SinkInv, NEW t \in Threads, pc[t] = "done",
                      req[t].sink = "callback", req[t].format
               PROVE  IF out[t] = <<>>
                      THEN \E m \in seen[t] : req[t].level > m
                      ELSE \E m \in seen[t] : req[t].level <= m
    BY DEF FilterFollowsMaxLevel
  <2>1. OutputInv(req[t], failed[t], seen[t], out[t])
    BY DEF SinkInv, CallInv
  <2> QED
    BY <2>1 DEF OutputInv
<1> QED
  BY <1>1, SinkInvariance, PTL
=============================================================================

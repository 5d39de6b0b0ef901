--------------------------- MODULE FormattingSink ---------------------------
(***************************************************************************)
(* The sinks that format a line of text: log_sink_console.c prints it,     *)
(* log_sink_callback.c hands it to the callback the program registered.    *)
(* Both build the line the same way in a buffer of LOG_MAX_MESSAGE_LENGTH  *)
(* characters on the stack: a header, the context, a blank, the message.   *)
(*                                                                         *)
(* Any number of threads log at a time; they share the callback sink's     *)
(* settings and the static buffer ctime returns.  Text is abstracted to    *)
(* its length, the time shown to the thread whose time() it came from.     *)
(***************************************************************************)
EXTENDS Integers, Sequences

CONSTANTS
  Threads,     \* threads that log
  Requests,    \* the calls they make, see Request below
  MaxLevels,   \* the levels log_sink_callback_set_max_level is given
  Callbacks,   \* values of log_callback
  CallbackContexts,  \* values of the context registered with it
  MaxLength,   \* LOG_MAX_MESSAGE_LENGTH
  Failures     \* the printf-class calls that may fail: a subset of Pieces

(* "name" is the name of a property in the context, the one failure that   *)
(* log_context_property_to_string may overlook; "context" any other printf *)
(* in there.                                                               *)
Pieces == {"header", "name", "context", "message"}

(* LOG_LEVEL, the most severe first. *)
CRITICAL == 0
VERBOSE == 4
Levels == CRITICAL .. VERBOSE

(* log_context: NULL or a context, its number of pairs, the bytes it       *)
(* prints, counted from 1, and which of them belong to wide strings.       *)
Context == [given : BOOLEAN, pairs : Nat, bytes : Nat, wide : SUBSET Nat]

(* A call of LOG_SINK_IF.log: format tells whether message_format is given, *)
(* header and message are the bytes that part of the line prints.          *)
Request == [sink : {"console", "callback"}, level : Levels, format : BOOLEAN,
            header : Nat, context : Context, message : Nat]

ASSUME SinkAssumption ==
  /\ Requests \subseteq Request
  /\ Requests # {}
  /\ MaxLevels \subseteq Levels
  /\ MaxLength \in Nat \ {0}
  /\ Failures \subseteq Pieces

VARIABLES
  callback,   \* log_sink_callback_callback and log_sink_callback_context
  max_level,  \* log_sink_callback_max_level
  timeText,   \* the static buffer of ctime: the thread whose time it shows
  pc,         \* pc[t]: where thread t is in its log call
  req,        \* req[t]: the call
  line,       \* line[t]: its buffer
  failed,     \* history: failed[t]: the printf-class calls that failed
  seen,       \* history: seen[t]: values max_level had during the call
  out         \* history: out[t]: what the call emitted

settings == <<callback, max_level>>
vars == <<settings, timeText, pc, req, line, failed, seen, out>>

Smaller(a, b) == IF a < b THEN a ELSE b

(* The buffer: the position buffer points at, buffer_size, the position of *)
(* the terminator (MaxLength when there is none), and whose time it shows. *)
FreshLine(t) == [buffer |-> 0, left |-> MaxLength, nul |-> MaxLength, time |-> t]

NoRequest == CHOOSE r \in Requests : TRUE

(* Before set_callback the callback does nothing. *)
Noop == [callback |-> "noop", context |-> "NULL"]

Init ==
  /\ callback = Noop
  /\ max_level = VERBOSE
  /\ timeText \in Threads
  /\ pc = [t \in Threads |-> "idle"]
  /\ req = [t \in Threads |-> NoRequest]
  /\ line = [t \in Threads |-> FreshLine(t)]
  /\ failed = [t \in Threads |-> {}]
  /\ seen = [t \in Threads |-> {}]
  /\ out = [t \in Threads |-> <<>>]

-----------------------------------------------------------------------------
(* The settings of the callback sink *)

(* log_sink_callback_set_callback is not thread-safe: it is called while   *)
(* nothing is logged.                                                      *)
SetCallback(c, context) ==
  /\ \A t \in Threads : pc[t] = "idle"
  /\ callback' = [callback |-> c, context |-> context]
  /\ UNCHANGED <<max_level, timeText, pc, req, line, failed, seen, out>>

(* A NULL callback changes nothing. *)
SetNullCallback ==
  /\ \A t \in Threads : pc[t] = "idle"
  /\ UNCHANGED vars

(* log_sink_callback_set_max_level, at any time. *)
SetMaxLevel(level) ==
  /\ max_level' = level
  /\ seen' = [t \in Threads |-> IF pc[t] = "idle" THEN {} ELSE seen[t] \cup {level}]
  /\ UNCHANGED <<callback, timeText, pc, req, line, failed, out>>

-----------------------------------------------------------------------------
(* The log function *)

Goto(t, where) == pc' = [pc EXCEPT ![t] = where]

(* One printf, or one call of the callback. *)
Emission(t, level, text) ==
  [to |-> IF req[t].sink = "console" THEN Noop ELSE callback,
   level |-> level, text |-> text, length |-> line[t].nul, time |-> line[t].time]

EmitOne(t, level, text) == out' = [out EXCEPT ![t] = Append(@, Emission(t, level, text))]

Enter(t, r) ==
  /\ pc[t] = "idle"
  /\ req' = [req EXCEPT ![t] = r]
  /\ seen' = [seen EXCEPT ![t] = {max_level}]
  /\ Goto(t, "entered")
  /\ UNCHANGED <<settings, timeText, line, failed, out>>

(* message_format is NULL: an error is emitted instead. *)
InvalidArguments(t) ==
  /\ pc[t] = "entered"
  /\ ~req[t].format
  /\ EmitOne(t, CRITICAL, "invalid")
  /\ Goto(t, "done")
  /\ UNCHANGED <<settings, timeText, req, line, failed, seen>>

(* Mutant: the maximum level itself is excluded. *)
TooVerboseAtMax(t) == req[t].sink = "callback" /\ req[t].level >= max_level

(* Only the callback sink has a maximum level. *)
TooVerbose(t) == req[t].sink = "callback" /\ req[t].level > max_level

DropMessage(t) ==
  /\ pc[t] = "entered"
  /\ req[t].format
  /\ TooVerbose(t)
  /\ Goto(t, "done")
  /\ UNCHANGED <<settings, timeText, req, line, failed, out, seen>>

(* time and ctime. *)
TakeTime(t) ==
  /\ pc[t] = "entered"
  /\ req[t].format
  /\ ~TooVerbose(t)
  /\ timeText' = t
  /\ Goto(t, "header")
  /\ UNCHANGED <<settings, req, line, failed, out, seen>>

(* time failed: the line shows NULL instead. *)
TimeFails(t) ==
  /\ pc[t] = "entered"
  /\ req[t].format
  /\ ~TooVerbose(t)
  /\ Goto(t, "header_without_time")
  /\ UNCHANGED <<settings, timeText, req, line, failed, out, seen>>

(* Mutant: the error is printed at once, and again at the end. *)
FailEmitsAtOnce(t, piece) ==
  /\ piece \in Failures
  /\ failed' = [failed EXCEPT ![t] = @ \cup {piece}]
  /\ EmitOne(t, CRITICAL, "error")
  /\ Goto(t, "error")
  /\ UNCHANGED <<settings, timeText, req, line, seen>>

Fail(t, piece) ==
  /\ piece \in Failures
  /\ failed' = [failed EXCEPT ![t] = @ \cup {piece}]
  /\ Goto(t, "error")
  /\ UNCHANGED <<settings, timeText, req, line, out, seen>>

(* Mutant: buffer_size keeps its value. *)
AdvancePointerOnly(l, bytes) == [l EXCEPT !.buffer = @ + Smaller(bytes, l.left)]

(* buffer and buffer_size after a piece of that many bytes. *)
Advance(l, bytes) ==
  LET n == Smaller(bytes, l.left)
  IN  [l EXCEPT !.buffer = @ + n, !.left = @ - n]

(* Mutant: no room is kept for the terminator. *)
SnprintfFillsBuffer(l, bytes) == [l EXCEPT !.nul = l.buffer + Smaller(bytes, l.left)]

(* snprintf into what is left: terminated, truncated when it has to be. *)
Snprintf(l, bytes) == [l EXCEPT !.nul = l.buffer + Smaller(bytes, l.left - 1)]

FormatHeader(t) ==
  /\ pc[t] \in {"header", "header_without_time"}
  /\ \/ Fail(t, "header")
     \/ /\ LET printed == Advance(Snprintf(line[t], req[t].header), req[t].header)
               shown == IF pc[t] = "header" THEN timeText ELSE line[t].time
           IN  line' = [line EXCEPT ![t] = [printed EXCEPT !.time = shown]]
        /\ Goto(t, IF req[t].context.given THEN "context" ELSE "message")
        /\ UNCHANGED <<settings, timeText, req, failed, out, seen>>

(* log_context_property_to_string, see PropertyToString, has something to  *)
(* print and room to print it; it refuses an empty buffer and an empty     *)
(* context.                                                                *)
Printable(t) == line[t].left > 0 /\ req[t].context.pairs > 0

(* A text of that many bytes.  wcstombs writes no terminator when a wide   *)
(* string fills the buffer, and the pieces after it, the closing " }" at   *)
(* least, find no room for one.                                            *)
ContextText(l, bytes, filled) ==
  Advance(IF filled THEN [l EXCEPT !.nul = MaxLength] ELSE Snprintf(l, bytes), bytes)

(* The whole text, or what there is room for: a wide string fills the      *)
(* buffer when the last byte there is room for is one of its own.          *)
PrintContext(t) ==
  /\ pc[t] = "context"
  /\ Printable(t)
  /\ LET l == line[t]
         c == req[t].context
         filled == c.bytes >= l.left /\ l.left \in c.wide
     IN  line' = [line EXCEPT ![t] = ContextText(l, c.bytes, filled)]
  /\ Goto(t, "message")
  /\ UNCHANGED <<settings, timeText, req, failed, out, seen>>

(* A property's name fails, and the fields after it in the same struct     *)
(* make the count positive again.  What the function then returns and      *)
(* leaves in the buffer is a text of fewer bytes, how many depends on the  *)
(* names that failed; the closing brace of the struct terminates it,       *)
(* unless a wide string of an outer struct fills the buffer first.         *)
OverlookName(t) ==
  /\ pc[t] = "context"
  /\ Printable(t)
  /\ req[t].context.pairs > 2
  /\ "name" \in Failures
  /\ failed' = [failed EXCEPT ![t] = @ \cup {"name"}]
  /\ \E n \in 0 .. (req[t].context.bytes - 1), filled \in BOOLEAN :
       /\ filled => req[t].context.wide # {} /\ n >= line[t].left
       /\ line' = [line EXCEPT ![t] = ContextText(@, n, filled)]
  /\ Goto(t, "message")
  /\ UNCHANGED <<settings, timeText, req, out, seen>>

(* Mutant: the result of log_context_property_to_string is only checked    *)
(* when a printf failed.                                                   *)
ContextRefusalIgnored(t) ==
  /\ pc[t] = "context"
  /\ \/ Printable(t) /\ \E piece \in {"name", "context"} : Fail(t, piece)
     \/ /\ ~Printable(t)
        /\ Goto(t, "message")
        /\ UNCHANGED <<settings, timeText, req, line, failed, out, seen>>

(* A negative result: a printf failed, a name and nothing after it, or the *)
(* call was refused.                                                       *)
ContextFails(t) ==
  /\ pc[t] = "context"
  /\ \/ Printable(t) /\ \E piece \in {"name", "context"} : Fail(t, piece)
     \/ /\ ~Printable(t)
        /\ Goto(t, "error")
        /\ UNCHANGED <<settings, timeText, req, line, failed, out, seen>>

(* Mutant: the message overwrites the blank. *)
MessageOverBlank(t) ==
  /\ pc[t] = "message"
  /\ line[t].left > 1
  /\ line' = [line EXCEPT ![t] = Snprintf(@, req[t].message)]
  /\ Goto(t, "emit")
  /\ UNCHANGED <<settings, timeText, req, failed, out, seen>>

(* The blank and the message, when there is room for a character besides   *)
(* the terminator.                                                         *)
FormatMessage(t) ==
  /\ pc[t] = "message"
  /\ line[t].left > 1
  /\ \/ Fail(t, "message")
     \/ /\ line' = [line EXCEPT ![t] = Snprintf(Advance(@, 1), req[t].message)]
        /\ Goto(t, "emit")
        /\ UNCHANGED <<settings, timeText, req, failed, out, seen>>

NoRoomForMessage(t) ==
  /\ pc[t] = "message"
  /\ line[t].left <= 1
  /\ Goto(t, "emit")
  /\ UNCHANGED <<settings, timeText, req, line, failed, out, seen>>

EmitLine(t) ==
  /\ pc[t] = "emit"
  /\ EmitOne(t, req[t].level, "line")
  /\ Goto(t, "done")
  /\ UNCHANGED <<settings, timeText, req, line, failed, seen>>

EmitError(t) ==
  /\ pc[t] = "error"
  /\ EmitOne(t, CRITICAL, "error")
  /\ Goto(t, "done")
  /\ UNCHANGED <<settings, timeText, req, line, failed, seen>>

Return(t) ==
  /\ pc[t] = "done"
  /\ Goto(t, "idle")
  /\ req' = [req EXCEPT ![t] = NoRequest]
  /\ line' = [line EXCEPT ![t] = FreshLine(t)]
  /\ failed' = [failed EXCEPT ![t] = {}]
  /\ seen' = [seen EXCEPT ![t] = {}]
  /\ out' = [out EXCEPT ![t] = <<>>]
  /\ UNCHANGED <<settings, timeText>>

-----------------------------------------------------------------------------
Continue(t) ==
  \/ InvalidArguments(t)
  \/ DropMessage(t)
  \/ TakeTime(t)
  \/ TimeFails(t)
  \/ FormatHeader(t)
  \/ PrintContext(t)
  \/ OverlookName(t)
  \/ ContextFails(t)
  \/ FormatMessage(t)
  \/ NoRoomForMessage(t)
  \/ EmitLine(t)
  \/ EmitError(t)
  \/ Return(t)

Next ==
  \/ \E t \in Threads : Continue(t) \/ \E r \in Requests : Enter(t, r)
  \/ \E c \in Callbacks, context \in CallbackContexts : SetCallback(c, context)
  \/ SetNullCallback
  \/ \E level \in MaxLevels : SetMaxLevel(level)

Spec == Init /\ [][Next]_vars

-----------------------------------------------------------------------------
(* Properties *)

(* The sinks' state keeps its type: positions stay inside the line buffer. *)
TypeOK ==
  /\ callback \in [callback : Callbacks \cup {"noop"}, context : CallbackContexts \cup {"NULL"}]
  /\ max_level \in Levels
  /\ timeText \in Threads
  /\ pc \in [Threads -> {"idle", "entered", "header", "header_without_time", "context",
                         "message", "emit", "error", "done"}]
  /\ req \in [Threads -> Requests]
  /\ line \in [Threads -> [buffer : 0 .. MaxLength, left : 0 .. MaxLength,
                           nul : 0 .. MaxLength, time : Threads]]
  /\ failed \in [Threads -> SUBSET Pieces]
  /\ seen \in [Threads -> SUBSET Levels]

(* The state keeps its type, and the pointer and the remaining size move   *)
(* together, so that every piece is offered exactly what is left of the    *)
(* buffer.                                                                 *)
BufferAccounted ==
  /\ TypeOK
  /\ \A t \in Threads : line[t].buffer + line[t].left = MaxLength

(* A call emits in one go, at its end, and once: the line or one error,    *)
(* never an error besides a line or a second error; nothing at all only    *)
(* when the callback sink filtered the message.                            *)
EmitsOnce ==
  \A t \in Threads :
    IF pc[t] # "done" THEN out[t] = <<>>
    ELSE \/ Len(out[t]) = 1
         \/ out[t] = <<>> /\ req[t].sink = "callback" /\ req[t].format

(* A wide string covers the last byte of the buffer after that header. *)
FilledByWide(r) ==
  /\ r.context.given
  /\ r.header + r.context.bytes >= MaxLength
  /\ MaxLength - r.header \in r.context.wide

(* What is emitted is terminated inside the buffer, whatever was cut and   *)
(* whichever names failed, unless a wide string of the context filled the  *)
(* buffer.  When no name failed that is the case only if the wide string   *)
(* covers the last byte of the buffer.                                     *)
LineTerminated ==
  \A t \in Threads :
    pc[t] = "done" /\ (req[t].context.wide = {} \/ (failed[t] = {} /\ ~FilledByWide(req[t]))) =>
      \A i \in DOMAIN out[t] : out[t][i].text = "line" => out[t][i].length < MaxLength

(* When nothing failed, a line that fits is emitted whole and one that     *)
(* does not is cut at the end of the buffer and nowhere else: it fills all *)
(* but the terminator's place, and a wide string that covers it fills that *)
(* too.                                                                    *)
FullLength(r) == r.header + (IF r.context.given THEN r.context.bytes ELSE 0) + 1 + r.message

LineComplete ==
  \A t \in Threads :
    pc[t] = "done" /\ failed[t] = {} /\ ~FilledByWide(req[t]) =>
      \A i \in DOMAIN out[t] : out[t][i].text = "line" =>
        IF FullLength(req[t]) < MaxLength
        THEN out[t][i].length = FullLength(req[t])
        ELSE out[t][i].length = MaxLength - 1

(* A formatted call emits the error text only for a reason: a printf-class *)
(* function failed, the context has no pairs (a limit emptied it), or the  *)
(* header left it no room.  It emits the line only when no failure but an  *)
(* overlooked name happened, and never with an emptied context.            *)
ErrorExplained ==
  \A t \in Threads :
    pc[t] = "done" /\ req[t].format /\ out[t] # <<>> =>
      LET c == req[t].context
      IN  IF out[t][1].text = "error"
          THEN failed[t] # {} \/ (c.given /\ (c.pairs = 0 \/ req[t].header >= MaxLength))
          ELSE failed[t] \subseteq {"name"} /\ ~(c.given /\ c.pairs = 0)

(* log_sink_callback_set_max_level may come in the middle of a log call:   *)
(* still a message is delivered only if some maximum in force during its   *)
(* call admits it, and dropped only if some maximum in force excludes it.  *)
FilterFollowsMaxLevel ==
  \A t \in Threads :
    pc[t] = "done" /\ req[t].sink = "callback" /\ req[t].format =>
      IF out[t] = <<>>
      THEN \E m \in seen[t] : req[t].level > m
      ELSE \E m \in seen[t] : req[t].level <= m

-----------------------------------------------------------------------------
(* What the requirements say and the code does not do. *)

(* SRS_LOG_SINK_CONSOLE_01_002 to 01_004: the line shows the time this     *)
(* call obtained.                                                          *)
LineShowsOwnTime ==
  \A t \in Threads : \A i \in DOMAIN out[t] : out[t][i].text = "line" => out[t][i].time = t

(* SRS_LOG_SINK_CONSOLE_01_022, and the same of the callback sink: when    *)
(* any printf-class function fails, the error is emitted, not the line.    *)
FailureBecomesError ==
  \A t \in Threads :
    pc[t] = "done" /\ failed[t] # {} => out[t] # <<>> /\ out[t][1].text = "error"
=============================================================================

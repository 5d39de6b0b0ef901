-------------------------- MODULE ErrorProperties --------------------------
(***************************************************************************)
(* LOGGER_LOG_EX with LOG_ERRNO, LOG_LASTERROR and LOG_HRESULT (logger.h,  *)
(* log_errno_*.c, log_lasterror.c, log_hresult.c,                          *)
(* format_message_no_newline.c): error codes turned into text in the       *)
(* context of one log call.                                                *)
(*                                                                         *)
(* Every property is asked for its size first and filled afterwards, and   *)
(* the codes of errno and of the last error are read when a property is    *)
(* filled.  They belong to the thread, so that one thread is enough; what  *)
(* it calls on the way may change them.                                    *)
(***************************************************************************)
EXTENDS Integers, Sequences, FiniteSetsExt

CONSTANTS
  Codes,          \* values of errno, of the last error and HRESULTs
  Lists,          \* the ... arguments of LOGGER_LOG_EX
  Messages,       \* what FormatMessageA may find, sequences of characters
  Loaded,         \* how many modules the process may have loaded
  Size,           \* MESSAGE_BUFFER_SIZE
  FailureLength,  \* length of the longest failure text
  MaxModules,     \* N_MAX_MODULES
  MaxPairCount,   \* LOG_MAX_STACK_PROPERTY_VALUE_PAIR_COUNT
  MaxDataSize     \* LOG_MAX_STACK_DATA_SIZE

Newlines == {"\r", "\n"}

(* An argument of LOGGER_LOG_EX.  "other" is any property of another type: *)
(* it needs size bytes, at least one whatever its type, and its            *)
(* expressions run in both passes.                                         *)
Argument ==
  [kind : {"message", "errno", "lasterror", "hresult", "other"},
   code : Codes, size : Nat]

ASSUME ListsAssumption ==
  /\ Lists \subseteq Seq(Argument)
  /\ \A l \in Lists : \A k \in DOMAIN l : l[k].kind = "other" => l[k].size > 0
  /\ Loaded \subseteq Nat
  /\ {MaxModules, MaxPairCount, MaxDataSize} \subseteq Nat

(* FormatMessageA, strerror_r and strerror_s were given Size bytes; the    *)
(* arrays of size 0 or 1 reject a build where a failure text needs more.   *)
ASSUME SlotAssumption ==
  /\ Size \in Nat
  /\ FailureLength \in 1 .. Size - 1
  /\ Messages \subseteq Seq({"x"} \cup Newlines)
  /\ \A m \in Messages : Len(m) \in 1 .. Size - 1

VARIABLES
  error,     \* the thread's errno and last error
  pc,        \* where the thread is
  list, at,  \* the arguments of the call, and the one it has come to
  length,    \* values_data_length
  data_pos,  \* data_pos
  slot,      \* the value function that is filling a property: its locals
  values,    \* the properties stored so far
  given      \* history: error when the call began

vars == <<error, pc, list, at, length, data_pos, slot, values, given>>
lists == <<list, at, length, data_pos, values, given>>

(* code: the error or HRESULT looked up; text: the buffer up to its        *)
(* terminator; scan: where_is_last_char, 0 before the first character;     *)
(* iModule: the module asked, 0 for the system; loaded:                    *)
(* enumModulesUsedBytes / sizeof(HMODULE).  History: heard, the answers of *)
(* FormatMessageA.                                                         *)
NoSlot ==
  [code |-> 0, text |-> <<>>, scan |-> 0, iModule |-> 0, loaded |-> 0, heard |-> <<>>]

None == <<>>     \* FormatMessageA returned 0
Failure == [k \in 1 .. FailureLength |-> "failure"]
Unknown == <<"unknown HRESULT">>
EnumFailed == <<"failure in EnumProcessModules">>

(* LogLastError and LogErrorNo of version 1; its other macros log without  *)
(* a context (LOGGER_LOG).                                                 *)
Item(kind) == [kind |-> kind, code |-> CHOOSE c \in Codes : TRUE, size |-> 0]
LogLastError == <<Item("lasterror"), Item("message")>>
LogErrorNo == <<Item("errno"), Item("message")>>

Init ==
  /\ error \in [errno : Codes, last : Codes]
  /\ pc = "idle"
  /\ list = <<>> /\ at = 1
  /\ length = 0 /\ data_pos = 0
  /\ slot = NoSlot
  /\ values = <<>>
  /\ given = error

-----------------------------------------------------------------------------
(* The two passes of LOG_CONTEXT_LOCAL_DEFINE *)

(* LOG_MESSAGE is not among the properties and expands to nothing in       *)
(* either pass.                                                            *)
Properties(l) == {k \in DOMAIN l : l[k].kind # "message"}

(* LOGGER_LOG_EX: without properties there is no context; with some, the   *)
(* sizes are counted from the byte of the field count on.                  *)
Call(l) ==
  /\ pc = "idle"
  /\ error' \in [errno : Codes, last : Codes]
  /\ given' = error'
  /\ list' = l
  /\ length' = 1
  /\ data_pos' = 1
  /\ pc' = IF Properties(l) = {} THEN "log" ELSE "size"
  /\ UNCHANGED <<at, slot, values>>

(* The expressions of a property of another type run, printf among them. *)
Evaluate(p) ==
  IF p.kind = "other" THEN error' \in [errno : Codes, last : Codes] ELSE UNCHANGED error

NeededSize(p) ==
  CASE p.kind = "message" -> 0
    [] p.kind = "other" -> p.size
    [] OTHER -> Size

(* Mutant: the message is formatted to learn its size. *)
SizeByFormatting ==
  /\ pc = "size" /\ at <= Len(list)
  /\ length' = length + NeededSize(list[at])
  /\ error' \in [errno : {error.errno}, last : Codes]
  /\ at' = at + 1
  /\ UNCHANGED <<pc, list, data_pos, slot, values, given>>

(* A value function called with NULL. *)
SizeProperty ==
  /\ pc = "size" /\ at <= Len(list)
  /\ length' = length + NeededSize(list[at])
  /\ Evaluate(list[at])
  /\ at' = at + 1
  /\ UNCHANGED <<pc, list, data_pos, slot, values, given>>

(* The limits of the stack arrays: beyond them the context is empty. *)
Sized ==
  /\ pc = "size" /\ at > Len(list)
  /\ IF 1 + Cardinality(Properties(list)) > MaxPairCount \/ length > MaxDataSize
     THEN pc' = "log" /\ length' = 0
     ELSE pc' = "fill" /\ UNCHANGED length
  /\ at' = 1
  /\ UNCHANGED <<error, list, data_pos, slot, values, given>>

Stored(code, chars) ==
  [kind |-> list[at].kind, offset |-> data_pos, code |-> code, text |-> chars,
   heard |-> slot.heard, loaded |-> slot.loaded]

(* Mutant: a value function returns what it wrote. *)
ReturnWritten(code, chars) ==
  /\ values' = Append(values, Stored(code, chars))
  /\ data_pos' = data_pos + Len(chars)
  /\ at' = at + 1
  /\ slot' = NoSlot
  /\ pc' = "fill"
  /\ UNCHANGED <<list, length, given>>

(* A property is stored: data_pos advances by what its value function      *)
(* returned.                                                               *)
Fill(code, chars) ==
  /\ values' = Append(values, Stored(code, chars))
  /\ data_pos' = data_pos + NeededSize(list[at])
  /\ at' = at + 1
  /\ slot' = NoSlot
  /\ pc' = "fill"
  /\ UNCHANGED <<list, length, given>>

At(kind) == pc = "fill" /\ at <= Len(list) /\ list[at].kind = kind

SkipMessage ==
  /\ At("message")
  /\ at' = at + 1
  /\ UNCHANGED <<error, pc, list, length, data_pos, slot, values, given>>

FillOther ==
  /\ At("other")
  /\ Evaluate(list[at])
  /\ Fill(0, [k \in 1 .. list[at].size - 1 |-> "x"])

(* log_errno_fill_property, of either system *)
FillErrno ==
  /\ At("errno")
  /\ \E chars \in {<<"x">>, Failure} : Fill(error.errno, chars)
  /\ UNCHANGED error

Begin(code) ==
  /\ pc' = "format"
  /\ slot' = [NoSlot EXCEPT !.code = code]
  /\ UNCHANGED <<error, lists>>

(* log_lasterror_fill_property reads the last error now. *)
BeginLastError == At("lasterror") /\ Begin(error.last)

BeginHresult == At("hresult") /\ Begin(list[at].code)

-----------------------------------------------------------------------------
(* FormatMessageA_no_newline *)

FormatMessage(m) ==
  /\ pc = "format"
  /\ slot' = [slot EXCEPT !.text = m, !.scan = Len(m), !.heard = Append(@, m)]
  /\ pc' = "strip"
  /\ UNCHANGED <<error, lists>>

(* FormatMessageA returns 0 and sets the last error. *)
FormatMessageFails ==
  /\ pc = "format"
  /\ error' \in [errno : {error.errno}, last : Codes]
  /\ slot' = [slot EXCEPT !.text = None, !.heard = Append(@, None)]
  /\ pc' = "answer"
  /\ UNCHANGED lists

(* A handle read from behind the entries of module_handles is whatever the *)
(* stack holds: FormatMessageA answers something, as above, or faults.     *)
Faults ==
  /\ pc = "format" /\ slot.iModule > MaxModules
  /\ pc' = "faulted"
  /\ UNCHANGED <<error, slot, lists>>

(* One character from the end: a newline is passed over, anything else     *)
(* ends the loop and is followed by the terminator.                        *)
PassNewline ==
  /\ slot' = [slot EXCEPT !.scan = @ - 1]
  /\ UNCHANGED pc

Terminate ==
  /\ slot' = [slot EXCEPT !.text = SubSeq(@, 1, slot.scan)]
  /\ pc' = "answer"

(* Mutant: the first character is not looked at. *)
KeepFirst ==
  /\ pc = "strip"
  /\ IF slot.scan > 1 /\ slot.text[slot.scan] \in Newlines THEN PassNewline ELSE Terminate
  /\ UNCHANGED <<error, lists>>

Strip ==
  /\ pc = "strip"
  /\ IF slot.scan >= 1 /\ slot.text[slot.scan] \in Newlines THEN PassNewline ELSE Terminate
  /\ UNCHANGED <<error, lists>>

-----------------------------------------------------------------------------
(* What is done with the number of characters left *)

Answered ==
  /\ pc = "answer" /\ slot.text # <<>>
  /\ Fill(slot.code, slot.text)
  /\ UNCHANGED error

Unanswered(kind) == pc = "answer" /\ slot.text = <<>> /\ list[at].kind = kind

LastErrorUnknown ==
  /\ Unanswered("lasterror")
  /\ Fill(slot.code, Failure)
  /\ UNCHANGED error

(* The system does not know the HRESULT: the modules are enumerated. *)
Enumerate(n) ==
  /\ Unanswered("hresult") /\ slot.iModule = 0
  /\ slot' = [slot EXCEPT !.loaded = n]
  /\ pc' = "next"
  /\ UNCHANGED <<error, lists>>

EnumerateFails ==
  /\ Unanswered("hresult") /\ slot.iModule = 0
  /\ error' \in [errno : {error.errno}, last : Codes]
  /\ \E chars \in {EnumFailed, Failure} : Fill(slot.code, chars)

ModuleUnknown ==
  /\ Unanswered("hresult") /\ slot.iModule > 0
  /\ pc' = "next"
  /\ UNCHANGED <<error, slot, lists>>

(* Mutant: the loop over the modules does not advance. *)
AskAgain ==
  /\ pc = "next" /\ slot.iModule < slot.loaded
  /\ slot' = [slot EXCEPT !.iModule = 1, !.heard = SubSeq(@, 1, 1)]
  /\ pc' = "format"
  /\ UNCHANGED <<error, lists>>

NextModule ==
  /\ pc = "next" /\ slot.iModule < slot.loaded
  /\ slot' = [slot EXCEPT !.iModule = @ + 1]
  /\ pc' = "format"
  /\ UNCHANGED <<error, lists>>

(* No module has it: the code is printed, or that printing failed. *)
HresultUnknown ==
  /\ pc = "next" /\ slot.iModule = slot.loaded
  /\ \E chars \in {Unknown, Failure} : Fill(slot.code, chars)
  /\ UNCHANGED error

-----------------------------------------------------------------------------
(* The context is complete. *)
Filled ==
  /\ pc = "fill" /\ at > Len(list)
  /\ pc' = "log"
  /\ UNCHANGED <<error, slot, lists>>

(* logger_log with the context, and the end of the statement *)
Log ==
  /\ pc = "log"
  /\ pc' = "idle"
  /\ list' = <<>> /\ at' = 1
  /\ length' = 0 /\ data_pos' = 0
  /\ values' = <<>>
  /\ UNCHANGED <<error, slot, given>>

ProcessEnded == pc = "faulted" /\ UNCHANGED vars

Step ==
  \/ SizeProperty \/ Sized
  \/ SkipMessage \/ FillOther \/ FillErrno \/ BeginLastError \/ BeginHresult
  \/ \E m \in Messages : FormatMessage(m)
  \/ FormatMessageFails \/ Faults \/ Strip
  \/ Answered \/ LastErrorUnknown
  \/ \E n \in Loaded : Enumerate(n)
  \/ EnumerateFails \/ ModuleUnknown \/ NextModule \/ HresultUnknown
  \/ Filled \/ Log

Next == (\E l \in Lists : Call(l)) \/ Step \/ ProcessEnded

Spec == Init /\ [][Next]_vars

(* A call in progress goes on: nothing in it waits for another thread. *)
FairSpec == Spec /\ WF_vars(Step)

-----------------------------------------------------------------------------
(* Properties *)

Texts == Seq({"x"} \cup Newlines \cup {Failure[1], Unknown[1], EnumFailed[1]})

(* The locals of the macros and of the value functions keep their types;   *)
(* the scan for newlines never leaves the message.                         *)
TypeOK ==
  /\ error \in [errno : Codes, last : Codes]
  /\ pc \in {"idle", "size", "fill", "format", "strip", "answer", "next", "log", "faulted"}
  /\ list \in Seq(Argument)
  /\ at \in 1 .. Len(list) + 1
  /\ length \in Nat /\ data_pos \in Nat
  /\ slot.text \in Texts
  /\ pc = "strip" => slot.scan \in 0 .. Len(slot.text)
  /\ slot.iModule \in 0 .. slot.loaded
  /\ \A k \in DOMAIN values : values[k].text \in Texts

(* The size a value function asks for with NULL and what it fills          *)
(* afterwards agree: every text ends, with its terminator, before the next *)
(* value begins and inside the bytes counted for the context, whatever     *)
(* messages, failures and modules the filling met.  No local leaves its    *)
(* type on the way.                                                        *)
ValuesInSlots ==
  /\ TypeOK
  /\ \A k \in DOMAIN values :
       values[k].offset + Len(values[k].text) + 1
         <= (IF k < Len(values) THEN values[k + 1].offset ELSE length)

Trim(m) == SubSeq(m, 1, Max({0} \cup {k \in DOMAIN m : m[k] \notin Newlines}))

(* The text of a code is the first message found for it, the system asked  *)
(* before the modules and these in order, without its newlines at the end; *)
(* a message of nothing but newlines counts as none.  Without any the text *)
(* says that there is none, and that an HRESULT is unknown only when every *)
(* loaded module, if they are no more than the array of handles holds, was *)
(* asked for it.                                                           *)
FirstMessageShown ==
  \A k \in DOMAIN values :
    LET v == values[k]
        found == {i \in DOMAIN v.heard : Trim(v.heard[i]) # <<>>}
    IN  /\ found # {} => v.text = Trim(v.heard[Min(found)])
        /\ found = {} /\ v.heard # <<>> => v.text \in {Failure, Unknown, EnumFailed}
        /\ v.text = Unknown /\ v.loaded <= MaxModules => Len(v.heard) = 1 + v.loaded

(* Where only the value functions themselves run before it, the error      *)
(* logged is the error the caller had: neither the sizing pass nor an      *)
(* errno property changes it.  LogLastError and LogErrorNo are of this     *)
(* form.                                                                   *)
CallersErrorLogged ==
  (\A j \in DOMAIN list : list[j].kind # "other") =>
    \A k \in DOMAIN values :
      LET before == {values[j].kind : j \in 1 .. k - 1}
      IN  /\ values[k].kind = "errno" => values[k].code = given.errno
          /\ values[k].kind = "lasterror" /\ before \subseteq {"errno"}
               => values[k].code = given.last

(* Every LOGGER_LOG_EX reaches logger_log and ends, a fault through a      *)
(* stray handle aside: no search of messages or modules goes on for ever.  *)
CallLogs == pc # "idle" ~> pc \in {"idle", "faulted"}

-----------------------------------------------------------------------------
(* What the requirements say and the code does not do. *)

(* SRS_LOG_HRESULT_01_006 and 01_010: the modules asked for the message    *)
(* are those EnumProcessModules gave information about, as many as the     *)
(* array holds.                                                            *)
OnlyObtainedModulesAsked ==
  \A k \in DOMAIN values : Len(values[k].heard) <= 1 + MaxModules
=============================================================================

# c-logging: a TLA+ verification project

TLA+ models of the logging library in `src/v2`, TLC configurations that check
them on small instances, and TLAPS proofs of what matters most for every
instance. `PROJECT.json` maps every definition to the source lines it models and
lists runs, mutants, findings, hazards and theorems.

    tlc -workers 2 -config MCLogger.cfg MCLogger
    tlapm LoggerProofs.tla

## 1. Inventory

The library has one entry point, the logger, that passes a message and an
optional *log context* (a tree of typed properties) to an array of *sinks*.

| component | state it keeps | operations | talks to |
|---|---|---|---|
| logger: `logger.c`, `logger_sinks_config.c` | `logger_state`, `logger_init_count`, `log_sinks`, `log_sink_count` | `logger_init`, `logger_deinit`, `logger_log`, `logger_log_with_config`, `logger_get_config`, `logger_set_config` | calls the sinks' `LOG_SINK_IF`, and `get_thread_stack_init`/`deinit` |
| log contexts: `log_context.c`, `log_context.h` | per context: an array of pairs and a data area, on the heap or in fixed arrays on the stack | `LOG_CONTEXT_CREATE`, `LOG_CONTEXT_LOCAL_DEFINE`, `LOG_CONTEXT_DESTROY`, inheritance from a parent | property types; reports internal errors |
| property types: `log_context_property_type_*.c` | none | `to_string`, `init`, `copy`, `get_init_data_size`, `get_type` | `printf` family, `wcstombs` |
| printing: `log_context_property_to_string.c` | locals of a recursion | `log_context_property_to_string` | property types |
| console and callback sinks: `log_sink_console.c`, `log_sink_callback.c` | a line buffer per call; callback, its context, the maximum level | `init`, `deinit`, `log`, `log_sink_callback_set_callback`, `log_sink_callback_set_max_level` | printing, `time`/`ctime`, the console, the user's callback |
| ETW sink: `log_sink_etw.c` | `log_sink_etw_state`, the provider; per call a metadata array and data descriptors | `init` with a self test, `deinit`, `log` | ETW, pairs of the context |
| thread stacks: `get_thread_stack.c`, `logging_stacktrace.c` | `g`: symbol handler, process handle, `lockOverSymCalls`; a text buffer per call | `get_thread_stack_init`, `_deinit`, `get_thread_stack`, the refresh of the symbol handler | dbghelp, SuspendThread and ResumeThread on other threads |
| error properties: `log_errno_*.c`, `log_lasterror.c`, `log_hresult.c`, `format_message_no_newline.c` | none (`errno` and the last error belong to the thread) | value functions called twice by `LOGGER_LOG_EX`, to size and to fill | CRT, FormatMessage, loaded modules |
| internal error: `log_internal_error.c` | none | prints, optionally aborts | console |
| version 1 macros: `logger_v1_v2.h` | none | `LogError` and the like, `LogLastError`, `LogErrorNo` | `LOGGER_LOG`, `LOGGER_LOG_EX` |

What is hard here, and what makes each part right:

- **Logger.** Reference counting on an unsigned counter, an init that fails
  half-way, a configuration replaced between init and deinit, log loops that read
  globals at every iteration while other threads log. Right means: inits and
  deinits pair up, nothing is held after a failed init, every sink gets each
  message once, all loops end.
- **Printing, sinks, stack text.** A pointer and a remaining size that move
  together through `printf`-class calls, which return what they *would* have
  written, or a negative number; a recursion that returns its bytes to its
  caller. Right means: nothing behind the buffer, counts exact at every depth,
  every pair once, a terminated string, one emission per call.
- **Contexts.** Sizes are computed in one pass and memory filled in another, and
  inherited values are relocated by pointer arithmetic. Right means: the passes
  agree for every type, also when arguments are evaluated twice, values outlive
  the parent, the pairs form one tree, limits hold.
- **Error properties.** The code is read in the second pass, after whatever ran
  in the first; its text is searched in the system and then in every module, and
  stripped of newlines from the end. Right means: the error shown is the
  caller's, its text the first there is, in the 512 bytes counted for it.
- **ETW.** Two arrays that must describe each other, with three ways to fall back
  to an event without properties.
- **Thread stacks.** One thread suspends another, which may be inside the same
  module, and every Win32 call may fail; a refresh closes the symbol handler
  others need and opens it with a search path built in a fixed array.

The hazards, each at its line and with the properties that would catch it, are
in `PROJECT.json`.

## 2. Modules and how they correspond to the code

| module | models | form |
|---|---|---|
| `LoggerLifecycle` | the promise of the logger | abstract: references, threads emitting, abort |
| `Logger` | `logger.c`, `logger_sinks_config.c` | one step per sink visited, per thread |
| `PairLayout` | how pairs form trees: a struct pair owns as many trees as its field count | operators, shared by printing and contexts |
| `Memory` | bytes stored and loaded at offsets | operators, shared by contexts and ETW |
| `BoundedWriter` | the promise of a bounded printer | abstract: room, returned, answer |
| `PropertyToString` | `log_context_property_to_string.c`, `to_string` of the types | a stack of frames, one step per `printf`-class call |
| `ContextStore` | the promise of contexts: immutable trees, independent of their parents | abstract |
| `PropertyTypes` | the types: the bytes a value needs, is stored as and is copied as | operators, shared by `ContextStore` and `LogContext` |
| `LogContext` | `log_context.c`, the macros of `log_context.h` | one step per definition; memory byte by byte |
| `ErrorProperties` | `LOGGER_LOG_EX` with `LOG_ERRNO`, `LOG_LASTERROR`, `LOG_HRESULT`; `LogLastError`, `LogErrorNo` | one step per property sized, character stripped or module asked |
| `FormattingSink` | `log_sink_console.c`, `log_sink_callback.c` | one step per library call, per thread |
| `EtwEvent` | `log_sink_etw.c` | one step per iteration or fallback |
| `StackBuffer` | `snprintf_fallback` and the text of `get_thread_stack` | one step per line |
| `SearchPath` | the search path the refresh builds from module directories | operators: what one module adds to the array |
| `AddressMask` | the mask of return addresses and `strip_pac` | operators on 64-bit words as sets of bits |
| `ThreadStack` | `get_thread_stack.c` with other threads, the lock and dbghelp; extends the two above | one step per Win32 call or module scanned, per thread |
| `*Proofs` | theorems of every module | lemmas on operators and actions, then the theorems |
| `MC*` | instances for TLC | |

`Logger` is composed with its sinks by `LOG_SINK_IF`: `registered` stands for
the state of sinks that keep a registration (`log_sink_etw_state` in `EtwEvent`,
which shows that a second init is refused and an unmatched deinit ignored, as
`SinkInitFails` and `SinkDeinit` assume), and `symbolsState` is the one of
`ThreadStack`. `FormattingSink` uses printing by the answers that
`PropertyToString` gives: -1 for an empty buffer or array or a failure it
noticed; otherwise a text of at most the room offered, terminated unless a wide
string fills that room (the closing brace behind it then finds none); and after
a failed name it overlooked, the text of a smaller count. `ContextIsOneTree` of
`LogContext` is the `WellFormed` precondition of `EveryPairOnce`. A value
function is in `LogContext` a string property that reserves the same number of
bytes in both passes, whatever it fills of them; that the error properties do is
`ValuesInSlots` of `ErrorProperties`, which models the two passes step by step
because there the order of reading and changing an error matters.

State and actions, module by module:

- **Logger.** The globals keep their names; `log_sinks` with its count is a
  sequence. `op`, `idx`, `failedAt`, `arg` are the call a thread is in, `i`, the
  `i` a rollback runs up to, and the array. `logger_init` is `LoggerInitAgain`,
  `LoggerInitStackFails`, `LoggerInitBegin`, then `LoggerInitSink`* and
  `LoggerInitDone`, or `LoggerInitRollback`* and `LoggerInitFailed`.
  `logger_deinit` is `LoggerDeinitNotInitialized`, `LoggerDeinitDecrement`,
  `LoggerDeinitSink`*, `LoggerDeinitDone`. Logging is `LogBegin` or `LogAbort`
  (the `abort()` of an uninitialised logger), `LogToSink`*, `LogEnd`. `owed`,
  `initConfig`, `leaky`, `got` are history.
- **PropertyToString.** A frame holds the locals of `log_n_properties`; `pc`
  says which `printf`-class call is next. `OpenStruct` recurses, `CloseStruct`
  and `ReturnToCaller` return and skip, `NameField`/`PrintField` print a field,
  `ReadPastEnd` records a read behind an array whose field counts lie.
- **LogContext.** A pair holds a pointer: the context whose area it points into,
  and an offset. `Create`, `LocalDefine` and `LocalDefineTooLarge` follow the
  macro in its order: count, allocate, copy from the parent, struct pair,
  properties. A context is seen by others only when complete, so this is one
  step. A property has a type, and a formatted one two lengths: the one counted
  and the one stored. A failed format counts minus one character and advances by
  nothing (`GetInitDataSize`, `Advance`).
- **ErrorProperties.** `error` is the thread's `errno` and last error, changed by
  the expressions of other properties and by failing calls. `pc` is the pass, or
  the place in a value function, whose locals are `slot`: `FormatMessage`,
  `Strip` character by character, `Answered`, or `Enumerate`, `NextModule`*,
  `HresultUnknown`. `SkipMessage` passes over the message, which has no value.
  Handles beyond the array of 100 are unwritten memory: the
  call answers anything or faults (`Faults`). `given` and `heard` are history.
- **FormattingSink.** A buffer is `buffer`, `left` and the place of the
  terminator. `TakeTime` fills the static buffer of `ctime`, `FormatHeader`
  reads it in a later step. `PrintContext`, `OverlookName` and `ContextFails`
  are what the sink sees of `log_context_property_to_string`: the whole text, one
  shortened by a failed name, or a negative count. A context is the bytes it
  prints and which of them belong to wide strings. `SetCallback` and
  `SetMaxLevel` are the settings.
- **EtwEvent.** `metadata` holds cells by offset; `pos`, `metadata_size`,
  `add_properties` and `data` are the locals. `AddProperty`,
  `TooManyProperties`, `DoesNotFit`, `PropertiesDone`, `Size`, `Format`,
  `FormatAgain` are the stages of the metadata; `Describe`, `DescribeValue`* and
  `Emit` fill the descriptors and send them.
- **ThreadStack.** `pc[t]` is a place between two Win32 calls; a thread with a
  positive suspend count takes no step. A refresh is `Acquire`, `TakeSnapshot`
  or `SnapshotFails`, `ScanModule`*, `ScanDone`, `SymCleanup`, `SymInitialize`,
  `Release`. A search path is the sequence of directories and separators copied
  into it, their length (`searchPathLen`) and whether a terminator stands there:
  `strstr` in one that does not
  may find anything. `StackBuffer` is `get_thread_stack` seen from its text
  buffer.

Actions without primed code of their own, such as `ProcessEnded` and the `Done`
of the functions modelled by one call, only say that a finished system stays.

### Calling contracts

The models keep what the documentation requires of callers, and nothing more:

- `logger_init`, `logger_deinit`, `logger_set_config` are not called while
  another logger call runs (`logger_requirements.md:53,77,97,109`);
- `log_sink_callback_set_callback` is called before logging starts
  (`log_sink_callback_requirements.md:45`), `log_sink_callback_set_max_level` at
  any time (line 59);
- `get_thread_stack_init` and `_deinit` are not called concurrently
  (`get_thread_stack.c:138,585`).

## 3. Runs

Every property of a passing run has a mutant in `PROJECT.json`: a plausible
mistake in the code under which the same run finds the property violated.

| run | bounds | shows |
|---|---|---|
| `logger` | 2 threads; console, callback, ETW; 4 configurations, one empty, one whose init must fail; 2 references; 12,236 states | reference count, rollback, teardown and log loops are right; calls return; implements `LoggerLifecycle` |
| `property_to_string` | all arrays of at most 3 pairs over 6 kinds, 4 nested ones up to 8 pairs; 8 buffer sizes from 0; any call failing; 44,447 states | bytes accounted at every depth; nothing behind the buffer; every pair once; terminated; ends; implements `BoundedWriter` |
| `log_context` | 2 handles; 9 property lists over 6 types and value functions, three that fail to format in one pass or both, three whose arguments change between the passes; limits 5 pairs and 12 bytes, counts modulo 16; 98,807 states | values of every type fit and do not overlap; fixed arrays suffice; one tree; implements `ContextStore` |
| `formatting_sink` | 1 thread, buffer of 8, lines of every relation to it, any piece failing, a failed name noticed or not, a wide string before, on and behind the last byte, the maximum level changing at any time; 15,498 states | one emission per call; terminated unless a wide string filled the buffer; complete or cut at the end when nothing failed; an error only for a reason, a line only if nothing but an overlooked name failed; a message is filtered by a level in force during its call |
| `stack_buffer` | buffers 0 to 6 and 9, fallback text of 4, 3 lines; 355 states | nothing behind the buffer, a completed walk returns a string |
| `thread_stack` | 2 callers, 1 observed thread, 2 calls each, every Win32 call failing; 8 snapshots of up to 4 modules, path array of 8; 71,282 states | dbghelp serialised and with a handler, suspensions and handles undone, search path whole, mask right, calls return |
| `etw_event` | metadata of 12 bytes, all lists of at most 3 pairs over 5 kinds, lists of 4 and 9; limit 3; count of 3 bits; 80,337 states | metadata, message and descriptors agree; properties are in exactly when they fit, if their number fits the count |
| `error_property` | 1 thread, 10 argument lists, 5 messages with newlines in every place, 0, 2 or 3 modules for an array of 2, any call failing; 490,616 states | texts in their slots; the first message shown, unknown only after all were asked; the caller's error logged; calls end |

Bookkeeping invariants include the type invariant of their module
(`BufferAccounted`, `ValuesFit`, `HandlesReturned`, `StaysInMetadata`,
`ValuesInSlots`, and `StaysInBuffer` of `StackBuffer`).

Why these bounds are enough to be of interest:

- Two threads already make every pair of log calls overlap; three sinks put one
  before, one at and one after the failing init. The proofs remove the bounds.
- Buffers are small on purpose: the lengths of the pieces are chosen so that each
  piece in turn fits, fills the rest exactly, and overflows by one and by more.
- Arrays of three pairs hold every malformed field count; the nested ones reach
  depth three, where a wrong skip shows at two levels.
- Two handles form chains: a context is defined on another, which is destroyed
  and redefined on top of its former child, up to `MaxPairs` pairs. Sizes of
  types are the real ones, wide characters have two bytes.
- One thread is enough for `ErrorProperties`, as errors belong to threads. The
  snapshots of `ThreadStack` have duplicates, a directory that is part of
  another before and after it, one that is too long, ones that fill the array
  exactly and ones that leave a separator behind.
- `CountModulus`, `LengthModulus` replace 2^32 and 2^16, so that wrapping is
  reachable. `MaxInits < CountModulus` is the assumption that fewer than 2^32
  inits are outstanding.

### Fairness

`Logger` and `ThreadStack`: weak fairness of `Continue(t)` for each thread, that
is, a thread inside a call is scheduled again; nobody has to call. In
`ThreadStack` a suspended thread's `Continue` is disabled, so nothing is assumed
of it, and the SRW lock is assumed no fairer than weak fairness: `CallsReturn`
rests on each thread making at most `MaxCalls` calls. `PropertyToString`: weak
fairness of the function's own steps, and so `ErrorProperties`, whose macro
waits for no other thread. No strong fairness is used.

### Disagreements

Each of these runs states one sentence of the repository and TLC finds what the
code does instead; `PROJECT.json` has the quotations.

| run | what the code does |
|---|---|
| `failure_is_reported` | a failed `snprintf` of a name does not leave the loop; the call can return a count |
| `fields_follow_struct` | a parent emptied by a limit still counts as one field |
| `line_shows_own_time` | where `ctime`'s buffer is process-wide (glibc), a line can show the time of another thread |
| `context_is_walked` | threads that capture each other's stacks can wait for a lock held by a suspended thread |

Five more sentences have a property that TLC refutes and a configuration of
their own, `tlc -config <property>.cfg <module>`. They are beside the runs, not
among them, because the first follows from `failure_is_reported` and the others
take one call to see:

| property, module | sentence of the repository | what the code does |
|---|---|---|
| `FailureBecomesError`, `MCFormattingSink` | `log_sink_console_requirements.md:79`, `log_sink_callback_requirements.md:97`: a failed `printf` prints an error instead of the line | a sink emits a line without the property whose name failed |
| `EmptyBufferReturnsZero`, `MCPropertyToString` | `log_context_property_to_string_requirements.md:58`: a `buffer_size` of 0 returns 0 | returns -1 (`log_context_property_to_string.c:133`), which the unit test expects |
| `TooManyAreLeftOut`, `MCEtwEvent` | `log_sink_etw_requirements.md:115`: no properties when more than 64 are given | above 2^16 pairs the number loses its upper bits before it is compared (`log_sink_etw.c:658`) |
| `OnlyObtainedModulesAsked`, `MCErrorProperties` | `log_hresult_requirements.md:30`: the modules `EnumProcessModules` obtained are asked | as many modules as are loaded are asked, with handles from behind the array (`log_hresult.c:76`) |
| `StopsWhenFull`, `MCThreadStack` | `get_thread_stack.c:332`: "search path buffer full, stop adding directories" | the loop goes on and lists a shorter one |

Others were met while modelling. They are in the models, and the passing
properties are stated so that they say where the promise ends:

- a header that fills the line buffer, and likewise a context emptied by a
  limit, makes `log_context_property_to_string` fail and turns the line into
  "Error formatting log line", although no `printf` failed (`ErrorExplained`
  admits these two reasons besides failures and does not demand the first);
- `LOG_CONTEXT_CREATE` returns a context although a property failed to format
  (`log_context_requirements.md:46` says NULL); `sound` sets these apart. It also
  sets apart a wide string that is too long when it is counted but no longer when
  it is stored (nothing was reserved for it, yet it is written), and sizes whose
  sum does not fit `values_data_length`: the attempt to prove `ValuesFit` for all
  constants failed on both, and TLC confirmed them;
- the report that there is no symbol handler is not terminated in a buffer
  smaller than the fallback text (`ReturnsString` is about walks);
- `wcstombs` filling the buffer leaves no terminator, and the pieces after it
  have no room for one, where
  `log_context_property_to_string_requirements.md:78` counts one among the
  characters stored (`LineTerminated` of `PropertyToString` is about arrays
  without wide strings, that of `FormattingSink` exempts the contexts whose wide
  strings cover the last byte of the buffer, and after an overlooked name those
  that have any);
- the last error is read when its property is filled, not "at the time of
  creation of the context" (`log_lasterror_requirements.md:3`): an expression of
  another property, or an HRESULT looked up before it, may have changed it
  (`CallersErrorLogged` says when it is the caller's);
- `log_hresult_requirements.md:30` speaks of 10 modules, the array has 100;
  `FirstMessageShown` says "unknown" only after every module was asked if no more
  are loaded than that;
- the search path skips a directory whose text is part of one already listed
  (`get_thread_stack.c:313`), which is not always the same directory, and may
  end in a separator without a terminator after a directory that did not fit
  (`PathLists` is about arrays with room for all).

Four hazards are in the models and exempted by the properties next to them,
because the repository promises nothing there: a configuration replaced between
init and deinit (`leaky`), a refresh that cannot open the symbol handler again
(`refreshFailed`), a handle not closed after a failed ResumeThread (`leaked`),
and arguments that grow between the two passes of a context (`sound`).

`thread_stack` passes because there the observed thread does not call the module
itself; `context_is_walked` drops exactly that restriction.

## 4. Proofs

For every value of the constants that satisfies the named assumptions.

**LoggerProofs** (`ConfigAssumption`, `CountAssumption`). Proved: `TypeOK`,
`InitsAndDeinitsPairUp`, `NothingHeldWhenNotInitialized`,
`ConfiguredSinksAreReady`, `EverySinkLoggedOnce`, and that `Spec` implements
`LoggerLifecycle`. The first four say nothing of the middle of a call, so they
are not inductive. `IInv` adds: a lifecycle call is alone (`LifecycleAlone`);
during init the sinks visited are registered and no others (`InitPhase`); during
rollback and teardown only sinks *still to be visited* are (`RollbackPhase`,
`DeinitPhase`), so that nothing is left at the end of the loop; an initialised
logger holds the sinks of the array it was initialised with, which may no longer
be the configured one (`HeldByInitConfig`); a log call has reached the prefix of
its array before its counter (`LogPhase`). Two lemmas carry the loops:
`VisitShrinks` (removing the sink at the counter leaves the rest to visit) and
`VisitGrows`. One lemma per action, then `Invariance`. For the refinement, a
logger that is not initialised has 0 references whatever its counter says, which
hides the count a failed init leaves behind; `InitsAndDeinitsPairUp` gives the
bound on references.

**PropertyToStringProofs** (`InputAssumption`). For all arrays, also malformed
ones, all nestings, sizes and failures: `TypeOK`, `BytesAccounted`,
`StaysInBuffer`, `LineTerminated`, `EveryPairOnce`, and `BoundedWriter` is
implemented. `WriterInv` says of every frame on the stack that it was called
where its caller stands, ends where the buffer ends, and returns at most what it
advanced by, exactly so unless a name failed (`FrameOK`, `FramesOK`, `Exact`).
Lemmas say that this survives changing, pushing and popping the top frame
(`SetTopOK`, `PushOK`, `PopOK`) and advancing it (`AdvanceOK`); one lemma per
action follows. `TerminatorInv` says that there is a terminator in the buffer
from the first print on, and that before it the whole buffer is left and the
result tells the caller so (`Unprinted`): a call that printed nothing because
every pair failed does not return a count.
`LayoutInv` is about which pair each frame stands at. `Surplus` (fields promised
minus pairs present) turns the tree into arithmetic: a frame prints the fields of
the struct its caller stands at (`PrintsFieldsOf`, `Nested`), and the surplus where
it stands has fallen by one for every field it has printed and was never lower in
between (`StandsAt`). `FieldsToCome` then says that a well-formed array cannot run out
under a frame that has fields left.

**FormattingSinkProofs** (`SinkAssumption`). For any threads, requests, buffer
size and failures: `BufferAccounted`, `EmitsOnce`, `LineTerminated`,
`LineComplete`, `ErrorExplained`, `FilterFollowsMaxLevel`. `SinkInv` says of each
call, place by place, what its locals are: the buffer holds the header, then the
header and the context, cut at its end, as long as nothing failed and no wide
string covers the last byte (`LineInv`, `Holds`); a call that still builds a line
has seen no failure but an overlooked name and no refused context (`ErrorInv`);
one that
was admitted was so by a level it has seen (`FilterInv`); and a finished call has
emitted one of three texts, each with its reason, or was filtered (`OutputInv`).
`HoldsMore` carries the buffer from piece to piece, `ContextTextOK` over whatever
a context leaves in it; a call of another thread changes only the maximum level.

**EtwEventProofs** (`EtwAssumption`). For any pairs, message lengths, headers and
sizes of the metadata array: `StaysInMetadata`, `RegisteredOnce`,
`EventDescribesItself`, `ContentIsMessage`, `PropertiesWhenTheyFit` (the last for
numbers of pairs that fit the 16-bit count, of which `CallType` knows that they
are not cut). `EtwInv` says that the array up to `pos` is the header followed by the descriptions of
the properties visited, byte for byte (`Holds`), that events which gave up
their properties are the ones they do not fit (`MetadataInv`), that behind
them stands the message, cut and terminated (`ContentInv`), and that the
descriptors are the four fixed ones and one for every non-struct pair visited,
in order (`DataInv`). `Flat` gives the bytes of the first k properties;
`FlattenIs` shows that this is what the property's `Encoding` folds together.

**ErrorPropertiesProofs** (`ListsAssumption`, `SlotAssumption`). For any
arguments, messages, modules and limits: `ValuesInSlots`, `FirstMessageShown`,
`CallersErrorLogged`. `PropertyInv` says that both passes count the same bytes up
to the same argument (`BytesInv`, over `Offsets`), that in a search all answers
before the last were empty once stripped and that what `scan` has passed is
newlines (`SearchInv`), and that the thread's error is the caller's as long as
only value functions of `errno` ran (`ErrorInv`).

**StackBufferProofs** (`BufferAssumption`). `StaysInBuffer` and `ReturnsString`
for any sizes, line lengths and length of the fallback text.

**ThreadStackProofs** (`ThreadAssumption`, `DirectoryAssumption`).
`SymCallsSerialized`, `WalkHasHandler`, `SuspensionsUndone`, `HandlesReturned`,
`PathLists` and `MaskStripsSignature`, for any finite number of threads and
calls, suspended or not. `StackInv` says who holds the lock (exactly the thread
at a place between acquire and release), that calls are under way only while the
module is initialised, and that then a handler is open unless a refresh stands
between closing and opening it or failed to open it; `OutsideStep` and
`InsideStep` carry the actions that do not touch the lock. `CountInv` counts
suspensions and handles by the places of the threads. `PathInv` says of the path
under construction that it stays in its array (`Fits`), lists directories and
separators in turn (`Lists`) and has every directory passed so far (`Covers`);
`SumIsCells` turns the sum of the lengths into the cardinality of a set of
cells, so that "room for all" bounds what was copied. `FillFromTheTop` is about
the six shifts alone: after the shift by n every bit within 2n below a bit of the
word is set (`SmearFills`), so that after the last the word is filled, whatever
its gaps.

**LogContextProofs** (`ContextAssumption`, `FieldCountAssumption`,
`ReserveAssumption`, `WideAssumption`). `ValuesFit`, `ContextIsOneTree` and the
refinement of `ContextStore`, for any handles, chains of parents, property lists
and limits. `ContextInv` speaks of each context alone (`ContextOK`): its pairs
point into its own area; if it is sound, the values found there lie apart from
each other below the counted length, and nothing was written beyond (`Laid`);
and they tell one tree. No invariant about the parent is needed, which is why it
may be destroyed. A definition keeps it because a copy takes along exactly the
value and its first terminator (`CopiedIs`, `CopyIs`), because values moved by one
byte are as far apart as before (`CopiesShift`, `InheritLaid`), because each new
value starts where the bytes advanced so far end, which is no later than counted
(`LaidAppend`, `BuiltLaid`), and because a context inherits one tree, one field,
however many pairs (`TreeIsOne`, in terms of `Surplus`). The refinement follows
from the same facts: what a context says (`Tells`) is the tree of its parent and
its list (`DefinedTree`), and no step changes what another context says
(`ContentsChange`). The assumptions: a `uint8_t` holds the number of fields, a
value function fills no more than it reserved, and a wide character has a byte.

Where a proof is by induction on a number (the length of a list, the pairs of an
array), it takes the least counterexample (`WFMin` of `WellFoundedInduction`,
packed as `CountUp`); where a definition is a recursive function or a fold, a
lemma first shows that a function with these equations exists (`SurplusOK`,
`OffsetsExist`, `FlattenIs`, `SumIsCells`, `FoldExists`).

Only model-checked: the liveness properties `CallsReturn` (of `Logger` and of
`ThreadStack`), `Terminates` and `CallLogs`, since the provers do not reason
about fairness and ENABLED. Every other property of a passing run is a theorem.

## 5. Plan

Done, in this order: `Logger` with its abstract specification and proofs;
`PropertyToString` with its own; contexts; formatting sinks; stack text and
thread protocol; ETW; error properties; search path, mask and refresh of the
symbol handler; the types of properties; the proofs of all safety properties, of
the three refinements, and last of `LogContext`.

What could be added: the formats of the integer types, and a second thread in
`ErrorProperties`, where errors belong to threads. Neither bears on a hazard
listed in `PROJECT.json`.

## 6. Not modelled

- Formats of the integer types, colours and wording of lines: text is a length.
- The unwinding of registers by RtlVirtualUnwind and the symbol names.
- ETW, dbghelp, SRW locks, CRT functions: external, by what this code needs.
- `log_internal_error.c` beyond the fact that it is called.
- The refusals of NULL in the functions of the property types: their callers
  never pass it.
- `LOGGER_LOG` and `LOGGER_LOG_WITH_CONFIG`: one call each, no control flow of
  their own.
- The POSIX path of `logging_stacktrace.c`, which stores an empty string.

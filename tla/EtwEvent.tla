------------------------------ MODULE EtwEvent ------------------------------
(***************************************************************************)
(* The ETW sink (log_sink_etw.c): a log call builds a self-described       *)
(* TraceLogging event on its stack.  One array holds the field metadata    *)
(* and, behind it, the formatted message; a second array holds the data    *)
(* descriptors, one for each field the metadata describes.  When something *)
(* does not fit, the event is sent without any property.                   *)
(*                                                                         *)
(* Calls share only the provider, so that one call at a time is modelled;  *)
(* a trace controller may change the enabled level at any moment.  ETW     *)
(* itself and vsnprintf are external.                                      *)
(***************************************************************************)
EXTENDS Integers, Sequences, SequencesExt, FiniteSetsExt, Memory

CONSTANTS
  Levels,            \* log levels: [trace : Nat, header : Nat], see below
  PairLists,         \* property/value pair arrays of the log contexts in use
  MessageLengths,    \* lengths of formatted messages
  MaxMetadataSize,   \* MAX_METADATA_SIZE
  MaxPropertyCount,  \* LOG_MAX_ETW_PROPERTY_VALUE_PAIR_COUNT
  CountModulus,      \* values_count is a uint16_t: 2^16
  MaxTraceLevel      \* the highest trace level

(* A level: its trace level, and the size of the event name and the        *)
(* metadata of content, file, func and line.                               *)
(* A pair: its kind, the length of its name and, for a struct, the number  *)
(* of its fields.                                                          *)
Kinds == {"value", "struct", "unknown"}

ASSUME EtwAssumption ==
  /\ Levels \subseteq [trace : 0 .. MaxTraceLevel, header : 1 .. MaxMetadataSize - 1]
  /\ PairLists \subseteq Seq([kind : Kinds, name : Nat, fields : 0 .. 255])
  /\ <<>> \in PairLists
  /\ MessageLengths \subseteq Nat
  /\ MaxMetadataSize \in Nat
  /\ MaxTraceLevel \in Nat
  /\ CountModulus \in Nat
  /\ MaxPropertyCount \in 0 .. CountModulus - 1

VARIABLES
  state,           \* log_sink_etw_state
  registrations,   \* TraceLoggingRegister calls not undone
  levelPlus1,      \* LevelPlus1 of the provider: 0 when nobody listens
  pc,              \* where the call is
  caller,          \* "init" for the self test of log_sink_etw_init, or "log"
  call,            \* its arguments
  i,               \* the loop counter
  metadata,        \* _tlgEvent.metadata
  pos,             \* offset of pos, and of formatted_message behind the fields
  add_properties,
  metadata_size,
  data,            \* _tlgData from index 2
  emitted          \* _tlgWriteTransfer_EventWriteTransfer was called

sink == <<state, registrations>>
event == <<metadata, pos, add_properties, metadata_size, data>>
vars == <<sink, levelPlus1, pc, caller, call, i, event, emitted>>

NoCall == [pairs |-> <<>>, count |-> 0, header |-> 1, length |-> 0]

Init ==
  /\ state = "NOT_INITIALIZED"
  /\ registrations = 0
  /\ levelPlus1 = 0
  /\ pc = "idle"
  /\ caller = "log"
  /\ call = NoCall
  /\ i = 0
  /\ metadata = <<>>
  /\ pos = 0
  /\ add_properties = TRUE
  /\ metadata_size = 0
  /\ data = <<>>
  /\ emitted = FALSE

-----------------------------------------------------------------------------
(* The bytes of the metadata. *)

Header(size) == [k \in 1 .. size |-> <<"header", k>>]
Name(k, size) == [b \in 1 .. size |-> <<"name", k>>]
Text(size) == [b \in 1 .. size |-> <<"text", b>>]
Nul == <<<<"nul", 0>>>>

(* internal_emit_self_described_event_va with its arguments.  The event is *)
(* built only when somebody listens at this level.                         *)
EmitBegin(from, level, pairs, count, length) ==
  /\ caller' = from
  /\ call' = [pairs |-> pairs, count |-> count, header |-> level.header, length |-> length]
  /\ IF level.trace < levelPlus1
     THEN /\ pc' = "properties"
          /\ metadata' = Store(<<>>, 0, Header(level.header))
          /\ pos' = level.header
     ELSE /\ pc' = "return"
          /\ UNCHANGED <<metadata, pos>>
  /\ UNCHANGED <<levelPlus1, i, add_properties, metadata_size, data, emitted>>

-----------------------------------------------------------------------------
(* log_sink_etw_init and log_sink_etw_deinit *)

SinkRegister ==
  /\ pc = "idle"
  /\ state = "NOT_INITIALIZED"
  /\ registrations' = registrations + 1
  /\ caller' = "init"
  /\ pc' = "self_test"
  /\ UNCHANGED <<state, levelPlus1, call, i, event, emitted>>

(* The event of the self test has no context. *)
SelfTest(level, length) ==
  /\ pc = "self_test"
  /\ EmitBegin("init", level, <<>>, 0, length)
  /\ UNCHANGED sink

(* TraceLoggingRegister failed, or the sink is initialized already. *)
SinkInitFails ==
  /\ pc = "idle"
  /\ UNCHANGED vars

(* Mutant: the provider is unregistered and the state kept. *)
DeinitKeepsState ==
  /\ pc = "idle"
  /\ state = "INITIALIZED"
  /\ registrations' = registrations - 1
  /\ levelPlus1' = 0
  /\ UNCHANGED <<state, pc, caller, call, i, event, emitted>>

SinkDeinit ==
  /\ pc = "idle"
  /\ state = "INITIALIZED"
  /\ registrations' = registrations - 1
  /\ levelPlus1' = 0
  /\ state' = "NOT_INITIALIZED"
  /\ UNCHANGED <<pc, caller, call, i, event, emitted>>

(* A trace controller enables the provider up to a level, or disables it. *)
Enable(n) ==
  /\ registrations > 0
  /\ levelPlus1' = n
  /\ UNCHANGED <<sink, pc, caller, call, i, event, emitted>>

-----------------------------------------------------------------------------
(* log_sink_etw_log; without a message_format it returns at once.  The     *)
(* number of pairs is cut to a uint16_t.                                   *)
LogNothing ==
  /\ pc = "idle"
  /\ UNCHANGED vars

Log(level, pairs, length) ==
  /\ pc = "idle"
  /\ EmitBegin("log", level, pairs, Len(pairs) % CountModulus, length)
  /\ UNCHANGED sink

-----------------------------------------------------------------------------
(* The loop over the properties: name, terminator, type and, for a struct, *)
(* the number of fields.                                                   *)

Drop ==
  /\ add_properties' = FALSE
  /\ pc' = "sized"
  /\ UNCHANGED <<i, pos>>

(* Mutant: the terminator of the name is not counted. *)
FitsWithoutTerminator(p) == MaxMetadataSize - pos >= p.name + 1

NameFits(p) == MaxMetadataSize - pos >= p.name + 1 + 1

TooManyProperties ==
  /\ pc = "properties"
  /\ call.count > MaxPropertyCount
  /\ Drop
  /\ UNCHANGED <<sink, levelPlus1, caller, call, metadata, metadata_size, data, emitted>>

DoesNotFit ==
  /\ pc = "properties"
  /\ call.count <= MaxPropertyCount
  /\ i < call.count
  /\ ~NameFits(call.pairs[i + 1])
  /\ Drop
  /\ UNCHANGED <<sink, levelPlus1, caller, call, metadata, metadata_size, data, emitted>>

(* The type byte of a struct may take the last byte. *)
AddStruct(k, p, type_pos) ==
  /\ metadata' = Store(metadata, pos,
                       Name(k, p.name) \o Nul \o <<<<"struct", k>>>>
                         \o (IF type_pos + 1 = MaxMetadataSize
                             THEN <<>>
                             ELSE <<<<"fields", p.fields>>>>))
  /\ IF type_pos + 1 = MaxMetadataSize
     THEN Drop
     ELSE /\ pos' = type_pos + 2
          /\ i' = i + 1
          /\ UNCHANGED <<add_properties, pc>>

AddProperty ==
  LET p == call.pairs[i + 1]
      type_pos == pos + p.name + 1
  IN  /\ pc = "properties"
      /\ call.count <= MaxPropertyCount
      /\ i < call.count
      /\ NameFits(p)
      /\ CASE p.kind = "value" ->
                /\ metadata' = Store(metadata, pos,
                                     Name(i + 1, p.name) \o Nul \o <<<<"type", i + 1>>>>)
                /\ pos' = type_pos + 1
                /\ i' = i + 1
                /\ UNCHANGED <<add_properties, pc>>
           [] p.kind = "unknown" ->
                /\ metadata' = Store(metadata, pos, Name(i + 1, p.name) \o Nul)
                /\ Drop
           [] p.kind = "struct" -> AddStruct(i + 1, p, type_pos)
      /\ UNCHANGED <<sink, levelPlus1, caller, call, metadata_size, data, emitted>>

PropertiesDone ==
  /\ pc = "properties"
  /\ call.count <= MaxPropertyCount
  /\ i = call.count
  /\ pc' = "sized"
  /\ UNCHANGED <<sink, levelPlus1, caller, call, i, event, emitted>>

-----------------------------------------------------------------------------
(* The message goes behind the metadata. *)

(* Mutant: pos is left behind the properties that were dropped. *)
KeepsPosition ==
  /\ pc = "sized"
  /\ pc' = "format"
  /\ metadata_size' = IF add_properties THEN pos ELSE call.header
  /\ UNCHANGED <<sink, levelPlus1, caller, call, i, metadata, pos, add_properties, data, emitted>>

Size ==
  /\ pc = "sized"
  /\ pc' = "format"
  /\ pos' = IF add_properties THEN pos ELSE call.header
  /\ metadata_size' = IF add_properties THEN pos ELSE call.header
  /\ UNCHANGED <<sink, levelPlus1, caller, call, i, metadata, add_properties, data, emitted>>

(* vsnprintf(metadata + at, MaxMetadataSize - at, ...) *)
Vsnprintf(at) ==
  LET available == MaxMetadataSize - at
  IN  IF available = 0
      THEN metadata
      ELSE Store(metadata, at, Text(Min({call.length, available - 1})) \o Nul)

(* Mutant: no room is kept for the terminator. *)
LongerThanRoom(at) == call.length > MaxMetadataSize - at

TooLong(at) == call.length >= MaxMetadataSize - at

FormatFails ==
  /\ pc \in {"format", "format_again"}
  /\ pc' = "return"
  /\ UNCHANGED <<sink, levelPlus1, caller, call, i, event, emitted>>

(* A message that is too long costs the event its properties, if any. *)
Format ==
  /\ pc = "format"
  /\ metadata' = Vsnprintf(pos)
  /\ IF TooLong(pos) /\ add_properties
     THEN /\ add_properties' = FALSE
          /\ metadata_size' = call.header
          /\ pos' = call.header
          /\ pc' = "format_again"
     ELSE /\ pc' = "describe"
          /\ UNCHANGED <<add_properties, metadata_size, pos>>
  /\ UNCHANGED <<sink, levelPlus1, caller, call, i, data, emitted>>

FormatAgain ==
  /\ pc = "format_again"
  /\ metadata' = Store(Vsnprintf(pos), MaxMetadataSize - 1, Nul)
  /\ pc' = "describe"
  /\ UNCHANGED <<sink, levelPlus1, caller, call, i, pos, add_properties, metadata_size,
                 data, emitted>>

-----------------------------------------------------------------------------
(* The data descriptors, and the event. *)

Fixed == <<[what |-> "content", n |-> pos], [what |-> "file", n |-> 0],
           [what |-> "func", n |-> 0], [what |-> "line", n |-> 0]>>

Describe ==
  /\ pc = "describe"
  /\ data' = Fixed
  /\ i' = 0
  /\ pc' = "values"
  /\ UNCHANGED <<sink, levelPlus1, caller, call, metadata, pos, add_properties,
                 metadata_size, emitted>>

(* Mutant: a struct takes a descriptor. *)
DescribesStructs ==
  /\ pc = "values"
  /\ add_properties /\ i < call.count
  /\ data' = Append(data, [what |-> "value", n |-> i + 1])
  /\ i' = i + 1
  /\ UNCHANGED <<sink, levelPlus1, pc, caller, call, metadata, pos, add_properties,
                 metadata_size, emitted>>

(* The loop over the values: a struct takes no descriptor. *)
DescribeValue ==
  /\ pc = "values"
  /\ add_properties /\ i < call.count
  /\ data' = IF call.pairs[i + 1].kind = "struct"
             THEN data
             ELSE Append(data, [what |-> "value", n |-> i + 1])
  /\ i' = i + 1
  /\ UNCHANGED <<sink, levelPlus1, pc, caller, call, metadata, pos, add_properties,
                 metadata_size, emitted>>

Emit ==
  /\ pc = "values"
  /\ add_properties => i = call.count
  /\ emitted' = TRUE
  /\ pc' = "return"
  /\ UNCHANGED <<sink, levelPlus1, caller, call, i, event>>

(* Back in the caller; init stores its state after the self test. *)
Return ==
  /\ pc = "return"
  /\ state' = IF caller = "init" THEN "INITIALIZED" ELSE state
  /\ pc' = "idle"
  /\ caller' = "log"
  /\ call' = NoCall
  /\ i' = 0
  /\ metadata' = <<>>
  /\ pos' = 0
  /\ add_properties' = TRUE
  /\ metadata_size' = 0
  /\ data' = <<>>
  /\ emitted' = FALSE
  /\ UNCHANGED <<registrations, levelPlus1>>

Next ==
  \/ SinkRegister
  \/ \E level \in Levels, length \in MessageLengths : SelfTest(level, length)
  \/ SinkInitFails
  \/ SinkDeinit
  \/ \E n \in 0 .. MaxTraceLevel + 1 : Enable(n)
  \/ LogNothing
  \/ \E level \in Levels, pairs \in PairLists, length \in MessageLengths :
       Log(level, pairs, length)
  \/ TooManyProperties
  \/ DoesNotFit
  \/ AddProperty
  \/ PropertiesDone
  \/ Size
  \/ FormatFails
  \/ Format
  \/ FormatAgain
  \/ Describe
  \/ DescribeValue
  \/ Emit
  \/ Return

Spec == Init /\ [][Next]_vars

-----------------------------------------------------------------------------
(* Properties *)

(* The locals of the event keep their types: pos stays in the metadata     *)
(* array and the descriptors in theirs, and one registration is held.      *)
TypeOK ==
  /\ state \in {"NOT_INITIALIZED", "INITIALIZED"}
  /\ registrations \in {0, 1}
  /\ levelPlus1 \in 0 .. MaxTraceLevel + 1
  /\ pc \in {"idle", "self_test", "properties", "sized", "format", "format_again",
             "describe", "values", "return"}
  /\ caller \in {"init", "log"}
  /\ i \in 0 .. MaxPropertyCount
  /\ pos \in 0 .. MaxMetadataSize
  /\ add_properties \in BOOLEAN
  /\ metadata_size \in 0 .. MaxMetadataSize
  /\ Len(data) <= 4 + MaxPropertyCount
  /\ emitted \in BOOLEAN

(* The locals keep their types and nothing is written behind the metadata  *)
(* array, however the names, the types, the struct field counts and the    *)
(* message add up.                                                         *)
StaysInMetadata ==
  /\ TypeOK
  /\ DOMAIN metadata \subseteq 0 .. MaxMetadataSize - 1

(* The provider is registered exactly while the sink is initialized or     *)
(* sending its self test, so that it is never registered twice.            *)
RegisteredOnce ==
  registrations = (IF state = "INITIALIZED" \/ (pc # "idle" /\ caller = "init") THEN 1 ELSE 0)

(* What the metadata of an event with the properties ps consists of. *)
Description(k, p) ==
  Name(k, p.name) \o Nul
    \o (IF p.kind = "struct" THEN <<<<"struct", k>>, <<"fields", p.fields>>>>
                             ELSE <<<<"type", k>>>>)
Encoding(ps) ==
  Header(call.header) \o FlattenSeq([k \in 1 .. Len(ps) |-> Description(k, ps[k])])

(* The consumer of an event decodes its data by its metadata.  They agree: *)
(* the metadata describes content, file, func, line and either all or none *)
(* of the properties, the message has not overwritten any of it, and there *)
(* is one descriptor for every field that is not a struct, in order - also *)
(* when the properties were dropped half way or after the first attempt to *)
(* format the message.                                                     *)
EventDescribesItself ==
  emitted =>
    \E ps \in {<<>>, SubSeq(call.pairs, 1, call.count)} :
      /\ Load(metadata, 0, metadata_size) = Encoding(ps)
      /\ LET fields == {k \in DOMAIN ps : ps[k].kind # "struct"}
         IN  /\ Len(data) = 4 + Cardinality(fields)
             /\ \A k \in fields : data[4 + Cardinality({j \in fields : j <= k})].n = k

(* The content is a terminated string: the whole message, or as much of it *)
(* as fits behind the metadata of an event without properties.             *)
ContentIsMessage ==
  emitted =>
    LET at == data[1].n
        shown == Min({call.length, MaxMetadataSize - call.header - 1})
    IN  Load(metadata, at, shown + 1) = Text(shown) \o Nul

(* SRS_LOG_SINK_ETW_01_085, in both directions, of contexts whose number   *)
(* of pairs is not cut by uint16_t: the properties are in the event        *)
(* exactly when there are few enough, all of a known type, and they fit    *)
(* together with the message.                                              *)
Fits(ps) ==
  /\ Len(ps) <= MaxPropertyCount
  /\ \A k \in DOMAIN ps : ps[k].kind # "unknown"
  /\ Len(Encoding(ps)) + call.length + 1 <= MaxMetadataSize

PropertiesWhenTheyFit ==
  emitted /\ Len(call.pairs) < CountModulus => (add_properties <=> Fits(call.pairs))

-----------------------------------------------------------------------------
(* What the requirements say and the code does not do. *)

(* SRS_LOG_SINK_ETW_01_082: of more than 64 properties none is added.      *)
TooManyAreLeftOut == emitted /\ Len(call.pairs) > MaxPropertyCount => ~add_properties
=============================================================================

------------------------------- MODULE Logger -------------------------------
(***************************************************************************)
(* The logger (logger.c, logger_sinks_config.c): a process-wide,           *)
(* reference-counted lifecycle over an array of sinks, and the two log     *)
(* entry points that fan a message out to the sinks.                       *)
(*                                                                         *)
(* One step per sink visited, so that a failing init, its rollback and a   *)
(* log call in progress are visible states.  The sinks appear here by the  *)
(* part of LOG_SINK_IF the logger depends on: init may fail, a sink that   *)
(* registers itself (log_sink_etw.c) refuses to be initialised twice, the  *)
(* others (log_sink_console.c, log_sink_callback.c) keep no lifecycle.     *)
(***************************************************************************)
EXTENDS Integers, Sequences

CONSTANTS
  Threads,        \* threads that call the logger
  Sinks,          \* the LOG_SINK_IF instances linked into the program
  Registering,    \* the sinks that keep a registration (log_sink_etw)
  AllSinks,       \* logger_sinks_config.c: the array the build configures
  Configs,        \* the arrays callers pass to logger_set_config and
                  \* logger_log_with_config
  CountModulus,   \* logger_init_count is a uint32_t: counts modulo 2^32
  MaxInits        \* bound: references held at a time

ASSUME ConfigAssumption ==
  /\ Registering \subseteq Sinks
  /\ Configs \subseteq Seq(Sinks)
  /\ AllSinks \in Configs

ASSUME CountAssumption ==
  /\ CountModulus \in Nat
  /\ MaxInits \in Nat
  /\ MaxInits < CountModulus
  /\ MaxInits > 0

VARIABLES
  logger_state,       \* LOGGER_STATE
  logger_init_count,  \* uint32_t
  log_sinks,          \* log_sinks[0..log_sink_count-1] as a sequence
  symbolsState,       \* get_thread_stack.c: g.symbolsState
  registered,         \* the registering sinks that are INITIALIZED
  op,                 \* op[t]: the call thread t is executing
  idx,                \* idx[t]: the loop counter of that call
  failedAt,           \* failedAt[t]: i of the failed init, bound of its rollback
  arg,                \* arg[t]: the array a log call of t walks
  got,                \* history: got[t]: the sinks that log call reached so far
  aborted,            \* abort() was called
  owed,               \* history: successful inits not matched by a deinit
  initConfig,         \* history: the array the live initialisation walked
  leaky               \* history: a deinit walked another array than its init

loggerVars == <<logger_state, logger_init_count, log_sinks, symbolsState, registered>>
callVars == <<op, idx, failedAt, arg, got>>
historyVars == <<owed, initConfig, leaky>>
vars == <<loggerVars, callVars, aborted, historyVars>>

Lifecycle == {"init", "rollback", "deinit"}
Logging == {"log", "log_with_config"}
Ops == Lifecycle \cup Logging \cup {"idle"}

Init ==
  /\ logger_state = "NOT_INITIALIZED"
  /\ logger_init_count = 0
  /\ log_sinks = AllSinks
  /\ symbolsState = "NOT_INITIALIZED"
  /\ registered = {}
  /\ op = [t \in Threads |-> "idle"]
  /\ idx = [t \in Threads |-> 0]
  /\ failedAt = [t \in Threads |-> 0]
  /\ arg = [t \in Threads |-> <<>>]
  /\ got = [t \in Threads |-> <<>>]
  /\ aborted = FALSE
  /\ owed = 0
  /\ initConfig = <<>>
  /\ leaky = FALSE

-----------------------------------------------------------------------------
(* The documented calling contract (logger_requirements.md): no other     *)
(* logger API runs while logger_init, logger_deinit or logger_set_config   *)
(* executes; log calls may overlap each other.                             *)

MayCallAlone(t) ==
  /\ ~aborted
  /\ \A u \in Threads : op[u] = "idle"

MayLog(t) ==
  /\ ~aborted
  /\ op[t] = "idle"
  /\ \A u \in Threads : op[u] \notin Lifecycle

(* A call returns: its locals are gone. *)
Return(t) ==
  /\ op' = [op EXCEPT ![t] = "idle"]
  /\ idx' = [idx EXCEPT ![t] = 0]
  /\ failedAt' = [failedAt EXCEPT ![t] = 0]
  /\ arg' = [arg EXCEPT ![t] = <<>>]
  /\ got' = [got EXCEPT ![t] = <<>>]

Enter(t, call) ==
  /\ op' = [op EXCEPT ![t] = call]
  /\ idx' = [idx EXCEPT ![t] = 0]

At(t, call) == ~aborted /\ op[t] = call

(* log_sinks[i], i counting from 0. *)
Sink(sinks, i) == sinks[i + 1]

-----------------------------------------------------------------------------
(* LOG_SINK_IF.init and LOG_SINK_IF.deinit *)

(* init returns 0: always possible for console and callback; for the ETW   *)
(* sink only when it is not initialised yet.                               *)
SinkInitSucceeds(s) ==
  /\ s \notin registered
  /\ registered' = IF s \in Registering THEN registered \cup {s} ELSE registered

(* init fails: TraceLoggingRegister failed, or the sink is already         *)
(* initialised.  Nothing changes.                                          *)
SinkInitFails(s) ==
  /\ s \in Registering
  /\ UNCHANGED registered

(* deinit: a sink that is not initialised just returns. *)
SinkDeinit(s) == registered' = registered \ {s}

-----------------------------------------------------------------------------
(* logger_init *)

(* Already initialised: only the counter moves. *)
LoggerInitAgain(t) ==
  /\ MayCallAlone(t)
  /\ logger_state = "INITIALIZED"
  /\ owed < MaxInits
  /\ logger_init_count' = (logger_init_count + 1) % CountModulus
  /\ owed' = owed + 1
  /\ Return(t)
  /\ UNCHANGED <<logger_state, log_sinks, symbolsState, registered, aborted, initConfig, leaky>>

(* get_thread_stack_init failed (it returns 0 when already initialised). *)
LoggerInitStackFails(t) ==
  /\ MayCallAlone(t)
  /\ logger_state = "NOT_INITIALIZED"
  /\ symbolsState = "NOT_INITIALIZED"
  /\ Return(t)
  /\ UNCHANGED <<loggerVars, aborted, historyVars>>

(* Mutant: the failed init's leftover count is built upon. *)
CountsFromLeftover(t) ==
  /\ MayCallAlone(t)
  /\ logger_state = "NOT_INITIALIZED"
  /\ symbolsState' = "INITIALIZED"
  /\ logger_init_count' = (logger_init_count + 1) % CountModulus
  /\ Enter(t, "init")
  /\ UNCHANGED <<logger_state, log_sinks, registered, failedAt, arg, got, aborted, historyVars>>

LoggerInitBegin(t) ==
  /\ MayCallAlone(t)
  /\ logger_state = "NOT_INITIALIZED"
  /\ symbolsState' = "INITIALIZED"
  /\ logger_init_count' = 1
  /\ Enter(t, "init")
  /\ UNCHANGED <<logger_state, log_sinks, registered, failedAt, arg, got, aborted, historyVars>>

(* Mutant: the result of the sink's init is ignored. *)
IgnoresSinkFailure(t) ==
  /\ At(t, "init")
  /\ idx[t] < Len(log_sinks)
  /\ \/ SinkInitSucceeds(Sink(log_sinks, idx[t]))
     \/ SinkInitFails(Sink(log_sinks, idx[t]))
  /\ idx' = [idx EXCEPT ![t] = @ + 1]
  /\ UNCHANGED <<logger_state, logger_init_count, log_sinks, symbolsState,
                 op, failedAt, arg, got, aborted, historyVars>>

(* One iteration of the init loop; a failure leaves it with i = failedAt. *)
LoggerInitSink(t) ==
  /\ At(t, "init")
  /\ idx[t] < Len(log_sinks)
  /\ \/ /\ SinkInitSucceeds(Sink(log_sinks, idx[t]))
        /\ idx' = [idx EXCEPT ![t] = @ + 1]
        /\ UNCHANGED <<op, failedAt>>
     \/ /\ SinkInitFails(Sink(log_sinks, idx[t]))
        /\ failedAt' = [failedAt EXCEPT ![t] = idx[t]]
        /\ Enter(t, "rollback")
  /\ UNCHANGED <<logger_state, logger_init_count, log_sinks, symbolsState,
                 arg, got, aborted, historyVars>>

LoggerInitDone(t) ==
  /\ At(t, "init")
  /\ idx[t] = Len(log_sinks)
  /\ logger_state' = "INITIALIZED"
  /\ owed' = owed + 1
  /\ initConfig' = log_sinks
  /\ Return(t)
  /\ UNCHANGED <<logger_init_count, log_sinks, symbolsState, registered, aborted, leaky>>

(* Mutant: the rollback stops one sink early and leaves it initialised. *)
RollbackSkipsLast(t) ==
  /\ At(t, "rollback")
  /\ idx[t] < failedAt[t]
  /\ IF idx[t] + 1 = failedAt[t]
     THEN UNCHANGED registered
     ELSE SinkDeinit(Sink(log_sinks, idx[t]))
  /\ idx' = [idx EXCEPT ![t] = @ + 1]
  /\ UNCHANGED <<logger_state, logger_init_count, log_sinks, symbolsState,
                 op, failedAt, arg, got, aborted, historyVars>>

(* One iteration of the rollback loop, j = idx. *)
LoggerInitRollback(t) ==
  /\ At(t, "rollback")
  /\ idx[t] < failedAt[t]
  /\ SinkDeinit(Sink(log_sinks, idx[t]))
  /\ idx' = [idx EXCEPT ![t] = @ + 1]
  /\ UNCHANGED <<logger_state, logger_init_count, log_sinks, symbolsState,
                 op, failedAt, arg, got, aborted, historyVars>>

(* The failed init returns; get_thread_stack_deinit is its last call, and  *)
(* logger_init_count keeps the 1 it was given.                             *)
LoggerInitFailed(t) ==
  /\ At(t, "rollback")
  /\ idx[t] = failedAt[t]
  /\ symbolsState' = "NOT_INITIALIZED"
  /\ Return(t)
  /\ UNCHANGED <<logger_state, logger_init_count, log_sinks, registered, aborted, historyVars>>

-----------------------------------------------------------------------------
(* logger_deinit *)

LoggerDeinitNotInitialized(t) ==
  /\ MayCallAlone(t)
  /\ logger_state = "NOT_INITIALIZED"
  /\ Return(t)
  /\ UNCHANGED <<loggerVars, aborted, historyVars>>

(* Mutant: logger_state is not checked before the counter is decremented. *)
DecrementsUnchecked(t) ==
  /\ MayCallAlone(t)
  /\ logger_init_count' = (logger_init_count - 1) % CountModulus
  /\ owed' = owed - 1
  /\ Return(t)
  /\ UNCHANGED <<logger_state, log_sinks, symbolsState, registered, aborted, initConfig, leaky>>

(* The counter is decremented; the last reference starts the teardown of   *)
(* the sinks configured now.                                               *)
LoggerDeinitDecrement(t) ==
  /\ MayCallAlone(t)
  /\ logger_state = "INITIALIZED"
  /\ logger_init_count' = (logger_init_count - 1) % CountModulus
  /\ owed' = owed - 1
  /\ IF logger_init_count' = 0
     THEN /\ Enter(t, "deinit")
          /\ leaky' = (leaky \/ log_sinks # initConfig)
          /\ UNCHANGED <<failedAt, arg, got>>
     ELSE /\ Return(t)
          /\ UNCHANGED leaky
  /\ UNCHANGED <<logger_state, log_sinks, symbolsState, registered, aborted, initConfig>>

(* Mutant: the teardown loop does not advance. *)
DeinitSameSink(t) ==
  /\ At(t, "deinit")
  /\ idx[t] < Len(log_sinks)
  /\ SinkDeinit(Sink(log_sinks, idx[t]))
  /\ UNCHANGED <<logger_state, logger_init_count, log_sinks, symbolsState,
                 callVars, aborted, historyVars>>

LoggerDeinitSink(t) ==
  /\ At(t, "deinit")
  /\ idx[t] < Len(log_sinks)
  /\ SinkDeinit(Sink(log_sinks, idx[t]))
  /\ idx' = [idx EXCEPT ![t] = @ + 1]
  /\ UNCHANGED <<logger_state, logger_init_count, log_sinks, symbolsState,
                 op, failedAt, arg, got, aborted, historyVars>>

LoggerDeinitDone(t) ==
  /\ At(t, "deinit")
  /\ idx[t] = Len(log_sinks)
  /\ symbolsState' = "NOT_INITIALIZED"
  /\ logger_state' = "NOT_INITIALIZED"
  /\ Return(t)
  /\ UNCHANGED <<logger_init_count, log_sinks, registered, aborted, historyVars>>

-----------------------------------------------------------------------------
(* logger_set_config: takes effect at once, whatever the logger's state.   *)

LoggerSetConfig(t, new_config) ==
  /\ MayCallAlone(t)
  /\ log_sinks' = new_config
  /\ Return(t)
  /\ UNCHANGED <<logger_state, logger_init_count, symbolsState, registered, aborted, historyVars>>

-----------------------------------------------------------------------------
(* logger_log and logger_log_with_config *)

(* Mutant: logger_state is not looked at. *)
LogsUnchecked(t, call, sinks) ==
  /\ MayLog(t)
  /\ Enter(t, call)
  /\ arg' = [arg EXCEPT ![t] = sinks]
  /\ got' = [got EXCEPT ![t] = <<>>]
  /\ UNCHANGED <<loggerVars, failedAt, aborted, historyVars>>

(* Both start by looking at logger_state. *)
LogBegin(t, call, sinks) ==
  /\ MayLog(t)
  /\ logger_state = "INITIALIZED"
  /\ Enter(t, call)
  /\ arg' = [arg EXCEPT ![t] = sinks]
  /\ got' = [got EXCEPT ![t] = <<>>]
  /\ UNCHANGED <<loggerVars, failedAt, aborted, historyVars>>

LogAbort(t) ==
  /\ MayLog(t)
  /\ logger_state # "INITIALIZED"
  /\ aborted' = TRUE
  /\ UNCHANGED <<loggerVars, callVars, historyVars>>

(* logger_log reads log_sinks and log_sink_count again at every iteration; *)
(* logger_log_with_config walks its argument.                              *)
Walked(t) == IF op[t] = "log" THEN log_sinks ELSE arg[t]

LogToSink(t) ==
  /\ ~aborted
  /\ op[t] \in Logging
  /\ idx[t] < Len(Walked(t))
  /\ got' = [got EXCEPT ![t] = Append(@, Sink(Walked(t), idx[t]))]
  /\ idx' = [idx EXCEPT ![t] = @ + 1]
  /\ UNCHANGED <<loggerVars, op, failedAt, arg, aborted, historyVars>>

(* Mutant: the loop bound is off by one. *)
StopsOneEarly(t) ==
  /\ ~aborted
  /\ op[t] \in Logging
  /\ idx[t] >= Len(Walked(t)) - 1
  /\ Return(t)
  /\ UNCHANGED <<loggerVars, aborted, historyVars>>

LogEnd(t) ==
  /\ ~aborted
  /\ op[t] \in Logging
  /\ idx[t] >= Len(Walked(t))
  /\ Return(t)
  /\ UNCHANGED <<loggerVars, aborted, historyVars>>

LoggerLog(t) == LogBegin(t, "log", log_sinks)

LoggerLogWithConfig(t, logger_config) == LogBegin(t, "log_with_config", logger_config)

(* A NULL array with a non-zero count is refused before logger_state is    *)
(* looked at, so it returns even when the logger is not initialised.       *)
LoggerLogWithNullConfig(t) ==
  /\ MayLog(t)
  /\ Return(t)
  /\ UNCHANGED <<loggerVars, aborted, historyVars>>

(* abort() ends the process: nothing happens any more. *)
ProcessEnded == aborted /\ UNCHANGED vars

-----------------------------------------------------------------------------
(* The steps of a call that was entered: what the thread does by itself. *)
Continue(t) ==
  \/ LoggerInitSink(t)
  \/ LoggerInitDone(t)
  \/ LoggerInitRollback(t)
  \/ LoggerInitFailed(t)
  \/ LoggerDeinitSink(t)
  \/ LoggerDeinitDone(t)
  \/ LogToSink(t)
  \/ LogEnd(t)

(* The calls a thread may make. *)
Call(t) ==
  \/ LoggerInitAgain(t)
  \/ LoggerInitStackFails(t)
  \/ LoggerInitBegin(t)
  \/ LoggerDeinitNotInitialized(t)
  \/ LoggerDeinitDecrement(t)
  \/ LoggerLog(t)
  \/ LogAbort(t)
  \/ LoggerLogWithNullConfig(t)
  \/ \E c \in Configs : LoggerSetConfig(t, c) \/ LoggerLogWithConfig(t, c)

Next ==
  \/ \E t \in Threads : Call(t) \/ Continue(t)
  \/ ProcessEnded

(* A thread that entered a call runs to its end; nobody has to call. *)
Fairness == \A t \in Threads : WF_vars(Continue(t))

Spec == Init /\ [][Next]_vars

FairSpec == Spec /\ Fairness

-----------------------------------------------------------------------------
(* Properties *)

(* The logger's state keeps its type: the counter stays in its width, and  *)
(* only configured arrays and registering sinks appear.                    *)
TypeOK ==
  /\ logger_state \in {"NOT_INITIALIZED", "INITIALIZED"}
  /\ logger_init_count \in 0 .. (CountModulus - 1)
  /\ log_sinks \in Configs
  /\ symbolsState \in {"NOT_INITIALIZED", "INITIALIZED"}
  /\ registered \subseteq Registering
  /\ op \in [Threads -> Ops]
  /\ idx \in [Threads -> Nat]
  /\ failedAt \in [Threads -> Nat]
  /\ arg \in [Threads -> Seq(Sinks)]
  /\ got \in [Threads -> Seq(Sinks)]
  /\ aborted \in BOOLEAN
  /\ owed \in 0 .. MaxInits
  /\ initConfig \in Seq(Sinks)
  /\ leaky \in BOOLEAN

(* No thread is inside logger_init or logger_deinit. *)
Settled == \A t \in Threads : op[t] \notin Lifecycle

(* logger_init/logger_deinit pair up: between calls the logger is          *)
(* initialised exactly while some successful logger_init has not been      *)
(* matched by a logger_deinit, and then logger_init_count is their number, *)
(* even after failed inits that left the counter at 1 behind.              *)
InitsAndDeinitsPairUp ==
  Settled => IF logger_state = "INITIALIZED"
             THEN owed > 0 /\ logger_init_count = owed
             ELSE owed = 0

(* A logger that is not initialised, be it after the last logger_deinit or *)
(* after a logger_init that failed half-way and rolled back, holds nothing:*)
(* no sink is registered and the symbol handler is closed - provided no    *)
(* earlier deinit walked another array than the init before it.            *)
NothingHeldWhenNotInitialized ==
  Settled /\ logger_state = "NOT_INITIALIZED"
    => /\ symbolsState = "NOT_INITIALIZED"
       /\ ~leaky => registered = {}

(* While the logger is initialised, and until the configuration is         *)
(* replaced, every registering sink that logger_log will reach has been    *)
(* initialised, and so has the symbol handler behind stack traces.         *)
ConfiguredSinksAreReady ==
  Settled /\ logger_state = "INITIALIZED"
    => /\ symbolsState = "INITIALIZED"
       /\ log_sinks = initConfig =>
            \A i \in 1 .. Len(log_sinks) :
              log_sinks[i] \in Registering => log_sinks[i] \in registered

(* A log call that returned has delivered its message to every sink of the *)
(* array in force when it began, once each and in order, although          *)
(* logger_log reads the global array afresh at each iteration.             *)
EverySinkLoggedOnce ==
  [][\A t \in Threads : op[t] \in Logging /\ op'[t] = "idle" => got[t] = arg[t]]_vars

(* A call that was entered returns, unless the process is aborted: init,   *)
(* its rollback, deinit and the log loops all terminate.                   *)
CallsReturn ==
  \A t \in Threads : (op[t] # "idle") ~> (op[t] = "idle" \/ aborted)

(* The logger implements the reference-counted service: the references of  *)
(* a logger that is not initialised are 0 whatever logger_init_count says, *)
(* so a failed logger_init, with its rollback, is invisible.               *)
References == IF logger_state = "INITIALIZED" THEN logger_init_count ELSE 0

Emitting == {t \in Threads : op[t] \in Logging}

Abstract == INSTANCE LoggerLifecycle
              WITH refs <- References, emitting <- Emitting, dead <- aborted

ImplementsLifecycle == Abstract!Spec
=============================================================================

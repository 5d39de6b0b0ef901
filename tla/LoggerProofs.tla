---------------------------- MODULE LoggerProofs ----------------------------
(***************************************************************************)
(* Proofs about Logger for any number of threads and sinks, any arrays of  *)
(* sinks, and any width of the counter that the references fit in.         *)
(***************************************************************************)
EXTENDS Logger, TLAPS

(* A lifecycle call excludes every other call of the logger. *)
LifecycleAlone ==
  \A t, u \in Threads : op[t] \in Lifecycle /\ u # t => op[u] = "idle"

(* The sinks at positions a+1 .. b of an array, 0-based: those a loop      *)
(* with counter a still has to visit on its way to b.                      *)
Between(sinks, a, b) == {sinks[k] : k \in (a + 1) .. b}

(* What holds in the middle of logger_init: the sinks visited are          *)
(* initialised and, without a leak from earlier, no others.                *)
InitPhase ==
  \A t \in Threads : op[t] = "init" =>
    /\ logger_state = "NOT_INITIALIZED"
    /\ symbolsState = "INITIALIZED"
    /\ logger_init_count = 1
    /\ owed = 0
    /\ idx[t] <= Len(log_sinks)
    /\ \A k \in 1 .. idx[t] : log_sinks[k] \in Registering => log_sinks[k] \in registered
    /\ ~leaky => registered \subseteq Between(log_sinks, 0, idx[t])

(* In the middle of the rollback only sinks it has still to visit are      *)
(* initialised.                                                            *)
RollbackPhase ==
  \A t \in Threads : op[t] = "rollback" =>
    /\ logger_state = "NOT_INITIALIZED"
    /\ owed = 0
    /\ failedAt[t] < Len(log_sinks)
    /\ idx[t] <= failedAt[t]
    /\ ~leaky => registered \subseteq Between(log_sinks, idx[t], failedAt[t])

(* The same in the middle of the teardown of logger_deinit. *)
DeinitPhase ==
  \A t \in Threads : op[t] = "deinit" =>
    /\ logger_state = "INITIALIZED"
    /\ logger_init_count = 0
    /\ owed = 0
    /\ idx[t] <= Len(log_sinks)
    /\ ~leaky => registered \subseteq Between(log_sinks, idx[t], Len(log_sinks))

(* An initialised logger holds the registering sinks of the array it was   *)
(* initialised with and, without a leak from earlier, no others.  The      *)
(* array configured now may be another one.                                *)
HeldByInitConfig ==
  Settled /\ logger_state = "INITIALIZED"
    => /\ \A k \in 1 .. Len(initConfig) :
            initConfig[k] \in Registering => initConfig[k] \in registered
       /\ ~leaky => registered \subseteq Between(initConfig, 0, Len(initConfig))

(* A log call has reached the sinks before its loop counter, and the array *)
(* it walks has not been replaced under it.                                *)
LogPhase ==
  \A t \in Threads : op[t] \in Logging =>
    /\ op[t] = "log" => arg[t] = log_sinks
    /\ idx[t] <= Len(arg[t])
    /\ Len(got[t]) = idx[t]
    /\ \A k \in 1 .. idx[t] : got[t][k] = arg[t][k]

IInv ==
  /\ TypeOK
  /\ LifecycleAlone
  /\ InitPhase
  /\ RollbackPhase
  /\ DeinitPhase
  /\ HeldByInitConfig
  /\ LogPhase
  /\ InitsAndDeinitsPairUp
  /\ NothingHeldWhenNotInitialized
  /\ ConfiguredSinksAreReady

-----------------------------------------------------------------------------
(* The lemmas the steps rest on *)

(* A count below the modulus is its own residue. *)
LEMMA SmallResidue ==
  ASSUME NEW n \in Nat, NEW m \in Nat, n < m
  PROVE  n % m = n
BY SMT

(* A loop that removes the sink at its counter from a set it has still to  *)
(* visit has, one position later, the rest of the set still to visit.      *)
LEMMA VisitShrinks ==
  ASSUME NEW sinks, NEW a \in Nat, NEW b \in Nat, a < b, NEW held,
         held \subseteq Between(sinks, a, b)
  PROVE  held \ {sinks[a + 1]} \subseteq Between(sinks, a + 1, b)
<1> SUFFICES ASSUME NEW s \in held, s # sinks[a + 1]
             PROVE  s \in Between(sinks, a + 1, b)
  OBVIOUS
<1>1. PICK k \in (a + 1) .. b : s = sinks[k]
  BY DEF Between
<1>2. k \in (a + 1 + 1) .. b
  BY <1>1
<1> QED BY <1>1, <1>2 DEF Between

(* A loop that adds the sink at its counter to what it holds holds sinks   *)
(* from before the next position.                                          *)
LEMMA VisitGrows ==
  ASSUME NEW sinks, NEW a \in Nat, NEW held,
         held \subseteq Between(sinks, 0, a)
  PROVE  held \cup {sinks[a + 1]} \subseteq Between(sinks, 0, a + 1)
BY DEF Between

-----------------------------------------------------------------------------
(* The steps of logger_init *)

USE DEF Lifecycle, Logging, Ops, Settled, loggerVars, callVars, historyVars

(* A failed get_thread_stack_init changes nothing but the caller. *)
LEMMA LoggerInitStackFailsStep ==
  ASSUME IInv, NEW t \in Threads, LoggerInitStackFails(t)
  PROVE  IInv'
<1> USE DEF LoggerInitStackFails, MayCallAlone, Return
<1>1. (TypeOK /\ LifecycleAlone)'
  BY DEF IInv, TypeOK, LifecycleAlone
<1>2. (InitPhase /\ RollbackPhase /\ DeinitPhase
      /\ HeldByInitConfig /\ LogPhase)'
  BY DEF IInv, TypeOK, LifecycleAlone, InitPhase, RollbackPhase, DeinitPhase, HeldByInitConfig,
     LogPhase,
         InitsAndDeinitsPairUp, NothingHeldWhenNotInitialized, ConfiguredSinksAreReady
<1>3. (InitsAndDeinitsPairUp /\ NothingHeldWhenNotInitialized
      /\ ConfiguredSinksAreReady)'
  BY DEF IInv, TypeOK, LifecycleAlone, InitPhase, RollbackPhase, DeinitPhase, HeldByInitConfig,
         InitsAndDeinitsPairUp, NothingHeldWhenNotInitialized, ConfiguredSinksAreReady
<1> QED BY <1>1, <1>2, <1>3 DEF IInv

(* One more reference: only the counter and the history move. *)
LEMMA LoggerInitAgainStep ==
  ASSUME IInv, NEW t \in Threads, LoggerInitAgain(t)
  PROVE  IInv'
<1> USE DEF LoggerInitAgain, MayCallAlone, Return
<1>1. logger_init_count' = owed + 1 /\ logger_init_count' < CountModulus
  <2>1. logger_init_count = owed /\ owed \in Nat /\ owed + 1 \in Nat /\ owed + 1 < CountModulus
    BY CountAssumption DEF IInv, TypeOK, InitsAndDeinitsPairUp
  <2>2. (owed + 1) % CountModulus = owed + 1
    BY <2>1, CountAssumption, SmallResidue
  <2> QED BY <2>1, <2>2
<1>2. (TypeOK /\ LifecycleAlone)'
  BY <1>1, CountAssumption DEF IInv, TypeOK, LifecycleAlone
<1>3. (InitPhase /\ RollbackPhase /\ DeinitPhase /\ HeldByInitConfig /\ LogPhase)'
  BY DEF IInv, TypeOK, LifecycleAlone, InitPhase, RollbackPhase, DeinitPhase, HeldByInitConfig,
     LogPhase
<1>4. InitsAndDeinitsPairUp'
  BY <1>1 DEF IInv, TypeOK, InitsAndDeinitsPairUp
<1>5. (NothingHeldWhenNotInitialized /\ ConfiguredSinksAreReady)'
  BY DEF IInv, TypeOK, NothingHeldWhenNotInitialized, ConfiguredSinksAreReady
<1> QED BY <1>2, <1>3, <1>4, <1>5 DEF IInv

(* The first init: nothing is held yet, so the loop starts with an empty prefix. *)
LEMMA LoggerInitBeginStep ==
  ASSUME IInv, NEW t \in Threads, LoggerInitBegin(t)
  PROVE  IInv'
<1> USE DEF LoggerInitBegin, MayCallAlone, Enter, Between
<1>1. (TypeOK /\ LifecycleAlone)'
  BY CountAssumption DEF IInv, TypeOK, LifecycleAlone
<1>2. (InitPhase /\ RollbackPhase /\ DeinitPhase
      /\ HeldByInitConfig /\ LogPhase)'
  BY ConfigAssumption, SMTT(30) DEF IInv, TypeOK, LifecycleAlone, InitPhase, RollbackPhase, DeinitPhase,
     HeldByInitConfig, LogPhase,
         InitsAndDeinitsPairUp, NothingHeldWhenNotInitialized, ConfiguredSinksAreReady
<1>3. (InitsAndDeinitsPairUp /\ NothingHeldWhenNotInitialized
      /\ ConfiguredSinksAreReady)'
  BY DEF IInv, TypeOK, LifecycleAlone, InitPhase, RollbackPhase, DeinitPhase, HeldByInitConfig,
         InitsAndDeinitsPairUp, NothingHeldWhenNotInitialized, ConfiguredSinksAreReady
<1> QED BY <1>1, <1>2, <1>3 DEF IInv

(* The loop is over: every sink of the array is initialised. *)
LEMMA LoggerInitDoneStep ==
  ASSUME IInv, NEW t \in Threads, LoggerInitDone(t)
  PROVE  IInv'
<1> USE DEF LoggerInitDone, At, Return
<1>1. (TypeOK /\ LifecycleAlone)'
  BY CountAssumption, ConfigAssumption DEF IInv, TypeOK, LifecycleAlone, InitPhase
<1>2. (InitPhase /\ RollbackPhase /\ DeinitPhase
      /\ HeldByInitConfig /\ LogPhase)'
  BY ConfigAssumption DEF IInv, TypeOK, LifecycleAlone, InitPhase, RollbackPhase, DeinitPhase,
     HeldByInitConfig, LogPhase,
         InitsAndDeinitsPairUp, NothingHeldWhenNotInitialized, ConfiguredSinksAreReady
<1>3. (InitsAndDeinitsPairUp /\ NothingHeldWhenNotInitialized
      /\ ConfiguredSinksAreReady)'
  BY ConfigAssumption, CountAssumption DEF IInv, TypeOK, LifecycleAlone, InitPhase,
     RollbackPhase, DeinitPhase, HeldByInitConfig,
         InitsAndDeinitsPairUp, NothingHeldWhenNotInitialized, ConfiguredSinksAreReady
<1> QED BY <1>1, <1>2, <1>3 DEF IInv

(* The rollback is over: nothing is held any more. *)
LEMMA LoggerInitFailedStep ==
  ASSUME IInv, NEW t \in Threads, LoggerInitFailed(t)
  PROVE  IInv'
<1> USE DEF LoggerInitFailed, At, Return, Between
<1>1. (TypeOK /\ LifecycleAlone)'
  BY DEF IInv, TypeOK, LifecycleAlone
<1>2. (InitPhase /\ RollbackPhase /\ DeinitPhase
      /\ HeldByInitConfig /\ LogPhase)'
  BY ConfigAssumption DEF IInv, TypeOK, LifecycleAlone, InitPhase, RollbackPhase, DeinitPhase,
     HeldByInitConfig, LogPhase,
         InitsAndDeinitsPairUp, NothingHeldWhenNotInitialized, ConfiguredSinksAreReady
<1>3. (InitsAndDeinitsPairUp /\ NothingHeldWhenNotInitialized
      /\ ConfiguredSinksAreReady)'
  BY DEF IInv, TypeOK, LifecycleAlone, InitPhase, RollbackPhase, DeinitPhase, HeldByInitConfig,
         InitsAndDeinitsPairUp, NothingHeldWhenNotInitialized, ConfiguredSinksAreReady
<1> QED BY <1>1, <1>2, <1>3 DEF IInv

(* A sink of the array is initialised, or refuses and starts the rollback  *)
(* over the sinks before it.                                               *)
LEMMA LoggerInitSinkStep ==
  ASSUME IInv, NEW t \in Threads, LoggerInitSink(t)
  PROVE  IInv'
<1> USE DEF LoggerInitSink, At, Sink
<1> DEFINE s == log_sinks[idx[t] + 1]
<1>1. s \in Sinks /\ log_sinks \in Seq(Sinks) /\ idx[t] \in Nat /\ op[t] = "init"
  BY ConfigAssumption DEF IInv, TypeOK
<1>2. CASE SinkInitSucceeds(s) /\ idx' = [idx EXCEPT ![t] = @ + 1] /\ UNCHANGED <<op, failedAt>>
  <2> USE DEF SinkInitSucceeds
  <2>1. (TypeOK /\ LifecycleAlone)'
    BY <1>1, <1>2 DEF IInv, TypeOK, LifecycleAlone
  <2>2. ~leaky' => registered' \subseteq Between(log_sinks, 0, idx[t] + 1)
    BY <1>1, <1>2, VisitGrows DEF IInv, InitPhase
  <2>3. \A k \in 1 .. idx'[t] : log_sinks[k] \in Registering => log_sinks[k] \in registered'
    BY <1>1, <1>2 DEF IInv, TypeOK, InitPhase
  <2>4. InitPhase'
    BY <1>1, <1>2, <2>2, <2>3 DEF IInv, TypeOK, LifecycleAlone, InitPhase
  <2>5. (RollbackPhase /\ DeinitPhase /\ HeldByInitConfig /\ LogPhase)'
    BY <1>1, <1>2 DEF IInv, TypeOK, LifecycleAlone, RollbackPhase, DeinitPhase,
       HeldByInitConfig, LogPhase
  <2>6. (InitsAndDeinitsPairUp /\ NothingHeldWhenNotInitialized /\ ConfiguredSinksAreReady)'
    BY <1>1, <1>2 DEF InitsAndDeinitsPairUp, NothingHeldWhenNotInitialized,
       ConfiguredSinksAreReady
  <2> QED BY <2>1, <2>4, <2>5, <2>6 DEF IInv
<1>3. CASE /\ SinkInitFails(s)
           /\ failedAt' = [failedAt EXCEPT ![t] = idx[t]]
           /\ Enter(t, "rollback")
  <2> USE DEF SinkInitFails, Enter
  <2>1. (TypeOK /\ LifecycleAlone)'
    BY <1>1, <1>3 DEF IInv, TypeOK, LifecycleAlone
  <2>2. RollbackPhase'
    BY <1>1, <1>3 DEF IInv, TypeOK, LifecycleAlone, InitPhase, RollbackPhase
  <2>3. (InitPhase /\ DeinitPhase /\ HeldByInitConfig /\ LogPhase)'
    BY <1>1, <1>3 DEF IInv, TypeOK, LifecycleAlone, InitPhase, DeinitPhase, HeldByInitConfig,
       LogPhase
  <2>4. (InitsAndDeinitsPairUp /\ NothingHeldWhenNotInitialized /\ ConfiguredSinksAreReady)'
    BY <1>1, <1>3 DEF IInv, TypeOK, InitsAndDeinitsPairUp, NothingHeldWhenNotInitialized,
       ConfiguredSinksAreReady
  <2> QED BY <2>1, <2>2, <2>3, <2>4 DEF IInv
<1> QED BY <1>2, <1>3

(* One iteration of the rollback: the sink visited is released. *)
LEMMA LoggerInitRollbackStep ==
  ASSUME IInv, NEW t \in Threads, LoggerInitRollback(t)
  PROVE  IInv'
<1> USE DEF LoggerInitRollback, At, Sink, SinkDeinit
<1>1. (TypeOK /\ LifecycleAlone)'
  BY DEF IInv, TypeOK, LifecycleAlone
<1>2. ~leaky' => registered' \subseteq Between(log_sinks, idx[t] + 1, failedAt[t])
  BY VisitShrinks DEF IInv, TypeOK, RollbackPhase
<1>3. RollbackPhase'
  BY <1>2 DEF IInv, TypeOK, LifecycleAlone, RollbackPhase
<1>4. (InitPhase /\ DeinitPhase /\ HeldByInitConfig /\ LogPhase)'
  BY DEF IInv, TypeOK, LifecycleAlone, InitPhase, DeinitPhase, HeldByInitConfig, LogPhase
<1>5. (InitsAndDeinitsPairUp /\ NothingHeldWhenNotInitialized /\ ConfiguredSinksAreReady)'
  BY DEF InitsAndDeinitsPairUp, NothingHeldWhenNotInitialized, ConfiguredSinksAreReady
<1> QED BY <1>1, <1>3, <1>4, <1>5 DEF IInv

-----------------------------------------------------------------------------
(* The steps of logger_deinit and logger_set_config *)

(* A deinit that was not preceded by an init changes nothing. *)
LEMMA LoggerDeinitNotInitializedStep ==
  ASSUME IInv, NEW t \in Threads, LoggerDeinitNotInitialized(t)
  PROVE  IInv'
<1> USE DEF LoggerDeinitNotInitialized, MayCallAlone, Return
<1>1. (TypeOK /\ LifecycleAlone)'
  BY DEF IInv, TypeOK, LifecycleAlone
<1>2. (InitPhase /\ RollbackPhase /\ DeinitPhase
      /\ HeldByInitConfig /\ LogPhase)'
  BY DEF IInv, TypeOK, LifecycleAlone, InitPhase, RollbackPhase, DeinitPhase, HeldByInitConfig,
     LogPhase,
         InitsAndDeinitsPairUp, NothingHeldWhenNotInitialized, ConfiguredSinksAreReady
<1>3. (InitsAndDeinitsPairUp /\ NothingHeldWhenNotInitialized
      /\ ConfiguredSinksAreReady)'
  BY DEF IInv, TypeOK, LifecycleAlone, InitPhase, RollbackPhase, DeinitPhase, HeldByInitConfig,
         InitsAndDeinitsPairUp, NothingHeldWhenNotInitialized, ConfiguredSinksAreReady
<1> QED BY <1>1, <1>2, <1>3 DEF IInv

(* The teardown is over: nothing is held any more. *)
LEMMA LoggerDeinitDoneStep ==
  ASSUME IInv, NEW t \in Threads, LoggerDeinitDone(t)
  PROVE  IInv'
<1> USE DEF LoggerDeinitDone, At, Return, Between
<1>1. (TypeOK /\ LifecycleAlone)'
  BY DEF IInv, TypeOK, LifecycleAlone
<1>2. (InitPhase /\ RollbackPhase /\ DeinitPhase
      /\ HeldByInitConfig /\ LogPhase)'
  BY ConfigAssumption DEF IInv, TypeOK, LifecycleAlone, InitPhase, RollbackPhase, DeinitPhase,
     HeldByInitConfig, LogPhase,
         InitsAndDeinitsPairUp, NothingHeldWhenNotInitialized, ConfiguredSinksAreReady
<1>3. (InitsAndDeinitsPairUp /\ NothingHeldWhenNotInitialized
      /\ ConfiguredSinksAreReady)'
  BY DEF IInv, TypeOK, LifecycleAlone, InitPhase, RollbackPhase, DeinitPhase, HeldByInitConfig,
         InitsAndDeinitsPairUp, NothingHeldWhenNotInitialized, ConfiguredSinksAreReady
<1> QED BY <1>1, <1>2, <1>3 DEF IInv

(* The counter is decremented; at 0 the teardown begins with everything    *)
(* that is held still to visit.                                            *)
LEMMA LoggerDeinitDecrementStep ==
  ASSUME IInv, NEW t \in Threads, LoggerDeinitDecrement(t)
  PROVE  IInv'
<1>0. /\ \A u \in Threads : op[u] = "idle"
      /\ logger_state = "INITIALIZED"
      /\ UNCHANGED <<logger_state, log_sinks, symbolsState, registered, aborted, initConfig>>
  BY DEF LoggerDeinitDecrement, MayCallAlone
<1>1. /\ logger_init_count' = owed'
      /\ owed' \in 0 .. MaxInits
      /\ owed' \in 0 .. (CountModulus - 1)
  <2>1. logger_init_count = owed /\ owed \in 1 .. MaxInits
    BY <1>0 DEF IInv, TypeOK, InitsAndDeinitsPairUp
  <2>2. owed - 1 \in Nat /\ owed - 1 < CountModulus
    BY <2>1, CountAssumption
  <2>3. (owed - 1) % CountModulus = owed - 1
    BY <2>2, CountAssumption, SmallResidue
  <2> QED BY <2>1, <2>2, <2>3, CountAssumption DEF LoggerDeinitDecrement
<1>2. CASE logger_init_count' = 0
  <2>0. /\ Enter(t, "deinit")
        /\ leaky' = (leaky \/ log_sinks # initConfig)
        /\ UNCHANGED <<failedAt, arg, got>>
    BY <1>2 DEF LoggerDeinitDecrement
  <2> USE DEF Enter
  <2>1. (TypeOK /\ LifecycleAlone)'
    BY <1>0, <1>1, <1>2, <2>0 DEF IInv, TypeOK, LifecycleAlone
  <2>2. ~leaky' => registered' \subseteq Between(log_sinks, 0, Len(log_sinks))
    BY <1>0, <2>0 DEF IInv, TypeOK, HeldByInitConfig
  <2>3. \A u \in Threads : op'[u] = "deinit" => u = t
    BY <1>0, <2>0 DEF IInv, TypeOK
  <2>4. idx'[t] = 0 /\ Len(log_sinks) \in Nat
    BY <2>0, ConfigAssumption DEF IInv, TypeOK
  <2>5. DeinitPhase'
    BY <1>0, <1>1, <1>2, <2>2, <2>3, <2>4 DEF DeinitPhase
  <2>6. (InitPhase /\ RollbackPhase /\ HeldByInitConfig /\ LogPhase)'
    BY <1>0, <1>1, <1>2, <2>0 DEF IInv, TypeOK, InitPhase, RollbackPhase, HeldByInitConfig,
       LogPhase
  <2>7. (InitsAndDeinitsPairUp /\ NothingHeldWhenNotInitialized /\ ConfiguredSinksAreReady)'
    BY <1>0, <1>1, <1>2, <2>0 DEF IInv, TypeOK, InitsAndDeinitsPairUp,
       NothingHeldWhenNotInitialized, ConfiguredSinksAreReady
  <2> QED BY <2>1, <2>5, <2>6, <2>7 DEF IInv
<1>3. CASE logger_init_count' # 0
  <2>0. Return(t) /\ UNCHANGED leaky
    BY <1>3 DEF LoggerDeinitDecrement
  <2> USE DEF Return
  <2>1. (TypeOK /\ LifecycleAlone)'
    BY <1>0, <1>1, <1>3, <2>0 DEF IInv, TypeOK, LifecycleAlone
  <2>2. (InitPhase /\ RollbackPhase /\ DeinitPhase /\ HeldByInitConfig /\ LogPhase)'
    BY <1>0, <1>1, <1>3, <2>0 DEF IInv, TypeOK, InitPhase, RollbackPhase, DeinitPhase,
       HeldByInitConfig, LogPhase
  <2>3. (InitsAndDeinitsPairUp /\ NothingHeldWhenNotInitialized /\ ConfiguredSinksAreReady)'
    BY <1>0, <1>1, <1>3, <2>0 DEF IInv, TypeOK, InitsAndDeinitsPairUp,
       NothingHeldWhenNotInitialized, ConfiguredSinksAreReady
  <2> QED BY <2>1, <2>2, <2>3 DEF IInv
<1> QED BY <1>2, <1>3

(* One iteration of the teardown: the sink visited is released. *)
LEMMA LoggerDeinitSinkStep ==
  ASSUME IInv, NEW t \in Threads, LoggerDeinitSink(t)
  PROVE  IInv'
<1> USE DEF LoggerDeinitSink, At, Sink, SinkDeinit
<1>1. (TypeOK /\ LifecycleAlone)'
  BY DEF IInv, TypeOK, LifecycleAlone
<1>2. ~leaky' => registered' \subseteq Between(log_sinks, idx[t] + 1, Len(log_sinks))
  BY VisitShrinks, ConfigAssumption DEF IInv, TypeOK, DeinitPhase
<1>3. DeinitPhase'
  BY <1>2, ConfigAssumption DEF IInv, TypeOK, LifecycleAlone, DeinitPhase
<1>4. (InitPhase /\ RollbackPhase /\ HeldByInitConfig /\ LogPhase)'
  BY DEF IInv, TypeOK, LifecycleAlone, InitPhase, RollbackPhase, HeldByInitConfig, LogPhase
<1>5. (InitsAndDeinitsPairUp /\ NothingHeldWhenNotInitialized /\ ConfiguredSinksAreReady)'
  BY DEF InitsAndDeinitsPairUp, NothingHeldWhenNotInitialized, ConfiguredSinksAreReady
<1> QED BY <1>1, <1>3, <1>4, <1>5 DEF IInv

(* A new array: no log call is walking the old one. *)
LEMMA LoggerSetConfigStep ==
  ASSUME IInv, NEW t \in Threads, NEW c \in Configs, LoggerSetConfig(t, c)
  PROVE  IInv'
<1> USE DEF LoggerSetConfig, MayCallAlone, Return
<1>1. (TypeOK /\ LifecycleAlone)'
  BY DEF IInv, TypeOK, LifecycleAlone
<1>2. (InitPhase /\ RollbackPhase /\ DeinitPhase /\ HeldByInitConfig /\ LogPhase)'
  BY DEF IInv, TypeOK, InitPhase, RollbackPhase, DeinitPhase, HeldByInitConfig, LogPhase
<1>3. (InitsAndDeinitsPairUp /\ NothingHeldWhenNotInitialized)'
  BY DEF IInv, TypeOK, InitsAndDeinitsPairUp, NothingHeldWhenNotInitialized
<1>4. ConfiguredSinksAreReady'
  BY DEF IInv, TypeOK, HeldByInitConfig, ConfiguredSinksAreReady
<1> QED BY <1>1, <1>2, <1>3, <1>4 DEF IInv

-----------------------------------------------------------------------------
(* The steps of logger_log and logger_log_with_config *)

(* abort() leaves every other variable alone. *)
LEMMA LogAbortStep ==
  ASSUME IInv, NEW t \in Threads, LogAbort(t)
  PROVE  IInv'
<1> USE DEF LogAbort
<1>1. (TypeOK /\ LifecycleAlone)'
  BY DEF IInv, TypeOK, LifecycleAlone
<1>2. (InitPhase /\ RollbackPhase /\ DeinitPhase
      /\ HeldByInitConfig /\ LogPhase)'
  BY DEF IInv, TypeOK, LifecycleAlone, InitPhase, RollbackPhase, DeinitPhase, HeldByInitConfig,
     LogPhase,
         InitsAndDeinitsPairUp, NothingHeldWhenNotInitialized, ConfiguredSinksAreReady
<1>3. (InitsAndDeinitsPairUp /\ NothingHeldWhenNotInitialized
      /\ ConfiguredSinksAreReady)'
  BY DEF IInv, TypeOK, LifecycleAlone, InitPhase, RollbackPhase, DeinitPhase, HeldByInitConfig,
         InitsAndDeinitsPairUp, NothingHeldWhenNotInitialized, ConfiguredSinksAreReady
<1> QED BY <1>1, <1>2, <1>3 DEF IInv

(* A log call that returns forgets its locals. *)
LEMMA LogEndStep ==
  ASSUME IInv, NEW t \in Threads, LogEnd(t)
  PROVE  IInv'
<1> USE DEF LogEnd, Return, Walked
<1>1. (TypeOK /\ LifecycleAlone)'
  BY DEF IInv, TypeOK, LifecycleAlone
<1>2. (InitPhase /\ RollbackPhase /\ DeinitPhase
      /\ HeldByInitConfig /\ LogPhase)'
  BY DEF IInv, TypeOK, LifecycleAlone, InitPhase, RollbackPhase, DeinitPhase, HeldByInitConfig,
     LogPhase,
         InitsAndDeinitsPairUp, NothingHeldWhenNotInitialized, ConfiguredSinksAreReady
<1>3. (InitsAndDeinitsPairUp /\ NothingHeldWhenNotInitialized
      /\ ConfiguredSinksAreReady)'
  BY DEF IInv, TypeOK, LifecycleAlone, InitPhase, RollbackPhase, DeinitPhase, HeldByInitConfig,
         InitsAndDeinitsPairUp, NothingHeldWhenNotInitialized, ConfiguredSinksAreReady
<1> QED BY <1>1, <1>2, <1>3 DEF IInv

(* The refused call changes nothing. *)
LEMMA LoggerLogWithNullConfigStep ==
  ASSUME IInv, NEW t \in Threads, LoggerLogWithNullConfig(t)
  PROVE  IInv'
<1> USE DEF LoggerLogWithNullConfig, MayLog, Return
<1>1. (TypeOK /\ LifecycleAlone)'
  BY DEF IInv, TypeOK, LifecycleAlone
<1>2. (InitPhase /\ RollbackPhase /\ DeinitPhase
      /\ HeldByInitConfig /\ LogPhase)'
  BY DEF IInv, TypeOK, LifecycleAlone, InitPhase, RollbackPhase, DeinitPhase, HeldByInitConfig,
     LogPhase,
         InitsAndDeinitsPairUp, NothingHeldWhenNotInitialized, ConfiguredSinksAreReady
<1>3. (InitsAndDeinitsPairUp /\ NothingHeldWhenNotInitialized
      /\ ConfiguredSinksAreReady)'
  BY DEF IInv, TypeOK, LifecycleAlone, InitPhase, RollbackPhase, DeinitPhase, HeldByInitConfig,
         InitsAndDeinitsPairUp, NothingHeldWhenNotInitialized, ConfiguredSinksAreReady
<1> QED BY <1>1, <1>2, <1>3 DEF IInv

(* One more sink reached: what was delivered is a longer prefix. *)
LEMMA LogToSinkStep ==
  ASSUME IInv, NEW t \in Threads, LogToSink(t)
  PROVE  IInv'
<1> USE DEF LogToSink, Walked, Sink
<1>1. (TypeOK /\ LifecycleAlone)'
  BY ConfigAssumption, SMTT(30) DEF IInv, TypeOK, LifecycleAlone
<1>2. (InitPhase /\ RollbackPhase /\ DeinitPhase /\ HeldByInitConfig)'
  BY DEF IInv, TypeOK, InitPhase, RollbackPhase, DeinitPhase, HeldByInitConfig
<1>3. LogPhase'
  <2>1. LET w == Walked(t)
        IN  w = arg[t] /\ w \in Seq(Sinks) /\ idx[t] \in Nat /\ idx[t] < Len(w)
    BY DEF IInv, TypeOK, LogPhase
  <2>2. got'[t] = Append(got[t], arg[t][idx[t] + 1]) /\ idx'[t] = idx[t] + 1
    BY <2>1 DEF IInv, TypeOK
  <2>3. /\ got[t] \in Seq(Sinks) /\ Len(got[t]) = idx[t]
        /\ \A k \in 1 .. idx[t] : got[t][k] = arg[t][k]
    BY DEF IInv, TypeOK, LogPhase
  <2>4. Len(got'[t]) = idx'[t] /\ \A k \in 1 .. idx'[t] : got'[t][k] = arg[t][k]
    BY <2>1, <2>2, <2>3
  <2>5. \A u \in Threads \ {t} : got'[u] = got[u] /\ idx'[u] = idx[u]
    BY DEF IInv, TypeOK
  <2> QED BY <2>1, <2>2, <2>4, <2>5, SMTT(30) DEF IInv, TypeOK, LogPhase
<1>4. (InitsAndDeinitsPairUp /\ NothingHeldWhenNotInitialized
      /\ ConfiguredSinksAreReady)'
  BY DEF IInv, TypeOK, LifecycleAlone, InitsAndDeinitsPairUp, NothingHeldWhenNotInitialized,
     ConfiguredSinksAreReady
<1> QED BY <1>1, <1>2, <1>3, <1>4 DEF IInv

(* A log call begins: nothing was delivered yet. *)
LEMMA LogBeginStep ==
  ASSUME IInv, NEW t \in Threads, NEW sinks \in Configs, NEW call \in Logging,
         call = "log" => sinks = log_sinks, LogBegin(t, call, sinks)
  PROVE  IInv'
<1> USE DEF LogBegin, MayLog, Enter
<1>1. (TypeOK /\ LifecycleAlone)'
  BY ConfigAssumption, SMTT(30) DEF IInv, TypeOK, LifecycleAlone
<1>2. (InitPhase /\ RollbackPhase /\ DeinitPhase
      /\ HeldByInitConfig /\ LogPhase)'
  BY ConfigAssumption, SMTT(30) DEF IInv, TypeOK, LifecycleAlone, InitPhase, RollbackPhase, DeinitPhase,
     HeldByInitConfig, LogPhase,
         InitsAndDeinitsPairUp, NothingHeldWhenNotInitialized, ConfiguredSinksAreReady
<1>3. (InitsAndDeinitsPairUp /\ NothingHeldWhenNotInitialized
      /\ ConfiguredSinksAreReady)'
  BY DEF IInv, TypeOK, LifecycleAlone, InitPhase, RollbackPhase, DeinitPhase, HeldByInitConfig,
         InitsAndDeinitsPairUp, NothingHeldWhenNotInitialized, ConfiguredSinksAreReady
<1> QED BY <1>1, <1>2, <1>3 DEF IInv

-----------------------------------------------------------------------------
(* The theorems *)

(* The initial state: nothing is held and no call is under way. *)
LEMMA InitEstablishes == Init => IInv
<1> SUFFICES ASSUME Init PROVE IInv
  OBVIOUS
<1>1. TypeOK
  <2>1. <<>> \in Seq(Sinks)
    OBVIOUS
  <2>2. arg \in [Threads -> Seq(Sinks)] /\ got \in [Threads -> Seq(Sinks)]
          /\ initConfig \in Seq(Sinks)
    BY <2>1, Zenon DEF Init
  <2>3. op \in [Threads -> Ops] /\ idx \in [Threads -> Nat] /\ failedAt \in [Threads -> Nat]
    BY DEF Init
  <2>4. logger_init_count \in 0 .. (CountModulus - 1) /\ owed \in 0 .. MaxInits
    BY CountAssumption DEF Init
  <2>5. log_sinks \in Configs /\ registered \subseteq Registering
    BY ConfigAssumption DEF Init
  <2> QED BY <2>2, <2>3, <2>4, <2>5 DEF Init, TypeOK
<1>2. LifecycleAlone /\ InitPhase /\ RollbackPhase /\ DeinitPhase /\ HeldByInitConfig /\ LogPhase
  BY DEF Init, LifecycleAlone, InitPhase, RollbackPhase, DeinitPhase, HeldByInitConfig, LogPhase
<1>3. InitsAndDeinitsPairUp /\ NothingHeldWhenNotInitialized /\ ConfiguredSinksAreReady
  BY DEF Init, InitsAndDeinitsPairUp, NothingHeldWhenNotInitialized, ConfiguredSinksAreReady
<1> QED BY <1>1, <1>2, <1>3 DEF IInv

(* IInv depends on the variables alone. *)
LEMMA StutterPreserves == IInv /\ UNCHANGED vars => IInv'
BY DEF vars, IInv, TypeOK, LifecycleAlone, InitPhase, RollbackPhase, DeinitPhase,
       HeldByInitConfig, LogPhase, InitsAndDeinitsPairUp,
       NothingHeldWhenNotInitialized, ConfiguredSinksAreReady

(* Every step of every thread preserves IInv: one lemma above for each action. *)
LEMMA NextPreserves == IInv /\ [Next]_vars => IInv'
<1> SUFFICES ASSUME IInv, [Next]_vars PROVE IInv'
  OBVIOUS
<1>1. ASSUME NEW t \in Threads, Call(t) PROVE IInv'
  <2>1. CASE LoggerLog(t)
    BY <2>1, LogBeginStep DEF LoggerLog, IInv, TypeOK
  <2>2. CASE \E c \in Configs : LoggerLogWithConfig(t, c)
    BY <2>2, LogBeginStep DEF LoggerLogWithConfig
  <2> QED BY <1>1, <2>1, <2>2, LoggerInitAgainStep, LoggerInitStackFailsStep,
             LoggerInitBeginStep, LoggerDeinitNotInitializedStep,
             LoggerDeinitDecrementStep, LogAbortStep,
             LoggerLogWithNullConfigStep, LoggerSetConfigStep DEF Call
<1>2. ASSUME NEW t \in Threads, Continue(t) PROVE IInv'
  BY <1>2, LoggerInitSinkStep, LoggerInitDoneStep, LoggerInitRollbackStep,
     LoggerInitFailedStep, LoggerDeinitSinkStep, LoggerDeinitDoneStep,
     LogToSinkStep, LogEndStep DEF Continue
<1>3. CASE UNCHANGED vars
  BY <1>3, StutterPreserves
<1> QED BY <1>1, <1>2, <1>3 DEF Next, ProcessEnded

(* The strengthened invariant holds in every reachable state of the logger. *)
THEOREM Invariance == Spec => []IInv
BY InitEstablishes, NextPreserves, PTL DEF Spec

(* logger_init_count, the state, the array and every local of a call stay  *)
(* within their types; in particular the uint32_t counter never wraps as   *)
(* long as fewer than CountModulus references are held.                    *)
THEOREM TypeCorrect == Spec => []TypeOK
BY Invariance, PTL DEF IInv

(* Successful logger_init calls and logger_deinit calls pair up. *)
THEOREM PairUp == Spec => []InitsAndDeinitsPairUp
BY Invariance, PTL DEF IInv

(* The rollback of a failed logger_init and the teardown of the last       *)
(* logger_deinit leave nothing held, whichever sink failed and whatever    *)
(* arrays were configured.                                                 *)
THEOREM NothingHeld == Spec => []NothingHeldWhenNotInitialized
BY Invariance, PTL DEF IInv

(* The sinks logger_log reaches are initialised. *)
THEOREM SinksReady == Spec => []ConfiguredSinksAreReady
BY Invariance, PTL DEF IInv

(* A log call that returns has delivered to every sink of its array, once  *)
(* each and in order.                                                      *)
THEOREM LoggedOnce == Spec => EverySinkLoggedOnce
<1> DEFINE Delivered == \A t \in Threads :
                          op[t] \in Logging /\ op'[t] = "idle" => got[t] = arg[t]
<1>1. ASSUME IInv, Next, NEW t \in Threads, op[t] \in Logging, op'[t] = "idle"
      PROVE  got[t] = arg[t]
  <2>1. LogEnd(t)
    <3>1. ~ Call(t)
      BY <1>1 DEF Call, LoggerInitAgain, LoggerInitStackFails, LoggerInitBegin,
                  LoggerDeinitNotInitialized, LoggerDeinitDecrement, LoggerLog, LogAbort,
                  LoggerLogWithNullConfig, LoggerSetConfig, LoggerLogWithConfig, LogBegin,
                  MayCallAlone, MayLog
    <3>2. ~ ProcessEnded
      BY <1>1 DEF ProcessEnded, vars
    <3>3. Continue(t) => LogEnd(t)
      BY <1>1 DEF Continue, LoggerInitSink, LoggerInitDone, LoggerInitRollback,
                  LoggerInitFailed, LoggerDeinitSink, LoggerDeinitDone, LogToSink, At
    <3>4. ASSUME NEW u \in Threads, u # t PROVE ~ Call(u) /\ ~ Continue(u)
      BY <1>1, <3>4
         DEF IInv, TypeOK, Call, LoggerInitAgain, LoggerInitStackFails, LoggerInitBegin,
             LoggerDeinitNotInitialized, LoggerDeinitDecrement, LoggerLog, LogAbort,
             LoggerLogWithNullConfig, LoggerSetConfig, LoggerLogWithConfig, LogBegin,
             MayCallAlone, MayLog, Continue, LoggerInitSink, LoggerInitDone,
             LoggerInitRollback, LoggerInitFailed, LoggerDeinitSink, LoggerDeinitDone,
             LogToSink, LogEnd, At, Enter, Return
    <3> QED BY <1>1, <3>1, <3>2, <3>3, <3>4 DEF Next
  <2>2. Len(got[t]) = Len(arg[t]) /\ \A k \in 1 .. Len(arg[t]) : got[t][k] = arg[t][k]
    BY <1>1, <2>1 DEF LogEnd, Walked, IInv, TypeOK, LogPhase
  <2> QED BY <1>1, <2>2, SMTT(30) DEF IInv, TypeOK
<1>2. IInv /\ [Next]_vars => [Delivered]_vars
  BY <1>1
<1> QED BY <1>2, Invariance, PTL DEF Spec, EverySinkLoggedOnce

(* The logger implements the reference-counted service of LoggerLifecycle: *)
(* every step of an init, a rollback, a teardown or a log loop is a step   *)
(* of the service or leaves it alone.                                      *)
THEOREM Refinement == Spec => ImplementsLifecycle
<1>1. Init => Abstract!Init
  BY DEF Init, Abstract!Init, References, Emitting
<1>2. ASSUME IInv, [Next]_vars
      PROVE  [Abstract!Next]_(Abstract!lifecycleVars)
  <2> DEFINE AbstractStep == [Abstract!Next]_(Abstract!lifecycleVars)
             Stays == References' = References /\ Emitting' = Emitting /\ aborted' = aborted
  <2>1. Stays => AbstractStep
    BY DEF Abstract!lifecycleVars
  <2>2. ASSUME NEW t \in Threads, Call(t) PROVE AbstractStep
    <3>1. CASE LoggerInitAgain(t)
      <4>1. IInv'
        BY <3>1, <1>2, LoggerInitAgainStep
      <4>2. References' = References + 1 /\ References < MaxInits
        BY <3>1, <4>1, <1>2 DEF LoggerInitAgain, MayCallAlone, Return, References,
             IInv, TypeOK, InitsAndDeinitsPairUp
      <4>3. Emitting = {} /\ Emitting' = {} /\ ~aborted /\ aborted' = aborted
        BY <3>1, <1>2 DEF LoggerInitAgain, MayCallAlone, Return, Emitting, IInv, TypeOK
      <4> QED BY <4>2, <4>3 DEF Abstract!Next, Abstract!Acquire
    <3>2. CASE LoggerDeinitDecrement(t)
      <4>1. IInv'
        BY <3>2, <1>2, LoggerDeinitDecrementStep
      <4>2. References' = References - 1 /\ References > 0
        BY <3>2, <4>1, <1>2 DEF LoggerDeinitDecrement, MayCallAlone, Return, Enter, References,
             IInv, TypeOK, InitsAndDeinitsPairUp, DeinitPhase
      <4>3. Emitting = {} /\ Emitting' = {} /\ ~aborted /\ aborted' = aborted
        BY <3>2, <1>2 DEF LoggerDeinitDecrement, MayCallAlone, Return, Enter, Emitting,
             IInv, TypeOK
      <4> QED BY <4>2, <4>3 DEF Abstract!Next, Abstract!Release
    <3>3. CASE LogAbort(t)
      <4>1. References = 0 /\ References' = References /\ Emitting' = Emitting
        BY <3>3, <1>2 DEF LogAbort, References, Emitting, IInv, TypeOK
      <4> QED BY <3>3, <4>1 DEF LogAbort, MayLog, Abstract!Next, Abstract!EmitUnreferenced
    <3>4. CASE LoggerLog(t) \/ \E c \in Configs : LoggerLogWithConfig(t, c)
      <4>1. PICK call \in Logging, sinks \in Configs : LogBegin(t, call, sinks)
        BY <3>4, <1>2 DEF LoggerLog, LoggerLogWithConfig, IInv, TypeOK
      <4>2. References > 0 /\ References' = References /\ ~aborted /\ aborted' = aborted
        BY <4>1, <1>2 DEF LogBegin, MayLog, References, IInv, TypeOK, InitsAndDeinitsPairUp
      <4>3. t \notin Emitting /\ Emitting' = Emitting \cup {t}
        BY <4>1, <1>2 DEF LogBegin, MayLog, Enter, Emitting, IInv, TypeOK
      <4> QED BY <4>2, <4>3 DEF Abstract!Next, Abstract!BeginEmit
    <3>5. CASE \/ LoggerInitStackFails(t)
               \/ LoggerInitBegin(t)
               \/ LoggerDeinitNotInitialized(t)
               \/ LoggerLogWithNullConfig(t)
               \/ \E c \in Configs : LoggerSetConfig(t, c)
      <4>1. Stays
        BY <3>5, <1>2
           DEF LoggerInitStackFails, LoggerInitBegin, LoggerDeinitNotInitialized,
               LoggerLogWithNullConfig, LoggerSetConfig, MayCallAlone, MayLog, Return, Enter,
               References, Emitting, IInv, TypeOK
      <4> QED BY <2>1, <4>1
    <3> QED BY <2>2, <3>1, <3>2, <3>3, <3>4, <3>5 DEF Call
  <2>3. ASSUME NEW t \in Threads, Continue(t) PROVE AbstractStep
    <3>1. CASE LoggerInitDone(t)
      <4>1. References = 0 /\ References' = 1 /\ ~aborted /\ aborted' = aborted
        BY <3>1, <1>2 DEF LoggerInitDone, At, References, IInv, InitPhase
      <4>2. Emitting = {} /\ Emitting' = {}
        BY <3>1, <1>2 DEF LoggerInitDone, At, Return, Emitting, IInv, TypeOK, LifecycleAlone
      <4> QED BY <4>1, <4>2, CountAssumption DEF Abstract!Next, Abstract!Acquire
    <3>2. CASE LogEnd(t)
      <4>1. t \in Emitting /\ Emitting' = Emitting \ {t}
        BY <3>2, <1>2 DEF LogEnd, Return, Emitting, IInv, TypeOK
      <4>2. References' = References /\ ~aborted /\ aborted' = aborted
        BY <3>2 DEF LogEnd, References
      <4> QED BY <4>1, <4>2 DEF Abstract!Next, Abstract!EndEmit
    <3>3. CASE LoggerDeinitDone(t)
      <4>1. Stays
        BY <3>3, <1>2 DEF LoggerDeinitDone, At, Return, References, Emitting,
             IInv, TypeOK, DeinitPhase
      <4> QED BY <2>1, <4>1
    <3>4. CASE \/ LoggerInitSink(t)
               \/ LoggerInitRollback(t)
               \/ LoggerInitFailed(t)
               \/ LoggerDeinitSink(t)
               \/ LogToSink(t)
      <4>1. Stays
        BY <3>4, <1>2
           DEF LoggerInitSink, LoggerInitRollback, LoggerInitFailed, LoggerDeinitSink, LogToSink,
               At, Return, Enter, References, Emitting, IInv, TypeOK
      <4> QED BY <2>1, <4>1
    <3> QED BY <2>3, <3>1, <3>2, <3>3, <3>4 DEF Continue
  <2>4. CASE UNCHANGED vars
    BY <2>1, <2>4 DEF vars, References, Emitting
  <2> QED BY <1>2, <2>2, <2>3, <2>4 DEF Next, ProcessEnded
<1> QED BY <1>1, <1>2, Invariance, PTL DEF Spec, ImplementsLifecycle, Abstract!Spec
=============================================================================

-------------------------- MODULE ThreadStackProofs --------------------------
(***************************************************************************)
(* Proofs about ThreadStack, for any threads, any modules found by a       *)
(* refresh, any number of calls and any highest address: the symbol        *)
(* handler is used by one thread at a time and is there when it is used,   *)
(* every suspension is undone and every handle closed, the search path     *)
(* holds the directory of every module when there is room for them, and    *)
(* the mask of return addresses strips exactly the bits no address has.    *)
(***************************************************************************)
EXTENDS ThreadStack, FiniteSetTheorems, WellFoundedInduction, TLAPS

-----------------------------------------------------------------------------
(* The mask *)

(* What a shift and an or add to a word. *)
LEMMA SmearMember ==
  ASSUME NEW w \in Word, NEW n \in Nat, NEW b \in 0 .. 63
  PROVE  b \in Smear(w, n) <=> b \in w \/ b + n \in w
BY DEF Smear, Word

(* They stay within 64 bits. *)
LEMMA SmearWord ==
  ASSUME NEW w \in Word, NEW n \in Nat
  PROVE  Smear(w, n) \in Word
<1>1. w \subseteq 0 .. 63
  BY DEF Word
<1>2. \A b \in w : b >= n => b - n \in 0 .. 63
  BY <1>1
<1>3. \A b \in Smear(w, n) : b \in 0 .. 63
  BY <1>1, <1>2 DEF Smear
<1> QED
  BY <1>3 DEF Word

(* w holds the bits of v and those less than reach positions below. *)
Filled(v, w, reach) ==
  \A b \in 0 .. 63 : b \in w <=> \E d \in 0 .. reach - 1 : b + d \in v

(* Every shift of get_thread_stack_init doubles the reach of the last. *)
LEMMA SmearFills ==
  ASSUME NEW v \in Word, NEW w \in Word, NEW n \in Nat \ {0}, Filled(v, w, n)
  PROVE  Filled(v, Smear(w, n), 2 * n)
<1>1. SUFFICES ASSUME NEW b \in 0 .. 63
               PROVE  b \in Smear(w, n) <=> \E d \in 0 .. 2 * n - 1 : b + d \in v
  BY DEF Filled
<1>2. b \in Smear(w, n) <=> b \in w \/ b + n \in w
  BY SmearMember
<1>3. b \in w <=> \E d \in 0 .. n - 1 : b + d \in v
  BY DEF Filled
<1>4. b + n \in w <=> \E d \in n .. 2 * n - 1 : b + d \in v
  <2>1. ASSUME b + n \in w
        PROVE  \E d \in n .. 2 * n - 1 : b + d \in v
    <3>1. b + n \in 0 .. 63
      BY <2>1 DEF Word
    <3>2. PICK d \in 0 .. n - 1 : b + n + d \in v
      BY <2>1, <3>1 DEF Filled
    <3>3. n + d \in n .. 2 * n - 1 /\ b + (n + d) = b + n + d
      OBVIOUS
    <3> QED
      BY <3>2, <3>3
  <2>2. ASSUME NEW d \in n .. 2 * n - 1, b + d \in v
        PROVE  b + n \in w
    <3>1. b + n \in 0 .. 63
      BY <2>2 DEF Word
    <3>2. d - n \in 0 .. n - 1 /\ b + n + (d - n) = b + d
      OBVIOUS
    <3> QED
      BY <2>2, <3>1, <3>2 DEF Filled
  <2> QED
    BY <2>1, <2>2
<1>5. \A d : d \in 0 .. 2 * n - 1 <=> d \in 0 .. n - 1 \/ d \in n .. 2 * n - 1
  OBVIOUS
<1> QED
  BY <1>2, <1>3, <1>4, <1>5

(* A word other than 0 has a most significant bit. *)
LEMMA MostSignificant ==
  ASSUME NEW w \in Word, w # {}
  PROVE  Max(w) \in w /\ \A b \in w : b <= Max(w)
<1>1. w \subseteq 0 .. 63
  BY DEF Word
<1> DEFINE T == {63 - b : b \in w}
           R == OpToRel(<, Nat)
<1>2. T \subseteq Nat /\ T # {}
  BY <1>1
<1>3. PICK x \in T : \A y \in T : ~(<<y, x>> \in R)
  <2> HIDE DEF T
  <2> QED
    BY <1>2, WFMin, NatLessThanWellFounded
<1>4. \A y \in T : x <= y
  <2>1. \A k, m \in Nat : k < m => <<k, m>> \in R
    BY DEF OpToRel
  <2> HIDE DEF T, R
  <2>2. \A y \in T : ~(y < x)
    BY <1>2, <1>3, <2>1, Zenon
  <2> QED
    BY <1>2, <2>2
<1>5. PICK m \in w : x = 63 - m
  BY <1>3
<1>6. \A b \in w : m >= b
  <2>1. \A b \in w : 63 - m <= 63 - b
    BY <1>4, <1>5
  <2> QED
    BY <1>1, <2>1
<1>7. \E a \in w : \A b \in w : a >= b
  BY <1>6
<1>8. Max(w) \in w /\ \A b \in w : Max(w) >= b
  BY <1>7 DEF Max
<1> QED
  BY <1>1, <1>8

(* The six shifts fill a word, whatever its gaps, from its most            *)
(* significant bit down, and add nothing above.                            *)
THEOREM FillFromTheTop ==
  ASSUME NEW w \in Word, w # {}
  PROVE  Fill(w) = 0 .. Max(w)
<1> DEFINE w1 == Smear(w, 1)
           w2 == Smear(w1, 2)
           w3 == Smear(w2, 4)
           w4 == Smear(w3, 8)
           w5 == Smear(w4, 16)
           w6 == Smear(w5, 32)
<1>1. Filled(w, w, 1)
  BY DEF Filled
<1>2. w1 \in Word /\ Filled(w, w1, 2)
  BY <1>1, SmearWord, SmearFills
<1>3. w2 \in Word /\ Filled(w, w2, 4)
  <2> HIDE DEF w1
  <2> QED BY <1>2, SmearWord, SmearFills
<1>4. w3 \in Word /\ Filled(w, w3, 8)
  <2> HIDE DEF w2
  <2> QED BY <1>3, SmearWord, SmearFills
<1>5. w4 \in Word /\ Filled(w, w4, 16)
  <2> HIDE DEF w3
  <2> QED BY <1>4, SmearWord, SmearFills
<1>6. w5 \in Word /\ Filled(w, w5, 32)
  <2> HIDE DEF w4
  <2> QED BY <1>5, SmearWord, SmearFills
<1>7. w6 \in Word /\ Filled(w, w6, 64)
  <2> HIDE DEF w5
  <2> QED BY <1>6, SmearWord, SmearFills
<1>8. Fill(w) = w6
  BY DEF Fill
<1> HIDE DEF w6
<1>9. Max(w) \in 0 .. 63 /\ Max(w) \in w /\ \A b \in w : b <= Max(w)
  BY MostSignificant DEF Word
<1>10. ASSUME NEW b \in 0 .. 63, b \in w6
       PROVE  b <= Max(w)
  <2>1. PICK d \in 0 .. 63 : b + d \in w
    BY <1>7, <1>10 DEF Filled
  <2> QED
    BY <1>9, <2>1
<1>11. ASSUME NEW b \in 0 .. Max(w)
       PROVE  b \in w6
  <2>1. Max(w) - b \in 0 .. 63 /\ b \in 0 .. 63 /\ b + (Max(w) - b) \in w
    BY <1>9
  <2> QED
    BY <1>7, <2>1 DEF Filled
<1>12. w6 \subseteq 0 .. 63
  BY <1>7 DEF Word
<1>13. w6 \subseteq 0 .. Max(w)
  BY <1>9, <1>10, <1>12
<1>14. 0 .. Max(w) \subseteq w6
  BY <1>11
<1> QED
  BY <1>8, <1>13, <1>14

-----------------------------------------------------------------------------
(* The symbol handler *)

Locked == Refreshing \cup {"walk"}

(* The lock is held by whoever uses dbghelp, calls are under way only      *)
(* while the module is initialised, and then there is a process handle,    *)
(* the mask is filled, and there is a symbol handler but for a refresh     *)
(* that has closed it or failed to open the new one.                       *)
StackInv ==
  /\ symbolsState \in {"NOT_INITIALIZED", "INITIALIZED"}
  /\ lock \in Threads \cup {NoThread}
  /\ pc \in [Threads -> Places]
  /\ \A t \in Threads : pc[t] \in Locked <=> lock = t
  /\ symbolsState = "INITIALIZED" =>
       /\ processHandle
       /\ addressMask = Fill(MaxAddress)
       /\ \/ handler = "open"
          \/ refreshFailed
          \/ \E t \in Threads : pc[t] = "initialize"
  /\ symbolsState = "NOT_INITIALIZED" => \A t \in Threads : pc[t] = "idle"

LEMMA StackInit == Init => StackInv
BY ThreadAssumption DEF Init, StackInv, Places, Locked, Refreshing

(* get_thread_stack_init and get_thread_stack_deinit, called alone *)
LEMMA AloneStep ==
  ASSUME StackInv, InitOk \/ InitFails \/ Deinit
  PROVE  StackInv'
<1>1. CASE InitOk
  BY <1>1 DEF StackInv, InitOk, Alone, Locked, Refreshing
<1>2. CASE InitFails
  BY <1>2 DEF StackInv, InitFails, vars, g
<1>3. CASE Deinit
  BY <1>3 DEF StackInv, Deinit, Alone, Locked, Refreshing
<1> QED
  BY <1>1, <1>2, <1>3

(* A step that leaves the state of the module alone and does not move into *)
(* or out of the places where the lock is held.                            *)
LEMMA OutsideStep ==
  ASSUME StackInv, NEW t \in Threads, UNCHANGED g,
         NEW where \in Places \ Locked, pc[t] \notin Locked,
         symbolsState = "INITIALIZED" \/ where = "idle",
         pc' = [pc EXCEPT ![t] = where]
  PROVE  StackInv'
<1>1. "initialize" \in Locked
  BY DEF Locked, Refreshing
<1> QED
  BY <1>1 DEF StackInv, g

(* A step of a refresh or a walk that keeps the lock and the handler. *)
LEMMA InsideStep ==
  ASSUME StackInv, NEW t \in Threads,
         UNCHANGED <<symbolsState, processHandle, handler, lock, addressMask, refreshFailed>>,
         NEW where \in Locked \cap Places, pc[t] \in Locked, pc[t] # "initialize",
         pc' = [pc EXCEPT ![t] = where]
  PROVE  StackInv'
<1>1. "idle" \notin Locked
  BY DEF Locked, Refreshing
<1> QED
  BY <1>1 DEF StackInv

LEMMA NextStep == ASSUME StackInv, [Next]_vars PROVE StackInv'
<1> USE DEF At, Goto
<1>1. CASE InitOk \/ InitFails \/ Deinit
  BY <1>1, AloneStep
<1>2. ASSUME NEW t \in Threads, RefreshCall(t) \/ \E u \in Observed \cup {t} : StackCall(t, u)
      PROVE  StackInv'
  <2>1. "idle" \in Places \ Locked /\ "lock_refresh" \in Places \ Locked /\ "open" \in Places \ Locked
    BY DEF Places, Locked, Refreshing
  <2>2. UNCHANGED g /\ pc[t] = "idle"
    BY <1>2 DEF RefreshCall, StackCall, Counted
  <2>3. \E where \in Places \ Locked :
          /\ symbolsState = "INITIALIZED" \/ where = "idle"
          /\ pc' = [pc EXCEPT ![t] = where]
    BY <1>2, <2>1 DEF RefreshCall, StackCall
  <2> QED
    BY <2>1, <2>2, <2>3, OutsideStep
<1>3. ASSUME NEW t \in Threads, Acquire(t)
      PROVE  StackInv'
  BY <1>3, ThreadAssumption DEF Acquire, StackInv, Locked, Refreshing, Places
<1>4. ASSUME NEW t \in Threads, SnapshotFails(t) \/ TakeSnapshot(t) \/ ScanDone(t)
      PROVE  StackInv'
  <2>1. {"release", "scan", "cleanup"} \subseteq Locked \cap Places
    BY DEF Places, Locked, Refreshing
  <2>2. /\ pc[t] \in Locked /\ pc[t] # "initialize"
        /\ UNCHANGED <<symbolsState, processHandle, handler, lock, addressMask, refreshFailed>>
    BY <1>4 DEF SnapshotFails, TakeSnapshot, ScanDone, g, Locked, Refreshing
  <2>3. \E where \in Locked \cap Places : pc' = [pc EXCEPT ![t] = where]
    BY <1>4, <2>1 DEF SnapshotFails, TakeSnapshot, ScanDone
  <2> QED
    BY <2>2, <2>3, InsideStep
<1>5. ASSUME NEW t \in Threads, ScanModule(t)
      PROVE  StackInv'
  BY <1>5 DEF ScanModule, StackInv
<1>6. ASSUME NEW t \in Threads, SymCleanup(t)
      PROVE  StackInv'
  BY <1>6 DEF SymCleanup, StackInv, Locked, Refreshing, Places
<1>7. ASSUME NEW t \in Threads, SymInitialize(t)
      PROVE  StackInv'
  BY <1>7 DEF SymInitialize, StackInv, Locked, Refreshing, Places
<1>8. ASSUME NEW t \in Threads, Release(t)
      PROVE  StackInv'
  BY <1>8, ThreadAssumption DEF Release, StackInv, Locked, Refreshing, Places
<1>9. ASSUME NEW t \in Threads,
             \/ OpenThread(t) \/ SuspendThread(t) \/ GetThreadContext(t)
             \/ ResumeThread(t) \/ CloseHandle(t)
      PROVE  StackInv'
  <2>1. {"idle", "lock_walk", "suspend", "close", "context", "resume"} \subseteq Places \ Locked
    BY DEF Places, Locked, Refreshing
  <2>2. /\ UNCHANGED g
        /\ pc[t] \in {"open", "suspend", "context", "resume", "close"}
        /\ \E where \in {"idle", "lock_walk", "suspend", "close", "context", "resume"} :
             pc' = [pc EXCEPT ![t] = where]
    BY <1>9 DEF OpenThread, SuspendThread, GetThreadContext, ResumeThread, CloseHandle
  <2>3. pc[t] \notin Locked
    BY <2>2 DEF Locked, Refreshing
  <2>4. symbolsState = "INITIALIZED"
    BY <2>2 DEF StackInv
  <2> QED
    BY <2>1, <2>2, <2>3, <2>4, OutsideStep
<1>10. ASSUME NEW t \in Threads, Walk(t)
       PROVE  StackInv'
  BY <1>10, ThreadAssumption DEF Walk, StackInv, Locked, Refreshing, Places
<1>11. CASE UNCHANGED vars
  BY <1>11 DEF vars, g, StackInv
<1> QED
  BY <1>1, <1>2, <1>3, <1>4, <1>5, <1>6, <1>7, <1>8, <1>9, <1>10, <1>11 DEF Next, Continue

(* The discipline of the lock and the handler of get_thread_stack.c holds  *)
(* throughout.                                                             *)
THEOREM StackInvariance == Spec => []StackInv
<1>1. Init => StackInv
  BY StackInit
<1>2. StackInv /\ [Next]_vars => StackInv'
  BY NextStep
<1> QED
  BY <1>1, <1>2, PTL DEF Spec

(* No two threads call dbghelp at a time, walking a stack or replacing the *)
(* symbol handler, nor any without a process handle.                       *)
THEOREM Serialized == Spec => []SymCallsSerialized
<1>1. StackInv => SymCallsSerialized
  <2> SUFFICES ASSUME StackInv, NEW t \in Threads, pc[t] \in Locked
               PROVE  /\ processHandle
                      /\ \A u \in Threads \ {t} : pc[u] \notin Locked
    BY DEF SymCallsSerialized, Locked
  <2>1. pc[t] # "idle"
    BY DEF Locked, Refreshing
  <2> QED
    BY <2>1 DEF StackInv
<1> QED
  BY <1>1, StackInvariance, PTL

(* A stack is never walked between SymCleanup and SymInitialize of a       *)
(* refresh: without a symbol handler only after one that failed.           *)
THEOREM HandlerThere == Spec => []WalkHasHandler
<1>1. StackInv => WalkHasHandler
  <2> SUFFICES ASSUME StackInv, NEW t \in Threads, pc[t] = "walk"
               PROVE  handler = "open" \/ refreshFailed
    BY DEF WalkHasHandler
  <2>1. symbolsState = "INITIALIZED" /\ lock = t
    BY DEF StackInv, Locked
  <2>2. ASSUME NEW u \in Threads, pc[u] = "initialize" PROVE FALSE
    BY <2>1, <2>2 DEF StackInv, Locked, Refreshing
  <2> QED
    BY <2>1, <2>2 DEF StackInv
<1> QED
  BY <1>1, StackInvariance, PTL

(* Whatever the highest address, strip_pac keeps the bits up to its most   *)
(* significant one and clears all the others.                              *)
THEOREM MaskStrips == Spec => []MaskStripsSignature
<1>1. StackInv => MaskStripsSignature
  <2> SUFFICES ASSUME StackInv, symbolsState = "INITIALIZED"
               PROVE  StripPac(AllOnes, addressMask) = 0 .. Max(MaxAddress)
    BY DEF MaskStripsSignature
  <2>1. addressMask = Fill(MaxAddress)
    BY DEF StackInv
  <2>2. MaxAddress \in Word /\ MaxAddress # {}
    BY ThreadAssumption
  <2>3. Fill(MaxAddress) = 0 .. Max(MaxAddress)
    BY <2>2, FillFromTheTop
  <2>4. Max(MaxAddress) \in 0 .. 63
    BY <2>2, MostSignificant DEF Word
  <2>5. 0 .. Max(MaxAddress) \subseteq 0 .. 63
    BY <2>4
  <2> QED
    BY <2>1, <2>3, <2>5 DEF StripPac, AllOnes
<1> QED
  BY <1>1, StackInvariance, PTL
-----------------------------------------------------------------------------
(* Suspensions and handles *)

(* Where a call holds another thread suspended, and where it has a handle  *)
(* open.                                                                   *)
Holding == {"context", "lock_walk", "walk", "resume"}
Using == Holding \cup {"scan", "suspend", "close"}

(* The captures of u under way, and the calls with an open handle, when    *)
(* the threads are at the places p and have the targets of.                *)
Holders(p, of, u) == {t \in Threads : of[t] = u /\ t # u /\ p[t] \in Holding}
Users(p) == {t \in Threads : p[t] \in Using}

(* TypeOK of the suspensions and handles, which the counts below need; a   *)
(* thread that suspends its target is not that target.                     *)
CountType ==
  /\ pc \in [Threads -> Places]
  /\ target \in [Threads -> Threads]
  /\ suspended \in [Threads -> Nat]
  /\ handles \in Nat
  /\ leaked \in [handles : Nat, suspensions : [Threads -> Nat]]
  /\ \A t \in Threads : pc[t] \in {"suspend", "context", "resume"} => target[t] # t

(* Every suspension and every handle has an owner or was given up. *)
Counts(p, of, s, h, l) ==
  /\ \A u \in Threads : s[u] = Cardinality(Holders(p, of, u)) + l.suspensions[u]
  /\ h = Cardinality(Users(p)) + l.handles

CountInv == CountType /\ Counts(pc, target, suspended, handles, leaked)

(* One thread enters or leaves a set. *)
LEMMA OneMember ==
  ASSUME NEW S \in SUBSET Threads, NEW T \in SUBSET Threads, NEW t \in Threads,
         \A s \in Threads \ {t} : s \in S <=> s \in T
  PROVE  /\ Cardinality(S) \in Nat /\ Cardinality(T) \in Nat
         /\ (t \in S <=> t \in T) => Cardinality(T) = Cardinality(S)
         /\ t \notin S /\ t \in T => Cardinality(T) = Cardinality(S) + 1
         /\ t \in S /\ t \notin T => Cardinality(S) = Cardinality(T) + 1
<1>1. IsFiniteSet(S) /\ IsFiniteSet(T)
  BY ThreadAssumption, FS_Subset
<1>2. Cardinality(S) \in Nat /\ Cardinality(T) \in Nat
  BY <1>1, FS_CardinalityType
<1>3. ASSUME t \in S <=> t \in T PROVE S = T
  BY <1>3
<1>4. ASSUME t \notin S, t \in T PROVE T = S \cup {t}
  BY <1>4
<1>5. ASSUME t \in S, t \notin T PROVE S = T \cup {t}
  BY <1>5
<1>6. t \notin S => Cardinality(S \cup {t}) = Cardinality(S) + 1
  BY <1>1, FS_AddElement
<1>7. t \notin T => Cardinality(T \cup {t}) = Cardinality(T) + 1
  BY <1>1, FS_AddElement
<1> QED
  BY <1>2, <1>3, <1>4, <1>5, <1>6, <1>7

(* What a step of thread t does to the captures of u. *)
LEMMA HoldersStep ==
  ASSUME NEW t \in Threads, NEW u \in Threads,
         \A s \in Threads \ {t} : pc'[s] = pc[s] /\ target'[s] = target[s]
  PROVE  /\ Cardinality(Holders(pc, target, u)) \in Nat
         /\ Cardinality(Holders(pc', target', u)) \in Nat
         /\ (t \in Holders(pc, target, u) <=> t \in Holders(pc', target', u))
              => Cardinality(Holders(pc', target', u)) = Cardinality(Holders(pc, target, u))
         /\ t \notin Holders(pc, target, u) /\ t \in Holders(pc', target', u)
              => Cardinality(Holders(pc', target', u)) = Cardinality(Holders(pc, target, u)) + 1
         /\ t \in Holders(pc, target, u) /\ t \notin Holders(pc', target', u)
              => Cardinality(Holders(pc, target, u)) = Cardinality(Holders(pc', target', u)) + 1
<1> DEFINE S == Holders(pc, target, u)
           T == Holders(pc', target', u)
<1>1. S \in SUBSET Threads /\ T \in SUBSET Threads
  BY DEF Holders
<1>2. \A s \in Threads \ {t} : s \in S <=> s \in T
  BY DEF Holders
<1> HIDE DEF S, T
<1>3. /\ Cardinality(S) \in Nat /\ Cardinality(T) \in Nat
      /\ (t \in S <=> t \in T) => Cardinality(T) = Cardinality(S)
      /\ t \notin S /\ t \in T => Cardinality(T) = Cardinality(S) + 1
      /\ t \in S /\ t \notin T => Cardinality(S) = Cardinality(T) + 1
  BY <1>1, <1>2, OneMember
<1> QED
  BY <1>3 DEF S, T

(* What it does to the calls with an open handle. *)
LEMMA UsersStep ==
  ASSUME CountType, NEW t \in Threads, NEW where \in Places,
         pc' = [pc EXCEPT ![t] = where]
  PROVE  /\ Cardinality(Users(pc)) \in Nat /\ Cardinality(Users(pc')) \in Nat
         /\ (pc[t] \in Using <=> where \in Using) => Cardinality(Users(pc')) = Cardinality(Users(pc))
         /\ pc[t] \notin Using /\ where \in Using
              => Cardinality(Users(pc')) = Cardinality(Users(pc)) + 1
         /\ pc[t] \in Using /\ where \notin Using
              => Cardinality(Users(pc)) = Cardinality(Users(pc')) + 1
<1> DEFINE S == Users(pc)
           T == Users(pc')
<1>1. S \in SUBSET Threads /\ T \in SUBSET Threads
  BY DEF Users
<1>2. \A s \in Threads \ {t} : s \in S <=> s \in T
  BY DEF Users, CountType
<1>3. (t \in S <=> pc[t] \in Using) /\ (t \in T <=> where \in Using)
  BY DEF Users, CountType
<1> HIDE DEF S, T
<1>4. /\ Cardinality(S) \in Nat /\ Cardinality(T) \in Nat
      /\ (t \in S <=> t \in T) => Cardinality(T) = Cardinality(S)
      /\ t \notin S /\ t \in T => Cardinality(T) = Cardinality(S) + 1
      /\ t \in S /\ t \notin T => Cardinality(S) = Cardinality(T) + 1
  BY <1>1, <1>2, OneMember
<1>5. S = Users(pc) /\ T = Users(pc')
  BY DEF S, T
<1> QED
  BY <1>3, <1>4, <1>5

(* A step that opens, closes, suspends and resumes nothing. *)
LEMMA QuietStep ==
  ASSUME CountInv, NEW t \in Threads, NEW where \in Places,
         pc' = [pc EXCEPT ![t] = where],
         NEW w \in Threads, target' = [target EXCEPT ![t] = w],
         w = target[t] \/ pc[t] \notin Holding,
         UNCHANGED <<suspended, handles, leaked>>,
         pc[t] \in Using <=> where \in Using,
         w = t \/ (pc[t] \in Holding <=> where \in Holding),
         where \in {"suspend", "context", "resume"} => w # t
  PROVE  CountInv'
<1>1. CountType'
  BY DEF CountInv, CountType
<1>2. ASSUME NEW u \in Threads
      PROVE  Cardinality(Holders(pc', target', u)) = Cardinality(Holders(pc, target, u))
  <2>1. /\ \A s \in Threads \ {t} : pc'[s] = pc[s] /\ target'[s] = target[s]
        /\ pc'[t] = where /\ target'[t] = w
    BY DEF CountInv, CountType
  <2>2. t \in Holders(pc, target, u) <=> t \in Holders(pc', target', u)
    BY <2>1 DEF Holders
  <2> QED
    BY <2>1, <2>2, HoldersStep
<1>3. Cardinality(Users(pc')) = Cardinality(Users(pc))
  BY UsersStep DEF CountInv
<1> QED
  BY <1>1, <1>2, <1>3 DEF CountInv, Counts

(* A step that opens a handle. *)
LEMMA OpenStep ==
  ASSUME CountInv, NEW t \in Threads, NEW where \in Places,
         pc' = [pc EXCEPT ![t] = where],
         UNCHANGED <<target, suspended, leaked>>, handles' = handles + 1,
         pc[t] \notin Using, where \in Using,
         target[t] = t \/ where \notin Holding,
         where \in {"suspend", "context", "resume"} => target[t] # t
  PROVE  CountInv'
<1>1. CountType'
  BY DEF CountInv, CountType
<1>2. target' = [target EXCEPT ![t] = target[t]] /\ target[t] \in Threads /\ pc[t] \notin Holding
  BY DEF CountInv, CountType, Using
<1>3. ASSUME NEW u \in Threads
      PROVE  Cardinality(Holders(pc', target', u)) = Cardinality(Holders(pc, target, u))
  <2>1. /\ \A s \in Threads \ {t} : pc'[s] = pc[s] /\ target'[s] = target[s]
        /\ pc'[t] = where /\ target'[t] = target[t]
    BY <1>2 DEF CountInv, CountType
  <2>2. t \in Holders(pc, target, u) <=> t \in Holders(pc', target', u)
    BY <1>2, <2>1 DEF Holders
  <2> QED
    BY <2>1, <2>2, HoldersStep
<1>4. Cardinality(Users(pc')) = Cardinality(Users(pc)) + 1 /\ Cardinality(Users(pc)) \in Nat
  BY <1>2, UsersStep DEF CountInv
<1>5. leaked.handles \in Nat /\ handles = Cardinality(Users(pc)) + leaked.handles
  BY DEF CountInv, CountType, Counts
<1>6. handles' = Cardinality(Users(pc')) + leaked.handles
  BY <1>4, <1>5
<1> QED
  BY <1>1, <1>3, <1>6 DEF CountInv, Counts

(* A step that closes a handle, or gives it up because CloseHandle failed. *)
LEMMA CloseStep ==
  ASSUME CountInv, NEW t \in Threads, NEW where \in Places,
         pc' = [pc EXCEPT ![t] = where],
         UNCHANGED <<target, suspended>>,
         \/ handles' = handles - 1 /\ UNCHANGED leaked
         \/ UNCHANGED handles /\ leaked' = [leaked EXCEPT !.handles = @ + 1],
         pc[t] \in Using \ Holding, where \notin Using, where \notin {"suspend", "context", "resume"}
  PROVE  CountInv'
<1>1. target' = [target EXCEPT ![t] = target[t]] /\ target[t] \in Threads /\ where \notin Holding
  BY DEF CountInv, CountType, Using
<1>2. ASSUME NEW u \in Threads
      PROVE  Cardinality(Holders(pc', target', u)) = Cardinality(Holders(pc, target, u))
  <2>1. /\ \A s \in Threads \ {t} : pc'[s] = pc[s] /\ target'[s] = target[s]
        /\ pc'[t] = where /\ target'[t] = target[t]
    BY <1>1 DEF CountInv, CountType
  <2>2. t \in Holders(pc, target, u) <=> t \in Holders(pc', target', u)
    BY <1>1, <2>1 DEF Holders
  <2> QED
    BY <2>1, <2>2, HoldersStep
<1>3. Cardinality(Users(pc)) = Cardinality(Users(pc')) + 1 /\ Cardinality(Users(pc')) \in Nat
  BY <1>1, UsersStep DEF CountInv
<1>4. leaked.handles \in Nat /\ leaked.suspensions \in [Threads -> Nat] /\ handles \in Nat
      /\ handles = Cardinality(Users(pc)) + leaked.handles
  BY DEF CountInv, CountType, Counts
<1>5. /\ leaked' \in [handles : Nat, suspensions : [Threads -> Nat]]
      /\ leaked'.suspensions = leaked.suspensions
      /\ handles' \in Nat
      /\ handles' = Cardinality(Users(pc')) + leaked'.handles
  <2>1. CASE handles' = handles - 1 /\ UNCHANGED leaked
    BY <1>3, <1>4, <2>1 DEF CountInv, CountType
  <2>2. CASE UNCHANGED handles /\ leaked' = [leaked EXCEPT !.handles = @ + 1]
    <3>1. leaked' = [handles |-> leaked.handles + 1, suspensions |-> leaked.suspensions]
      BY <2>2 DEF CountInv, CountType
    <3>2. /\ leaked' \in [handles : Nat, suspensions : [Threads -> Nat]]
          /\ leaked'.suspensions = leaked.suspensions /\ leaked'.handles = leaked.handles + 1
      BY <1>4, <3>1
    <3> QED
      BY <1>3, <1>4, <2>2, <3>2
  <2> QED
    BY <2>1, <2>2
<1>6. CountType'
  BY <1>5 DEF CountInv, CountType
<1> QED
  BY <1>2, <1>5, <1>6 DEF CountInv, Counts

LEMMA SuspendStep ==
  ASSUME CountInv, NEW t \in Threads, SuspendThread(t)
  PROVE  CountInv'
<1>1. pc[t] = "suspend" /\ target[t] \in Threads /\ target[t] # t
  BY DEF SuspendThread, At, CountInv, CountType
<1>2. target' = [target EXCEPT ![t] = target[t]]
  BY DEF SuspendThread, CountInv, CountType
<1>3. /\ {"close", "context"} \subseteq Places
      /\ "suspend" \notin Holding /\ "close" \notin Holding /\ "context" \in Holding
      /\ {"suspend", "close", "context"} \subseteq Using
  BY DEF Places, Holding, Using
<1>4. CASE Goto(t, "close") /\ UNCHANGED suspended
  BY <1>1, <1>2, <1>3, <1>4, QuietStep, ZenonT(30) DEF SuspendThread, Goto
<1>5. CASE Goto(t, "context") /\ suspended' = [suspended EXCEPT ![target[t]] = @ + 1]
  <2>1. pc' = [pc EXCEPT ![t] = "context"] /\ UNCHANGED <<handles, target, leaked>>
    BY <1>5 DEF SuspendThread, Goto
  <2>2. CountType'
    BY <1>1, <1>3, <1>5, <2>1 DEF CountInv, CountType
  <2>3. /\ \A u \in Threads \ {target[t]} :
             Cardinality(Holders(pc', target', u)) = Cardinality(Holders(pc, target, u))
        /\ Cardinality(Holders(pc, target, target[t])) \in Nat
        /\ Cardinality(Holders(pc', target', target[t]))
             = Cardinality(Holders(pc, target, target[t])) + 1
    <3>1. ASSUME NEW u \in Threads \ {target[t]}
          PROVE  Cardinality(Holders(pc', target', u)) = Cardinality(Holders(pc, target, u))
      <4>1. t \notin Holders(pc, target, u) /\ t \notin Holders(pc', target', u)
        BY <1>2 DEF Holders, CountInv, CountType
      <4>2. \A s \in Threads \ {t} : pc'[s] = pc[s] /\ target'[s] = target[s]
        BY <1>2, <2>1 DEF CountInv, CountType
      <4> QED
        BY <4>1, <4>2, HoldersStep
    <3>2. /\ Cardinality(Holders(pc, target, target[t])) \in Nat
          /\ Cardinality(Holders(pc', target', target[t]))
               = Cardinality(Holders(pc, target, target[t])) + 1
      <4>1. t \notin Holders(pc, target, target[t]) /\ t \in Holders(pc', target', target[t])
        BY <1>1, <1>2, <1>3, <2>1 DEF Holders, CountInv, CountType
      <4>2. \A s \in Threads \ {t} : pc'[s] = pc[s] /\ target'[s] = target[s]
        BY <1>2, <2>1 DEF CountInv, CountType
      <4> QED
        BY <1>1, <4>1, <4>2, HoldersStep
    <3> QED
      BY <3>1, <3>2
  <2>4. Cardinality(Users(pc')) = Cardinality(Users(pc))
    BY <1>1, <1>2, <1>3, <2>1, UsersStep DEF CountInv
  <2>5. \A u \in Threads : leaked.suspensions[u] \in Nat
    BY DEF CountInv, CountType
  <2>6. \A u \in Threads :
          suspended'[u] = IF u = target[t] THEN suspended[u] + 1 ELSE suspended[u]
    BY <1>1, <1>5 DEF CountInv, CountType
  <2>7. ASSUME NEW u \in Threads
        PROVE  suspended'[u] = Cardinality(Holders(pc', target', u)) + leaked.suspensions[u]
    BY <2>3, <2>5, <2>6 DEF CountInv, Counts
  <2> QED
    BY <2>1, <2>2, <2>4, <2>7 DEF CountInv, Counts
<1> QED
  BY <1>4, <1>5 DEF SuspendThread

LEMMA ResumeStep ==
  ASSUME CountInv, NEW t \in Threads, ResumeThread(t)
  PROVE  CountInv'
<1>1. pc[t] = "resume" /\ target[t] \in Threads /\ target[t] # t
  BY DEF ResumeThread, At, CountInv, CountType
<1>2. target' = [target EXCEPT ![t] = target[t]] /\ UNCHANGED <<target, handles>>
  BY DEF ResumeThread, CountInv, CountType
<1>3. /\ {"close", "idle"} \subseteq Places
      /\ "resume" \in Holding /\ "close" \notin Holding /\ "idle" \notin Holding
      /\ {"resume", "close"} \subseteq Using /\ "idle" \notin Using
  BY DEF Places, Holding, Using
<1>4. leaked.suspensions \in [Threads -> Nat] /\ leaked.handles \in Nat
  BY DEF CountInv, CountType
<1>5. CASE Goto(t, "close") /\ suspended' = [suspended EXCEPT ![target[t]] = @ - 1] /\ UNCHANGED leaked
  <2>1. pc' = [pc EXCEPT ![t] = "close"]
    BY <1>5 DEF Goto
  <2>2. /\ \A u \in Threads \ {target[t]} :
             Cardinality(Holders(pc', target', u)) = Cardinality(Holders(pc, target, u))
        /\ Cardinality(Holders(pc', target', target[t])) \in Nat
        /\ Cardinality(Holders(pc, target, target[t]))
             = Cardinality(Holders(pc', target', target[t])) + 1
    <3>1. ASSUME NEW u \in Threads \ {target[t]}
          PROVE  Cardinality(Holders(pc', target', u)) = Cardinality(Holders(pc, target, u))
      <4>1. t \notin Holders(pc, target, u) /\ t \notin Holders(pc', target', u)
        BY <1>2 DEF Holders, CountInv, CountType
      <4>2. \A s \in Threads \ {t} : pc'[s] = pc[s] /\ target'[s] = target[s]
        BY <1>2, <2>1 DEF CountInv, CountType
      <4> QED
        BY <4>1, <4>2, HoldersStep
    <3>2. /\ Cardinality(Holders(pc', target', target[t])) \in Nat
          /\ Cardinality(Holders(pc, target, target[t]))
               = Cardinality(Holders(pc', target', target[t])) + 1
      <4>1. t \in Holders(pc, target, target[t]) /\ t \notin Holders(pc', target', target[t])
        BY <1>1, <1>2, <1>3, <2>1 DEF Holders, CountInv, CountType
      <4>2. \A s \in Threads \ {t} : pc'[s] = pc[s] /\ target'[s] = target[s]
        BY <1>2, <2>1 DEF CountInv, CountType
      <4> QED
        BY <1>1, <4>1, <4>2, HoldersStep
    <3> QED
      BY <3>1, <3>2
  <2>3. Cardinality(Users(pc')) = Cardinality(Users(pc))
    BY <1>1, <1>2, <1>3, <2>1, UsersStep DEF CountInv
  <2>4. \A u \in Threads :
          suspended'[u] = IF u = target[t] THEN suspended[u] - 1 ELSE suspended[u]
    BY <1>1, <1>5 DEF CountInv, CountType
  <2>5. ASSUME NEW u \in Threads
        PROVE  /\ suspended'[u] = Cardinality(Holders(pc', target', u)) + leaked.suspensions[u]
               /\ suspended'[u] \in Nat
    <3>1. suspended[u] = Cardinality(Holders(pc, target, u)) + leaked.suspensions[u]
          /\ suspended[u] \in Nat /\ leaked.suspensions[u] \in Nat
      BY <1>4 DEF CountInv, CountType, Counts
    <3>2. CASE u = target[t]
      BY <2>2, <2>4, <3>1, <3>2
    <3>3. CASE u # target[t]
      BY <2>2, <2>4, <3>1, <3>3
    <3> QED
      BY <3>2, <3>3
  <2>6. suspended' \in [Threads -> Nat]
    BY <1>5, <2>5 DEF CountInv, CountType
  <2>7. CountType'
    BY <1>2, <1>3, <1>5, <2>1, <2>6 DEF CountInv, CountType
  <2> QED
    BY <1>2, <1>5, <2>3, <2>5, <2>7 DEF CountInv, Counts
<1>6. CASE /\ Goto(t, "idle")
           /\ leaked' = [leaked EXCEPT !.handles = @ + 1, !.suspensions[target[t]] = @ + 1]
           /\ UNCHANGED suspended
  <2>1. pc' = [pc EXCEPT ![t] = "idle"]
    BY <1>6 DEF Goto
  <2>2. /\ \A u \in Threads \ {target[t]} :
             Cardinality(Holders(pc', target', u)) = Cardinality(Holders(pc, target, u))
        /\ Cardinality(Holders(pc', target', target[t])) \in Nat
        /\ Cardinality(Holders(pc, target, target[t]))
             = Cardinality(Holders(pc', target', target[t])) + 1
    <3>1. ASSUME NEW u \in Threads \ {target[t]}
          PROVE  Cardinality(Holders(pc', target', u)) = Cardinality(Holders(pc, target, u))
      <4>1. t \notin Holders(pc, target, u) /\ t \notin Holders(pc', target', u)
        BY <1>2 DEF Holders, CountInv, CountType
      <4>2. \A s \in Threads \ {t} : pc'[s] = pc[s] /\ target'[s] = target[s]
        BY <1>2, <2>1 DEF CountInv, CountType
      <4> QED
        BY <4>1, <4>2, HoldersStep
    <3>2. /\ Cardinality(Holders(pc', target', target[t])) \in Nat
          /\ Cardinality(Holders(pc, target, target[t]))
               = Cardinality(Holders(pc', target', target[t])) + 1
      <4>1. t \in Holders(pc, target, target[t]) /\ t \notin Holders(pc', target', target[t])
        BY <1>1, <1>2, <1>3, <2>1 DEF Holders, CountInv, CountType
      <4>2. \A s \in Threads \ {t} : pc'[s] = pc[s] /\ target'[s] = target[s]
        BY <1>2, <2>1 DEF CountInv, CountType
      <4> QED
        BY <1>1, <4>1, <4>2, HoldersStep
    <3> QED
      BY <3>1, <3>2
  <2>3. Cardinality(Users(pc)) = Cardinality(Users(pc')) + 1 /\ Cardinality(Users(pc')) \in Nat
    BY <1>1, <1>2, <1>3, <2>1, UsersStep DEF CountInv
  <2>4. leaked' = [handles |-> leaked.handles + 1,
                   suspensions |-> [leaked.suspensions EXCEPT ![target[t]] = @ + 1]]
    BY <1>6 DEF CountInv, CountType
  <2>5. /\ leaked' \in [handles : Nat, suspensions : [Threads -> Nat]]
        /\ leaked'.handles = leaked.handles + 1
        /\ \A u \in Threads : leaked'.suspensions[u] =
             IF u = target[t] THEN leaked.suspensions[u] + 1 ELSE leaked.suspensions[u]
    BY <1>1, <1>4, <2>4
  <2>6. ASSUME NEW u \in Threads
        PROVE  suspended[u] = Cardinality(Holders(pc', target', u)) + leaked'.suspensions[u]
    BY <1>4, <2>2, <2>5 DEF CountInv, Counts
  <2>7. handles = Cardinality(Users(pc')) + leaked'.handles
    BY <1>4, <2>3, <2>5 DEF CountInv, Counts
  <2>8. CountType'
    BY <1>2, <1>3, <1>6, <2>1, <2>5 DEF CountInv, CountType
  <2> QED
    BY <1>2, <1>6, <2>6, <2>7, <2>8 DEF CountInv, Counts
<1> QED
  BY <1>5, <1>6 DEF ResumeThread
LEMMA CountInit == Init => CountInv
<1> SUFFICES ASSUME Init PROVE CountInv
  OBVIOUS
<1>1. CountType
  BY DEF Init, CountType, Places
<1>2. "idle" \notin Using /\ "idle" \notin Holding
  BY DEF Using, Holding
<1>3. \A u \in Threads : Holders(pc, target, u) = {}
  BY <1>2 DEF Init, Holders
<1>4. Users(pc) = {}
  BY <1>2 DEF Init, Users
<1>5. \A u \in Threads : suspended[u] = Cardinality(Holders(pc, target, u)) + leaked.suspensions[u]
  BY <1>3, FS_EmptySet DEF Init
<1>6. handles = Cardinality(Users(pc)) + leaked.handles
  BY <1>4, FS_EmptySet DEF Init
<1> QED
  BY <1>1, <1>5, <1>6 DEF CountInv, Counts

LEMMA CountCall ==
  ASSUME CountInv, NEW t \in Threads,
         RefreshCall(t) \/ \E u \in Observed \cup {t} : StackCall(t, u)
  PROVE  CountInv'
<1>1. /\ {"idle", "lock_refresh", "open"} \subseteq Places
      /\ {"idle", "lock_refresh", "open"} \cap Using = {}
      /\ {"idle", "lock_refresh", "open"} \cap Holding = {}
  BY DEF Places, Using, Holding
<1>2. pc[t] = "idle" /\ UNCHANGED <<suspended, handles, leaked>>
  BY DEF RefreshCall, StackCall, Counted, At
<1>3. PICK where \in {"idle", "lock_refresh", "open"} : pc' = [pc EXCEPT ![t] = where]
  BY DEF RefreshCall, StackCall, Goto
<1>4. PICK w \in Threads : target' = [target EXCEPT ![t] = w]
  <2>1. CASE RefreshCall(t)
    BY <2>1 DEF RefreshCall, CountInv, CountType
  <2>2. ASSUME NEW u \in Observed \cup {t}, StackCall(t, u)
        PROVE  \E w \in Threads : target' = [target EXCEPT ![t] = w]
    BY <2>2, ThreadAssumption DEF StackCall
  <2> QED
    BY <2>1, <2>2
<1> QED
  BY <1>1, <1>2, <1>3, <1>4, QuietStep

(* The steps of a refresh. *)
LEMMA CountRefresh ==
  ASSUME CountInv, NEW t \in Threads,
         \/ Acquire(t) \/ SnapshotFails(t) \/ TakeSnapshot(t) \/ ScanModule(t)
         \/ ScanDone(t) \/ SymCleanup(t) \/ SymInitialize(t) \/ Release(t)
  PROVE  CountInv'
<1>1. target[t] \in Threads /\ target = [target EXCEPT ![t] = target[t]]
  BY DEF CountInv, CountType
<1>2. CASE Acquire(t)
  <2>1. {"lock_walk", "walk"} \subseteq Using \cap Holding /\ {"walk", "refresh"} \subseteq Places
        /\ {"lock_refresh", "refresh"} \cap Using = {} /\ {"lock_refresh", "refresh"} \cap Holding = {}
    BY DEF Places, Refreshing, Using, Holding
  <2>2. PICK where \in {"walk", "refresh"} :
          /\ pc' = [pc EXCEPT ![t] = where]
          /\ pc[t] = (IF where = "walk" THEN "lock_walk" ELSE "lock_refresh")
    BY <1>2 DEF Acquire, Goto
  <2>3. target' = [target EXCEPT ![t] = target[t]] /\ UNCHANGED <<suspended, handles, leaked>>
    BY <1>1, <1>2 DEF Acquire
  <2>4. (pc[t] \in Using <=> where \in Using) /\ (pc[t] \in Holding <=> where \in Holding)
    BY <2>1, <2>2
  <2> QED
    BY <1>1, <2>1, <2>2, <2>3, <2>4, QuietStep
<1>3. CASE SnapshotFails(t) \/ SymCleanup(t) \/ SymInitialize(t) \/ Release(t)
  <2> DEFINE Outside == {"refresh", "release", "cleanup", "initialize", "idle"}
  <2>1. Outside \subseteq Places /\ Outside \cap Using = {} /\ Outside \cap Holding = {}
    BY DEF Places, Refreshing, Using, Holding
  <2>2. pc[t] \in Outside
        /\ \E where \in Outside : pc' = [pc EXCEPT ![t] = where]
    BY <1>3 DEF SnapshotFails, SymCleanup, SymInitialize, Release, Goto, At
  <2>3. target' = [target EXCEPT ![t] = target[t]] /\ UNCHANGED <<suspended, handles, leaked>>
    BY <1>1, <1>3 DEF SnapshotFails, SymCleanup, SymInitialize, Release
  <2>4. \A where \in Outside : where \notin {"suspend", "context", "resume"}
    OBVIOUS
  <2> HIDE DEF Outside
  <2> QED
    BY <1>1, <2>1, <2>2, <2>3, <2>4, QuietStep
<1>4. CASE TakeSnapshot(t)
  <2>1. "refresh" \notin Using /\ "scan" \in Using /\ "scan" \notin Holding /\ "scan" \in Places
    BY DEF Places, Refreshing, Using, Holding
  <2> QED
    BY <1>4, <2>1, OpenStep DEF TakeSnapshot, Goto, At
<1>5. CASE ScanModule(t)
  BY <1>5 DEF ScanModule, CountInv, CountType
<1>6. CASE ScanDone(t)
  <2>1. "scan" \in Using \ Holding /\ {"release", "cleanup"} \subseteq Places
        /\ {"release", "cleanup"} \cap Using = {}
    BY DEF Places, Refreshing, Using, Holding
  <2>2. pc[t] = "scan" /\ \E where \in {"release", "cleanup"} : pc' = [pc EXCEPT ![t] = where]
    BY <1>6 DEF ScanDone, Goto, At
  <2>3. /\ UNCHANGED <<target, suspended>>
        /\ \/ handles' = handles - 1 /\ UNCHANGED leaked
           \/ UNCHANGED handles /\ leaked' = [leaked EXCEPT !.handles = @ + 1]
    BY <1>6 DEF ScanDone
  <2> QED
    BY <2>1, <2>2, <2>3, CloseStep
<1> QED
  BY <1>2, <1>3, <1>4, <1>5, <1>6

(* The steps of get_thread_stack. *)
LEMMA CountCapture ==
  ASSUME CountInv, NEW t \in Threads,
         \/ OpenThread(t) \/ SuspendThread(t) \/ GetThreadContext(t) \/ Walk(t)
         \/ ResumeThread(t) \/ CloseHandle(t)
  PROVE  CountInv'
<1>1. target[t] \in Threads /\ target = [target EXCEPT ![t] = target[t]]
  BY DEF CountInv, CountType
<1>2. /\ {"idle", "open", "suspend", "context", "lock_walk", "walk", "resume", "close"} \subseteq Places
      /\ {"suspend", "context", "lock_walk", "walk", "resume", "close"} \subseteq Using
      /\ {"idle", "open"} \cap Using = {}
      /\ {"context", "lock_walk", "walk", "resume"} \subseteq Holding
      /\ {"idle", "open", "suspend", "close"} \cap Holding = {}
  BY DEF Places, Using, Holding
<1>3. CASE OpenThread(t)
  <2>1. pc[t] = "open" /\ UNCHANGED <<suspended, leaked, target>>
    BY <1>3 DEF OpenThread, At
  <2>2. CASE Goto(t, "idle") /\ UNCHANGED handles
    <3>1. target' = [target EXCEPT ![t] = target[t]]
      BY <1>1, <2>1
    <3> QED
      BY <1>1, <1>2, <2>1, <2>2, <3>1, QuietStep DEF Goto
  <2>3. CASE Goto(t, IF target[t] = t THEN "lock_walk" ELSE "suspend") /\ handles' = handles + 1
    <3>1. PICK where \in {"lock_walk", "suspend"} :
            /\ pc' = [pc EXCEPT ![t] = where]
            /\ where = "lock_walk" <=> target[t] = t
      BY <2>3 DEF Goto
    <3> QED
      BY <1>2, <2>1, <2>3, <3>1, OpenStep
  <2> QED
    BY <1>3, <2>2, <2>3 DEF OpenThread
<1>4. CASE SuspendThread(t)
  BY <1>4, SuspendStep
<1>5. CASE GetThreadContext(t)
  <2>1. pc[t] = "context" /\ UNCHANGED <<suspended, handles, leaked>>
        /\ target' = [target EXCEPT ![t] = target[t]]
    BY <1>1, <1>5 DEF GetThreadContext, At
  <2>2. target[t] # t
    BY <2>1 DEF CountInv, CountType
  <2>3. PICK where \in {"lock_walk", "resume"} : pc' = [pc EXCEPT ![t] = where]
    BY <1>5 DEF GetThreadContext, Goto
  <2> QED
    BY <1>1, <1>2, <2>1, <2>2, <2>3, QuietStep
<1>6. CASE Walk(t)
  <2>1. pc[t] = "walk" /\ UNCHANGED <<suspended, handles, leaked>>
        /\ target' = [target EXCEPT ![t] = target[t]]
    BY <1>1, <1>6 DEF Walk, At
  <2>2. PICK where \in {"close", "resume"} :
          /\ pc' = [pc EXCEPT ![t] = where]
          /\ where = "close" <=> target[t] = t
    BY <1>6 DEF Walk, Goto
  <2> QED
    BY <1>1, <1>2, <2>1, <2>2, QuietStep, ZenonT(30)
<1>7. CASE ResumeThread(t)
  BY <1>7, ResumeStep
<1>8. CASE CloseHandle(t)
  <2>1. /\ pc[t] = "close" /\ pc' = [pc EXCEPT ![t] = "idle"] /\ UNCHANGED <<target, suspended>>
        /\ \/ handles' = handles - 1 /\ UNCHANGED leaked
           \/ UNCHANGED handles /\ leaked' = [leaked EXCEPT !.handles = @ + 1]
    BY <1>8 DEF CloseHandle, At, Goto
  <2> QED
    BY <1>2, <2>1, CloseStep
<1> QED
  BY <1>3, <1>4, <1>5, <1>6, <1>7, <1>8

LEMMA CountNext == ASSUME CountInv, [Next]_vars PROVE CountInv'
<1>1. CASE InitOk \/ InitFails \/ Deinit \/ UNCHANGED vars
  BY <1>1 DEF InitOk, InitFails, Deinit, vars, CountInv, CountType
<1>2. ASSUME NEW t \in Threads, Continue(t)
      PROVE  CountInv'
  BY <1>2, CountRefresh, CountCapture DEF Continue
<1> QED
  BY <1>1, <1>2, CountCall DEF Next

(* A thread is suspended exactly as often as captures of it are under way, *)
(* whichever Win32 call failed, but for ResumeThread itself: it is never   *)
(* resumed too often, and runs again when the captures are over.           *)
THEOREM Resumed == Spec => []SuspensionsUndone
<1>1. Init => CountInv
  BY CountInit
<1>2. CountInv /\ [Next]_vars => CountInv'
  BY CountNext
<1>3. CountInv => SuspensionsUndone
  <2>1. \A u \in Threads : HoldsSuspended(u) = Holders(pc, target, u)
    BY DEF HoldsSuspended, Holders, Holding
  <2> QED
    BY <2>1 DEF CountInv, Counts, SuspensionsUndone
<1> QED
  BY <1>1, <1>2, <1>3, PTL DEF Spec

-----------------------------------------------------------------------------
(* Types *)

Modules == Seq(Directories \cup {NoBackslash})
Paths == [text : Seq(Directories \cup {Separator}), length : Nat, terminated : BOOLEAN]

(* What TypeOK says besides CountType, with the record of a refresh whole. *)
OtherType ==
  /\ symbolsState \in {"NOT_INITIALIZED", "INITIALIZED"}
  /\ processHandle \in BOOLEAN
  /\ handler \in {"open", "closed"}
  /\ lock \in Threads \cup {NoThread}
  /\ addressMask \in Word
  /\ scan \in [snapshot : Modules, modules : Modules, path : Paths]
  /\ refreshFailed \in BOOLEAN
  /\ calls \in [Threads -> 0 .. MaxCalls]

LEMMA FillType == Fill(MaxAddress) \in Word
<1>1. MaxAddress \in Word /\ MaxAddress # {}
  BY ThreadAssumption
<1>2. Fill(MaxAddress) = 0 .. Max(MaxAddress)
  BY <1>1, FillFromTheTop
<1>3. Max(MaxAddress) \in 0 .. 63
  BY <1>1, MostSignificant DEF Word
<1>4. 0 .. Max(MaxAddress) \subseteq 0 .. 63
  BY <1>3
<1> QED
  BY <1>2, <1>4 DEF Word

(* A directory appended, with or without its separator, leaves a path. *)
LEMMA AddDirectoryType ==
  ASSUME NEW path \in Paths, NEW dir \in Directories, NEW next \in AddDirectory(path, dir)
  PROVE  next \in Paths
<1>1. Separated(path) \in Paths
  BY DEF Separated, Paths
<1>2. Appended(Separated(path), dir) \in Paths
  BY <1>1, DirectoryAssumption DEF Appended, Paths
<1>3. next = path \/ next = Appended(Separated(path), dir)
  BY DEF AddDirectory
<1> QED
  BY <1>2, <1>3

LEMMA OtherInit == Init => OtherType
<1>1. NoScan \in [snapshot : Modules, modules : Modules, path : Paths]
  BY DEF NoScan, EmptyPath, Modules, Paths
<1>2. AllOnes \in Word
  BY DEF AllOnes, Word
<1>3. Init => calls \in [Threads -> 0 .. MaxCalls]
  BY ThreadAssumption DEF Init
<1> QED
  BY <1>1, <1>2, <1>3 DEF Init, OtherType

LEMMA OtherStep ==
  ASSUME OtherType, [Next]_vars
  PROVE  OtherType'
<1>1. NoScan \in [snapshot : Modules, modules : Modules, path : Paths]
  BY DEF NoScan, EmptyPath, Modules, Paths
<1>2. CASE InitOk
  BY <1>2, FillType DEF InitOk, OtherType
<1>3. CASE InitFails \/ Deinit \/ UNCHANGED vars
  BY <1>3 DEF InitFails, Deinit, OtherType, vars, g
<1>4. ASSUME NEW t \in Threads, RefreshCall(t) \/ \E u \in Observed \cup {t} : StackCall(t, u)
      PROVE  OtherType'
  BY <1>4, ThreadAssumption DEF RefreshCall, StackCall, Counted, OtherType, g
<1>5. ASSUME NEW t \in Threads, TakeSnapshot(t)
      PROVE  OtherType'
  <2>1. PICK s \in Modules : scan' = [snapshot |-> s, modules |-> s, path |-> EmptyPath]
    BY <1>5, ThreadAssumption DEF TakeSnapshot, Modules
  <2>2. EmptyPath \in Paths
    BY DEF EmptyPath, Paths
  <2> QED
    BY <1>5, <2>1, <2>2 DEF TakeSnapshot, OtherType
<1>6. ASSUME NEW t \in Threads, ScanModule(t)
      PROVE  OtherType'
  <2>1. scan.modules \in Modules /\ scan.modules # <<>> /\ scan.path \in Paths
    BY <1>6 DEF ScanModule, OtherType
  <2>2. Head(scan.modules) \in Directories \cup {NoBackslash} /\ Tail(scan.modules) \in Modules
    BY <2>1 DEF Modules
  <2>3. PICK path \in Paths : scan' = [scan EXCEPT !.path = path, !.modules = Tail(scan.modules)]
    <3>1. PICK path \in (IF Head(scan.modules) = NoBackslash THEN {scan.path}
                         ELSE AddDirectory(scan.path, Head(scan.modules))) :
            scan' = [scan EXCEPT !.path = path, !.modules = Tail(scan.modules)]
      BY <1>6 DEF ScanModule
    <3>2. path \in Paths
      BY <2>1, <2>2, <3>1, AddDirectoryType
    <3> QED
      BY <3>1, <3>2
  <2>4. scan' \in [snapshot : Modules, modules : Modules, path : Paths]
    BY <2>2, <2>3 DEF OtherType
  <2> QED
    BY <1>6, <2>4 DEF ScanModule, OtherType
<1>7. ASSUME NEW t \in Threads,
             SymCleanup(t) \/ SymInitialize(t) \/ Release(t) \/ Acquire(t) \/ Walk(t)
      PROVE  OtherType'
  BY <1>1, <1>7 DEF SymCleanup, SymInitialize, Release, Acquire, Walk, OtherType
<1>8. ASSUME NEW t \in Threads,
             \/ SnapshotFails(t) \/ ScanDone(t) \/ OpenThread(t) \/ SuspendThread(t)
             \/ GetThreadContext(t) \/ ResumeThread(t) \/ CloseHandle(t)
      PROVE  OtherType'
  BY <1>8 DEF SnapshotFails, ScanDone, OpenThread, SuspendThread, GetThreadContext,
              ResumeThread, CloseHandle, OtherType, g
<1> QED
  BY <1>2, <1>3, <1>4, <1>5, <1>6, <1>7, <1>8 DEF Next, Continue

(* Every handle that get_thread_stack.c opens, of a thread or of a         *)
(* snapshot, has a call that will close it or was given up when            *)
(* ResumeThread or CloseHandle failed; none is closed twice, and the state *)
(* of the module keeps its type.                                           *)
THEOREM HandlesClosed == Spec => []HandlesReturned
<1>1. Init => CountInv /\ OtherType
  BY CountInit, OtherInit
<1>2. CountInv /\ OtherType /\ [Next]_vars => CountInv' /\ OtherType'
  BY CountNext, OtherStep
<1>3. CountInv /\ OtherType => HandlesReturned
  <2> SUFFICES ASSUME CountInv, OtherType PROVE HandlesReturned
    OBVIOUS
  <2>1. {t \in Threads : HandleInUse(t)} = Users(pc)
    BY DEF HandleInUse, Users, Using, Holding
  <2>2. TypeOK
    BY DEF TypeOK, CountInv, CountType, OtherType, Modules, Paths
  <2> QED
    BY <2>1, <2>2 DEF CountInv, Counts, HandlesReturned
<1> QED
  BY <1>1, <1>2, <1>3, PTL DEF Spec
-----------------------------------------------------------------------------
(* The search path *)

(* The characters of directories and of a separator for each. *)
Cells(S) == UNION {{d} \X (0 .. LengthOf[d]) : d \in S}

LEMMA CellsFinite ==
  ASSUME NEW S \in SUBSET Directories, IsFiniteSet(S)
  PROVE  IsFiniteSet(Cells(S)) /\ Cardinality(Cells(S)) \in Nat
<1> DEFINE T == {{d} \X (0 .. LengthOf[d]) : d \in S}
           f == [d \in S |-> {d} \X (0 .. LengthOf[d])]
<1>1. f \in Surjection(S, T)
  BY DEF Surjection
<1>2. IsFiniteSet(T)
  <2> HIDE DEF f, T
  <2> QED
    BY <1>1, FS_Surjection
<1>3. ASSUME NEW d \in S
      PROVE  IsFiniteSet({d} \X (0 .. LengthOf[d]))
  <2>1. LengthOf[d] \in Int
    BY DirectoryAssumption
  <2>2. IsFiniteSet({d})
    BY FS_Singleton
  <2>3. IsFiniteSet(0 .. LengthOf[d])
    BY <2>1, FS_Interval
  <2> QED
    BY <2>2, <2>3, FS_Product
<1>4. \A U \in T : IsFiniteSet(U)
  BY <1>3
<1>5. IsFiniteSet(UNION T)
  <2> HIDE DEF T
  <2> QED
    BY <1>2, <1>4, FS_UNION
<1> QED
  BY <1>5, FS_CardinalityType DEF Cells

LEMMA CellsRemove ==
  ASSUME NEW S \in SUBSET Directories, IsFiniteSet(S), NEW d \in S
  PROVE  /\ Cardinality(Cells(S)) = LengthOf[d] + 1 + Cardinality(Cells(S \ {d}))
         /\ Cardinality(Cells(S \ {d})) \in Nat
<1> DEFINE A == {d} \X (0 .. LengthOf[d])
           B == Cells(S \ {d})
<1>1. LengthOf[d] \in Nat \ {0}
  BY DirectoryAssumption
<1>2. IsFiniteSet(A) /\ Cardinality(A) = LengthOf[d] + 1
  <2>1. IsFiniteSet(0 .. LengthOf[d]) /\ Cardinality(0 .. LengthOf[d]) = LengthOf[d] + 1
    BY <1>1, FS_Interval, SMTT(30)
  <2>2. IsFiniteSet({d}) /\ Cardinality({d}) = 1
    BY FS_Singleton
  <2>3. IsFiniteSet(A) /\ Cardinality(A) = 1 * (LengthOf[d] + 1)
    BY <2>1, <2>2, FS_Product, ZenonT(30)
  <2> QED
    BY <1>1, <2>3
<1>3. IsFiniteSet(B) /\ Cardinality(B) \in Nat
  <2>1. IsFiniteSet(S \ {d})
    BY FS_RemoveElement
  <2> QED
    BY <2>1, CellsFinite
<1>4. Cells(S) = A \cup B /\ A \cap B = {}
  BY DEF Cells
<1>5. Cardinality(A \cup B) = Cardinality(A) + Cardinality(B) - Cardinality(A \cap B)
  <2> HIDE DEF A, B
  <2> QED
    BY <1>2, <1>3, FS_Union
<1>6. Cardinality(A \cap B) = 0
  BY <1>4, FS_EmptySet
<1> HIDE DEF A, B
<1>7. Cardinality(Cells(S)) = LengthOf[d] + 1 + Cardinality(B)
  BY <1>1, <1>2, <1>3, <1>4, <1>5, <1>6
<1> QED
  BY <1>3, <1>7 DEF B

(* The sum of the lengths counts them. *)
LEMMA SumIsCells ==
  ASSUME NEW C \in SUBSET Directories, IsFiniteSet(C)
  PROVE  MapThenSumSet(LAMBDA d : LengthOf[d] + 1, C) = Cardinality(Cells(C))
<1> DEFINE any(s) == CHOOSE x \in s : TRUE
           h[s \in SUBSET C] == IF s = {} THEN 0
                                ELSE (LengthOf[any(s)] + 1) + h[s \ {any(s)}]
           f == [s \in SUBSET C |-> Cardinality(Cells(s))]
<1>1. MapThenSumSet(LAMBDA d : LengthOf[d] + 1, C) = h[C]
  BY DEF MapThenSumSet, MapThenFoldSet
<1>2. Cells({}) = {} /\ Cardinality(Cells({})) = 0
  BY FS_EmptySet DEF Cells
<1>3. ASSUME NEW s \in SUBSET C, s # {}
      PROVE  /\ any(s) \in s /\ s \ {any(s)} \in SUBSET C
             /\ Cardinality(Cells(s))
                  = (LengthOf[any(s)] + 1) + Cardinality(Cells(s \ {any(s)}))
  <2>1. any(s) \in s /\ s \in SUBSET Directories /\ IsFiniteSet(s)
    BY <1>3, FS_Subset
  <2> HIDE DEF any
  <2> QED
    BY <2>1, CellsRemove
<1>4. f = [s \in SUBSET C |-> IF s = {} THEN 0
                              ELSE (LengthOf[any(s)] + 1) + f[s \ {any(s)}]]
  <2> HIDE DEF any
  <2>1. ASSUME NEW s \in SUBSET C
        PROVE  Cardinality(Cells(s)) = IF s = {} THEN 0
                                       ELSE (LengthOf[any(s)] + 1) + f[s \ {any(s)}]
    <3>1. CASE s = {}
      BY <1>2, <3>1
    <3>2. CASE s # {}
      BY <1>3, <3>2
    <3> QED
      BY <3>1, <3>2
  <2> QED
    BY <2>1, Zenon
<1>5. h = [s \in SUBSET C |-> IF s = {} THEN 0
                              ELSE (LengthOf[any(s)] + 1) + h[s \ {any(s)}]]
  <2> HIDE DEF f
  <2> QED
    BY <1>4
<1> HIDE DEF h, any
<1> DEFINE U == {s \in SUBSET C : h[s] # Cardinality(Cells(s))}
<1>6. U = {}
  <2> SUFFICES ASSUME U # {} PROVE FALSE
    OBVIOUS
  <2>1. U \subseteq FiniteSubsetsOf(C)
    BY FS_Subset DEF FiniteSubsetsOf
  <2>2. PICK s \in U : \A r \in U : ~(<<r, s>> \in StrictSubsetOrdering(C))
    <3> HIDE DEF U
    <3> QED
      BY <2>1, WFMin, FS_StrictSubsetOrderingWellFounded
  <2>3. s \in SUBSET C /\ h[s] # Cardinality(Cells(s))
    OBVIOUS
  <2>4. s # {}
    BY <1>2, <1>5, <2>3
  <2> DEFINE r == s \ {any(s)}
  <2>5. any(s) \in s /\ r \in SUBSET C
        /\ Cardinality(Cells(s)) = (LengthOf[any(s)] + 1) + Cardinality(Cells(r))
    BY <1>3, <2>3, <2>4
  <2>6. h[s] = (LengthOf[any(s)] + 1) + h[r]
    BY <1>5, <2>3, <2>4
  <2>7. <<r, s>> \in StrictSubsetOrdering(C)
    BY <2>3, <2>5 DEF StrictSubsetOrdering
  <2>8. h[r] = Cardinality(Cells(r))
    BY <2>2, <2>5, <2>7
  <2> HIDE DEF r, U
  <2> QED
    BY <2>3, <2>5, <2>6, <2>8
<1>7. h[C] = Cardinality(Cells(C))
  BY <1>6
<1> QED
  BY <1>1, <1>7

(* What was loaded is a finite set of directories. *)
LEMMA LoadedFinite ==
  ASSUME NEW D, NEW s \in Seq(D)
  PROVE  IsFiniteSet(ToSet(s))
<1>1. Len(s) \in Nat /\ DOMAIN s = 1 .. Len(s)
  OBVIOUS
<1>2. s \in Surjection(1 .. Len(s), ToSet(s))
  BY <1>1 DEF Surjection, ToSet
<1>3. IsFiniteSet(1 .. Len(s))
  BY <1>1, FS_Interval
<1> QED
  BY <1>2, <1>3, FS_Surjection

(* The directory of d can be found through the path. *)
Covers(path, d) == \E e \in Listed(path) : d \in Inside[e]

Fits(path) == path.length + (IF path.terminated THEN 1 ELSE 0) <= PathSize

(* The path is a list, and there is room for those of C it does not hold. *)
Lists(path, C) ==
  LET text == path.text
  IN  /\ path.terminated
      /\ \A k \in DOMAIN text : (text[k] = Separator) <=> (k % 2 = 0)
      /\ \A j, k \in DOMAIN text : j # k /\ text[j] = text[k] => text[j] = Separator
      /\ text = <<>> => path.length = 0
      /\ text # <<>> =>
           /\ Len(text) % 2 = 1
           /\ path.length > 0
           /\ path.length + 1 + Cardinality(Cells(C \ Listed(path))) <= PathSize

PathInv ==
  /\ Fits(scan.path)
  /\ ToSet(scan.modules) \subseteq ToSet(scan.snapshot)
  /\ Cardinality(Cells(Candidates)) <= PathSize =>
       /\ Lists(scan.path, Candidates)
       /\ \A d \in Candidates : Covers(scan.path, d) \/ d \in ToSet(scan.modules)
  /\ \A t \in Threads : pc[t] \in {"cleanup", "initialize"} => scan.modules = <<>>

(* The pieces of the path have room, with or without a separator. *)
LEMMA FitsMore ==
  ASSUME NEW path \in Paths, Fits(path), NEW dir \in Directories,
         NEW next \in AddDirectory(path, dir)
  PROVE  Fits(next)
<1>1. path.length \in Nat /\ path.terminated \in BOOLEAN
  BY DEF Paths
<1>2. LengthOf[dir] \in Nat /\ PathSize \in Nat
  BY DirectoryAssumption
<1> DEFINE p == Separated(path)
<1>3. p.length \in Nat /\ Fits(p)
  BY <1>1, <1>2 DEF Separated, Fits
<1> HIDE DEF p
<1>4. Fits(Appended(p, dir))
  BY <1>2, <1>3 DEF Appended, Fits
<1>5. next = path \/ next = Appended(p, dir)
  BY DEF AddDirectory, p
<1> QED
  BY <1>4, <1>5

(* A directory of its own is put at the end of an empty path. *)
LEMMA ListsFirst ==
  ASSUME NEW path \in Paths, NEW C \in SUBSET Directories, IsFiniteSet(C),
         Cardinality(Cells(C)) <= PathSize, Lists(path, C), NEW dir \in C, path.text = <<>>
  PROVE  LET next == Appended(Separated(path), dir)
         IN  /\ Lists(next, C) /\ dir \in Listed(next)
             /\ Listed(path) \subseteq Listed(next)
<1> DEFINE rest == Cardinality(Cells(C \ {dir}))
           next == [text |-> <<dir>>, length |-> LengthOf[dir], terminated |-> TRUE]
<1>1. LengthOf[dir] \in Nat /\ LengthOf[dir] > 0 /\ PathSize \in Nat /\ dir # Separator
  BY DirectoryAssumption
<1>2. rest \in Nat /\ LengthOf[dir] + 1 + rest <= PathSize
  BY CellsRemove
<1>3. path.length = 0
  BY DEF Lists
<1>4. Separated(path) = path
  BY <1>3 DEF Separated
<1>5. Appended(path, dir) = next
  <2>1. path.length + LengthOf[dir] < PathSize /\ path.length + LengthOf[dir] = LengthOf[dir]
    BY <1>1, <1>2, <1>3
  <2>2. Append(path.text, dir) = <<dir>>
    OBVIOUS
  <2> QED
    BY <2>1, <2>2 DEF Appended
<1>6. Listed(next) = {dir} /\ Listed(path) = {}
  BY <1>1 DEF Listed
<1>7. Lists(next, C)
  <2>1. next.text = <<dir>> /\ next.length = LengthOf[dir] /\ next.terminated
    OBVIOUS
  <2> HIDE DEF next
  <2>2. DOMAIN next.text = 1 .. 1 /\ next.text[1] = dir /\ Len(next.text) = 1 /\ next.text # <<>>
    BY <2>1
  <2>3. next.length + 1 + Cardinality(Cells(C \ Listed(next))) <= PathSize
    BY <1>2, <1>6, <2>1
  <2>4. \A k \in DOMAIN next.text : (next.text[k] = Separator) <=> (k % 2 = 0)
    BY <1>1, <2>2
  <2> QED
    BY <1>1, <2>1, <2>2, <2>3, <2>4 DEF Lists
<1> HIDE DEF next
<1> QED
  BY <1>4, <1>5, <1>6, <1>7

LEMMA OddThenEven ==
  ASSUME NEW n \in Nat, n % 2 = 1
  PROVE  (n + 1) % 2 = 0 /\ (n + 2) % 2 = 1
OBVIOUS

(* Behind a separator it is put at the end of a list. *)
LEMMA ListsNext ==
  ASSUME NEW path \in Paths, NEW C \in SUBSET Directories, IsFiniteSet(C),
         Lists(path, C), NEW dir \in C, dir \notin Listed(path), path.text # <<>>
  PROVE  LET next == Appended(Separated(path), dir)
         IN  /\ Lists(next, C) /\ dir \in Listed(next)
             /\ Listed(path) \subseteq Listed(next)
<1> DEFINE text == path.text
           n == Len(text)
           D == C \ Listed(path)
           rest == Cardinality(Cells(D \ {dir}))
           more == Append(Append(text, Separator), dir)
           next == [text |-> more, length |-> path.length + 1 + LengthOf[dir],
                    terminated |-> TRUE]
<1>1. LengthOf[dir] \in Nat /\ LengthOf[dir] > 0 /\ PathSize \in Nat /\ dir # Separator
  BY DirectoryAssumption
<1>2. text \in Seq(Directories \cup {Separator}) /\ path.length \in Nat /\ n \in Nat
  BY DEF Paths
<1>3. /\ \A k \in DOMAIN text : (text[k] = Separator) <=> (k % 2 = 0)
      /\ \A j, k \in DOMAIN text : j # k /\ text[j] = text[k] => text[j] = Separator
      /\ n % 2 = 1 /\ path.length > 0
      /\ path.length + 1 + Cardinality(Cells(D)) <= PathSize
  BY DEF Lists
<1>4. rest \in Nat /\ Cardinality(Cells(D)) = LengthOf[dir] + 1 + rest
  <2>1. D \in SUBSET Directories /\ IsFiniteSet(D) /\ dir \in D
    BY FS_Difference
  <2> HIDE DEF D
  <2> QED
    BY <2>1, CellsRemove
<1> HIDE DEF rest
<1>5. path.length + 1 + LengthOf[dir] + 1 + rest <= PathSize
  BY <1>1, <1>2, <1>3, <1>4
<1>6. Appended(Separated(path), dir) = next
  <2> DEFINE sep == [text |-> Append(text, Separator), length |-> path.length + 1,
                     terminated |-> FALSE]
  <2>1. path.length + 1 < PathSize /\ path.length + 1 + LengthOf[dir] < PathSize
    BY <1>1, <1>2, <1>4, <1>5
  <2>2. Separated(path) = sep
    BY <1>3, <2>1 DEF Separated
  <2>3. sep.text = Append(text, Separator) /\ sep.length = path.length + 1
    OBVIOUS
  <2> HIDE DEF sep
  <2>4. Appended(sep, dir) = next
    BY <2>1, <2>3 DEF Appended
  <2> QED
    BY <2>2, <2>4
<1>7. /\ DOMAIN more = 1 .. n + 2 /\ Len(more) = n + 2 /\ more # <<>>
      /\ more[n + 1] = Separator /\ more[n + 2] = dir
      /\ \A k \in 1 .. n : more[k] = text[k]
  <2> DEFINE one == Append(text, Separator)
  <2>1. /\ one \in Seq(Directories \cup {Separator}) /\ Len(one) = n + 1
        /\ one[n + 1] = Separator /\ \A k \in 1 .. n : one[k] = text[k]
    BY <1>2
  <2>2. more = Append(one, dir) /\ dir \in Directories \cup {Separator}
    OBVIOUS
  <2> HIDE DEF one, more
  <2>3. /\ more \in Seq(Directories \cup {Separator}) /\ Len(more) = n + 2
        /\ more[n + 2] = dir /\ \A k \in 1 .. n + 1 : more[k] = one[k]
    BY <1>2, <2>1, <2>2
  <2> QED
    BY <1>2, <2>1, <2>3
<1>8. next.text = more /\ next.length = path.length + 1 + LengthOf[dir] /\ next.terminated
  OBVIOUS
<1>9. DOMAIN text = 1 .. n
  BY <1>2
<1> HIDE DEF next, more
<1>10. Listed(next) = Listed(path) \cup {dir}
  <2>1. Listed(next) = {more[k] : k \in 1 .. n + 2} \ {Separator}
    BY <1>7, <1>8 DEF Listed
  <2>2. Listed(path) = {text[k] : k \in 1 .. n} \ {Separator}
    BY <1>9 DEF Listed
  <2>3. \A k \in 1 .. n + 2 : k \in 1 .. n \/ k = n + 1 \/ k = n + 2
    BY <1>2
  <2>4. 1 .. n \subseteq 1 .. n + 2 /\ n + 2 \in 1 .. n + 2
    BY <1>2
  <2> QED
    BY <1>1, <1>7, <2>1, <2>2, <2>3, <2>4
<1>11. \A k \in DOMAIN next.text : (next.text[k] = Separator) <=> (k % 2 = 0)
  <2> SUFFICES ASSUME NEW k \in 1 .. n + 2
               PROVE  (more[k] = Separator) <=> (k % 2 = 0)
    BY <1>7, <1>8
  <2>1. (n + 1) % 2 = 0 /\ (n + 2) % 2 = 1
    BY <1>2, <1>3, OddThenEven
  <2>2. CASE k \in 1 .. n
    BY <1>3, <1>7, <1>9, <2>2
  <2>3. CASE k = n + 1
    BY <1>7, <2>1, <2>3
  <2>4. CASE k = n + 2
    BY <1>1, <1>7, <2>1, <2>4
  <2> QED
    BY <1>2, <2>2, <2>3, <2>4
<1>12. ASSUME NEW j \in DOMAIN next.text, NEW k \in DOMAIN next.text, j # k,
              next.text[j] = next.text[k], next.text[j] # Separator
       PROVE  FALSE
  <2>1. j \in 1 .. n + 2 /\ k \in 1 .. n + 2 /\ more[j] = more[k] /\ more[j] # Separator
    BY <1>7, <1>8, <1>12
  <2>2. j # n + 1 /\ k # n + 1
    BY <1>7, <2>1
  <2>3. \A m \in 1 .. n : text[m] # dir
    BY <1>1, <1>9 DEF Listed
  <2>4. CASE j \in 1 .. n /\ k \in 1 .. n
    BY <1>3, <1>7, <1>9, <1>12, <2>1, <2>4
  <2>5. CASE j = n + 2 /\ k \in 1 .. n
    BY <1>7, <2>1, <2>3, <2>5
  <2>6. CASE k = n + 2 /\ j \in 1 .. n
    BY <1>7, <2>1, <2>3, <2>6
  <2> QED
    BY <1>2, <1>12, <2>1, <2>2, <2>4, <2>5, <2>6, SMTT(30)
<1>13. next.length + 1 + Cardinality(Cells(C \ Listed(next))) <= PathSize
  <2>1. C \ Listed(next) = D \ {dir}
    BY <1>10
  <2>2. Cardinality(Cells(C \ Listed(next))) = rest
    BY <2>1 DEF rest
  <2> QED
    BY <1>1, <1>2, <1>4, <1>5, <1>8, <2>2
<1>14. Len(next.text) % 2 = 1 /\ next.length > 0 /\ next.text # <<>>
  <2>1. Len(next.text) = n + 2 /\ next.text # <<>>
    BY <1>7, <1>8
  <2>2. (n + 2) % 2 = 1
    BY <1>2, <1>3, OddThenEven
  <2>3. next.length > 0
    BY <1>1, <1>2, <1>8
  <2> QED
    BY <2>1, <2>2, <2>3
<1>15. Lists(next, C)
  BY <1>8, <1>11, <1>12, <1>13, <1>14 DEF Lists
<1> QED
  BY <1>6, <1>10, <1>15

(* A directory that is not part of the path yet goes there, one that is    *)
(* stays out.                                                              *)
LEMMA ListsMore ==
  ASSUME NEW path \in Paths, NEW C \in SUBSET Directories, IsFiniteSet(C),
         Cardinality(Cells(C)) <= PathSize, Lists(path, C), NEW dir \in C,
         LengthOf[dir] < MaxPath, NEW next \in AddDirectory(path, dir)
  PROVE  Lists(next, C) /\ Covers(next, dir) /\ Listed(path) \subseteq Listed(next)
<1>1. ~(LengthOf[dir] >= MaxPath) /\ dir \in Inside[dir]
  BY DirectoryAssumption
<1>2. path.terminated
  BY DEF Lists
<1>3. CASE Covers(path, dir)
  <2>1. Found(path, dir) = {TRUE}
    BY <1>3 DEF Found, Covers
  <2>2. next = path
    BY <1>1, <2>1 DEF AddDirectory
  <2> QED
    BY <1>3, <2>2
<1>4. CASE ~Covers(path, dir)
  <2>1. Found(path, dir) = {FALSE}
    BY <1>2, <1>4 DEF Found, Covers
  <2>2. next = Appended(Separated(path), dir)
    BY <1>1, <2>1 DEF AddDirectory
  <2>3. dir \notin Listed(path)
    BY <1>1, <1>4 DEF Covers
  <2>4. /\ Lists(next, C) /\ dir \in Listed(next)
        /\ Listed(path) \subseteq Listed(next)
    <3>1. CASE path.text = <<>>
      BY <2>2, <3>1, ListsFirst
    <3>2. CASE path.text # <<>>
      BY <2>2, <2>3, <3>2, ListsNext
    <3> QED
      BY <3>1, <3>2
  <2> QED
    BY <1>1, <2>4 DEF Covers
<1> QED
  BY <1>3, <1>4

LEMMA CandidatesFinite ==
  ASSUME OtherType
  PROVE  Candidates \in SUBSET Directories /\ IsFiniteSet(Candidates)
<1>1. scan.snapshot \in Modules
  BY DEF OtherType
<1>2. IsFiniteSet(ToSet(scan.snapshot))
  BY <1>1, LoadedFinite DEF Modules
<1>3. Candidates \in SUBSET ToSet(scan.snapshot)
  BY DEF Candidates
<1> QED
  BY <1>2, <1>3, FS_Subset DEF Candidates

(* The path of a refresh that has not begun. *)
LEMMA EmptyLists == \A C : Fits(EmptyPath) /\ Lists(EmptyPath, C)
<1>1. EmptyPath.text = <<>> /\ EmptyPath.length = 0 /\ EmptyPath.terminated = TRUE
  BY DEF EmptyPath
<1>2. PathSize \in Nat \ {0}
  BY DirectoryAssumption
<1>3. Fits(EmptyPath)
  BY <1>1, <1>2 DEF Fits
<1> QED
  BY <1>1, <1>3 DEF Lists

LEMMA PathInit == Init => PathInv
<1> SUFFICES ASSUME Init PROVE PathInv
  OBVIOUS
<1>1. scan.snapshot = <<>> /\ scan.modules = <<>> /\ scan.path = EmptyPath
  BY DEF Init, NoScan
<1>2. ToSet(scan.snapshot) = {} /\ ToSet(scan.modules) = {}
  BY <1>1 DEF ToSet
<1>3. Candidates = {}
  BY <1>2 DEF Candidates
<1> QED
  BY <1>1, <1>2, <1>3, EmptyLists DEF PathInv

(* A step that does not touch the path; whoever replaces the handler found *)
(* no module left, or goes on with it.                                     *)
LEMMA PathStays ==
  ASSUME StackInv, PathInv, scan' = scan, NEW t \in Threads, NEW where \in Places,
         pc' = [pc EXCEPT ![t] = where],
         where \in {"cleanup", "initialize"} => scan.modules = <<>>
  PROVE  PathInv'
<1>1. Candidates' = Candidates
  BY DEF Candidates
<1>2. \A u \in Threads : pc'[u] \in {"cleanup", "initialize"} => scan.modules = <<>>
  BY DEF PathInv, StackInv
<1> QED
  BY <1>1, <1>2 DEF PathInv

(* While one thread builds a path nobody else uses one. *)
LEMMA OneRefresh ==
  ASSUME StackInv, NEW t \in Threads, pc[t] \in Refreshing, NEW u \in Threads, u # t
  PROVE  pc[u] \notin {"cleanup", "initialize"}
<1>1. lock = t
  BY DEF StackInv, Locked
<1>2. pc[u] \notin Locked
  BY <1>1 DEF StackInv
<1> QED
  BY <1>2 DEF Locked, Refreshing

LEMMA PathTaken ==
  ASSUME StackInv, OtherType, NEW t \in Threads, TakeSnapshot(t)
  PROVE  PathInv'
<1>1. PICK s \in Snapshots : scan' = [snapshot |-> s, modules |-> s, path |-> EmptyPath]
  BY DEF TakeSnapshot
<1>2. scan'.snapshot = s /\ scan'.modules = s /\ scan'.path = EmptyPath
  BY <1>1
<1>3. pc[t] \in Refreshing /\ pc' = [pc EXCEPT ![t] = "scan"]
  BY DEF TakeSnapshot, At, Goto, Refreshing
<1>4. \A u \in Threads : pc'[u] \notin {"cleanup", "initialize"}
  BY <1>3, OneRefresh DEF StackInv
<1>5. \A d \in Candidates' : d \in ToSet(s)
  BY <1>2 DEF Candidates
<1> QED
  BY <1>2, <1>4, <1>5, EmptyLists DEF PathInv

LEMMA PathReleased ==
  ASSUME NEW t \in Threads, Release(t)
  PROVE  PathInv'
<1>1. scan' = NoScan
  BY DEF Release
<1>2. scan'.snapshot = <<>> /\ scan'.modules = <<>> /\ scan'.path = EmptyPath
  BY <1>1 DEF NoScan
<1>3. ToSet(scan'.snapshot) = {} /\ ToSet(scan'.modules) = {}
  BY <1>2 DEF ToSet
<1>4. Candidates' = {}
  BY <1>3 DEF Candidates
<1> QED
  BY <1>2, <1>3, <1>4, EmptyLists DEF PathInv

(* One module. *)
LEMMA PathScanned ==
  ASSUME StackInv, OtherType, PathInv, NEW t \in Threads, ScanModule(t)
  PROVE  PathInv'
<1> DEFINE module == Head(scan.modules)
           C == Candidates
<1>1. scan.modules \in Modules /\ scan.modules # <<>> /\ scan.path \in Paths
  BY DEF ScanModule, OtherType
<1>2. PICK path \in (IF module = NoBackslash THEN {scan.path}
                     ELSE AddDirectory(scan.path, module)) :
        scan' = [scan EXCEPT !.path = path, !.modules = Tail(scan.modules)]
  BY DEF ScanModule
<1>3. /\ scan'.snapshot = scan.snapshot /\ scan'.modules = Tail(scan.modules)
      /\ scan'.path = path
  BY <1>2 DEF OtherType
<1>4. module \in Directories \cup {NoBackslash}
  BY <1>1 DEF Modules
<1>5. ToSet(scan.modules) = {module} \cup ToSet(Tail(scan.modules))
  <2> DEFINE s == scan.modules
  <2>1. s \in Seq(Directories \cup {NoBackslash}) /\ s # <<>>
    BY <1>1 DEF Modules
  <2> HIDE DEF s
  <2>2. /\ Len(s) \in Nat /\ Len(s) > 0 /\ DOMAIN s = 1 .. Len(s) /\ Head(s) = s[1]
        /\ DOMAIN Tail(s) = 1 .. Len(s) - 1
        /\ \A k \in 1 .. Len(s) - 1 : Tail(s)[k] = s[k + 1]
    BY <2>1
  <2>3. \A k \in 1 .. Len(s) : k = 1 \/ (k - 1 \in 1 .. Len(s) - 1 /\ k - 1 + 1 = k)
    BY <2>2
  <2>4. ASSUME NEW k \in 1 .. Len(s)
        PROVE  s[k] \in {Head(s)} \cup ToSet(Tail(s))
    <3>1. CASE k = 1
      BY <2>2, <3>1
    <3>2. CASE k # 1
      <4>1. k - 1 \in 1 .. Len(s) - 1 /\ k - 1 + 1 = k
        BY <2>3, <3>2
      <4>2. Tail(s)[k - 1] = s[k]
        BY <2>2, <4>1
      <4> QED
        BY <2>2, <4>1, <4>2 DEF ToSet
    <3> QED
      BY <3>1, <3>2
  <2>5. ASSUME NEW k \in 1 .. Len(s) - 1
        PROVE  Tail(s)[k] \in ToSet(s)
    <3>1. k + 1 \in 1 .. Len(s)
      BY <2>2
    <3> QED
      BY <2>2, <3>1 DEF ToSet
  <2>6. Head(s) \in ToSet(s)
    <3>1. 1 \in 1 .. Len(s)
      BY <2>2
    <3> QED
      BY <2>2, <3>1 DEF ToSet
  <2>7. ToSet(s) \subseteq {Head(s)} \cup ToSet(Tail(s))
    BY <2>2, <2>4 DEF ToSet
  <2>8. ToSet(Tail(s)) \subseteq ToSet(s)
    <3> SUFFICES ASSUME NEW x \in ToSet(Tail(s)) PROVE x \in ToSet(s)
      OBVIOUS
    <3>1. PICK k \in DOMAIN Tail(s) : x = Tail(s)[k]
      BY DEF ToSet
    <3> QED
      BY <2>2, <2>5, <3>1
  <2>9. ToSet(s) = {Head(s)} \cup ToSet(Tail(s))
    BY <2>6, <2>7, <2>8
  <2> QED
    BY <2>9 DEF s
<1>6. C \in SUBSET Directories /\ IsFiniteSet(C) /\ Candidates' = C
  BY <1>3, CandidatesFinite DEF Candidates
<1>7. pc' = pc /\ pc[t] = "scan"
  BY DEF ScanModule, At
<1>8. \A u \in Threads : pc'[u] \notin {"cleanup", "initialize"}
  <2>1. pc[t] \in Refreshing /\ pc[t] \notin {"cleanup", "initialize"}
    BY <1>7 DEF Refreshing
  <2> QED
    BY <1>7, <2>1, OneRefresh
<1>9. ToSet(scan'.modules) \subseteq ToSet(scan'.snapshot)
  BY <1>3, <1>5 DEF PathInv
<1>10. Fits(path)
  <2>1. CASE module = NoBackslash
    BY <1>2, <2>1 DEF PathInv
  <2>2. CASE module # NoBackslash
    BY <1>1, <1>2, <1>4, <2>2, FitsMore DEF PathInv
  <2> QED
    BY <2>1, <2>2
<1>11. ASSUME Cardinality(Cells(C)) <= PathSize
       PROVE  /\ Lists(path, C)
              /\ \A d \in C : Covers(path, d) \/ d \in ToSet(Tail(scan.modules))
  <2>1. /\ Lists(scan.path, C)
        /\ \A d \in C : Covers(scan.path, d) \/ d \in ToSet(scan.modules)
    BY <1>11 DEF PathInv
  <2>2. CASE module \in C
    <3>1. module # NoBackslash /\ LengthOf[module] < MaxPath
      BY <2>2, ThreadAssumption DEF Candidates
    <3>2. path \in AddDirectory(scan.path, module)
      BY <1>2, <3>1
    <3>3. Lists(path, C) /\ Covers(path, module) /\ Listed(scan.path) \subseteq Listed(path)
      <4> HIDE DEF C, module
      <4> QED
        BY <1>1, <1>6, <1>11, <2>1, <2>2, <3>1, <3>2, ListsMore
    <3>4. \A d : Covers(scan.path, d) => Covers(path, d)
      BY <3>3 DEF Covers
    <3> HIDE DEF C, module
    <3> QED
      BY <1>5, <2>1, <3>3, <3>4
  <2>3. CASE module \notin C
    <3>1. path = scan.path
      <4>1. CASE module = NoBackslash
        BY <1>2, <4>1
      <4>2. CASE module # NoBackslash
        <5>1. module \in Directories /\ module \in ToSet(scan.snapshot)
          BY <1>4, <1>5, <4>2 DEF PathInv
        <5>2. ~(LengthOf[module] < MaxPath)
          BY <2>3, <5>1 DEF Candidates
        <5>3. LengthOf[module] >= MaxPath
          BY <5>1, <5>2, DirectoryAssumption
        <5> QED
          BY <1>2, <4>2, <5>3 DEF AddDirectory
      <4> QED
        BY <4>1, <4>2
    <3> HIDE DEF C, module
    <3> QED
      BY <1>5, <2>1, <2>3, <3>1
  <2> QED
    BY <2>2, <2>3
<1> HIDE DEF C, module
<1> QED
  BY <1>3, <1>6, <1>8, <1>9, <1>10, <1>11 DEF PathInv

LEMMA PathStep == ASSUME StackInv, OtherType, PathInv, [Next]_vars PROVE PathInv'
<1> USE DEF At, Goto
<1>1. CASE InitOk \/ InitFails \/ Deinit \/ UNCHANGED vars
  <2>1. UNCHANGED <<scan, pc>>
    BY <1>1 DEF InitOk, InitFails, Deinit, vars, g
  <2> QED
    BY <2>1 DEF PathInv, Candidates
<1>2. ASSUME NEW t \in Threads,
             \/ RefreshCall(t) \/ \E u \in Observed \cup {t} : StackCall(t, u)
             \/ Acquire(t) \/ SnapshotFails(t) \/ SymInitialize(t) \/ OpenThread(t)
             \/ SuspendThread(t) \/ GetThreadContext(t) \/ Walk(t) \/ ResumeThread(t)
             \/ CloseHandle(t)
      PROVE  PathInv'
  <2> DEFINE W == {"idle", "lock_refresh", "open", "walk", "refresh", "release", "lock_walk",
                   "suspend", "close", "context", "resume"}
  <2>1. W \subseteq Places /\ W \cap {"cleanup", "initialize"} = {}
    BY DEF Places, Refreshing
  <2>2. scan' = scan /\ \E where \in W : pc' = [pc EXCEPT ![t] = where]
    BY <1>2 DEF RefreshCall, StackCall, Acquire, SnapshotFails, SymInitialize, OpenThread,
                SuspendThread, GetThreadContext, Walk, ResumeThread, CloseHandle, g
  <2> HIDE DEF W
  <2> QED
    BY <2>1, <2>2, PathStays
<1>3. ASSUME NEW t \in Threads, ScanDone(t)
      PROVE  PathInv'
  <2>1. scan' = scan /\ scan.modules = <<>> /\ "release" \in Places /\ "cleanup" \in Places
    BY <1>3 DEF ScanDone, g, Places, Refreshing
  <2>2. \E where \in Places : pc' = [pc EXCEPT ![t] = where]
    BY <1>3, <2>1 DEF ScanDone
  <2> QED
    BY <2>1, <2>2, PathStays
<1>4. ASSUME NEW t \in Threads, SymCleanup(t)
      PROVE  PathInv'
  <2>1. /\ scan' = scan /\ scan.modules = <<>> /\ "initialize" \in Places
        /\ pc' = [pc EXCEPT ![t] = "initialize"]
    BY <1>4 DEF SymCleanup, Places, Refreshing, PathInv
  <2> QED
    BY <2>1, PathStays
<1>5. ASSUME NEW t \in Threads, TakeSnapshot(t) \/ ScanModule(t) \/ Release(t)
      PROVE  PathInv'
  BY <1>5, PathTaken, PathScanned, PathReleased
<1> QED
  BY <1>1, <1>2, <1>3, <1>4, <1>5 DEF Next, Continue

(* The path a refresh builds stays in its array, whatever the modules, and *)
(* what SymInitialize is given is, when the array had room for all, a      *)
(* list without repetitions in which every directory can be found.         *)
THEOREM PathListed == Spec => []PathLists
<1>1. Init => OtherType /\ PathInv
  BY OtherInit, PathInit
<1>2. StackInv /\ OtherType /\ PathInv /\ [Next]_vars => OtherType' /\ PathInv'
  BY OtherStep, PathStep
<1>3. OtherType /\ PathInv => PathLists
  <2> SUFFICES ASSUME OtherType, PathInv PROVE PathLists
    OBVIOUS
  <2> DEFINE sum == MapThenSumSet(LAMBDA d : LengthOf[d] + 1, Candidates)
  <2>1. sum = Cardinality(Cells(Candidates))
    BY CandidatesFinite, SumIsCells
  <2>2. Fits(scan.path)
    BY DEF PathInv
  <2>3. ASSUME NEW t \in Threads, pc[t] = "initialize", sum <= PathSize
        PROVE  /\ Lists(scan.path, Candidates)
               /\ \A d \in Candidates : Covers(scan.path, d)
    <3>1. scan.modules = <<>>
      BY <2>3 DEF PathInv
    <3>2. ToSet(scan.modules) = {}
      BY <3>1 DEF ToSet
    <3> HIDE DEF sum
    <3> QED
      BY <2>1, <2>3, <3>2 DEF PathInv
  <2> QED
    BY <2>2, <2>3 DEF PathLists, Fits, Lists, Covers
<1> QED
  BY <1>1, <1>2, <1>3, StackInvariance, PTL DEF Spec

=============================================================================

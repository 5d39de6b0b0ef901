----------------------------- MODULE ThreadStack -----------------------------
(***************************************************************************)
(* get_thread_stack.c on Windows: threads capture call stacks, their own   *)
(* or, suspending it, another thread's, with the help of the process-wide  *)
(* dbghelp symbol handler behind lockOverSymCalls.                         *)
(*                                                                         *)
(* A suspended thread takes no step wherever it is, inside this module     *)
(* too.  The text produced is the subject of StackBuffer, the search path  *)
(* of SearchPath, the mask of return addresses of AddressMask.  The Win32  *)
(* calls (SuspendThread, ResumeThread, the SRW lock, dbghelp) are external *)
(* and modelled by what this code needs of them; each may fail.            *)
(***************************************************************************)
EXTENDS Integers, FiniteSets, FiniteSetsExt, SearchPath, AddressMask

CONSTANTS
  Threads,    \* the threads of the process
  Callers,    \* those that call this module
  Observed,   \* those whose stack is captured by another thread
  Snapshots,  \* the lists of modules a refresh may find: their directories
  NoBackslash,  \* in such a list, a path without a directory
  MaxAddress,   \* lpMaximumApplicationAddress
  MaxCalls,   \* bound: calls of get_thread_stack and refresh per thread
  NoThread

ASSUME ThreadAssumption ==
  /\ IsFiniteSet(Threads)
  /\ Callers \subseteq Threads
  /\ Observed \subseteq Threads
  /\ NoThread \notin Threads
  /\ MaxCalls \in Nat
  /\ NoBackslash \notin Directories
  /\ Snapshots \subseteq Seq(Directories \cup {NoBackslash})
  /\ MaxAddress \in Word \ {{}}

VARIABLES
  symbolsState,   \* g.symbolsState
  processHandle,  \* g.processHandle is an open handle
  handler,        \* dbghelp has a symbol handler for it: "open" or "closed"
  lock,           \* the owner of g.lockOverSymCalls, or NoThread
  addressMask,    \* g.addressMask
  scan,           \* the refresh of the owner: modules to come and path so far
  suspended,      \* suspended[u]: the suspend count of thread u
  handles,        \* thread and snapshot handles opened and not closed
  pc,             \* pc[t]: where t is in this module
  target,         \* target[t]: threadId of its get_thread_stack call
  calls,          \* calls[t]: calls made
  leaked,         \* history: handles abandoned, and leftOver suspensions
  refreshFailed   \* history: the last SymInitialize of a refresh failed

g == <<symbolsState, processHandle, handler, lock, addressMask, scan, refreshFailed>>
vars == <<g, suspended, handles, pc, target, calls, leaked>>

(* snapshot: the directories found, for the properties *)
NoScan == [snapshot |-> <<>>, modules |-> <<>>, path |-> EmptyPath]

Init ==
  /\ symbolsState = "NOT_INITIALIZED"
  /\ processHandle = FALSE
  /\ handler = "closed"
  /\ lock = NoThread
  /\ addressMask = AllOnes
  /\ scan = NoScan
  /\ refreshFailed = FALSE
  /\ suspended = [u \in Threads |-> 0]
  /\ handles = 0
  /\ pc = [t \in Threads |-> "idle"]
  /\ target = [t \in Threads |-> t]
  /\ calls = [t \in Threads |-> 0]
  /\ leaked = [handles |-> 0, suspensions |-> [u \in Threads |-> 0]]

Runs(t) == suspended[t] = 0
At(t, where) == Runs(t) /\ pc[t] = where
Goto(t, where) == pc' = [pc EXCEPT ![t] = where]

-----------------------------------------------------------------------------
(* get_thread_stack_init and get_thread_stack_deinit are not thread-safe:  *)
(* they are called while nobody is in this module.                         *)

Alone == \A t \in Threads : pc[t] = "idle"

InitOk ==
  /\ Alone
  /\ symbolsState' = "INITIALIZED"
  /\ IF symbolsState = "INITIALIZED"
     THEN UNCHANGED <<processHandle, handler, addressMask, refreshFailed>>
     ELSE /\ processHandle' = TRUE
          /\ handler' = "open"
          /\ addressMask' = Fill(MaxAddress)
          /\ refreshFailed' = FALSE
  /\ UNCHANGED <<lock, scan, suspended, handles, pc, target, calls, leaked>>

(* DuplicateHandle failed, or SymInitialize did and the handle is closed. *)
InitFails ==
  /\ Alone
  /\ symbolsState = "NOT_INITIALIZED"
  /\ UNCHANGED vars

Deinit ==
  /\ Alone
  /\ symbolsState' = "NOT_INITIALIZED"
  /\ processHandle' = FALSE
  /\ handler' = "closed"
  /\ UNCHANGED <<lock, addressMask, scan, refreshFailed, suspended, handles, pc,
                 target, calls, leaked>>

-----------------------------------------------------------------------------
(* get_thread_stack_refresh_module_list and get_thread_stack begin with an *)
(* unlocked look at symbolsState.                                          *)

Counted(t) ==
  /\ At(t, "idle")
  /\ t \in Callers
  /\ calls[t] < MaxCalls
  /\ calls' = [calls EXCEPT ![t] = @ + 1]

RefreshCall(t) ==
  /\ Counted(t)
  /\ Goto(t, IF symbolsState = "INITIALIZED" THEN "lock_refresh" ELSE "idle")
  /\ UNCHANGED <<g, suspended, handles, target, leaked>>

StackCall(t, u) ==
  /\ Counted(t)
  /\ target' = [target EXCEPT ![t] = u]
  /\ Goto(t, IF symbolsState = "INITIALIZED" THEN "open" ELSE "idle")
  /\ UNCHANGED <<g, suspended, handles, leaked>>

(* Mutant: the lock is not waited for. *)
BargesIn(t) ==
  /\ Runs(t)
  /\ pc[t] \in {"lock_walk", "lock_refresh"}
  /\ lock' = t
  /\ Goto(t, IF pc[t] = "lock_walk" THEN "walk" ELSE "refresh")
  /\ UNCHANGED <<symbolsState, processHandle, handler, addressMask, scan,
                 refreshFailed, suspended, handles, target, calls, leaked>>

(* AcquireSRWLockExclusive *)
Acquire(t) ==
  /\ Runs(t)
  /\ pc[t] \in {"lock_walk", "lock_refresh"}
  /\ lock = NoThread
  /\ lock' = t
  /\ Goto(t, IF pc[t] = "lock_walk" THEN "walk" ELSE "refresh")
  /\ UNCHANGED <<symbolsState, processHandle, handler, addressMask, scan,
                 refreshFailed, suspended, handles, target, calls, leaked>>

-----------------------------------------------------------------------------
(* get_thread_stack_refresh_module_list, under the lock *)

(* Mutant: a failed snapshot returns without releasing the lock. *)
SnapshotFailureReturns(t) ==
  /\ At(t, "refresh")
  /\ Goto(t, "idle")
  /\ UNCHANGED <<g, suspended, handles, target, calls, leaked>>

(* CreateToolhelp32Snapshot failed: SymRefreshModuleList. *)
SnapshotFails(t) ==
  /\ At(t, "refresh")
  /\ Goto(t, "release")
  /\ UNCHANGED <<g, suspended, handles, target, calls, leaked>>

TakeSnapshot(t) ==
  /\ At(t, "refresh")
  /\ \E s \in Snapshots : scan' = [snapshot |-> s, modules |-> s, path |-> EmptyPath]
  /\ handles' = handles + 1
  /\ Goto(t, "scan")
  /\ UNCHANGED <<symbolsState, processHandle, handler, lock, addressMask, refreshFailed,
                 suspended, target, calls, leaked>>

(* One module of the snapshot. *)
ScanModule(t) ==
  /\ At(t, "scan")
  /\ scan.modules # <<>>
  /\ LET module == Head(scan.modules)
     IN  \E path \in (IF module = NoBackslash THEN {scan.path}
                       ELSE AddDirectory(scan.path, module)) :
           scan' = [scan EXCEPT !.path = path, !.modules = Tail(@)]
  /\ UNCHANGED <<symbolsState, processHandle, handler, lock, addressMask, refreshFailed,
                 suspended, handles, pc, target, calls, leaked>>

(* CloseHandle of the snapshot; an empty path leaves the handler alone. *)
ScanDone(t) ==
  /\ At(t, "scan")
  /\ scan.modules = <<>>
  /\ \/ handles' = handles - 1 /\ UNCHANGED leaked
     \/ UNCHANGED handles /\ leaked' = [leaked EXCEPT !.handles = @ + 1]
  /\ Goto(t, IF scan.path.length = 0 THEN "release" ELSE "cleanup")
  /\ UNCHANGED <<g, suspended, target, calls>>

(* Mutant: the lock is free while there is no handler. *)
CleanupUnlocks(t) ==
  /\ At(t, "cleanup")
  /\ handler' = "closed"
  /\ lock' = NoThread
  /\ Goto(t, "initialize")
  /\ UNCHANGED <<symbolsState, processHandle, addressMask, scan, refreshFailed,
                 suspended, handles, target, calls, leaked>>

SymCleanup(t) ==
  /\ At(t, "cleanup")
  /\ handler' = "closed"
  /\ Goto(t, "initialize")
  /\ UNCHANGED <<symbolsState, processHandle, lock, addressMask, scan, refreshFailed,
                 suspended, handles, target, calls, leaked>>

(* A failure is printed, and leaves the module without a handler. *)
SymInitialize(t) ==
  /\ At(t, "initialize")
  /\ handler' \in {"open", "closed"}
  /\ refreshFailed' = (handler' = "closed")
  /\ Goto(t, "release")
  /\ UNCHANGED <<symbolsState, processHandle, lock, addressMask, scan,
                 suspended, handles, target, calls, leaked>>

(* ReleaseSRWLockExclusive *)
Release(t) ==
  /\ At(t, "release")
  /\ lock' = NoThread
  /\ scan' = NoScan
  /\ Goto(t, "idle")
  /\ UNCHANGED <<symbolsState, processHandle, handler, addressMask, refreshFailed,
                 suspended, handles, target, calls, leaked>>

-----------------------------------------------------------------------------
(* get_thread_stack *)

OpenThread(t) ==
  /\ At(t, "open")
  /\ \/ /\ Goto(t, "idle")
        /\ UNCHANGED handles
     \/ /\ Goto(t, IF target[t] = t THEN "lock_walk" ELSE "suspend")
        /\ handles' = handles + 1
  /\ UNCHANGED <<g, suspended, target, calls, leaked>>

(* Mutant: a failed SuspendThread returns at once. *)
SuspendFailureReturns(t) ==
  /\ At(t, "suspend")
  /\ Goto(t, "idle")
  /\ UNCHANGED <<g, suspended, handles, target, calls, leaked>>

SuspendThread(t) ==
  /\ At(t, "suspend")
  /\ \/ /\ Goto(t, "close")
        /\ UNCHANGED suspended
     \/ /\ Goto(t, "context")
        /\ suspended' = [suspended EXCEPT ![target[t]] = @ + 1]
  /\ UNCHANGED <<g, handles, target, calls, leaked>>

(* Mutant: a failed GetThreadContext forgets that the thread is suspended. *)
ContextFailureForgets(t) ==
  /\ At(t, "context")
  /\ Goto(t, "lock_walk") \/ Goto(t, "close")
  /\ UNCHANGED <<g, suspended, handles, target, calls, leaked>>

GetThreadContext(t) ==
  /\ At(t, "context")
  /\ Goto(t, "lock_walk") \/ Goto(t, "resume")
  /\ UNCHANGED <<g, suspended, handles, target, calls, leaked>>

(* The walk over the frames, and ReleaseSRWLockExclusive. *)
Walk(t) ==
  /\ At(t, "walk")
  /\ lock' = NoThread
  /\ Goto(t, IF target[t] = t THEN "close" ELSE "resume")
  /\ UNCHANGED <<symbolsState, processHandle, handler, addressMask, scan,
                 refreshFailed, suspended, handles, target, calls, leaked>>

(* When ResumeThread fails the function returns at once: the thread stays  *)
(* suspended and the handle open.                                          *)
ResumeThread(t) ==
  /\ At(t, "resume")
  /\ \/ /\ Goto(t, "close")
        /\ suspended' = [suspended EXCEPT ![target[t]] = @ - 1]
        /\ UNCHANGED leaked
     \/ /\ Goto(t, "idle")
        /\ leaked' = [leaked EXCEPT !.handles = @ + 1, !.suspensions[target[t]] = @ + 1]
        /\ UNCHANGED suspended
  /\ UNCHANGED <<g, handles, target, calls>>

CloseHandle(t) ==
  /\ At(t, "close")
  /\ Goto(t, "idle")
  /\ \/ handles' = handles - 1 /\ UNCHANGED leaked
     \/ UNCHANGED handles /\ leaked' = [leaked EXCEPT !.handles = @ + 1]
  /\ UNCHANGED <<g, suspended, target, calls>>

-----------------------------------------------------------------------------
Continue(t) ==
  \/ Acquire(t)
  \/ SnapshotFails(t)
  \/ TakeSnapshot(t)
  \/ ScanModule(t)
  \/ ScanDone(t)
  \/ SymCleanup(t)
  \/ SymInitialize(t)
  \/ Release(t)
  \/ OpenThread(t)
  \/ SuspendThread(t)
  \/ GetThreadContext(t)
  \/ Walk(t)
  \/ ResumeThread(t)
  \/ CloseHandle(t)

Next ==
  \/ InitOk
  \/ InitFails
  \/ Deinit
  \/ \E t \in Threads :
       \/ RefreshCall(t)
       \/ \E u \in Observed \cup {t} : StackCall(t, u)
       \/ Continue(t)

Spec == Init /\ [][Next]_vars

(* A thread that is in this module and not suspended runs on.  An SRW lock *)
(* is not fair, but calls are bounded, so that a free lock is acquired.    *)
FairSpec == Spec /\ \A t \in Threads : WF_vars(Continue(t))

-----------------------------------------------------------------------------
(* Properties *)

Refreshing == {"refresh", "scan", "cleanup", "initialize", "release"}

Places == Refreshing \cup {"idle", "lock_refresh", "open", "suspend", "context",
                           "lock_walk", "walk", "resume", "close"}

(* The state of get_thread_stack.c keeps its type: no handle is closed and *)
(* no thread resumed more often than opened or suspended.                  *)
TypeOK ==
  /\ symbolsState \in {"NOT_INITIALIZED", "INITIALIZED"}
  /\ processHandle \in BOOLEAN
  /\ handler \in {"open", "closed"}
  /\ lock \in Threads \cup {NoThread}
  /\ addressMask \in Word
  /\ scan.modules \in Seq(Directories \cup {NoBackslash})
  /\ scan.path \in [text : Seq(Directories \cup {Separator}), length : Nat,
                     terminated : BOOLEAN]
  /\ refreshFailed \in BOOLEAN
  /\ suspended \in [Threads -> Nat]
  /\ handles \in Nat
  /\ pc \in [Threads -> Places]
  /\ target \in [Threads -> Threads]
  /\ calls \in [Threads -> 0 .. MaxCalls]
  /\ leaked \in [handles : Nat, suspensions : [Threads -> Nat]]

(* dbghelp is single-threaded: at most one thread walks or replaces the    *)
(* symbol handler, and never without a process handle.                     *)
SymCallsSerialized ==
  \A t \in Threads : pc[t] \in Refreshing \cup {"walk"} =>
    /\ processHandle
    /\ \A u \in Threads \ {t} : pc[u] \notin Refreshing \cup {"walk"}

(* Nobody walks a stack in the time between SymCleanup and SymInitialize:  *)
(* there is a symbol handler, unless a refresh failed to open the new one. *)
WalkHasHandler ==
  \A t \in Threads : pc[t] = "walk" => handler = "open" \/ refreshFailed

(* A thread is suspended exactly as often as captures of it are under way, *)
(* so that it runs again when they are over, whichever of the calls in     *)
(* between failed; a ResumeThread that failed is the only exception.       *)
HoldsSuspended(u) ==
  {t \in Threads : /\ target[t] = u
                   /\ t # u
                   /\ pc[t] \in {"context", "lock_walk", "walk", "resume"}}

SuspensionsUndone ==
  \A u \in Threads : suspended[u] = Cardinality(HoldsSuspended(u)) + leaked.suspensions[u]

(* Every handle opened, of a thread or of a snapshot, is closed, but for   *)
(* failures of ResumeThread and CloseHandle themselves; none is closed     *)
(* twice, nor any other state out of its type.                             *)
HandleInUse(t) ==
  pc[t] \in {"scan", "suspend", "context", "lock_walk", "walk", "resume", "close"}

HandlesReturned ==
  /\ TypeOK
  /\ handles = Cardinality({t \in Threads : HandleInUse(t)}) + leaked.handles

(* The path and its terminator stay in the array, also when separators     *)
(* were written for directories that did not fit.  What SymInitialize is   *)
(* given, when the array had room for all, is a terminated list,           *)
(* directories and separators in turn, none twice, in which every module   *)
(* can be found: its directory is part of one listed.                      *)
Candidates ==
  {d \in ToSet(scan.snapshot) \cap Directories : LengthOf[d] < MaxPath}

PathLists ==
  LET text == scan.path.text
  IN  /\ scan.path.length + (IF scan.path.terminated THEN 1 ELSE 0) <= PathSize
      /\ (\E t \in Threads : pc[t] = "initialize")
           /\ MapThenSumSet(LAMBDA d : LengthOf[d] + 1, Candidates) <= PathSize
         => /\ scan.path.terminated
            /\ \A k \in DOMAIN text : (text[k] = Separator) <=> (k % 2 = 0)
            /\ \A j, k \in DOMAIN text : j # k /\ text[j] = text[k] => text[j] = Separator
            /\ \A d \in Candidates : \E e \in Listed(scan.path) : d \in Inside[e]

(* The mask keeps every bit an address of the process can have and strips  *)
(* all that are above: what strip_pac leaves of a signed address is the    *)
(* address.                                                                *)
MaskStripsSignature ==
  symbolsState = "INITIALIZED" => StripPac(AllOnes, addressMask) = 0 .. Max(MaxAddress)

(* A call returns, when nobody captures the stack of a thread that uses    *)
(* this module.                                                            *)
CallsReturn == \A t \in Threads : (pc[t] # "idle") ~> (pc[t] = "idle")

-----------------------------------------------------------------------------
(* What the comments say and the code does not do. *)

(* get_thread_stack.c, step 4: once the context has been acquired, the     *)
(* stack is walked - whichever thread it is the stack of.                  *)
ContextIsWalked == \A t \in Threads : (pc[t] = "lock_walk") ~> (pc[t] = "walk")

(* get_thread_stack.c:332: once a directory did not fit, no directories    *)
(* are added.                                                              *)
StopsWhenFull ==
  (\E t \in Threads : pc[t] = "initialize") =>
    \A d \in Candidates : \A k \in DOMAIN scan.snapshot :
      /\ scan.snapshot[k] = d
      /\ \A e \in Listed(scan.path) : d \notin Inside[e]
      => \A n \in k + 1 .. Len(scan.snapshot) :
           scan.snapshot[n] \in Listed(scan.path)
             => \E m \in 1 .. k - 1 : scan.snapshot[m] = scan.snapshot[n]
=============================================================================

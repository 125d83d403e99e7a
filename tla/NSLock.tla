------------------------------- MODULE NSLock -------------------------------
(***************************************************************************)
(* The namespace lock: nsLockMap and localLockInstance                     *)
(* (cmd/ipos/cmd/namespace-lock.go) over LRWMutex (pkg/lsync/lrwmutex.go). *)
(*                                                                         *)
(* A goroutine of Procs makes an instance for a list of paths, takes the   *)
(* paths' locks one after the other, and releases them.  Every critical    *)
(* section of lockMapMutex and of LRWMutex.m is one action, so that        *)
(* everything the two mutexes leave unprotected interleaves.  An nsLock    *)
(* object is an element of LockIds: a goroutine keeps the pointer it read  *)
(* from the map between two critical sections, and an object may be reused *)
(* only when neither the map nor a goroutine refers to it.                 *)
(*                                                                         *)
(* A caller releases what it acquired, once, and only after GetLock or     *)
(* GetRLock returned nil.                                                  *)
(***************************************************************************)
EXTENDS Integers, Sequences, FiniteSets

CONSTANTS
    Procs,      \* goroutines
    Resources,  \* volume/path, numbered in the order of sort.Strings
    LockIds,    \* nsLock objects
    NoLock,     \* the nil *nsLock
    PathArgs,   \* the path lists that callers pass to NewNSLock
    MaxPaths    \* the length of the longest of them

ASSUME ResourcesAssumption == Resources \subseteq Int
ASSUME NoLockAssumption == NoLock \notin LockIds
ASSUME PathArgsAssumption ==
    \A args \in PathArgs : args \in Seq(Resources) /\ Len(args) <= MaxPaths
ASSUME MaxPathsAssumption == MaxPaths \in Nat
ASSUME ProcsAssumption == IsFiniteSet(Procs)

VARIABLES
    lockMap,    \* nsLockMap.lockMap: resource -> nsLock
    ref,        \* nsLock.ref
    state,      \* LRWMutex.state: WRITELOCK, NOLOCKS or the number of readers
    pc,         \* where a goroutine is
    paths,      \* localLockInstance.paths
    readLock,   \* GetRLock/RUnlock rather than GetLock/Unlock
    acquired,   \* len(success) in GetLock: the paths 1..acquired were locked
    released,   \* how many of them the unlocking loop is done with
    nsLk        \* the local variable nsLk of lock and unlock

sharedVars == <<lockMap, ref, state>>
instVars == <<paths, readLock>>
vars == <<lockMap, ref, state, pc, paths, readLock, acquired, released, nsLk>>

WRITELOCK == -1
NOLOCKS == 0

-----------------------------------------------------------------------------
(* Where a goroutine is *)

\* The path being locked, or being unlocked.
LockPath(p) == paths[p][acquired[p] + 1]
UnlockPath(p) == paths[p][released[p] + 1]

\* Slot k of p counts in the ref of its resource's nsLock ...
Referenced(p, k) ==
    \/ released[p] < k /\ k <= acquired[p]
    \/ pc[p] \in {"try", "drop"} /\ k = acquired[p] + 1

\* ... and slot k of p holds the LRWMutex.
Holding(p, k) ==
    /\ released[p] < k /\ k <= acquired[p]
    /\ ~(pc[p] = "deref" /\ k = released[p] + 1)

Slots == Procs \X (1 .. MaxPaths)

\* The slots that count in, and that hold, the lock of r.
RefSlots(r) ==
    {s \in Slots : /\ s[2] \in DOMAIN paths[s[1]]
                   /\ paths[s[1]][s[2]] = r
                   /\ Referenced(s[1], s[2])}

HoldSlots(r) ==
    {s \in Slots : /\ s[2] \in DOMAIN paths[s[1]]
                   /\ paths[s[1]][s[2]] = r
                   /\ Holding(s[1], s[2])}

-----------------------------------------------------------------------------
Init ==
    /\ lockMap = [r \in Resources |-> NoLock]
    /\ ref = [l \in LockIds |-> 0]
    /\ state = [l \in LockIds |-> NOLOCKS]
    /\ pc = [p \in Procs |-> "idle"]
    /\ paths = [p \in Procs |-> << >>]
    /\ readLock = [p \in Procs |-> FALSE]
    /\ acquired = [p \in Procs |-> 0]
    /\ released = [p \in Procs |-> 0]
    /\ nsLk = [p \in Procs |-> NoLock]

\* Mutant: the paths are locked in the order of the caller.
SortedPathsUnsorted(args) == {args}

\* sort.Strings(paths)
SortedPaths(args) ==
    {ps \in [1 .. Len(args) -> Resources] :
        /\ \A i, j \in 1 .. Len(args) : i < j => ps[i] <= ps[j]
        /\ \A r \in Resources :
              Cardinality({i \in 1 .. Len(args) : ps[i] = r})
                  = Cardinality({i \in 1 .. Len(args) : args[i] = r})}

\* NewNSLock and the entry of GetLock (readLock := false) or GetRLock (true).
NewNSLock(p) ==
    /\ pc[p] = "idle"
    /\ \E args \in PathArgs, rd \in BOOLEAN : \E ps \in SortedPaths(args) :
        /\ paths' = [paths EXCEPT ![p] = ps]
        /\ readLock' = [readLock EXCEPT ![p] = rd]
    /\ pc' = [pc EXCEPT ![p] = "next"]
    /\ acquired' = [acquired EXCEPT ![p] = 0]
    /\ released' = [released EXCEPT ![p] = 0]
    /\ UNCHANGED <<sharedVars, nsLk>>

\* The loop of GetLock over li.paths has locked them all: it returns nil.
GotLock(p) ==
    /\ pc[p] = "next"
    /\ acquired[p] = Len(paths[p])
    /\ pc' = [pc EXCEPT ![p] = "held"]
    /\ UNCHANGED <<sharedVars, instVars, acquired, released, nsLk>>

\* An nsLock that nothing refers to: what &nsLock{} may return.
Unused(l) ==
    /\ \A r \in Resources : lockMap[r] # l
    /\ \A p \in Procs : nsLk[p] # l

\* nsLockMap.lock, first critical section: find or make the entry, count it.
LockEnter(p) ==
    /\ pc[p] = "next"
    /\ acquired[p] < Len(paths[p])
    /\ LET r == LockPath(p) IN
       \/ /\ lockMap[r] = NoLock
          /\ \E l \in LockIds :
              /\ Unused(l)
              /\ lockMap' = [lockMap EXCEPT ![r] = l]
              /\ ref' = [ref EXCEPT ![l] = 1]
              /\ state' = [state EXCEPT ![l] = NOLOCKS]
              /\ nsLk' = [nsLk EXCEPT ![p] = l]
       \/ /\ lockMap[r] # NoLock
          /\ ref' = [ref EXCEPT ![lockMap[r]] = @ + 1]
          /\ nsLk' = [nsLk EXCEPT ![p] = lockMap[r]]
          /\ UNCHANGED <<lockMap, state>>
    /\ pc' = [pc EXCEPT ![p] = "try"]
    /\ UNCHANGED <<instVars, acquired, released>>

\* Mutant: a writer does not wait for readers.
CanLockIgnoringReaders(p) == state[nsLk[p]] # WRITELOCK

\* What one attempt of lockLoop finds.
CanLock(p) ==
    IF readLock[p] THEN state[nsLk[p]] # WRITELOCK ELSE state[nsLk[p]] = NOLOCKS

\* LRWMutex.lockLoop, an attempt that succeeds; lock returns true.
LockSuccess(p) ==
    /\ pc[p] = "try"
    /\ CanLock(p)
    /\ state' = [state EXCEPT ![nsLk[p]] = IF readLock[p] THEN @ + 1 ELSE WRITELOCK]
    /\ acquired' = [acquired EXCEPT ![p] = @ + 1]
    /\ nsLk' = [nsLk EXCEPT ![p] = NoLock]
    /\ pc' = [pc EXCEPT ![p] = "next"]
    /\ UNCHANGED <<lockMap, ref, instVars, released>>

\* Mutant: lockLoop never gives up.
LockTimeoutNever(p) == FALSE /\ UNCHANGED vars

\* LRWMutex.lockLoop, an attempt that fails once the timeout has elapsed.  An
\* attempt that fails earlier changes nothing; ctx.Done() only leaves the select.
LockTimeout(p) ==
    /\ pc[p] = "try"
    /\ ~CanLock(p)
    /\ pc' = [pc EXCEPT ![p] = "drop"]
    /\ UNCHANGED <<sharedVars, instVars, acquired, released, nsLk>>

\* Mutant: the entry is deleted whatever its ref.
UnrefAlwaysDeleting(l, r) ==
    /\ ref' = [ref EXCEPT ![l] = @ - 1]
    /\ lockMap' = [lockMap EXCEPT ![r] = NoLock]

\* ref-- and, at 0, delete(n.lockMap, resource).
Unref(l, r) ==
    /\ ref' = [ref EXCEPT ![l] = @ - 1]
    /\ lockMap' = IF ref[l] = 1 THEN [lockMap EXCEPT ![r] = NoLock] ELSE lockMap

\* nsLockMap.lock, last critical section: the lock was not obtained.  GetLock
\* then unlocks the paths of success and returns OperationTimedOut.
LockDrop(p) ==
    /\ pc[p] = "drop"
    /\ Unref(nsLk[p], LockPath(p))
    /\ nsLk' = [nsLk EXCEPT ![p] = NoLock]
    /\ pc' = [pc EXCEPT ![p] = "find"]
    /\ UNCHANGED <<state, instVars, acquired, released>>

\* The caller calls Unlock or RUnlock.
Unlock(p) ==
    /\ pc[p] = "held"
    /\ pc' = [pc EXCEPT ![p] = "find"]
    /\ UNCHANGED <<sharedVars, instVars, acquired, released, nsLk>>

\* The unlocking loop is over: the caller drops the instance.
Unlocked(p) ==
    /\ pc[p] = "find"
    /\ released[p] = acquired[p]
    /\ pc' = [pc EXCEPT ![p] = "idle"]
    /\ acquired' = [acquired EXCEPT ![p] = 0]
    /\ released' = [released EXCEPT ![p] = 0]
    /\ UNCHANGED <<sharedVars, instVars, nsLk>>

\* nsLockMap.unlock, first critical section; a missing entry is passed over.
UnlockFind(p) ==
    /\ pc[p] = "find"
    /\ released[p] < acquired[p]
    /\ LET l == lockMap[UnlockPath(p)] IN
       IF l = NoLock
       THEN /\ released' = [released EXCEPT ![p] = @ + 1]
            /\ UNCHANGED <<pc, nsLk>>
       ELSE /\ nsLk' = [nsLk EXCEPT ![p] = l]
            /\ pc' = [pc EXCEPT ![p] = "release"]
            /\ UNCHANGED released
    /\ UNCHANGED <<sharedVars, instVars, acquired>>

\* LRWMutex.unlock would succeed.
CanUnlock(p) ==
    IF readLock[p] THEN state[nsLk[p]] \notin {WRITELOCK, NOLOCKS}
                   ELSE state[nsLk[p]] = WRITELOCK

\* LRWMutex.Unlock and RUnlock, which panic when the lock is not held.
UnlockRelease(p) ==
    /\ pc[p] = "release"
    /\ IF CanUnlock(p)
       THEN /\ state' = [state EXCEPT ![nsLk[p]] = IF readLock[p] THEN @ - 1 ELSE NOLOCKS]
            /\ pc' = [pc EXCEPT ![p] = "deref"]
       ELSE /\ pc' = [pc EXCEPT ![p] = "panic"]
            /\ UNCHANGED state
    /\ UNCHANGED <<lockMap, ref, instVars, acquired, released, nsLk>>

\* nsLockMap.unlock, last critical section; a ref of 0 is logged as an error.
UnlockDeref(p) ==
    /\ pc[p] = "deref"
    /\ IF ref[nsLk[p]] = 0 THEN UNCHANGED <<lockMap, ref>>
                           ELSE Unref(nsLk[p], UnlockPath(p))
    /\ released' = [released EXCEPT ![p] = @ + 1]
    /\ nsLk' = [nsLk EXCEPT ![p] = NoLock]
    /\ pc' = [pc EXCEPT ![p] = "find"]
    /\ UNCHANGED <<state, instVars, acquired>>

\* What GetLock and Unlock do once called, without the caller or another lock.
Step(p) ==
    \/ GotLock(p)
    \/ LockEnter(p)
    \/ LockSuccess(p)
    \/ LockTimeout(p)
    \/ LockDrop(p)
    \/ Unlocked(p)
    \/ UnlockFind(p)
    \/ UnlockRelease(p)
    \/ UnlockDeref(p)

Next == \E p \in Procs : NewNSLock(p) \/ Unlock(p) \/ Step(p)

Spec == Init /\ [][Next]_vars

\* A goroutine inside GetLock or Unlock is scheduled again.  Nothing makes a
\* caller call them.
FairSpec == Spec /\ \A p \in Procs : WF_vars(Step(p))

-----------------------------------------------------------------------------
(* Properties *)

PCs == {"idle", "next", "try", "drop", "held", "find", "release", "deref", "panic"}

\* The type invariant.
TypeOK ==
    /\ lockMap \in [Resources -> LockIds \cup {NoLock}]
    /\ ref \in [LockIds -> Nat]
    /\ state \in [LockIds -> Int]
    /\ pc \in [Procs -> PCs]
    /\ paths \in [Procs -> Seq(Resources)]
    /\ readLock \in [Procs -> BOOLEAN]
    /\ acquired \in [Procs -> Nat]
    /\ released \in [Procs -> Nat]
    /\ nsLk \in [Procs -> LockIds \cup {NoLock}]

\* Two different acquisitions of one resource are both read locks
\* (LRWMutex.lockLoop, reached through whatever entry lockMap held).
MutualExclusion ==
    \A r \in Resources : \A s, t \in HoldSlots(r) :
        s # t => readLock[s[1]] /\ readLock[t[1]]

\* unlock finds the entry of the path it unlocks, LRWMutex.Unlock and RUnlock
\* do not panic ("Trying to Unlock() while no Lock() is active"), and the error
\* "Namespace reference count cannot be 0" is not logged.
ReleaseIsSafe ==
    \A p \in Procs :
        /\ pc[p] # "panic"
        /\ pc[p] = "find" /\ released[p] < acquired[p] => lockMap[UnlockPath(p)] # NoLock
        /\ pc[p] = "release" => CanUnlock(p)
        /\ pc[p] = "deref" => ref[nsLk[p]] # 0

\* The map has an entry for exactly the resources that a goroutine holds or
\* waits for, and its ref is the number of them: no entry outlives its users
\* and none is deleted under them.
EntryIffReferenced ==
    \A r \in Resources :
        /\ lockMap[r] = NoLock => RefSlots(r) = {}
        /\ lockMap[r] # NoLock => /\ RefSlots(r) # {}
                                  /\ ref[lockMap[r]] = Cardinality(RefSlots(r))

\* Where a goroutine may be with what it acquired and released.
Progress ==
    \A p \in Procs :
        /\ Len(paths[p]) <= MaxPaths
        /\ released[p] <= acquired[p]
        /\ acquired[p] <= Len(paths[p])
        /\ pc[p] = "idle" => acquired[p] = 0
        /\ pc[p] \in {"next", "try", "drop", "held"} => released[p] = 0
        /\ pc[p] \in {"try", "drop"} => acquired[p] < Len(paths[p])
        /\ pc[p] \in {"release", "deref"} => released[p] < acquired[p]
        /\ pc[p] # "panic"

\* The pointer a goroutine keeps across critical sections is the map's entry.
PointersCurrent ==
    /\ \A p \in Procs :
        /\ pc[p] \in {"try", "drop"} => nsLk[p] = lockMap[LockPath(p)] /\ nsLk[p] # NoLock
        /\ pc[p] \in {"release", "deref"} => nsLk[p] = lockMap[UnlockPath(p)] /\ nsLk[p] # NoLock
    /\ \A r, q \in Resources : lockMap[r] = lockMap[q] /\ lockMap[r] # NoLock => r = q

\* LRWMutex.state is what its holders make it.
StateMatchesHolders ==
    \A r \in Resources : lockMap[r] # NoLock =>
        \/ /\ state[lockMap[r]] = WRITELOCK
           /\ \E s \in Slots : HoldSlots(r) = {s} /\ ~readLock[s[1]]
        \/ /\ state[lockMap[r]] = Cardinality(HoldSlots(r))
           /\ \A s \in HoldSlots(r) : readLock[s[1]]

\* The inductive invariant behind the others: the pointer, the reference count
\* and the LRWMutex state that a goroutine acts on agree with what the
\* goroutines hold and wait for.
LockInv ==
    /\ TypeOK
    /\ Progress
    /\ PointersCurrent
    /\ EntryIffReferenced
    /\ StateMatchesHolders

\* q holds the lock that p waits for.
WaitsFor(p, q) ==
    /\ pc[p] = "try"
    /\ ~CanLock(p)
    /\ \E s \in HoldSlots(LockPath(p)) : s[1] = q

\* Goroutines never wait for each other in a circle: NewNSLock sorts the paths.
NoWaitCycle ==
    \A S \in (SUBSET Procs) \ {{}} : \E p \in S : \A q \in S \ {p} : ~WaitsFor(p, q)

\* GetLock and GetRLock return, whatever the holders of the locks do: a path
\* that stays locked (also by the caller itself, when a path is listed twice)
\* ends the attempt at the timeout.
GetLockReturns ==
    \A p \in Procs : pc[p] = "next" ~> pc[p] \in {"held", "idle"}

\* The namespace lock implements a table of readers/writer locks.
Table == INSTANCE RWLockTable WITH
    Holders <- Slots,
    readers <- [r \in Resources |-> {s \in HoldSlots(r) : readLock[s[1]]}],
    writers <- [r \in Resources |-> {s \in HoldSlots(r) : ~readLock[s[1]]}]

\* Acquisitions and releases are atomic and exclude each other as in RWLockTable.
RefinesTable == Table!TableInit /\ [][Table!TableNext]_(Table!tableVars)

=============================================================================

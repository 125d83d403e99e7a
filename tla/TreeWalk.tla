------------------------------ MODULE TreeWalk ------------------------------
(***************************************************************************)
(* Paged listings: listObjects (cmd/ipos/cmd/object-api-common.go), the    *)
(* goroutine that walks the name tree for it (tree-walk.go) and the pool   *)
(* that keeps the walk of a truncated listing for the next page            *)
(* (tree-walk-pool.go).                                                    *)
(*                                                                         *)
(* Names are the numbers of Keys, in the order of their strings, so that a *)
(* directory comes before what is in it and what is in it before the next  *)
(* name.  All listings are of one prefix, number 0.  While clients list,   *)
(* other clients create and delete names.                                  *)
(*                                                                         *)
(* A walk, its resultCh and its endWalkCh are an element of WalkIds and    *)
(* the goroutine that TreeWalkPool.Set starts is one of TimerIds; both are *)
(* used again when nothing refers to them any more.  listDir reads a       *)
(* directory in one step, and reports no error: a directory whose listing  *)
(* fails is taken to have no entries, and an entry whose stat fails is     *)
(* left out.                                                               *)
(***************************************************************************)
EXTENDS Integers, Sequences, FiniteSets

CONSTANTS
    Keys,           \* the names below the listed prefix
    Dirs,           \* those that are directories
    Ancestors,      \* Ancestors[k]: the directories above k
    Clients,
    WalkIds,
    TimerIds,
    NoWalk,
    MaxObjectList   \* maxObjectList: the largest page, the buffer of resultCh

ASSUME KeysAssumption == Keys \subseteq Nat \ {0} /\ Dirs \subseteq Keys
ASSUME AncestorsAssumption ==
    /\ Ancestors \in [Keys -> SUBSET Dirs]
    /\ \A k \in Keys : \A d \in Ancestors[k] : d < k /\ Ancestors[d] \subseteq Ancestors[k]
    /\ \A j, k \in Keys : \A d \in Ancestors[k] : d < j /\ j < k => d \in Ancestors[j]
ASSUME NoWalkAssumption == NoWalk \notin WalkIds
ASSUME MaxObjectListAssumption == MaxObjectList \in Nat \ {0}

VARIABLES
    present,    \* the names that exist
    walk,       \* a walk: its goroutine, its channels, and as history the names
                \* that existed since it began and no failing call hid from it
    pool,       \* TreeWalkPool.pool, with the timer of each walk
    timer,      \* the goroutines of TreeWalkPool.Set
    client,     \* a client's listing and the request it waits for
    crashed     \* a goroutine panicked: the process is gone

vars == <<present, walk, pool, timer, client, crashed>>

-----------------------------------------------------------------------------
(* The name tree *)

Path(d) == IF d = 0 THEN {} ELSE Ancestors[d] \cup {d}

Children(d) == {k \in Keys : Ancestors[k] = Path(d)}

\* markerDir: the child of d that is marker m or on the way to it.
MarkerDir(d, m) ==
    IF m = 0 THEN 0 ELSE CHOOSE k \in Children(d) : k = m \/ k \in Ancestors[m]

\* Mutant: the marker itself is not skipped.
EntriesWithMarker(d, m, recursive, stated) == {k \in stated : k >= MarkerDir(d, m)}

\* What sort.Search leaves of the entries that listDir returned, the marker skipped.
Entries(d, m, recursive, stated) ==
    {k \in stated :
        /\ k >= MarkerDir(d, m)
        /\ k = MarkerDir(d, m) => recursive /\ k \in Dirs}

\* A call of doTreeWalk for a directory, and a result that is to be sent.
ListItem(d, m, end) == [op |-> "list", key |-> d, marker |-> m, end |-> end]
SendItem(k, end) == [op |-> "send", key |-> k, marker |-> 0, end |-> end]

\* Mutant: markIsEnd does not depend on isEnd.
DoTreeWalkEndsInDirectory(item, recursive, emptyDir, stated) ==
    LET entries == Entries(item.key, item.marker, recursive, stated)
        last(k) == \A j \in entries : j <= k IN
    IF emptyDir
    THEN {SendItem(item.key, item.end)}
    ELSE {IF recursive /\ k \in Dirs THEN ListItem(k, 0, last(k))
                                     ELSE SendItem(k, last(k)) : k \in entries}

\* What a call of doTreeWalk does with what listDir returned: the results and
\* the recursive calls, in their order; an empty directory is a result itself.
DoTreeWalk(item, recursive, emptyDir, stated) ==
    LET d == item.key
        entries == Entries(d, item.marker, recursive, stated)
        end(k) == item.end /\ \A j \in entries : j <= k
        markerArg(k) == IF k = MarkerDir(d, item.marker) /\ k # item.marker
                        THEN item.marker ELSE 0 IN
    IF emptyDir
    THEN {SendItem(d, item.end)}
    ELSE {IF recursive /\ k \in Dirs THEN ListItem(k, markerArg(k), end(k))
                                     ELSE SendItem(k, end(k)) : k \in entries}

\* What listDir may return for directory d: FilesLs fails, or tells that the
\* directory is empty, or gives its entries, those whose FilesStat fails left out.
ListDirReturns(d, emptyDir, stated) ==
    /\ stated \subseteq Children(d) \cap present
    /\ emptyDir => d \in present /\ Children(d) \cap present = {}

\* What the walk misses for good when listDir returns only the entries stated:
\* the other children of the directory and the names below them.
Unseen(item, stated) ==
    {k \in Keys : /\ item.marker < k
                  /\ \E j \in Children(item.key) \ stated : j = k \/ j \in Ancestors[k]}

FirstOf(work) == CHOOSE i \in work : \A j \in work : i.key <= j.key

-----------------------------------------------------------------------------
NoListing == [pc |-> "idle", recursive |-> TRUE, marker |-> 0, max |-> 0, count |-> 0,
              walk |-> NoWalk, listed |-> {}, must |-> {}, disorder |-> FALSE]

FreeWalk == [st |-> "free", recursive |-> TRUE, work |-> {}, resultCh |-> << >>,
             closes |-> 0, stale |-> FALSE, lost |-> FALSE, alive |-> {}]

NoTimer == [st |-> "free", walk |-> NoWalk]

\* Ancestors of what exists exist.
Init ==
    /\ present \in {S \in SUBSET Keys : \A k \in S : Ancestors[k] \subseteq S}
    /\ walk = [w \in WalkIds |-> FreeWalk]
    /\ pool = << >>
    /\ timer = [t \in TimerIds |-> NoTimer]
    /\ client = [c \in Clients |-> NoListing]
    /\ crashed = FALSE

\* No goroutine refers to w, so that its channels are garbage.
Unused(w) ==
    /\ walk[w].st \in {"free", "ended"}
    /\ \A i \in 1 .. Len(pool) : pool[i].walk # w
    /\ \A c \in Clients : client[c].walk # w
    /\ \A t \in TimerIds : timer[t].walk # w

\* Mutant: the walk is pooled without the marker.
PoolEntryUnmarked(listing, t) ==
    [recursive |-> listing.recursive, marker |-> 0, walk |-> listing.walk, timer |-> t]

\* listParams and treeWalk of the walk that a listing leaves, with its timer.
PoolEntry(listing, t) ==
    [recursive |-> listing.recursive, marker |-> listing.marker,
     walk |-> listing.walk, timer |-> t]

\* listParams of a pooled walk are those of the request.
ForListing(entry, listing) ==
    entry.recursive = listing.recursive /\ entry.marker = listing.marker

\* Mutant: the walk that is handed out stays in the pool.
RemoveAtNot(s, i) == s

RemoveAt(s, i) == SubSeq(s, 1, i - 1) \o SubSeq(s, i + 1, Len(s))

-----------------------------------------------------------------------------
(* The handler of a list request *)

\* TreeWalkPool.Release: the oldest walk for these parameters is taken and its
\* timer told to stop.
Release(c, listing) ==
    \E i \in 1 .. Len(pool) :
        /\ ForListing(pool[i], listing)
        /\ \A j \in 1 .. i - 1 : ~ForListing(pool[j], listing)
        /\ pool' = RemoveAt(pool, i)
        /\ timer' = [timer EXCEPT ![pool[i].timer].st = IF @ = "armed" THEN "stopped" ELSE @]
        /\ client' = [client EXCEPT ![c] =
               [listing EXCEPT !.pc = "receive", !.walk = pool[i].walk,
                               !.must = @ \cap walk[pool[i].walk].alive]]
        /\ UNCHANGED walk

\* startTreeWalk
StartTreeWalk(c, listing) ==
    \E w \in WalkIds :
        /\ Unused(w)
        /\ walk' = [walk EXCEPT ![w] =
               [FreeWalk EXCEPT !.st = "walking", !.recursive = listing.recursive,
                                !.alive = present,
                                !.work = {ListItem(0, listing.marker, TRUE)}]]
        /\ client' = [client EXCEPT ![c] = [listing EXCEPT !.pc = "receive", !.walk = w]]
        /\ UNCHANGED <<pool, timer>>

\* The request for one page of a listing.
ListPage(c, listing) ==
    /\ IF \E i \in 1 .. Len(pool) : ForListing(pool[i], listing)
       THEN Release(c, listing)
       ELSE StartTreeWalk(c, listing)
    /\ UNCHANGED <<present, crashed>>

\* The client begins a listing, or begins one again; what it had from an earlier
\* one is forgotten.
ListObjects(c) ==
    /\ client[c].pc \in {"idle", "truncated", "complete", "failed"}
    /\ \E recursive \in BOOLEAN, max \in 1 .. MaxObjectList :
          ListPage(c, [NoListing EXCEPT !.recursive = recursive, !.max = max, !.must = present])

\* The client asks for the next page of its listing.
NextPage(c) ==
    /\ client[c].pc = "truncated"
    /\ \E max \in 1 .. MaxObjectList :
          ListPage(c, [client[c] EXCEPT !.max = max, !.count = 0])

\* One result: getObjInfo of a name that is gone returns ObjectNotFound, which
\* is not errFileNotFound, and the listing fails, as it does with any error.
Receive(c) ==
    LET w == client[c].walk
        result == Head(walk[w].resultCh)
        more == client[c].count + 1 < client[c].max
        lasting == client[c].must \ Dirs
        late == result.key \in lasting /\ \E k \in client[c].listed \cap lasting : k >= result.key IN
    /\ client[c].pc = "receive"
    /\ walk[w].resultCh # << >>
    /\ \/ /\ result.key \in present
          /\ client' = [client EXCEPT
                  ![c].pc = IF result.end THEN "complete" ELSE IF more THEN @ ELSE "set",
                  ![c].marker = result.key,
                  ![c].count = @ + 1,
                  ![c].listed = @ \cup {result.key},
                  ![c].disorder = @ \/ late]
          /\ walk' = [walk EXCEPT ![w].resultCh = Tail(@)]
       \/ /\ client' = [client EXCEPT ![c].pc = "failed", ![c].walk = NoWalk]
          /\ walk' = [walk EXCEPT ![w].resultCh = Tail(@), ![w].lost = TRUE]
    /\ UNCHANGED <<present, pool, timer, crashed>>

\* The channel is closed: the listing is taken to be complete.
ReceiveClosed(c) ==
    /\ client[c].pc = "receive"
    /\ walk[client[c].walk].resultCh = << >>
    /\ walk[client[c].walk].st = "ended"
    /\ client' = [client EXCEPT ![c].pc = "complete"]
    /\ UNCHANGED <<present, walk, pool, timer, crashed>>

\* Mutant: the handler keeps the walk that it gave to the pool.
SetKeepingWalk(c) ==
    /\ client[c].pc = "set"
    /\ \E t \in TimerIds :
        /\ timer[t].st = "free"
        /\ timer' = [timer EXCEPT ![t] = [st |-> "armed", walk |-> client[c].walk]]
        /\ pool' = Append(pool, PoolEntry(client[c], t))
    /\ client' = [client EXCEPT ![c].pc = "truncated", ![c].max = 0, ![c].count = 0]
    /\ UNCHANGED <<present, walk, crashed>>

\* TreeWalkPool.Set, and the truncated response.  There are as many timers at a
\* time as TimerIds.
Set(c) ==
    /\ client[c].pc = "set"
    /\ \E t \in TimerIds :
        /\ timer[t].st = "free"
        /\ timer' = [timer EXCEPT ![t] = [st |-> "armed", walk |-> client[c].walk]]
        /\ pool' = Append(pool, PoolEntry(client[c], t))
    /\ client' = [client EXCEPT ![c].pc = "truncated", ![c].walk = NoWalk,
                                ![c].max = 0, ![c].count = 0]
    /\ UNCHANGED <<present, walk, crashed>>

-----------------------------------------------------------------------------
(* The goroutine of a walk *)

\* A call of doTreeWalk up to its first result or recursive call.
ListDir(w) ==
    LET item == FirstOf(walk[w].work) IN
    /\ walk[w].st = "walking" /\ walk[w].work # {}
    /\ item.op = "list"
    /\ \E emptyDir \in BOOLEAN, stated \in SUBSET Children(item.key) :
        LET unseen == Unseen(item, stated)
            calls == DoTreeWalk(item, walk[w].recursive, emptyDir, stated) IN
        /\ ListDirReturns(item.key, emptyDir, stated)
        /\ walk' = [walk EXCEPT ![w].work = (@ \ {item}) \cup calls,
                                ![w].alive = @ \ unseen]
        /\ client' = [c \in Clients |-> [client[c] EXCEPT
               !.must = IF client[c].walk = w THEN @ \ unseen ELSE @]]
    /\ UNCHANGED <<present, pool, timer, crashed>>

\* resultCh <- TreeWalkResult{...}
Send(w) ==
    LET item == FirstOf(walk[w].work) IN
    /\ walk[w].st = "walking" /\ walk[w].work # {}
    /\ item.op = "send"
    /\ Len(walk[w].resultCh) < MaxObjectList
    /\ walk' = [walk EXCEPT
           ![w].work = @ \ {item},
           ![w].resultCh = Append(@, [key |-> item.key, end |-> item.end])]
    /\ UNCHANGED <<present, pool, timer, client, crashed>>

\* <-endWalkCh
Abort(w) ==
    /\ walk[w].st = "walking" /\ walk[w].work # {}
    /\ FirstOf(walk[w].work).op = "send"
    /\ walk[w].closes > 0
    /\ walk' = [walk EXCEPT ![w].st = "ended", ![w].work = {}]
    /\ UNCHANGED <<present, pool, timer, client, crashed>>

\* close(resultCh)
EndWalk(w) ==
    /\ walk[w].st = "walking" /\ walk[w].work = {}
    /\ walk' = [walk EXCEPT ![w].st = "ended"]
    /\ UNCHANGED <<present, pool, timer, client, crashed>>

-----------------------------------------------------------------------------
(* The goroutine of TreeWalkPool.Set *)

\* <-time.After(t.timeOut), which the select may take although endTimerCh is
\* ready as well.
TimeOut(t) ==
    /\ timer[t].st \in {"armed", "stopped"}
    /\ timer' = [timer EXCEPT ![t].st = "fired"]
    /\ UNCHANGED <<present, walk, pool, client, crashed>>

\* <-endTimerCh
TimerStopped(t) ==
    /\ timer[t].st = "stopped"
    /\ timer' = [timer EXCEPT ![t] = NoTimer]
    /\ UNCHANGED <<present, walk, pool, client, crashed>>

\* Mutant: the walk stays in the pool.
EvictKept(t) == pool

\* The walks other than the timer's own, which Set put there once.
Evicted(t) ==
    IF \E i \in 1 .. Len(pool) : pool[i].timer = t
    THEN RemoveAt(pool, CHOOSE i \in 1 .. Len(pool) : pool[i].timer = t)
    ELSE pool

\* Mutant: endWalkCh is not closed.
CloseNot(w, inPool) == walk

\* close(endWalkCh)
Close(w, inPool) ==
    [walk EXCEPT ![w].closes = @ + 1, ![w].stale = @ \/ ~inPool]

\* Under the lock, the walk leaves the pool if it is still there, and endWalkCh
\* is closed; closing it twice panics.
Evict(t) ==
    LET w == timer[t].walk
        inPool == \E i \in 1 .. Len(pool) : pool[i].timer = t IN
    /\ timer[t].st = "fired"
    /\ pool' = Evicted(t)
    /\ walk' = Close(w, inPool)
    /\ crashed' = (walk[w].closes > 0)
    /\ timer' = [timer EXCEPT ![t] = NoTimer]
    /\ UNCHANGED <<present, client>>

-----------------------------------------------------------------------------
(* The rest of the world *)

\* Another client creates a name, and the directories above it.
Create(k) ==
    /\ k \notin present
    /\ present' = present \cup Path(k)
    /\ UNCHANGED <<walk, pool, timer, client, crashed>>

\* Another client deletes an object or an empty directory.
Delete(k) ==
    /\ k \in present
    /\ \A j \in present : k \notin Ancestors[j]
    /\ present' = present \ {k}
    /\ walk' = [w \in WalkIds |-> [walk[w] EXCEPT !.alive = @ \ {k}]]
    /\ client' = [c \in Clients |-> [client[c] EXCEPT !.must = @ \ {k}]]
    /\ UNCHANGED <<pool, timer, crashed>>

\* The process is started again; the pool and every goroutine are gone.
Restart ==
    /\ crashed
    /\ UNCHANGED present
    /\ walk' = [w \in WalkIds |-> FreeWalk]
    /\ pool' = << >>
    /\ timer' = [t \in TimerIds |-> NoTimer]
    /\ client' = [c \in Clients |-> NoListing]
    /\ crashed' = FALSE

-----------------------------------------------------------------------------
Handler(c) == Receive(c) \/ ReceiveClosed(c) \/ Set(c)
Walker(w) == ListDir(w) \/ Send(w) \/ Abort(w) \/ EndWalk(w)
Timer(t) == TimeOut(t) \/ TimerStopped(t) \/ Evict(t)

Next ==
    \/ /\ ~crashed
       /\ \/ \E c \in Clients : ListObjects(c) \/ NextPage(c) \/ Handler(c)
          \/ \E w \in WalkIds : Walker(w)
          \/ \E t \in TimerIds : Timer(t)
          \/ \E k \in Keys : Create(k) \/ Delete(k)
    \/ Restart

Spec == Init /\ [][Next]_vars

\* Goroutines run and the timeout elapses; nothing makes clients list.
FairSpec ==
    /\ Spec
    /\ \A c \in Clients : WF_vars(~crashed /\ Handler(c))
    /\ \A w \in WalkIds : WF_vars(~crashed /\ Walker(w))
    /\ \A t \in TimerIds : WF_vars(~crashed /\ Timer(t))
    /\ WF_vars(Restart)

-----------------------------------------------------------------------------
(* Properties *)

Items == [op : {"list", "send"}, key : Keys \cup {0}, marker : Keys \cup {0}, end : BOOLEAN]

\* The type invariant.
TypeOK ==
    /\ present \subseteq Keys
    /\ \A w \in WalkIds :
        /\ walk[w].st \in {"free", "walking", "ended"}
        /\ walk[w].work \subseteq Items
        /\ walk[w].resultCh \in Seq([key : Keys, end : BOOLEAN])
        /\ Len(walk[w].resultCh) <= MaxObjectList
        /\ walk[w].closes \in 0 .. 2
    /\ \A i \in 1 .. Len(pool) : pool[i].walk \in WalkIds /\ pool[i].timer \in TimerIds
    /\ \A t \in TimerIds : timer[t].st \in {"free", "armed", "stopped", "fired"}
    /\ \A c \in Clients :
        /\ client[c].pc \in {"idle", "receive", "set", "truncated", "complete", "failed"}
        /\ client[c].pc \in {"receive", "set", "complete"} <=> client[c].walk # NoWalk

\* A walk is used by one request at a time: it is in the pool once, or with one
\* client, or with nobody.
WalkHasOneUser ==
    \A w \in WalkIds :
        Cardinality({i \in 1 .. Len(pool) : pool[i].walk = w})
          + Cardinality({c \in Clients : client[c].pc \in {"receive", "set"}
                                         /\ client[c].walk = w}) <= 1

\* The pool hands out walks that were not told to end, and endWalkCh is closed
\* once, unless a timer fired although Release had taken its walk.
PoolWalksLive ==
    /\ crashed => \E w \in WalkIds : walk[w].stale
    /\ \A w \in WalkIds : walk[w].closes > 0 /\ ~walk[w].stale =>
          /\ \A i \in 1 .. Len(pool) : pool[i].walk # w
          /\ \A c \in Clients : client[c].walk # w

\* The names of a listing: objects when it is recursive, entries of the prefix
\* when it is not.
Owed(c) ==
    {k \in client[c].must :
        IF client[c].recursive THEN k \notin Dirs ELSE Ancestors[k] = {}}

\* A listing that is said to be complete has every name that existed from the
\* beginning of the listing, and of any pooled walk it went on with, to its end,
\* but for those that a failing FilesLs or FilesStat hid from its walk, and
\* unless its last walk was ended by a timer that fired late.
ListingComplete ==
    \A c \in Clients :
        client[c].pc = "complete" /\ ~walk[client[c].walk].stale =>
            Owed(c) \subseteq client[c].listed

\* Objects that exist throughout a listing, and that no failing call hid from its
\* walk, appear in its pages in order and none twice, also when a page goes on
\* with another walk than the one before.  (A directory that was emptied is listed
\* behind its objects by a new walk, and the marker falls back to it.)
ListingInOrder == \A c \in Clients : ~client[c].disorder

\* A walk ends, whether its listing goes on or not, unless the listing failed
\* and left it: nothing closes its endWalkCh then.
WalkEnds ==
    \A w \in WalkIds :
        walk[w].st = "walking" ~> walk[w].st # "walking" \/ walk[w].lost

=============================================================================

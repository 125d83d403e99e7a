--------------------------- MODULE TreeWalkProofs ---------------------------
(***************************************************************************)
(* Proofs about paged listings, for any name tree and any number of        *)
(* clients, walks and timers: the type invariant, that a walk has one      *)
(* user, that the pool hands out live walks only, and that listings are in *)
(* order and complete.                                                     *)
(***************************************************************************)
EXTENDS TreeWalk, FiniteSetTheorems, SequenceTheorems, NaturalsInduction, TLAPS

Names == Keys \cup {0}

WalkStates ==
  [st : {"free", "walking", "ended"}, recursive : BOOLEAN, work : SUBSET Items,
   resultCh : Seq([key : Keys, end : BOOLEAN]), closes : 0 .. 2, stale : BOOLEAN,
   lost : BOOLEAN, alive : SUBSET Keys]

PoolEntries ==
  [recursive : BOOLEAN, marker : Names, walk : WalkIds, timer : TimerIds]

TimerStates ==
  [st : {"free", "armed", "stopped", "fired"}, walk : WalkIds \cup {NoWalk}]

ClientStates ==
  [pc : {"idle", "receive", "set", "truncated", "complete", "failed"}, recursive : BOOLEAN,
   marker : Names, max : Nat, count : Nat, walk : WalkIds \cup {NoWalk},
   listed : SUBSET Keys, must : SUBSET Keys, disorder : BOOLEAN]

Types ==
  /\ present \subseteq Keys
  /\ walk \in [WalkIds -> WalkStates]
  /\ pool \in Seq(PoolEntries)
  /\ timer \in [TimerIds -> TimerStates]
  /\ client \in [Clients -> ClientStates]
  /\ crashed \in BOOLEAN

\* Only names are sent, and no more than the channel takes.
WorkSound ==
  \A w \in WalkIds :
    /\ \A item \in walk[w].work : item.op = "send" => item.key \in Keys
    /\ Len(walk[w].resultCh) <= MaxObjectList

\* A client has a walk while it needs one.
ClientsWalk ==
  \A c \in Clients : client[c].pc \in {"receive", "set", "complete"} <=> client[c].walk # NoWalk

\* A timer runs for a walk; that of a pooled walk was not stopped.
TimersRun ==
  /\ \A t \in TimerIds : timer[t].st = "free" <=> timer[t].walk = NoWalk
  /\ \A i \in 1 .. Len(pool) :
       /\ timer[pool[i].timer].walk = pool[i].walk
       /\ timer[pool[i].timer].st \in {"armed", "fired"}

\* No walk is pooled twice, with a client and in the pool, or with two clients.
Exclusive ==
  /\ \A i, j \in 1 .. Len(pool) :
       (pool[i].walk = pool[j].walk \/ pool[i].timer = pool[j].timer) => i = j
  /\ \A c \in Clients, i \in 1 .. Len(pool) : client[c].walk # pool[i].walk
  /\ \A c, d \in Clients : client[c].walk = client[d].walk => c = d \/ client[c].walk = NoWalk

\* endWalkCh is closed once, or the process is gone.
ClosedOnce == ~crashed => \A w \in WalkIds : walk[w].closes <= 1

Owned == ClientsWalk /\ TimersRun /\ Exclusive /\ ClosedOnce /\ PoolWalksLive

TreeInv == Types /\ WorkSound /\ Owned

-----------------------------------------------------------------------------
\* What is left of a sequence without its i-th element.
LEMMA RemoveAtProperties ==
  ASSUME NEW S, NEW s \in Seq(S), NEW i \in 1 .. Len(s)
  PROVE  /\ RemoveAt(s, i) \in Seq(S)
         /\ Len(RemoveAt(s, i)) = Len(s) - 1
         /\ \A j \in 1 .. Len(s) - 1 : RemoveAt(s, i)[j] = IF j < i THEN s[j] ELSE s[j + 1]
  <1> DEFINE a == SubSeq(s, 1, i - 1)
             b == SubSeq(s, i + 1, Len(s))
  <1>1. Len(s) \in Nat /\ i \in Nat OBVIOUS
  <1>2. /\ a \in Seq(S) /\ Len(a) = i - 1
        /\ \A j \in 1 .. i - 1 : a[j] = s[j]
    BY <1>1, SubSeqProperties
  <1>3. /\ b \in Seq(S) /\ Len(b) = Len(s) - i
        /\ \A j \in 1 .. Len(s) - i : b[j] = s[i + j]
    <2>1. CASE i < Len(s) BY <1>1, <2>1, SubSeqProperties
    <2>2. CASE i = Len(s) BY <1>1, <2>2, SubSeqProperties
    <2>3. QED BY <1>1, <2>1, <2>2
  <1> HIDE DEF a, b
  <1>4. /\ a \o b \in Seq(S) /\ Len(a \o b) = Len(s) - 1
        /\ \A j \in 1 .. Len(s) - 1 : (a \o b)[j] = IF j <= i - 1 THEN a[j] ELSE b[j - (i - 1)]
    <2>1. Len(a) + Len(b) = Len(s) - 1 BY <1>1, <1>2, <1>3
    <2>2. /\ a \o b \in Seq(S) /\ Len(a \o b) = Len(a) + Len(b)
          /\ \A j \in 1 .. Len(a) + Len(b) :
               (a \o b)[j] = IF j <= Len(a) THEN a[j] ELSE b[j - Len(a)]
      <3>1. a \in Seq(S) /\ b \in Seq(S) BY <1>2, <1>3
      <3>2. QED BY <3>1, ConcatProperties
    <2>3. QED BY <1>2, <2>1, <2>2
  <1>5. ASSUME NEW j \in 1 .. Len(s) - 1
        PROVE  (a \o b)[j] = IF j < i THEN s[j] ELSE s[j + 1]
    <2>1. CASE j < i BY <1>1, <1>2, <1>4, <2>1
    <2>2. CASE ~(j < i)
      <3>1. j - (i - 1) \in 1 .. Len(s) - i /\ i + (j - (i - 1)) = j + 1 BY <1>1, <2>2
      <3>2. (a \o b)[j] = b[j - (i - 1)] BY <1>1, <1>4, <2>2
      <3>3. b[j - (i - 1)] = s[i + (j - (i - 1))] BY <1>3, <3>1
      <3>4. QED BY <2>2, <3>1, <3>2, <3>3
    <2>3. QED BY <2>1, <2>2
  <1>6. QED BY <1>4, <1>5 DEF RemoveAt, a, b

\* The places that stay are those of other entries.
LEMMA RemoveAtPlaces ==
  ASSUME NEW S, NEW s \in Seq(S), NEW i \in 1 .. Len(s)
  PROVE  \E f \in [1 .. Len(RemoveAt(s, i)) -> (1 .. Len(s)) \ {i}] :
           /\ \A j \in 1 .. Len(RemoveAt(s, i)) : RemoveAt(s, i)[j] = s[f[j]]
           /\ \A j, k \in 1 .. Len(RemoveAt(s, i)) : f[j] = f[k] => j = k
  <1> DEFINE f == [j \in 1 .. Len(s) - 1 |-> IF j < i THEN j ELSE j + 1]
  <1>1. /\ Len(RemoveAt(s, i)) = Len(s) - 1 /\ Len(s) \in Nat
        /\ \A j \in 1 .. Len(s) - 1 : RemoveAt(s, i)[j] = IF j < i THEN s[j] ELSE s[j + 1]
    BY RemoveAtProperties
  <1>2. f \in [1 .. Len(s) - 1 -> (1 .. Len(s)) \ {i}] BY <1>1
  <1>3. \A j \in 1 .. Len(s) - 1 : RemoveAt(s, i)[j] = s[f[j]] BY <1>1
  <1>4. \A j, k \in 1 .. Len(s) - 1 : f[j] = f[k] => j = k BY <1>1
  <1>5. QED BY <1>1, <1>2, <1>3, <1>4

\* A set of numbers has a least one.
LEMMA LeastNumber ==
  ASSUME NEW T, T \subseteq Nat, T # {}
  PROVE  \E n \in T : \A m \in T : n <= m
  <1>1. PICK R : IsWellFoundedOn(R, Nat) /\ \A x, y \in Nat : ~(<<y, x>> \in R) => x <= y
    <2>1. IsWellFoundedOn(OpToRel(<, Nat), Nat) BY NatLessThanWellFounded
    <2>2. \A x, y \in Nat : ~(<<y, x>> \in OpToRel(<, Nat)) => x <= y BY DEF OpToRel
    <2> DEFINE Q == OpToRel(<, Nat)
    <2>3. IsWellFoundedOn(Q, Nat) /\ \A x, y \in Nat : ~(<<y, x>> \in Q) => x <= y BY <2>1, <2>2
    <2> HIDE DEF Q
    <2>4. QED BY <2>3
  <1>2. \E x \in T : \A y \in T : ~(<<y, x>> \in R) BY <1>1, WFMin, Zenon
  <1>3. PICK x \in T : \A y \in T : ~(<<y, x>> \in R) BY <1>2
  <1>4. ASSUME NEW m \in T PROVE x <= m BY <1>1, <1>3, Zenon
  <1>5. QED BY <1>4

\* The goroutine of a walk has a first item, the one with the least name.
LEMMA FirstOfLeast ==
  ASSUME NEW work \in SUBSET Items, work # {}
  PROVE  FirstOf(work) \in work /\ \A j \in work : FirstOf(work).key <= j.key
  <1> DEFINE T == {i.key : i \in work}
  <1>1. T \subseteq Nat /\ T # {}
    <2>1. \A i \in work : i.key \in Keys \cup {0} BY DEF Items
    <2>2. Keys \cup {0} \subseteq Nat BY KeysAssumption
    <2>3. T \subseteq Nat BY <2>1, <2>2
    <2>4. QED BY <2>3
  <1>2. PICK n \in T : \A m \in T : n <= m
    <2> HIDE DEF T
    <2>1. QED BY <1>1, LeastNumber
  <1>3. PICK i \in work : i.key = n OBVIOUS
  <1>4. \A j \in work : i.key <= j.key BY <1>2, <1>3
  <1>5. QED BY <1>3, <1>4 DEF FirstOf

\* The states that have not been used yet.
LEMMA FreshTypes ==
  /\ FreeWalk \in WalkStates /\ NoTimer \in TimerStates /\ NoListing \in ClientStates
  <1>1. << >> \in Seq([key : Keys, end : BOOLEAN]) OBVIOUS
  <1>2. QED BY <1>1 DEF FreeWalk, WalkStates, NoTimer, TimerStates, NoListing, ClientStates, Names

\* The state without goroutines.
Fresh ==
  /\ present \subseteq Keys /\ walk = [w \in WalkIds |-> FreeWalk] /\ pool = << >>
  /\ timer = [t \in TimerIds |-> NoTimer] /\ client = [c \in Clients |-> NoListing]
  /\ crashed = FALSE

\* The invariant holds when nothing runs.
LEMMA FreshInv == Fresh => TreeInv
  <1> SUFFICES ASSUME Fresh
               PROVE  TreeInv
    OBVIOUS
  <1> USE DEF Fresh
  <1>1. Types
    <2>1. pool \in Seq(PoolEntries) OBVIOUS
    <2>2. /\ walk \in [WalkIds -> WalkStates] /\ timer \in [TimerIds -> TimerStates]
          /\ client \in [Clients -> ClientStates]
      BY FreshTypes
    <2>3. present \subseteq Keys /\ crashed \in BOOLEAN OBVIOUS
    <2>4. QED BY <2>1, <2>2, <2>3 DEF Types
  <1>2. Len(pool) = 0 /\ MaxObjectList \in Nat BY MaxObjectListAssumption
  <1>3. /\ \A w \in WalkIds : /\ walk[w].work = {} /\ walk[w].resultCh = << >>
                              /\ walk[w].closes = 0
        /\ \A c \in Clients : client[c].pc = "idle" /\ client[c].walk = NoWalk
        /\ \A t \in TimerIds : timer[t].st = "free" /\ timer[t].walk = NoWalk
    BY DEF FreeWalk, NoTimer, NoListing
  <1>4. WorkSound BY <1>2, <1>3 DEF WorkSound
  <1>5. ClientsWalk /\ TimersRun /\ Exclusive BY <1>2, <1>3 DEF ClientsWalk, TimersRun, Exclusive
  <1>6. ClosedOnce /\ PoolWalksLive BY <1>3 DEF ClosedOnce, PoolWalksLive
  <1>7. QED BY <1>1, <1>4, <1>5, <1>6 DEF TreeInv, Owned

-----------------------------------------------------------------------------
\* Pooled walks and their timers.
LEMMA PoolTyped ==
  ASSUME Types
  PROVE  /\ Len(pool) \in Nat
         /\ \A i \in 1 .. Len(pool) :
              pool[i] \in PoolEntries /\ pool[i].walk \in WalkIds /\ pool[i].timer \in TimerIds
  <1>1. pool \in Seq(PoolEntries) BY DEF Types
  <1>2. Len(pool) \in Nat /\ \A i \in 1 .. Len(pool) : pool[i] \in PoolEntries BY <1>1
  <1>3. \A e \in PoolEntries : e.walk \in WalkIds /\ e.timer \in TimerIds BY DEF PoolEntries
  <1>4. QED BY <1>2, <1>3

\* A step that leaves the pool, the timers and endWalkCh alone, and takes walks
\* from clients at most.
LEMMA SameOwners ==
  ASSUME Types, Owned, ClientsWalk', pool' = pool, timer' = timer, crashed' = crashed,
         \A c \in Clients : client'[c].walk \in {client[c].walk, NoWalk},
         \A w \in WalkIds : walk'[w].closes = walk[w].closes /\ walk'[w].stale = walk[w].stale
  PROVE  Owned'
  <1>1. \A i \in 1 .. Len(pool) : pool[i].walk \in WalkIds BY PoolTyped
  <1>2. TimersRun' BY DEF Owned, TimersRun
  <1>3. Exclusive'
    <2>1. \A c \in Clients, i \in 1 .. Len(pool) : client'[c].walk # pool[i].walk
      BY <1>1, NoWalkAssumption DEF Owned, Exclusive
    <2>2. \A c, d \in Clients :
            client'[c].walk = client'[d].walk => c = d \/ client'[c].walk = NoWalk
      BY DEF Owned, Exclusive
    <2>3. QED BY <2>1, <2>2 DEF Owned, Exclusive
  <1>4. ClosedOnce' BY DEF Owned, ClosedOnce
  <1>5. PoolWalksLive'
    <2>1. \A c \in Clients, w \in WalkIds : client[c].walk # w => client'[c].walk # w
      BY NoWalkAssumption
    <2>2. QED BY <2>1 DEF Owned, PoolWalksLive
  <1>6. QED BY <1>2, <1>3, <1>4, <1>5 DEF Owned

\* A step of a walk's goroutine.
LEMMA WalkStep ==
  ASSUME TreeInv, NEW w \in WalkIds, NEW m \in WalkStates,
         walk' = [walk EXCEPT ![w] = m], UNCHANGED <<present, pool, timer, crashed>>,
         client' \in [Clients -> ClientStates],
         \A c \in Clients : client'[c].pc = client[c].pc /\ client'[c].walk = client[c].walk,
         m.closes = walk[w].closes, m.stale = walk[w].stale,
         \A item \in m.work : item.op = "send" => item.key \in Keys,
         Len(m.resultCh) <= MaxObjectList
  PROVE  TreeInv'
  <1>1. Types' BY DEF TreeInv, Types
  <1>2. /\ walk'[w] = m
        /\ \A v \in WalkIds : v # w => walk'[v] = walk[v]
    BY DEF TreeInv, Types
  <1>3. WorkSound' BY <1>2 DEF TreeInv, WorkSound
  <1>4. ClientsWalk' BY DEF TreeInv, Owned, ClientsWalk
  <1>5. Owned'
    <2>1. \A v \in WalkIds : walk'[v].closes = walk[v].closes /\ walk'[v].stale = walk[v].stale
      BY <1>2
    <2>2. \A c \in Clients : client'[c].walk \in {client[c].walk, NoWalk} OBVIOUS
    <2>3. Types /\ Owned BY DEF TreeInv
    <2>4. QED BY <1>4, <2>1, <2>2, <2>3, SameOwners
  <1>6. QED BY <1>1, <1>3, <1>5 DEF TreeInv

\* A call of doTreeWalk gives items, and sends names.
LEMMA DoTreeWalkItems ==
  ASSUME NEW item \in Items, NEW recursive \in BOOLEAN, NEW emptyDir \in BOOLEAN,
         NEW stated \in SUBSET Keys, emptyDir => item.key \in Keys
  PROVE  LET calls == DoTreeWalk(item, recursive, emptyDir, stated)
         IN calls \subseteq Items /\ \A i \in calls : i.op = "send" => i.key \in Keys
  <1> DEFINE d == item.key
             E == Entries(d, item.marker, recursive, stated)
             calls == DoTreeWalk(item, recursive, emptyDir, stated)
             end(k) == item.end /\ \A j \in E : j <= k
             arg(k) == IF k = MarkerDir(d, item.marker) /\ k # item.marker
                       THEN item.marker ELSE 0
             one(k) == IF recursive /\ k \in Dirs THEN ListItem(k, arg(k), end(k))
                                                  ELSE SendItem(k, end(k))
  <1>1. /\ d \in Keys \cup {0} /\ item.marker \in Keys \cup {0} /\ item.end \in BOOLEAN
    BY DEF Items
  <1>2. E \subseteq Keys BY DEF Entries
  <1>3. \A k : end(k) \in BOOLEAN /\ arg(k) \in Keys \cup {0} BY <1>1
  <1> HIDE DEF E, end, arg
  <1>4. ASSUME NEW k \in Keys, NEW e \in BOOLEAN, NEW m \in Keys \cup {0}
        PROVE  /\ ListItem(k, m, e) \in Items /\ ListItem(k, m, e).op # "send"
               /\ SendItem(k, e) \in Items /\ SendItem(k, e).key \in Keys
    BY DEF ListItem, SendItem, Items
  <1>5. ASSUME NEW k \in E
        PROVE  one(k) \in Items /\ (one(k).op = "send" => one(k).key \in Keys)
    <2>1. k \in Keys /\ end(k) \in BOOLEAN /\ arg(k) \in Keys \cup {0} BY <1>2, <1>3
    <2>2. /\ ListItem(k, arg(k), end(k)) \in Items /\ ListItem(k, arg(k), end(k)).op # "send"
          /\ SendItem(k, end(k)) \in Items /\ SendItem(k, end(k)).key \in Keys
      BY <1>4, <2>1
    <2>3. QED BY <2>2
  <1>6. CASE emptyDir
    <2>1. calls = {SendItem(d, item.end)} BY <1>6 DEF DoTreeWalk, d
    <2>2. SendItem(d, item.end) \in Items /\ SendItem(d, item.end).key \in Keys
      BY <1>1, <1>4, <1>6 DEF d
    <2>3. QED BY <2>1, <2>2
  <1>7. CASE ~emptyDir
    <2>1. calls = {one(k) : k \in E} BY <1>7 DEF DoTreeWalk, d, E, end, arg
    <2>2. QED BY <1>5, <2>1
  <1>8. QED BY <1>6, <1>7

\* A walk, and a client's listing, after listDir returned.
Listed(W, emptyDir, stated) ==
  LET item == FirstOf(W.work)
  IN [W EXCEPT !.work = (@ \ {item}) \cup DoTreeWalk(item, W.recursive, emptyDir, stated),
               !.alive = @ \ Unseen(item, stated)]

Misses(l, w, S) == [l EXCEPT !.must = IF l.walk = w THEN @ \ S ELSE @]

ListDirDoes(w, emptyDir, stated) ==
  /\ ListDirReturns(FirstOf(walk[w].work).key, emptyDir, stated)
  /\ walk' = [walk EXCEPT ![w] = Listed(walk[w], emptyDir, stated)]
  /\ client' = [c \in Clients |->
                 Misses(client[c], w, Unseen(FirstOf(walk[w].work), stated))]

\* What listDir reads.
LEMMA ListDirReads ==
  ASSUME TreeInv, NEW w \in WalkIds, ListDir(w)
  PROVE  /\ walk[w] \in WalkStates /\ walk[w].st = "walking" /\ walk[w].work # {}
         /\ FirstOf(walk[w].work) \in walk[w].work /\ FirstOf(walk[w].work) \in Items
         /\ FirstOf(walk[w].work).op = "list"
         /\ UNCHANGED <<present, pool, timer, crashed>>
         /\ \E emptyDir \in BOOLEAN, stated \in SUBSET Keys : ListDirDoes(w, emptyDir, stated)
  <1>1. walk[w] \in WalkStates BY DEF TreeInv, Types
  <1>2. /\ walk[w].st = "walking" /\ walk[w].work # {} /\ FirstOf(walk[w].work).op = "list"
        /\ UNCHANGED <<present, pool, timer, crashed>>
    BY DEF ListDir
  <1>3. walk[w].work \subseteq Items BY <1>1 DEF WalkStates
  <1>4. FirstOf(walk[w].work) \in walk[w].work /\ FirstOf(walk[w].work) \in Items
    BY <1>2, <1>3, FirstOfLeast
  <1>5. \E emptyDir \in BOOLEAN, stated \in SUBSET Children(FirstOf(walk[w].work).key) :
          ListDirDoes(w, emptyDir, stated)
    <2> DEFINE item == FirstOf(walk[w].work)
               W(e, d) == [walk EXCEPT ![w].work =
                             (@ \ {item}) \cup DoTreeWalk(item, walk[w].recursive, e, d),
                                       ![w].alive = @ \ Unseen(item, d)]
               n(d) == [c \in Clients |-> [client[c] EXCEPT
                          !.must = IF client[c].walk = w THEN @ \ Unseen(item, d) ELSE @]]
    <2>1. PICK emptyDir \in BOOLEAN, stated \in SUBSET Children(item.key) :
            /\ ListDirReturns(item.key, emptyDir, stated)
            /\ walk' = W(emptyDir, stated) /\ client' = n(stated)
      BY DEF ListDir
    <2>2. W(emptyDir, stated) = [walk EXCEPT ![w] = Listed(walk[w], emptyDir, stated)]
      BY <1>1 DEF Listed, WalkStates, TreeInv, Types
    <2>3. n(stated) = [c \in Clients |-> Misses(client[c], w, Unseen(item, stated))] BY DEF Misses
    <2> HIDE DEF W, n
    <2>4. QED BY <2>1, <2>2, <2>3 DEF ListDirDoes
  <1>6. Children(FirstOf(walk[w].work).key) \subseteq Keys BY DEF Children
  <1>7. \E emptyDir \in BOOLEAN, stated \in SUBSET Keys : ListDirDoes(w, emptyDir, stated)
    BY <1>5, <1>6
  <1>8. QED BY <1>1, <1>2, <1>4, <1>7

\* The walk that listDir leaves.
LEMMA ListedFields ==
  ASSUME NEW W \in WalkStates, FirstOf(W.work) \in Items, present \subseteq Keys,
         NEW emptyDir \in BOOLEAN, NEW stated \in SUBSET Keys,
         ListDirReturns(FirstOf(W.work).key, emptyDir, stated)
  PROVE  LET item == FirstOf(W.work)
             calls == DoTreeWalk(item, W.recursive, emptyDir, stated)
             V == Listed(W, emptyDir, stated)
         IN /\ \A i \in calls : i.op = "send" => i.key \in Keys
            /\ V \in WalkStates /\ V.work = (W.work \ {item}) \cup calls
            /\ V.alive = W.alive \ Unseen(item, stated)
            /\ V.st = W.st /\ V.recursive = W.recursive /\ V.resultCh = W.resultCh
            /\ V.closes = W.closes /\ V.stale = W.stale
  <1> DEFINE item == FirstOf(W.work)
             calls == DoTreeWalk(item, W.recursive, emptyDir, stated)
             S == Unseen(item, stated)
             V == [W EXCEPT !.work = (W.work \ {item}) \cup calls, !.alive = W.alive \ S]
  <1>1. W.work \subseteq Items /\ W.recursive \in BOOLEAN BY DEF WalkStates
  <1>2. emptyDir => item.key \in Keys BY DEF ListDirReturns
  <1>3. Listed(W, emptyDir, stated) = V BY DEF Listed
  <1> HIDE DEF item
  <1>4. calls \subseteq Items /\ \A i \in calls : i.op = "send" => i.key \in Keys
    BY <1>1, <1>2, DoTreeWalkItems DEF item
  <1> HIDE DEF calls, S
  <1>5. /\ V \in WalkStates /\ V.work = (W.work \ {item}) \cup calls /\ V.alive = W.alive \ S
        /\ V.st = W.st /\ V.recursive = W.recursive /\ V.resultCh = W.resultCh
        /\ V.closes = W.closes /\ V.stale = W.stale
    BY <1>1, <1>4 DEF WalkStates
  <1> HIDE DEF V
  <1>6. QED BY <1>3, <1>4, <1>5 DEF item, calls, S

\* The listing of a client of a walk that listDir leaves.
LEMMA MissesFields ==
  ASSUME NEW l \in ClientStates, NEW w, NEW S
  PROVE  LET n == Misses(l, w, S)
         IN /\ n \in ClientStates /\ n.pc = l.pc /\ n.walk = l.walk /\ n.marker = l.marker
            /\ n.listed = l.listed /\ n.recursive = l.recursive /\ n.disorder = l.disorder
            /\ n.must \subseteq l.must /\ (l.walk = w => n.must = l.must \ S)
  BY DEF Misses, ClientStates

\* listDir
LEMMA ListDirStep ==
  ASSUME TreeInv, NEW w \in WalkIds, ListDir(w)
  PROVE  TreeInv'
  <1> DEFINE W == walk[w]
             item == FirstOf(W.work)
  <1>1. /\ W \in WalkStates /\ item \in W.work /\ item \in Items
        /\ UNCHANGED <<present, pool, timer, crashed>>
    BY ListDirReads
  <1>2. PICK emptyDir \in BOOLEAN, stated \in SUBSET Keys : ListDirDoes(w, emptyDir, stated)
    BY ListDirReads
  <1> DEFINE V == Listed(W, emptyDir, stated)
             calls == DoTreeWalk(item, W.recursive, emptyDir, stated)
  <1>3. /\ walk' = [walk EXCEPT ![w] = V]
        /\ client' = [c \in Clients |-> Misses(client[c], w, Unseen(item, stated))]
        /\ ListDirReturns(item.key, emptyDir, stated)
    BY <1>2 DEF ListDirDoes
  <1>4. present \subseteq Keys BY DEF TreeInv, Types
  <1>5. /\ \A i \in calls : i.op = "send" => i.key \in Keys
        /\ V \in WalkStates /\ V.work = (W.work \ {item}) \cup calls
        /\ V.resultCh = W.resultCh /\ V.closes = W.closes /\ V.stale = W.stale
    <2> HIDE DEF W
    <2>1. QED BY <1>1, <1>3, <1>4, ListedFields
  <1> HIDE DEF V, calls
  <1>6. /\ client' \in [Clients -> ClientStates]
        /\ \A c \in Clients : client'[c].pc = client[c].pc /\ client'[c].walk = client[c].walk
    <2> DEFINE S == Unseen(item, stated)
    <2>1. client' = [c \in Clients |-> Misses(client[c], w, S)] BY <1>3
    <2> HIDE DEF S
    <2>2. ASSUME NEW c \in Clients
          PROVE  LET n == Misses(client[c], w, S)
                 IN n \in ClientStates /\ n.pc = client[c].pc /\ n.walk = client[c].walk
      <3>1. client[c] \in ClientStates BY DEF TreeInv, Types
      <3>2. QED BY <3>1, MissesFields
    <2>3. QED BY <2>1, <2>2
  <1>7. \A i \in W.work : i.op = "send" => i.key \in Keys BY DEF TreeInv, WorkSound
  <1>8. \A i \in V.work : i.op = "send" => i.key \in Keys BY <1>5, <1>7
  <1>9. Len(V.resultCh) <= MaxObjectList BY <1>5 DEF TreeInv, WorkSound
  <1>10. QED BY <1>1, <1>3, <1>5, <1>6, <1>8, <1>9, WalkStep

\* resultCh <- TreeWalkResult{...}
LEMMA SendStep ==
  ASSUME TreeInv, NEW w \in WalkIds, Send(w)
  PROVE  TreeInv'
  <1> DEFINE item == FirstOf(walk[w].work)
             result == [key |-> item.key, end |-> item.end]
             new == walk[w].work \ {item}
             ch == Append(walk[w].resultCh, result)
             m == [walk[w] EXCEPT !.work = new, !.resultCh = ch]
  <1>1. walk[w] \in WalkStates BY DEF TreeInv, Types
  <1>2. walk[w].work \subseteq Items /\ walk[w].work # {} BY <1>1 DEF WalkStates, Send
  <1>3. item \in walk[w].work BY <1>2, FirstOfLeast
  <1>4. \A i \in walk[w].work : i.op = "send" => i.key \in Keys BY DEF TreeInv, WorkSound
  <1>5. item \in Items /\ item.op = "send" BY <1>2, <1>3 DEF Send
  <1> HIDE DEF item
  <1>6. result \in [key : Keys, end : BOOLEAN] BY <1>3, <1>4, <1>5 DEF Items
  <1>7. walk[w].resultCh \in Seq([key : Keys, end : BOOLEAN]) BY <1>1 DEF WalkStates
  <1> HIDE DEF result
  <1>8. ch \in Seq([key : Keys, end : BOOLEAN]) /\ Len(ch) = Len(walk[w].resultCh) + 1 BY <1>6, <1>7
  <1>9. Len(walk[w].resultCh) < MaxObjectList /\ Len(walk[w].resultCh) \in Nat BY <1>7 DEF Send
  <1>10. Len(ch) <= MaxObjectList BY <1>8, <1>9, MaxObjectListAssumption
  <1>11. walk' = [walk EXCEPT ![w] = m] BY DEF Send, item, result
  <1>12. new \subseteq Items /\ \A i \in new : i.op = "send" => i.key \in Keys BY <1>2, <1>4
  <1> HIDE DEF new, ch
  <1>13. /\ m \in WalkStates /\ m.work = new /\ m.closes = walk[w].closes
         /\ m.stale = walk[w].stale /\ m.resultCh = ch
    BY <1>1, <1>8, <1>12 DEF WalkStates
  <1>14. UNCHANGED <<present, pool, timer, client, crashed>> BY DEF Send
  <1>15. /\ \A i \in m.work : i.op = "send" => i.key \in Keys
         /\ Len(m.resultCh) <= MaxObjectList
    BY <1>10, <1>12, <1>13
  <1>16. /\ client' \in [Clients -> ClientStates]
        /\ \A c \in Clients : client'[c].pc = client[c].pc /\ client'[c].walk = client[c].walk
    BY <1>14 DEF TreeInv, Types
  <1> HIDE DEF m
  <1>17. QED BY <1>11, <1>13, <1>14, <1>15, <1>16, WalkStep

\* <-endWalkCh and the end of the walk.
LEMMA EndStep ==
  ASSUME TreeInv, NEW w \in WalkIds, Abort(w) \/ EndWalk(w)
  PROVE  TreeInv'
  <1> DEFINE m == [walk[w] EXCEPT !.st = "ended", !.work = {}]
  <1>1. walk[w] \in WalkStates BY DEF TreeInv, Types
  <1>2. walk' = [walk EXCEPT ![w] = m]
    <2>1. CASE Abort(w) BY <2>1 DEF Abort
    <2>2. CASE EndWalk(w)
      <3>1. walk[w].work = {} BY <2>2 DEF EndWalk
      <3>2. m = [walk[w] EXCEPT !.st = "ended"] BY <1>1, <3>1 DEF WalkStates
      <3>3. QED BY <2>2, <3>2 DEF EndWalk
    <2>3. QED BY <2>1, <2>2
  <1>3. /\ m \in WalkStates /\ m.work = {} /\ m.closes = walk[w].closes
        /\ m.stale = walk[w].stale /\ m.resultCh = walk[w].resultCh
    BY <1>1 DEF WalkStates
  <1>4. Len(m.resultCh) <= MaxObjectList BY <1>3 DEF TreeInv, WorkSound
  <1>5. UNCHANGED <<present, pool, timer, client, crashed>> BY DEF Abort, EndWalk
  <1>6. \A i \in m.work : i.op = "send" => i.key \in Keys BY <1>3
  <1>7. /\ client' \in [Clients -> ClientStates]
        /\ \A c \in Clients : client'[c].pc = client[c].pc /\ client'[c].walk = client[c].walk
    BY <1>5 DEF TreeInv, Types
  <1> HIDE DEF m
  <1>8. QED BY <1>2, <1>3, <1>4, <1>5, <1>6, <1>7, WalkStep

\* A step of a handler and the walk it reads.
LEMMA HandlerStep ==
  ASSUME TreeInv, NEW c \in Clients, NEW w \in WalkIds, NEW m \in ClientStates,
         NEW n \in WalkStates, client' = [client EXCEPT ![c] = m],
         walk' = [walk EXCEPT ![w] = n], UNCHANGED <<present, pool, timer, crashed>>,
         m.walk \in {client[c].walk, NoWalk},
         m.pc \in {"receive", "set", "complete"} <=> m.walk # NoWalk,
         n.closes = walk[w].closes, n.stale = walk[w].stale, n.work = walk[w].work,
         Len(n.resultCh) <= MaxObjectList
  PROVE  TreeInv'
  <1>1. Types' BY DEF TreeInv, Types
  <1>2. /\ walk'[w] = n /\ client'[c] = m
        /\ \A v \in WalkIds : v # w => walk'[v] = walk[v]
        /\ \A d \in Clients : d # c => client'[d] = client[d]
    BY DEF TreeInv, Types
  <1>3. WorkSound' BY <1>2 DEF TreeInv, WorkSound
  <1>4. ClientsWalk' BY <1>2 DEF TreeInv, Owned, ClientsWalk
  <1>5. Owned'
    <2>1. \A v \in WalkIds : walk'[v].closes = walk[v].closes /\ walk'[v].stale = walk[v].stale
      BY <1>2
    <2>2. \A d \in Clients : client'[d].walk \in {client[d].walk, NoWalk} BY <1>2
    <2>3. Types /\ Owned BY DEF TreeInv
    <2>4. QED BY <1>4, <2>1, <2>2, <2>3, SameOwners
  <1>6. QED BY <1>1, <1>3, <1>5 DEF TreeInv

\* A handler that waits for results has a walk.
LEMMA ReceivesFrom ==
  ASSUME TreeInv, NEW c \in Clients, client[c].pc \in {"receive", "set"}
  PROVE  client[c].walk \in WalkIds
  <1>1. client[c] \in ClientStates BY DEF TreeInv, Types
  <1>2. client[c].walk # NoWalk BY DEF TreeInv, Owned, ClientsWalk
  <1>3. QED BY <1>1, <1>2 DEF ClientStates

\* A handler takes a result.
LEMMA ReceiveStep ==
  ASSUME TreeInv, NEW c \in Clients, Receive(c)
  PROVE  TreeInv'
  <1> DEFINE w == client[c].walk
             ch == walk[w].resultCh
             result == Head(ch)
             lasting == client[c].must \ Dirs
             late == /\ result.key \in lasting
                     /\ \E k \in client[c].listed \cap lasting : k >= result.key
             more == client[c].count + 1 < client[c].max
             pc == IF result.end THEN "complete" ELSE IF more THEN client[c].pc ELSE "set"
             disorder == client[c].disorder \/ late
             listed == client[c].listed \cup {result.key}
             count == client[c].count + 1
             m == [client[c] EXCEPT !.pc = pc, !.marker = result.key, !.count = count,
                                    !.listed = listed, !.disorder = disorder]
             f == [client[c] EXCEPT !.pc = "failed", !.walk = NoWalk]
             n == [walk[w] EXCEPT !.resultCh = Tail(ch)]
             g == [walk[w] EXCEPT !.resultCh = Tail(ch), !.lost = TRUE]
  <1>1. client[c].pc = "receive" /\ ch # << >> BY DEF Receive
  <1>2. w \in WalkIds BY <1>1, ReceivesFrom
  <1>3. walk[w] \in WalkStates /\ client[c] \in ClientStates BY <1>2 DEF TreeInv, Types
  <1>4. ch \in Seq([key : Keys, end : BOOLEAN]) BY <1>3 DEF WalkStates
  <1>5. result \in [key : Keys, end : BOOLEAN]
    <2> HIDE DEF ch
    <2>1. QED BY <1>1, <1>4, HeadTailProperties
  <1>6. /\ Tail(ch) \in Seq([key : Keys, end : BOOLEAN]) /\ Len(Tail(ch)) <= Len(ch)
        /\ Len(ch) \in Nat /\ Len(Tail(ch)) \in Nat
    <2> HIDE DEF ch
    <2>1. Tail(ch) \in Seq([key : Keys, end : BOOLEAN]) /\ Len(Tail(ch)) = Len(ch) - 1
      BY <1>1, <1>4, HeadTailProperties
    <2>2. Len(ch) \in Nat /\ Len(Tail(ch)) \in Nat BY <1>4, <2>1, LenProperties
    <2>3. QED BY <2>1, <2>2
  <1>7. Len(ch) <= MaxObjectList BY <1>2 DEF TreeInv, WorkSound
  <1>8. Len(Tail(ch)) <= MaxObjectList BY <1>6, <1>7, MaxObjectListAssumption
  <1>9. client[c].walk # NoWalk BY <1>2, NoWalkAssumption
  <1> HIDE DEF ch
  <1>10. /\ n \in WalkStates /\ n.closes = walk[w].closes /\ n.stale = walk[w].stale
         /\ n.work = walk[w].work /\ n.resultCh = Tail(ch)
    BY <1>3, <1>6 DEF WalkStates
  <1>11. /\ g \in WalkStates /\ g.closes = walk[w].closes /\ g.stale = walk[w].stale
         /\ g.work = walk[w].work /\ g.resultCh = Tail(ch)
    BY <1>3, <1>6 DEF WalkStates
  <1>12. /\ f \in ClientStates /\ f.walk = NoWalk /\ f.pc = "failed"
    BY <1>3 DEF ClientStates
  <1>13. /\ listed \subseteq Keys /\ count \in Nat /\ result.key \in Names
    <2>1. result.key \in Keys /\ result.key \in Names BY <1>5 DEF Names
    <2>2. client[c].listed \subseteq Keys /\ client[c].count \in Nat BY <1>3 DEF ClientStates
    <2> HIDE DEF result
    <2>3. QED BY <2>1, <2>2
  <1>14. disorder \in BOOLEAN
    <2> HIDE DEF late
    <2>1. client[c].disorder \in BOOLEAN BY <1>3 DEF ClientStates
    <2>2. QED OBVIOUS
  <1>15. pc \in {"complete", "receive", "set"} BY <1>1
  <1>16. CASE walk' = [walk EXCEPT ![w] = n] /\ client' = [client EXCEPT ![c] = m]
    <2>1. walk' = [walk EXCEPT ![w] = n] /\ client' = [client EXCEPT ![c] = m] BY <1>16
    <2> HIDE DEF pc, disorder, listed, count, result, n
    <2>2. m \in ClientStates /\ m.pc = pc /\ m.walk = client[c].walk
      BY <1>3, <1>13, <1>14, <1>15 DEF ClientStates
    <2>3. /\ m.walk \in {client[c].walk, NoWalk}
          /\ m.pc \in {"receive", "set", "complete"} <=> m.walk # NoWalk
      BY <1>9, <1>15, <2>2
    <2>4. Len(n.resultCh) <= MaxObjectList BY <1>8, <1>10
    <2>5. UNCHANGED <<present, pool, timer, crashed>> BY DEF Receive
    <2> HIDE DEF m, w
    <2>6. QED BY <1>2, <1>10, <2>1, <2>2, <2>3, <2>4, <2>5, HandlerStep
  <1>17. CASE walk' = [walk EXCEPT ![w] = g] /\ client' = [client EXCEPT ![c] = f]
    <2>1. walk' = [walk EXCEPT ![w] = g] /\ client' = [client EXCEPT ![c] = f] BY <1>17
    <2> HIDE DEF result, g
    <2>3. /\ f.walk \in {client[c].walk, NoWalk}
          /\ f.pc \in {"receive", "set", "complete"} <=> f.walk # NoWalk
      BY <1>12
    <2>4. Len(g.resultCh) <= MaxObjectList BY <1>8, <1>11
    <2>5. UNCHANGED <<present, pool, timer, crashed>> BY DEF Receive
    <2> HIDE DEF f, w
    <2>6. QED BY <1>2, <1>11, <1>12, <2>1, <2>3, <2>4, <2>5, HandlerStep
  <1>18. \/ walk' = [walk EXCEPT ![w] = n] /\ client' = [client EXCEPT ![c] = m]
         \/ walk' = [walk EXCEPT ![w] = g] /\ client' = [client EXCEPT ![c] = f]
    BY ZenonT(60) DEF Receive, ch
  <1>19. QED BY <1>16, <1>17, <1>18

\* A handler finds the channel closed.
LEMMA ReceiveClosedStep ==
  ASSUME TreeInv, NEW c \in Clients, ReceiveClosed(c)
  PROVE  TreeInv'
  <1> DEFINE w == client[c].walk
             n == walk[w]
             m == [client[c] EXCEPT !.pc = "complete"]
  <1>1. w \in WalkIds BY ReceivesFrom DEF ReceiveClosed
  <1>2. walk[w] \in WalkStates /\ client[c] \in ClientStates BY <1>1 DEF TreeInv, Types
  <1>3. m \in ClientStates /\ m.pc = "complete" /\ m.walk = w BY <1>2 DEF ClientStates
  <1>4. walk' = [walk EXCEPT ![w] = n] /\ client' = [client EXCEPT ![c] = m]
    BY <1>1 DEF ReceiveClosed, TreeInv, Types
  <1>5. UNCHANGED <<present, pool, timer, crashed>> BY DEF ReceiveClosed
  <1>6. Len(n.resultCh) <= MaxObjectList BY <1>1 DEF TreeInv, WorkSound
  <1>7. w # NoWalk BY <1>1, NoWalkAssumption
  <1> HIDE DEF m
  <1>8. /\ m.walk \in {client[c].walk, NoWalk}
        /\ m.pc \in {"receive", "set", "complete"} <=> m.walk # NoWalk
    BY <1>3, <1>7
  <1> HIDE DEF w
  <1>9. /\ n \in WalkStates /\ n.closes = walk[w].closes
        /\ n.stale = walk[w].stale /\ n.work = walk[w].work
    BY <1>2
  <1> HIDE DEF n
  <1>10. QED BY <1>1, <1>3, <1>4, <1>5, <1>6, <1>8, <1>9, HandlerStep

\* Names come and go without the pool.
LEMMA NamesStep ==
  ASSUME TreeInv, NEW k \in Keys, Create(k) \/ Delete(k)
  PROVE  TreeInv'
  <1>1. /\ present' \subseteq Keys
    <2>1. Path(k) \subseteq Keys BY KeysAssumption, AncestorsAssumption DEF Path
    <2>2. QED BY <2>1 DEF Create, Delete, TreeInv, Types
  <1>2. /\ walk' \in [WalkIds -> WalkStates]
        /\ \A w \in WalkIds : /\ walk'[w].closes = walk[w].closes /\ walk'[w].stale = walk[w].stale
                              /\ walk'[w].work = walk[w].work
                              /\ walk'[w].resultCh = walk[w].resultCh
    <2>1. CASE Create(k) BY <2>1 DEF Create, TreeInv, Types
    <2>2. CASE Delete(k)
      <3>1. ASSUME NEW w \in WalkIds
            PROVE  LET m == [walk[w] EXCEPT !.alive = @ \ {k}] IN
                   /\ m \in WalkStates /\ m.closes = walk[w].closes /\ m.stale = walk[w].stale
                   /\ m.work = walk[w].work /\ m.resultCh = walk[w].resultCh
        <4>1. walk[w] \in WalkStates BY DEF TreeInv, Types
        <4>2. QED BY <4>1 DEF WalkStates
      <3>2. walk' = [w \in WalkIds |-> [walk[w] EXCEPT !.alive = @ \ {k}]] BY <2>2 DEF Delete
      <3>3. QED BY <3>1, <3>2
    <2>3. QED BY <2>1, <2>2
  <1>3. /\ client' \in [Clients -> ClientStates]
        /\ \A c \in Clients : client'[c].pc = client[c].pc /\ client'[c].walk = client[c].walk
    <2>1. CASE Create(k) BY <2>1 DEF Create, TreeInv, Types
    <2>2. CASE Delete(k)
      <3>1. ASSUME NEW c \in Clients
            PROVE  LET m == [client[c] EXCEPT !.must = @ \ {k}] IN
                   m \in ClientStates /\ m.pc = client[c].pc /\ m.walk = client[c].walk
        <4>1. client[c] \in ClientStates BY DEF TreeInv, Types
        <4>2. QED BY <4>1 DEF ClientStates
      <3>2. client' = [c \in Clients |-> [client[c] EXCEPT !.must = @ \ {k}]] BY <2>2 DEF Delete
      <3>3. QED BY <3>1, <3>2
    <2>3. QED BY <2>1, <2>2
  <1>4. pool' = pool /\ timer' = timer /\ crashed' = crashed BY DEF Create, Delete
  <1>5. Types' BY <1>1, <1>2, <1>3, <1>4 DEF TreeInv, Types
  <1>6. WorkSound' BY <1>2 DEF TreeInv, WorkSound
  <1>7. ClientsWalk' BY <1>3 DEF TreeInv, Owned, ClientsWalk
  <1>8. Owned'
    <2>1. Types /\ Owned BY DEF TreeInv
    <2>2. \A c \in Clients : client'[c].walk \in {client[c].walk, NoWalk} BY <1>3
    <2>3. QED BY <1>2, <1>4, <1>7, <2>1, <2>2, SameOwners
  <1>9. QED BY <1>5, <1>6, <1>8 DEF TreeInv

-----------------------------------------------------------------------------
\* TreeWalkPool.Release
LEMMA ReleaseStep ==
  ASSUME TreeInv, NEW c \in Clients, NEW listing \in ClientStates, Release(c, listing),
         UNCHANGED <<present, crashed>>
  PROVE  TreeInv'
  <1>1. PICK i \in 1 .. Len(pool) :
          /\ pool' = RemoveAt(pool, i)
          /\ timer' = [timer EXCEPT ![pool[i].timer].st = IF @ = "armed" THEN "stopped" ELSE @]
          /\ client' = [client EXCEPT ![c] =
                 [listing EXCEPT !.pc = "receive", !.walk = pool[i].walk,
                                 !.must = @ \cap walk[pool[i].walk].alive]]
    BY DEF Release
  <1> DEFINE m == [listing EXCEPT !.pc = "receive", !.walk = pool[i].walk,
                                  !.must = @ \cap walk[pool[i].walk].alive]
             t == pool[i].timer
             st == IF timer[t].st = "armed" THEN "stopped" ELSE timer[t].st
             n == [timer[t] EXCEPT !.st = st]
  <1>2. /\ Len(pool) \in Nat
        /\ \A j \in 1 .. Len(pool) :
             pool[j] \in PoolEntries /\ pool[j].walk \in WalkIds /\ pool[j].timer \in TimerIds
    BY PoolTyped DEF TreeInv
  <1>3. /\ present \subseteq Keys /\ walk \in [WalkIds -> WalkStates]
        /\ pool \in Seq(PoolEntries) /\ timer \in [TimerIds -> TimerStates]
        /\ client \in [Clients -> ClientStates] /\ crashed \in BOOLEAN
    BY DEF TreeInv, Types
  <1>4. /\ t \in TimerIds /\ timer[t].walk = pool[i].walk /\ timer[t].st \in {"armed", "fired"}
    BY <1>2 DEF TreeInv, Owned, TimersRun
  <1>5. pool[i].walk \in WalkIds /\ pool[i].walk # NoWalk BY <1>2, NoWalkAssumption
  <1>6. m \in ClientStates /\ m.pc = "receive" /\ m.walk = pool[i].walk BY <1>5 DEF ClientStates
  <1>7. n \in TimerStates /\ n.walk = pool[i].walk /\ n.st \in {"stopped", "fired"}
    BY <1>3, <1>4 DEF TimerStates
  <1>8. client' = [client EXCEPT ![c] = m] /\ timer' = [timer EXCEPT ![t] = n] BY <1>1
  <1> HIDE DEF m, n, st
  <1>9. PICK f \in [1 .. Len(pool') -> (1 .. Len(pool)) \ {i}] :
          /\ \A j \in 1 .. Len(pool') : pool'[j] = pool[f[j]]
          /\ \A j, k \in 1 .. Len(pool') : f[j] = f[k] => j = k
    <2> HIDE DEF t
    <2>0. pool \in Seq(PoolEntries) BY <1>3
    <2>1. \E f \in [1 .. Len(RemoveAt(pool, i)) -> (1 .. Len(pool)) \ {i}] :
            /\ \A j \in 1 .. Len(RemoveAt(pool, i)) : RemoveAt(pool, i)[j] = pool[f[j]]
            /\ \A j, k \in 1 .. Len(RemoveAt(pool, i)) : f[j] = f[k] => j = k
      BY <2>0, RemoveAtPlaces, SMTT(60)
    <2>2. pool' = RemoveAt(pool, i) BY <1>1
    <2>3. QED BY <2>1, <2>2
  <1>10. \A j \in 1 .. Len(pool') : f[j] \in 1 .. Len(pool) /\ f[j] # i BY <1>9
  <1>11. pool' \in Seq(PoolEntries) BY <1>1, <1>3, RemoveAtProperties
  <1>12. walk' = walk BY DEF Release
  <1>13. Types' BY <1>3, <1>4, <1>6, <1>7, <1>8, <1>11, <1>12 DEF Types
  <1>14. WorkSound' BY <1>12 DEF TreeInv, WorkSound
  <1>15. /\ client'[c] = m /\ \A d \in Clients : d # c => client'[d] = client[d]
         /\ timer'[t] = n /\ \A u \in TimerIds : u # t => timer'[u] = timer[u]
    BY <1>3, <1>4, <1>8
  <1>16. ClientsWalk' BY <1>5, <1>6, <1>15 DEF TreeInv, Owned, ClientsWalk
  <1>17. Exclusive BY DEF TreeInv, Owned
  <1>18. TimersRun'
    <2>1. \A u \in TimerIds : timer'[u].st = "free" <=> timer'[u].walk = NoWalk
      BY <1>5, <1>7, <1>15 DEF TreeInv, Owned, TimersRun
    <2>2. ASSUME NEW j \in 1 .. Len(pool')
          PROVE  timer'[pool'[j].timer].walk = pool'[j].walk
                 /\ timer'[pool'[j].timer].st \in {"armed", "fired"}
      <3>1. pool'[j] = pool[f[j]] /\ f[j] \in 1 .. Len(pool) /\ f[j] # i BY <1>9, <1>10
      <3>2. pool[f[j]].timer # t /\ pool[f[j]].timer \in TimerIds BY <1>2, <1>17, <3>1 DEF Exclusive
      <3>3. timer'[pool'[j].timer] = timer[pool[f[j]].timer] BY <1>15, <3>1, <3>2
      <3>4. QED BY <3>1, <3>3 DEF TreeInv, Owned, TimersRun
    <2>3. QED BY <2>1, <2>2 DEF TimersRun
  <1>19. Exclusive'
    <2>1. \A j, k \in 1 .. Len(pool') :
            (pool'[j].walk = pool'[k].walk \/ pool'[j].timer = pool'[k].timer) => j = k
      BY <1>9, <1>10, <1>17 DEF Exclusive
    <2>2. ASSUME NEW d \in Clients, NEW j \in 1 .. Len(pool')
          PROVE  client'[d].walk # pool'[j].walk
      <3>1. pool'[j] = pool[f[j]] /\ f[j] \in 1 .. Len(pool) /\ f[j] # i BY <1>9, <1>10
      <3>2. CASE d = c BY <1>6, <1>15, <1>17, <3>1, <3>2 DEF Exclusive
      <3>3. CASE d # c BY <1>15, <1>17, <3>1, <3>3 DEF Exclusive
      <3>4. QED BY <3>2, <3>3
    <2>3. \A d, e \in Clients :
            client'[d].walk = client'[e].walk => d = e \/ client'[d].walk = NoWalk
      BY <1>6, <1>15, <1>17 DEF Exclusive
    <2>4. QED BY <2>1, <2>2, <2>3 DEF Exclusive
  <1>20. ClosedOnce' BY <1>12 DEF TreeInv, Owned, ClosedOnce
  <1>21. PoolWalksLive'
    <2>1. crashed' => \E w \in WalkIds : walk'[w].stale BY <1>12 DEF TreeInv, Owned, PoolWalksLive
    <2>2. ASSUME NEW w \in WalkIds, walk[w].closes > 0 /\ ~walk[w].stale
          PROVE  /\ \A j \in 1 .. Len(pool') : pool'[j].walk # w
                 /\ \A d \in Clients : client'[d].walk # w
      <3>1. /\ \A j \in 1 .. Len(pool) : pool[j].walk # w
            /\ \A d \in Clients : client[d].walk # w
        BY <2>2 DEF TreeInv, Owned, PoolWalksLive
      <3>2. QED BY <1>6, <1>9, <1>10, <1>15, <3>1
    <2>3. QED BY <1>12, <2>1, <2>2 DEF PoolWalksLive
  <1>22. QED BY <1>13, <1>14, <1>16, <1>18, <1>19, <1>20, <1>21 DEF TreeInv, Owned

\* startTreeWalk
LEMMA StartTreeWalkStep ==
  ASSUME TreeInv, NEW c \in Clients, NEW listing \in ClientStates, StartTreeWalk(c, listing),
         UNCHANGED <<present, crashed>>, ~crashed
  PROVE  TreeInv'
  <1> DEFINE m(w) == [listing EXCEPT !.pc = "receive", !.walk = w]
             n == [FreeWalk EXCEPT !.st = "walking", !.recursive = listing.recursive,
                                   !.alive = present,
                                   !.work = {ListItem(0, listing.marker, TRUE)}]
  <1>1. PICK w \in WalkIds :
          /\ Unused(w)
          /\ walk' = [walk EXCEPT ![w] = n]
          /\ client' = [client EXCEPT ![c] = m(w)]
    BY DEF StartTreeWalk
  <1>2. /\ present \subseteq Keys /\ walk \in [WalkIds -> WalkStates]
        /\ client \in [Clients -> ClientStates] /\ crashed = FALSE
    BY DEF TreeInv, Types
  <1>3. /\ listing.recursive \in BOOLEAN /\ listing.marker \in Keys \cup {0}
    BY DEF ClientStates, Names
  <1>4. /\ ListItem(0, listing.marker, TRUE) \in Items
        /\ ListItem(0, listing.marker, TRUE).op # "send"
    BY <1>3 DEF ListItem, Items
  <1>5. /\ n \in WalkStates /\ n.closes = 0 /\ n.resultCh = << >>
        /\ n.work = {ListItem(0, listing.marker, TRUE)}
    BY <1>2, <1>3, <1>4, FreshTypes DEF WalkStates, FreeWalk
  <1>6. w # NoWalk BY NoWalkAssumption
  <1>7. m(w) \in ClientStates /\ m(w).pc = "receive" /\ m(w).walk = w BY DEF ClientStates
  <1> HIDE DEF m, n
  <1>8. pool' = pool /\ timer' = timer BY DEF StartTreeWalk
  <1>9. /\ client'[c] = m(w) /\ \A d \in Clients : d # c => client'[d] = client[d]
        /\ walk'[w] = n /\ \A v \in WalkIds : v # w => walk'[v] = walk[v]
    BY <1>1, <1>2
  <1>10. Types' BY <1>1, <1>5, <1>7, <1>8 DEF TreeInv, Types
  <1>11. WorkSound'
    <2>1. Len(n.resultCh) <= MaxObjectList BY <1>5, MaxObjectListAssumption
    <2>2. \A item \in n.work : item.op = "send" => item.key \in Keys BY <1>4, <1>5
    <2>3. QED BY <1>9, <2>1, <2>2 DEF TreeInv, WorkSound
  <1>12. ClientsWalk' BY <1>6, <1>7, <1>9 DEF TreeInv, Owned, ClientsWalk
  <1>13. TimersRun' BY <1>8 DEF TreeInv, Owned, TimersRun
  <1>14. /\ \A i \in 1 .. Len(pool) : pool[i].walk # w
         /\ \A d \in Clients : client[d].walk # w
    BY <1>1 DEF Unused
  <1>15. Exclusive'
    <2>1. Exclusive BY DEF TreeInv, Owned
    <2>2. \A d \in Clients, i \in 1 .. Len(pool) : client'[d].walk # pool[i].walk
      BY <1>7, <1>9, <1>14, <2>1 DEF Exclusive
    <2>3. \A d, e \in Clients :
            client'[d].walk = client'[e].walk => d = e \/ client'[d].walk = NoWalk
      BY <1>7, <1>9, <1>14, <2>1 DEF Exclusive
    <2>4. QED BY <1>8, <2>1, <2>2, <2>3 DEF Exclusive
  <1>16. ClosedOnce' BY <1>5, <1>9 DEF TreeInv, Owned, ClosedOnce
  <1>17. PoolWalksLive'
    <2>1. crashed' = FALSE BY <1>2
    <2>2. ASSUME NEW v \in WalkIds, walk'[v].closes > 0 /\ ~walk'[v].stale
          PROVE  /\ \A i \in 1 .. Len(pool) : pool[i].walk # v
                 /\ \A d \in Clients : client'[d].walk # v
      <3>1. v # w BY <1>5, <1>9, <2>2
      <3>2. walk'[v] = walk[v] BY <1>9, <3>1
      <3>3. /\ \A i \in 1 .. Len(pool) : pool[i].walk # v
            /\ \A d \in Clients : client[d].walk # v
        BY <2>2, <3>2 DEF TreeInv, Owned, PoolWalksLive
      <3>4. QED BY <1>7, <1>9, <3>1, <3>3
    <2>3. QED BY <1>8, <2>1, <2>2 DEF PoolWalksLive
  <1>18. QED BY <1>10, <1>11, <1>12, <1>13, <1>15, <1>16, <1>17 DEF TreeInv, Owned

\* TreeWalkPool.Set
LEMMA SetStep ==
  ASSUME TreeInv, NEW c \in Clients, Set(c)
  PROVE  TreeInv'
  <1> DEFINE w == client[c].walk
             n == [st |-> "armed", walk |-> w]
             e(t) == PoolEntry(client[c], t)
             m == [client[c] EXCEPT !.pc = "truncated", !.walk = NoWalk, !.max = 0, !.count = 0]
  <1>1. PICK t \in TimerIds : /\ timer[t].st = "free"
                              /\ timer' = [timer EXCEPT ![t] = n]
                              /\ pool' = Append(pool, e(t))
    BY DEF Set
  <1>2. /\ client[c].pc = "set" /\ client' = [client EXCEPT ![c] = m]
        /\ UNCHANGED <<present, walk, crashed>>
    BY DEF Set
  <1>3. w \in WalkIds /\ w # NoWalk BY <1>2, ReceivesFrom, NoWalkAssumption
  <1>4. /\ pool \in Seq(PoolEntries) /\ timer \in [TimerIds -> TimerStates]
        /\ client \in [Clients -> ClientStates] /\ client[c] \in ClientStates
    BY DEF TreeInv, Types
  <1>5. /\ e(t) \in PoolEntries /\ e(t).walk = w /\ e(t).timer = t
    BY <1>3, <1>4 DEF PoolEntry, PoolEntries, ClientStates
  <1>6. m \in ClientStates /\ m.pc = "truncated" /\ m.walk = NoWalk BY <1>4 DEF ClientStates
  <1>7. n \in TimerStates /\ n.st = "armed" /\ n.walk = w BY <1>3 DEF TimerStates
  <1> HIDE DEF e, m, n, w
  <1>8. /\ pool' \in Seq(PoolEntries) /\ Len(pool) \in Nat /\ Len(pool') = Len(pool) + 1
        /\ pool'[Len(pool) + 1] = e(t)
        /\ \A j \in 1 .. Len(pool) : pool'[j] = pool[j]
    BY <1>1, <1>4, <1>5, AppendProperties
  <1>9. \A j \in 1 .. Len(pool') : j \in 1 .. Len(pool) \/ j = Len(pool) + 1 BY <1>8
  <1>10. /\ client'[c] = m /\ \A d \in Clients : d # c => client'[d] = client[d]
         /\ timer'[t] = n /\ \A u \in TimerIds : u # t => timer'[u] = timer[u]
    BY <1>1, <1>2, <1>4
  <1>11. /\ \A j \in 1 .. Len(pool) : /\ pool[j].timer \in TimerIds /\ pool[j].timer # t
                                      /\ pool[j].walk # w
         /\ \A d \in Clients : d # c => client[d].walk # w
    <2>1. \A j \in 1 .. Len(pool) : pool[j].timer \in TimerIds BY PoolTyped DEF TreeInv
    <2>2. \A j \in 1 .. Len(pool) : timer[pool[j].timer].st # "free"
      BY DEF TreeInv, Owned, TimersRun
    <2>3. QED BY <1>1, <1>3, <2>1, <2>2 DEF TreeInv, Owned, Exclusive, w
  <1>12. Types' BY <1>1, <1>2, <1>6, <1>7, <1>8 DEF TreeInv, Types
  <1>13. WorkSound' /\ ClosedOnce' BY <1>2 DEF TreeInv, WorkSound, Owned, ClosedOnce
  <1>14. ClientsWalk' BY <1>6, <1>10 DEF TreeInv, Owned, ClientsWalk
  <1>15. TimersRun'
    <2>1. \A u \in TimerIds : timer'[u].st = "free" <=> timer'[u].walk = NoWalk
      BY <1>3, <1>7, <1>10 DEF TreeInv, Owned, TimersRun
    <2>2. ASSUME NEW j \in 1 .. Len(pool')
          PROVE  timer'[pool'[j].timer].walk = pool'[j].walk
                 /\ timer'[pool'[j].timer].st \in {"armed", "fired"}
      <3>1. CASE j \in 1 .. Len(pool)
        <4>1. pool'[j] = pool[j] /\ timer'[pool[j].timer] = timer[pool[j].timer]
          BY <1>8, <1>10, <1>11, <3>1
        <4>2. QED BY <3>1, <4>1 DEF TreeInv, Owned, TimersRun
      <3>2. CASE j = Len(pool) + 1 BY <1>5, <1>7, <1>8, <1>10, <3>2
      <3>3. QED BY <1>9, <3>1, <3>2
    <2>3. QED BY <2>1, <2>2 DEF TimersRun
  <1>16. Exclusive'
    <2>1. Exclusive BY DEF TreeInv, Owned
    <2>2. ASSUME NEW j \in 1 .. Len(pool'), NEW k \in 1 .. Len(pool'),
                 pool'[j].walk = pool'[k].walk \/ pool'[j].timer = pool'[k].timer
          PROVE  j = k
      <3>1. CASE j \in 1 .. Len(pool) /\ k \in 1 .. Len(pool)
        BY <1>8, <2>1, <2>2, <3>1 DEF Exclusive
      <3>2. CASE j = Len(pool) + 1 /\ k \in 1 .. Len(pool) BY <1>5, <1>8, <1>11, <2>2, <3>2
      <3>3. CASE j \in 1 .. Len(pool) /\ k = Len(pool) + 1 BY <1>5, <1>8, <1>11, <2>2, <3>3
      <3>4. QED BY <1>9, <3>1, <3>2, <3>3
    <2>3. ASSUME NEW d \in Clients, NEW j \in 1 .. Len(pool')
          PROVE  client'[d].walk # pool'[j].walk
      <3>1. pool'[j].walk # NoWalk
        <4>1. pool'[j].walk \in WalkIds
          <5>1. \A k \in 1 .. Len(pool) : pool[k].walk \in WalkIds BY PoolTyped DEF TreeInv
          <5>2. QED BY <1>3, <1>5, <1>8, <1>9, <5>1
        <4>2. QED BY <4>1, NoWalkAssumption
      <3>2. CASE d = c BY <1>6, <1>10, <3>1, <3>2
      <3>3. CASE d # c
        <4>1. client'[d] = client[d] /\ client[d].walk # w BY <1>10, <1>11, <3>3
        <4>2. CASE j \in 1 .. Len(pool) BY <1>8, <2>1, <4>1, <4>2 DEF Exclusive
        <4>3. CASE j = Len(pool) + 1 BY <1>5, <1>8, <4>1, <4>3
        <4>4. QED BY <1>9, <4>2, <4>3
      <3>4. QED BY <3>2, <3>3
    <2>4. \A d, g \in Clients :
            client'[d].walk = client'[g].walk => d = g \/ client'[d].walk = NoWalk
      BY <1>6, <1>10, <2>1 DEF Exclusive
    <2>5. QED BY <2>2, <2>3, <2>4 DEF Exclusive
  <1>17. PoolWalksLive'
    <2>1. crashed' => \E v \in WalkIds : walk'[v].stale BY <1>2 DEF TreeInv, Owned, PoolWalksLive
    <2>2. ASSUME NEW v \in WalkIds, walk[v].closes > 0 /\ ~walk[v].stale
          PROVE  /\ \A j \in 1 .. Len(pool') : pool'[j].walk # v
                 /\ \A d \in Clients : client'[d].walk # v
      <3>1. /\ \A j \in 1 .. Len(pool) : pool[j].walk # v
            /\ \A d \in Clients : client[d].walk # v
        BY <2>2 DEF TreeInv, Owned, PoolWalksLive
      <3>2. v # w /\ v # NoWalk BY <3>1, NoWalkAssumption DEF w
      <3>3. \A j \in 1 .. Len(pool') : pool'[j].walk # v BY <1>5, <1>8, <1>9, <3>1, <3>2
      <3>4. \A d \in Clients : client'[d].walk # v BY <1>6, <1>10, <3>1, <3>2
      <3>5. QED BY <3>3, <3>4
    <2>3. QED BY <1>2, <2>1, <2>2 DEF PoolWalksLive
  <1>18. QED BY <1>12, <1>13, <1>14, <1>15, <1>16, <1>17 DEF TreeInv, Owned

\* The timeout elapses, or the timer is told to stop.
LEMMA TimerStep ==
  ASSUME TreeInv, NEW t \in TimerIds, TimeOut(t) \/ TimerStopped(t)
  PROVE  TreeInv'
  <1> DEFINE fired == [timer[t] EXCEPT !.st = "fired"]
  <1>1. timer[t] \in TimerStates /\ timer[t].st \in {"armed", "stopped"}
    BY DEF TreeInv, Types, TimeOut, TimerStopped
  <1>2. UNCHANGED <<present, walk, pool, client, crashed>> BY DEF TimeOut, TimerStopped
  <1>3. fired \in TimerStates /\ fired.st = "fired" /\ fired.walk = timer[t].walk
    BY <1>1 DEF TimerStates
  <1>4. NoTimer \in TimerStates /\ NoTimer.st = "free" /\ NoTimer.walk = NoWalk
    BY FreshTypes DEF NoTimer
  <1>5. /\ timer' \in [TimerIds -> TimerStates]
        /\ \A u \in TimerIds : u # t => timer'[u] = timer[u]
        /\ \/ timer'[t] = fired
           \/ timer'[t] = NoTimer /\ timer[t].st = "stopped"
    <2>1. CASE TimeOut(t)
      <3>1. timer' = [timer EXCEPT ![t] = fired] BY <2>1 DEF TimeOut
      <3> HIDE DEF fired
      <3>2. QED BY <1>3, <3>1 DEF TreeInv, Types
    <2>2. CASE TimerStopped(t) BY <1>4, <2>2 DEF TimerStopped, TreeInv, Types
    <2>3. QED BY <2>1, <2>2
  <1> HIDE DEF fired
  <1>6. Types' /\ WorkSound' BY <1>2, <1>5 DEF TreeInv, Types, WorkSound
  <1>7. ClientsWalk' /\ Exclusive' /\ ClosedOnce' /\ PoolWalksLive'
    BY <1>2 DEF TreeInv, Owned, ClientsWalk, Exclusive, ClosedOnce, PoolWalksLive
  <1>8. TimersRun'
    <2>1. TimersRun BY DEF TreeInv, Owned
    <2>2. \A u \in TimerIds : timer'[u].st = "free" <=> timer'[u].walk = NoWalk
      BY <1>1, <1>3, <1>4, <1>5, <2>1 DEF TimersRun
    <2>3. \A i \in 1 .. Len(pool) : pool[i].timer \in TimerIds BY PoolTyped DEF TreeInv
    <2>4. \A i \in 1 .. Len(pool) : timer'[pool[i].timer].walk = pool[i].walk
                                    /\ timer'[pool[i].timer].st \in {"armed", "fired"}
      BY <1>3, <1>5, <2>1, <2>3 DEF TimersRun
    <2>5. QED BY <1>2, <2>2, <2>4 DEF TimersRun
  <1>9. QED BY <1>6, <1>7, <1>8 DEF TreeInv, Owned

\* What is left of the pool when the timer takes its walk out.
LEMMA EvictedPlaces ==
  ASSUME TreeInv, NEW t \in TimerIds
  PROVE  /\ Evicted(t) \in Seq(PoolEntries)
         /\ \E f \in [1 .. Len(Evicted(t)) -> 1 .. Len(pool)] :
              /\ \A j \in 1 .. Len(Evicted(t)) : Evicted(t)[j] = pool[f[j]] /\ pool[f[j]].timer # t
              /\ \A j, k \in 1 .. Len(Evicted(t)) : f[j] = f[k] => j = k
  <1>1. pool \in Seq(PoolEntries) /\ Len(pool) \in Nat BY DEF TreeInv, Types
  <1>2. CASE \E i \in 1 .. Len(pool) : pool[i].timer = t
    <2> DEFINE i == CHOOSE k \in 1 .. Len(pool) : pool[k].timer = t
    <2>1. i \in 1 .. Len(pool) /\ pool[i].timer = t BY <1>2
    <2>2. Evicted(t) = RemoveAt(pool, i) BY <1>2 DEF Evicted
    <2> HIDE DEF i
    <2>3. PICK f \in [1 .. Len(RemoveAt(pool, i)) -> (1 .. Len(pool)) \ {i}] :
            /\ \A j \in 1 .. Len(RemoveAt(pool, i)) : RemoveAt(pool, i)[j] = pool[f[j]]
            /\ \A j, k \in 1 .. Len(RemoveAt(pool, i)) : f[j] = f[k] => j = k
      BY <1>1, <2>1, RemoveAtPlaces, SMTT(60)
    <2>4. \A j \in 1 .. Len(RemoveAt(pool, i)) : f[j] \in 1 .. Len(pool) /\ f[j] # i BY <2>3
    <2>5. \A k \in 1 .. Len(pool) : k # i => pool[k].timer # t BY <2>1 DEF TreeInv, Owned, Exclusive
    <2>6. \A j \in 1 .. Len(RemoveAt(pool, i)) : pool[f[j]].timer # t BY <2>4, <2>5
    <2>7. f \in [1 .. Len(RemoveAt(pool, i)) -> 1 .. Len(pool)] BY <2>3
    <2>8. RemoveAt(pool, i) \in Seq(PoolEntries) BY <1>1, <2>1, RemoveAtProperties
    <2>9. QED BY <2>2, <2>3, <2>6, <2>7, <2>8
  <1>3. CASE ~(\E i \in 1 .. Len(pool) : pool[i].timer = t)
    <2> DEFINE f == [j \in 1 .. Len(pool) |-> j]
    <2>1. Evicted(t) = pool BY <1>3 DEF Evicted
    <2>2. f \in [1 .. Len(pool) -> 1 .. Len(pool)] OBVIOUS
    <2>3. /\ \A j \in 1 .. Len(pool) : pool[j] = pool[f[j]] /\ pool[f[j]].timer # t
          /\ \A j, k \in 1 .. Len(pool) : f[j] = f[k] => j = k
      BY <1>3
    <2> HIDE DEF f
    <2>4. QED BY <1>1, <2>1, <2>2, <2>3
  <1>4. QED BY <1>2, <1>3

\* The timer that fired closes endWalkCh.
LEMMA EvictStep ==
  ASSUME TreeInv, NEW t \in TimerIds, Evict(t), ~crashed
  PROVE  TreeInv'
  <1> DEFINE w == timer[t].walk
             inPool == \E i \in 1 .. Len(pool) : pool[i].timer = t
             stale == walk[w].stale \/ ~inPool
             closes == walk[w].closes + 1
             n == [walk[w] EXCEPT !.closes = closes, !.stale = stale]
  <1>1. /\ timer[t].st = "fired" /\ pool' = Evicted(t)
        /\ walk' = [walk EXCEPT ![w] = n]
        /\ crashed' = (walk[w].closes > 0) /\ timer' = [timer EXCEPT ![t] = NoTimer]
        /\ UNCHANGED <<present, client>>
    BY DEF Evict, Close
  <1>2. /\ present \subseteq Keys /\ walk \in [WalkIds -> WalkStates]
        /\ timer \in [TimerIds -> TimerStates] /\ client \in [Clients -> ClientStates]
    BY DEF TreeInv, Types
  <1>3. w \in WalkIds
    <2>1. w # NoWalk BY <1>1 DEF TreeInv, Owned, TimersRun
    <2>2. QED BY <1>2, <2>1 DEF TimerStates
  <1>4. walk[w] \in WalkStates /\ walk[w].closes \in {0, 1}
    <2>1. walk[w] \in WalkStates /\ walk[w].closes <= 1 BY <1>2, <1>3 DEF TreeInv, Owned, ClosedOnce
    <2>2. walk[w].closes \in 0 .. 2 BY <2>1 DEF WalkStates
    <2>3. QED BY <2>1, <2>2
  <1>5. stale \in BOOLEAN
    <2> HIDE DEF inPool
    <2>1. walk[w].stale \in BOOLEAN BY <1>4 DEF WalkStates
    <2>2. QED OBVIOUS
  <1> HIDE DEF stale
  <1>6. /\ n \in WalkStates /\ n.closes = closes /\ n.stale = stale
        /\ n.work = walk[w].work /\ n.resultCh = walk[w].resultCh
    <2>1. closes \in 0 .. 2 BY <1>4
    <2> HIDE DEF closes, w
    <2>2. QED BY <1>4, <1>5, <2>1 DEF WalkStates
  <1>7. NoTimer \in TimerStates /\ NoTimer.st = "free" /\ NoTimer.walk = NoWalk
    BY FreshTypes DEF NoTimer
  <1> HIDE DEF n
  <1>8. pool' \in Seq(PoolEntries) BY <1>1, EvictedPlaces
  <1>9. PICK f \in [1 .. Len(pool') -> 1 .. Len(pool)] :
          /\ \A j \in 1 .. Len(pool') : pool'[j] = pool[f[j]] /\ pool[f[j]].timer # t
          /\ \A j, k \in 1 .. Len(pool') : f[j] = f[k] => j = k
    <2>1. \E f \in [1 .. Len(Evicted(t)) -> 1 .. Len(pool)] :
            /\ \A j \in 1 .. Len(Evicted(t)) : Evicted(t)[j] = pool[f[j]] /\ pool[f[j]].timer # t
            /\ \A j, k \in 1 .. Len(Evicted(t)) : f[j] = f[k] => j = k
      BY EvictedPlaces
    <2>2. pool' = Evicted(t) BY <1>1
    <2>3. QED BY <2>1, <2>2
  <1>10. \A j \in 1 .. Len(pool') : f[j] \in 1 .. Len(pool) BY <1>9
  <1>11. /\ walk'[w] = n /\ \A v \in WalkIds : v # w => walk'[v] = walk[v]
         /\ timer'[t] = NoTimer /\ \A u \in TimerIds : u # t => timer'[u] = timer[u]
    BY <1>1, <1>2, <1>3
  <1>12. crashed' \in BOOLEAN /\ (crashed' <=> walk[w].closes > 0)
    <2> DEFINE twice == walk[w].closes > 0
    <2>1. twice \in BOOLEAN /\ crashed' = twice BY <1>1
    <2> HIDE DEF twice
    <2>2. crashed' \in BOOLEAN /\ (crashed' <=> twice) BY <2>1, Zenon
    <2>3. QED BY <2>2 DEF twice
  <1>13. Types' BY <1>1, <1>2, <1>3, <1>6, <1>7, <1>8, <1>12 DEF Types
  <1>14. WorkSound' BY <1>6, <1>11 DEF TreeInv, WorkSound
  <1>15. ClientsWalk' BY <1>1 DEF TreeInv, Owned, ClientsWalk
  <1>16. TimersRun'
    <2>1. TimersRun BY DEF TreeInv, Owned
    <2>2. \A u \in TimerIds : timer'[u].st = "free" <=> timer'[u].walk = NoWalk
      BY <1>7, <1>11, <2>1 DEF TimersRun
    <2>3. \A i \in 1 .. Len(pool) : pool[i].timer \in TimerIds BY PoolTyped DEF TreeInv
    <2>4. \A j \in 1 .. Len(pool') : timer'[pool'[j].timer].walk = pool'[j].walk
                                     /\ timer'[pool'[j].timer].st \in {"armed", "fired"}
      BY <1>9, <1>10, <1>11, <2>1, <2>3 DEF TimersRun
    <2>5. QED BY <2>2, <2>4 DEF TimersRun
  <1>17. Exclusive'
    <2>1. Exclusive BY DEF TreeInv, Owned
    <2>2. \A j, k \in 1 .. Len(pool') :
            (pool'[j].walk = pool'[k].walk \/ pool'[j].timer = pool'[k].timer) => j = k
      BY <1>9, <1>10, <2>1 DEF Exclusive
    <2>3. \A c \in Clients, j \in 1 .. Len(pool') : client[c].walk # pool'[j].walk
      BY <1>9, <1>10, <2>1 DEF Exclusive
    <2>4. QED BY <1>1, <2>1, <2>2, <2>3 DEF Exclusive
  <1>18. ClosedOnce'
    <2>1. \A v \in WalkIds : walk[v].closes <= 1 BY DEF TreeInv, Owned, ClosedOnce
    <2>2. ~crashed' => n.closes <= 1 BY <1>4, <1>6, <1>12
    <2>3. QED BY <1>11, <2>1, <2>2 DEF ClosedOnce
  <1>19. PoolWalksLive'
    <2>1. ASSUME inPool
          PROVE  \E i \in 1 .. Len(pool) : pool[i].timer = t /\ pool[i].walk = w
      BY <2>1 DEF TreeInv, Owned, TimersRun
    <2>2. ASSUME NEW v \in WalkIds, walk[v].closes > 0 /\ ~walk[v].stale
          PROVE  /\ \A j \in 1 .. Len(pool) : pool[j].walk # v
                 /\ \A d \in Clients : client[d].walk # v
      BY <2>2 DEF TreeInv, Owned, PoolWalksLive
    <2>3. crashed' => \E v \in WalkIds : walk'[v].stale
      <3>1. ASSUME walk[w].closes > 0
            PROVE  stale
        <4>1. walk[w].stale \/ ~inPool BY <1>3, <2>1, <2>2, <3>1
        <4>2. QED BY <4>1 DEF stale
      <3>2. QED BY <1>3, <1>6, <1>11, <1>12, <3>1
    <2>4. ASSUME NEW v \in WalkIds, walk'[v].closes > 0 /\ ~walk'[v].stale
          PROVE  /\ \A j \in 1 .. Len(pool') : pool'[j].walk # v
                 /\ \A d \in Clients : client[d].walk # v
      <3>1. CASE v = w
        <4>1. inPool BY <1>6, <1>11, <2>4, <3>1 DEF stale
        <4>2. PICK i \in 1 .. Len(pool) : pool[i].timer = t /\ pool[i].walk = w BY <2>1, <4>1
        <4>3. \A j \in 1 .. Len(pool') : pool'[j].walk # w
          BY <1>9, <1>10, <4>2 DEF TreeInv, Owned, Exclusive
        <4>4. \A d \in Clients : client[d].walk # w BY <4>2 DEF TreeInv, Owned, Exclusive
        <4>5. QED BY <3>1, <4>3, <4>4
      <3>2. CASE v # w
        <4>1. walk'[v] = walk[v] BY <1>11, <3>2
        <4>2. QED BY <1>9, <1>10, <2>2, <2>4, <4>1
      <3>3. QED BY <3>1, <3>2
    <2>5. QED BY <1>1, <2>3, <2>4 DEF PoolWalksLive
  <1>20. QED BY <1>13, <1>14, <1>15, <1>16, <1>17, <1>18, <1>19 DEF TreeInv, Owned

\* The process is started again.
LEMMA RestartStep == TreeInv /\ Restart => TreeInv'
  <1>1. TreeInv /\ Restart => Fresh' BY DEF Restart, TreeInv, Types, Fresh
  <1>2. Fresh' => TreeInv' BY FreshInv, PTL
  <1>3. QED BY <1>1, <1>2

\* A request for the first or the next page.
LEMMA ListPageStep ==
  ASSUME TreeInv, NEW c \in Clients, ListObjects(c) \/ NextPage(c), ~crashed
  PROVE  TreeInv'
  <1>1. ASSUME NEW listing \in ClientStates, ListPage(c, listing)
        PROVE  TreeInv'
    BY <1>1, ReleaseStep, StartTreeWalkStep DEF ListPage
  <1>2. present \subseteq Keys /\ client[c] \in ClientStates BY DEF TreeInv, Types
  <1>3. \A max \in 1 .. MaxObjectList : max \in Nat BY MaxObjectListAssumption
  <1>4. CASE ListObjects(c)
    <2>1. PICK recursive \in BOOLEAN, max \in 1 .. MaxObjectList :
            ListPage(c, [NoListing EXCEPT !.recursive = recursive, !.max = max, !.must = present])
      BY <1>4 DEF ListObjects
    <2>2. [NoListing EXCEPT !.recursive = recursive, !.max = max, !.must = present] \in ClientStates
      BY <1>2, <1>3, FreshTypes DEF ClientStates
    <2>3. QED BY <1>1, <2>1, <2>2
  <1>5. CASE NextPage(c)
    <2>1. PICK max \in 1 .. MaxObjectList : ListPage(c, [client[c] EXCEPT !.max = max, !.count = 0])
      BY <1>5 DEF NextPage
    <2>2. [client[c] EXCEPT !.max = max, !.count = 0] \in ClientStates
      BY <1>2, <1>3 DEF ClientStates
    <2>3. QED BY <1>1, <2>1, <2>2
  <1>6. QED BY <1>4, <1>5

-----------------------------------------------------------------------------
\* The invariant of the pool.
LEMMA TreeInvHolds == Spec => []TreeInv
  <1>1. Init => TreeInv BY FreshInv DEF Init, Fresh
  <1>2. TreeInv /\ [Next]_vars => TreeInv'
    <2> SUFFICES ASSUME TreeInv, [Next]_vars
                 PROVE  TreeInv'
      OBVIOUS
    <2>1. ASSUME NEW c \in Clients, ListObjects(c) \/ NextPage(c) \/ Handler(c), ~crashed
          PROVE  TreeInv'
      BY <2>1, ListPageStep, ReceiveStep, ReceiveClosedStep, SetStep DEF Handler
    <2>2. ASSUME NEW w \in WalkIds, Walker(w)
          PROVE  TreeInv'
      BY <2>2, ListDirStep, SendStep, EndStep DEF Walker
    <2>3. ASSUME NEW t \in TimerIds, Timer(t), ~crashed
          PROVE  TreeInv'
      BY <2>3, TimerStep, EvictStep DEF Timer
    <2>4. ASSUME NEW k \in Keys, Create(k) \/ Delete(k)
          PROVE  TreeInv'
      BY <2>4, NamesStep
    <2>5. CASE UNCHANGED vars
      BY <2>5 DEF vars, TreeInv, Types, WorkSound, Owned, ClientsWalk, TimersRun, Exclusive,
                  ClosedOnce, PoolWalksLive
    <2>6. QED BY <2>1, <2>2, <2>3, <2>4, <2>5, RestartStep DEF Next
  <1>3. QED BY <1>1, <1>2, PTL DEF Spec

\* The type invariant.
THEOREM TypeCorrect == Spec => []TypeOK
  <1>1. TreeInv => TypeOK
    <2> SUFFICES ASSUME TreeInv
                 PROVE  TypeOK
      OBVIOUS
    <2>1. ASSUME NEW w \in WalkIds
          PROVE  /\ walk[w].st \in {"free", "walking", "ended"}
                 /\ walk[w].work \subseteq Items
                 /\ walk[w].resultCh \in Seq([key : Keys, end : BOOLEAN])
                 /\ Len(walk[w].resultCh) <= MaxObjectList
                 /\ walk[w].closes \in 0 .. 2
      <3>1. walk[w] \in WalkStates BY DEF TreeInv, Types
      <3>2. Len(walk[w].resultCh) <= MaxObjectList BY DEF TreeInv, WorkSound
      <3>3. QED BY <3>1, <3>2 DEF WalkStates
    <2>2. \A i \in 1 .. Len(pool) : pool[i].walk \in WalkIds /\ pool[i].timer \in TimerIds
      BY PoolTyped DEF TreeInv
    <2>3. ASSUME NEW t \in TimerIds
          PROVE  timer[t].st \in {"free", "armed", "stopped", "fired"}
      <3>1. timer[t] \in TimerStates BY DEF TreeInv, Types
      <3>2. QED BY <3>1 DEF TimerStates
    <2>4. ASSUME NEW c \in Clients
          PROVE  /\ client[c].pc \in {"idle", "receive", "set", "truncated", "complete", "failed"}
                 /\ client[c].pc \in {"receive", "set", "complete"} <=> client[c].walk # NoWalk
      <3>1. client[c] \in ClientStates BY DEF TreeInv, Types
      <3>2. client[c].pc \in {"receive", "set", "complete"} <=> client[c].walk # NoWalk
        BY DEF TreeInv, Owned, ClientsWalk
      <3>3. QED BY <3>1, <3>2 DEF ClientStates
    <2>5. present \subseteq Keys BY DEF TreeInv, Types
    <2>6. QED BY <2>1, <2>2, <2>3, <2>4, <2>5 DEF TypeOK
  <1>2. QED BY <1>1, TreeInvHolds, PTL

\* A walk is in the pool once, or with one client, or with nobody, however many
\* listings run and whenever the timers of their pooled walks fire.
THEOREM WalkHasOneUserAlways == Spec => []WalkHasOneUser
  <1>1. TreeInv => WalkHasOneUser
    <2> SUFFICES ASSUME TreeInv, NEW w \in WalkIds
                 PROVE  Cardinality({i \in 1 .. Len(pool) : pool[i].walk = w})
                          + Cardinality({c \in Clients : client[c].pc \in {"receive", "set"}
                                                         /\ client[c].walk = w}) <= 1
      BY DEF WalkHasOneUser
    <2> DEFINE P == {i \in 1 .. Len(pool) : pool[i].walk = w}
               C == {c \in Clients : client[c].pc \in {"receive", "set"} /\ client[c].walk = w}
    <2>1. w # NoWalk BY NoWalkAssumption
    <2>2. \A i, j \in P : i = j BY DEF TreeInv, Owned, Exclusive
    <2>3. \A c, d \in C : c = d BY <2>1 DEF TreeInv, Owned, Exclusive
    <2>4. P = {} \/ C = {} BY DEF TreeInv, Owned, Exclusive
    <2> HIDE DEF P, C
    <2>5. ASSUME NEW S, \A x, y \in S : x = y
          PROVE  Cardinality(S) = 0 \/ Cardinality(S) = 1
      <3>1. CASE S = {} BY <3>1, FS_EmptySet
      <3>2. CASE S # {}
        <4>1. PICK x : S = {x} BY <2>5, <3>2
        <4>2. QED BY <4>1, FS_Singleton
      <3>3. QED BY <3>1, <3>2
    <2>6. Cardinality(P) \in {0, 1} /\ Cardinality(C) \in {0, 1} BY <2>2, <2>3, <2>5
    <2>7. Cardinality(P) = 0 \/ Cardinality(C) = 0 BY <2>4, FS_EmptySet
    <2>8. Cardinality(P) + Cardinality(C) <= 1 BY <2>6, <2>7
    <2>9. QED BY <2>8 DEF P, C
  <1>2. QED BY <1>1, TreeInvHolds, PTL

\* A walk whose endWalkCh is closed is with nobody, and endWalkCh is closed
\* twice, which panics, only if a timer fired although Release had taken its walk.
THEOREM PoolWalksLiveAlways == Spec => []PoolWalksLive
  <1>1. TreeInv => PoolWalksLive BY DEF TreeInv, Owned
  <1>2. QED BY <1>1, TreeInvHolds, PTL

-----------------------------------------------------------------------------
(* The order of a listing: the invariant behind ListingInOrder and           *)
(* ListingComplete                                                         *)

\* The names below directory d.
Below(d) == IF d = 0 THEN Keys ELSE {k \in Keys : d \in Ancestors[k]}

\* The names of a listing among those of S.
OfListing(recursive, S) == {k \in S : IF recursive THEN k \notin Dirs ELSE Ancestors[k] = {}}

\* What walk W has to list of what existed all the time.
Lasting(W) == OfListing(W.recursive, W.alive)

\* Name k is before all that item i will send, or is one that it will send.
Passed(i, k) == k < i.key \/ k <= i.marker
ToCome(i, k) == IF i.op = "send" THEN k = i.key ELSE k \in Below(i.key) /\ i.marker < k

Folders == Dirs \cup {0}

\* A directory that is still to be listed.
ItemFits(item, recursive) ==
  /\ item \in Items
  /\ item.op = "list"
  /\ item.key \in Folders
  /\ item.marker \in Below(item.key) \cup {0}
  /\ ~recursive => item.key = 0

\* Neither is inside the other's directory.
Apart(i, j) == i.key # j.key /\ j.key \notin Below(i.key)

\* The work that is left to a walk.
WorkFits(W) ==
  /\ \A i \in W.work :
       IF i.op = "send" THEN i.marker = 0 /\ (~W.recursive => Ancestors[i.key] = {})
                        ELSE ItemFits(i, W.recursive)
  /\ \A i, j \in W.work : i # j => Apart(i, j)
  /\ \A i, j \in W.work : i.end => j.key <= i.key
  /\ W.st # "walking" => W.work = {}

\* What was sent comes in order, before the work that is left.
ChannelFits(W) ==
  LET ch == W.resultCh
  IN \A a \in 1 .. Len(ch) :
       /\ \A k \in Lasting(W) : k <= ch[a].key =>
            /\ \A b \in 1 .. Len(ch) : a < b => k < ch[b].key
            /\ \A i \in W.work : Passed(i, k)
       /\ ch[a].end => a = Len(ch) /\ W.work = {}
       /\ ~W.recursive => Ancestors[ch[a].key] = {}

\* What a walk that was not ended still lists.
Lists(W, k) == (\E a \in 1 .. Len(W.resultCh) : W.resultCh[a].key = k)
                 \/ (\E i \in W.work : ToCome(i, k))

\* Walk W goes on behind the marker m.
GoesOn(W, m) ==
  LET ch == W.resultCh
  IN \A k \in Lasting(W) :
       /\ k <= m => /\ \A a \in 1 .. Len(ch) : k < ch[a].key
                    /\ \A i \in W.work : Passed(i, k)
       /\ m < k => /\ \A a \in 1 .. Len(ch) : k < ch[a].key => \E b \in 1 .. (a - 1) : ch[b].key = k
                   /\ W.st = "walking" \/ W.closes = 0 => Lists(W, k)

\* A listing l with its walk W: what it has is at or before its marker, what it
\* has not is behind it.
Listing(l) == OfListing(l.recursive, l.must)

ListingFits(l) ==
  /\ \A k \in Listing(l) : IF k \in l.listed THEN k <= l.marker ELSE l.marker < k
  /\ ~l.recursive => \A k \in l.listed : Ancestors[k] = {}

WalkingFits(l, W) == GoesOn(W, l.marker) /\ l.recursive = W.recursive /\ l.must \subseteq W.alive

NamesFit ==
  /\ \A k \in present : Ancestors[k] \subseteq present
  /\ \A w \in WalkIds : walk[w].alive \subseteq present
  /\ \A c \in Clients : client[c].must \subseteq present

WalksFit == \A w \in WalkIds : WorkFits(walk[w]) /\ ChannelFits(walk[w])

PoolFits ==
  \A i \in 1 .. Len(pool) :
    /\ GoesOn(walk[pool[i].walk], pool[i].marker)
    /\ pool[i].recursive = walk[pool[i].walk].recursive

ClientsFit ==
  \A c \in Clients :
    /\ ~client[c].disorder
    /\ client[c].pc \in {"receive", "set"} => WalkingFits(client[c], walk[client[c].walk])
    /\ client[c].pc \in {"receive", "set", "truncated"} => ListingFits(client[c])
    /\ client[c].pc = "complete" /\ ~walk[client[c].walk].stale =>
         Listing(client[c]) \subseteq client[c].listed

ListInv == NamesFit /\ WalksFit /\ PoolFits /\ ClientsFit

-----------------------------------------------------------------------------
(* The name tree *)

\* Ancestors come first, and those of a name are inside one another.
LEMMA TreeFacts ==
  /\ 0 \notin Keys
  /\ \A k \in Keys : /\ k \in Nat /\ k > 0
                     /\ Ancestors[k] \subseteq Dirs /\ Ancestors[k] \subseteq Keys
                     /\ \A d \in Ancestors[k] : d < k /\ Ancestors[d] \subseteq Ancestors[k]
  /\ \A k \in Keys : \A d, e \in Ancestors[k] : d < e => d \in Ancestors[e]
  <1>1. \A k \in Keys : k \in Nat /\ k > 0 BY KeysAssumption
  <1>2. \A k \in Keys : /\ Ancestors[k] \subseteq Dirs /\ Ancestors[k] \subseteq Keys
                        /\ \A d \in Ancestors[k] : d < k /\ Ancestors[d] \subseteq Ancestors[k]
    BY KeysAssumption, AncestorsAssumption
  <1>3. \A k \in Keys : \A d, e \in Ancestors[k] : d < e => d \in Ancestors[e]
    BY <1>2, AncestorsAssumption
  <1>4. QED BY <1>1, <1>2, <1>3

\* Name k is c or below it.
Within(c, k) == k = c \/ c \in Ancestors[k]

\* What is below a directory.
LEMMA BelowFacts ==
  ASSUME NEW d \in Folders
  PROVE  /\ Below(d) \subseteq Keys /\ Children(d) \subseteq Below(d)
         /\ \A k \in Below(d) : d < k
         /\ d \in Nat
         /\ \A c \in Keys : c \in Children(d) <=> Ancestors[c] = Path(d)
         /\ \A e \in Path(d) : e <= d
         /\ \A j \in Keys, k \in Below(d) : d < j /\ j < k => j \in Below(d)
  <1>1. d \in Nat /\ (d # 0 => d \in Keys) BY KeysAssumption DEF Folders
  <1>2. \A c \in Keys : c \in Children(d) <=> Ancestors[c] = Path(d) BY DEF Children
  <1>3. Below(d) \subseteq Keys /\ Children(d) \subseteq Below(d) BY <1>2 DEF Below, Path, Children
  <1>4. \A k \in Below(d) : d < k BY TreeFacts DEF Below
  <1>5. \A e \in Path(d) : e <= d BY <1>1, TreeFacts DEF Path
  <1>6. \A j \in Keys, k \in Below(d) : d < j /\ j < k => j \in Below(d)
    BY AncestorsAssumption DEF Below
  <1>7. QED BY <1>1, <1>2, <1>3, <1>4, <1>5, <1>6

\* The names of a directory are before the next name outside of it.
LEMMA BelowBefore ==
  ASSUME NEW d \in Folders, NEW j \in Keys, d < j, j \notin Below(d), NEW k \in Below(d)
  PROVE  k < j
  <1>1. k \in Keys /\ k \in Nat /\ j \in Nat BY BelowFacts, TreeFacts
  <1>2. k # j OBVIOUS
  <1>3. ~(j < k) BY BelowFacts
  <1>4. QED BY <1>1, <1>2, <1>3

\* The same between two entries of a directory.
LEMMA ChildBefore ==
  ASSUME NEW d \in Folders, NEW c \in Children(d), NEW e \in Children(d), c < e,
         NEW k \in Keys, Within(c, k)
  PROVE  k < e
  <1>1. c \in Keys /\ e \in Keys /\ d < c /\ d \in Nat BY BelowFacts
  <1>2. c \notin Ancestors[e] BY <1>1, BelowFacts, TreeFacts
  <1>3. CASE k = c BY <1>3
  <1>4. CASE c \in Ancestors[k]
    <2>1. k # e BY <1>2, <1>4
    <2>2. ~(e < k) BY <1>1, <1>2, <1>4, AncestorsAssumption
    <2>3. QED BY <1>1, <2>1, <2>2, TreeFacts
  <1>5. QED BY <1>3, <1>4 DEF Within

\* On the way to a name of a directory there is one entry of the directory.
LEMMA MarkerDirIsChild ==
  ASSUME NEW d \in Folders, NEW k \in Below(d)
  PROVE  /\ MarkerDir(d, k) \in Children(d) /\ Within(MarkerDir(d, k), k)
         /\ \A c \in Children(d) : Within(c, k) => c = MarkerDir(d, k)
  <1>1. k \in Keys /\ k \in Nat /\ d < k /\ d \in Nat /\ k # 0 BY BelowFacts, TreeFacts
  <1> DEFINE T == {e \in Ancestors[k] \cup {k} : d < e}
  <1>2. T \subseteq Nat /\ k \in T BY <1>1, TreeFacts
  <1>3. PICK c \in T : \A e \in T : c <= e
    <2> HIDE DEF T
    <2>1. QED BY <1>2, LeastNumber
  <1>4. c \in Keys /\ c \in Nat /\ d < c /\ Within(c, k) BY <1>1, <1>2, TreeFacts DEF Within
  <1>5. \A e \in Ancestors[c] : e \in Ancestors[k] /\ e \in Nat /\ e <= d
    <2>1. \A e \in Ancestors[c] : e \in Ancestors[k] /\ e \in Nat /\ e < c
      BY <1>1, <1>4, TreeFacts DEF Within
    <2>2. \A e \in Ancestors[c] : ~(d < e)
      <3>1. ASSUME NEW e \in Ancestors[c], d < e
            PROVE  FALSE
        <4>1. e \in T BY <2>1, <3>1
        <4>2. c <= e BY <1>3, <4>1
        <4>3. QED BY <1>4, <2>1, <4>2
      <3>2. QED BY <3>1
    <2>3. QED BY <1>1, <2>1, <2>2
  <1> HIDE DEF T
  <1>6. Ancestors[c] \subseteq Path(d)
    <2>1. CASE d = 0 BY <1>1, <1>4, <1>5, <2>1, TreeFacts
    <2>2. CASE d # 0
      <3>1. d \in Ancestors[k] BY <2>2 DEF Below
      <3>2. \A e \in Ancestors[c] : e = d \/ e \in Ancestors[d] BY <1>1, <1>5, <3>1, TreeFacts
      <3>3. QED BY <2>2, <3>2 DEF Path
    <2>3. QED BY <2>1, <2>2
  <1>7. Path(d) \subseteq Ancestors[c]
    <2>1. CASE d = 0 BY <2>1 DEF Path
    <2>2. CASE d # 0
      <3>1. d \in Ancestors[k] BY <2>2 DEF Below
      <3>2. d \in Ancestors[c] BY <1>1, <1>4, <3>1, TreeFacts DEF Within
      <3>3. Ancestors[d] \subseteq Ancestors[c] BY <1>4, <3>2, TreeFacts
      <3>4. QED BY <2>2, <3>2, <3>3 DEF Path
    <2>3. QED BY <2>1, <2>2
  <1>8. c \in Children(d)
    <2>1. Ancestors[c] = Path(d) BY <1>6, <1>7
    <2>2. QED BY <1>4, <2>1 DEF Children
  <1>9. ASSUME NEW a \in Children(d), NEW b \in Children(d), Within(a, k), Within(b, k)
        PROVE  ~(a < b)
    <2>1. SUFFICES ASSUME a < b
                   PROVE  FALSE
      OBVIOUS
    <2>2. k < b
      <3>1. \A x, y \in Children(d) : x < y /\ Within(x, k) => k < y BY <1>1, ChildBefore
      <3>2. QED BY <1>9, <2>1, <3>1
    <2>3. b \in Keys /\ b \in Nat BY BelowFacts, TreeFacts
    <2>4. b <= k BY <1>1, <1>9, <2>3, TreeFacts DEF Within
    <2>5. QED BY <1>1, <2>2, <2>3, <2>4
  <1>10. \A a \in Children(d) : Within(a, k) => a = c
    <2>1. ASSUME NEW a \in Children(d), Within(a, k)
          PROVE  a = c
      <3>1. a \in Nat BY BelowFacts, TreeFacts
      <3>2. ~(a < c) /\ ~(c < a) BY <1>4, <1>8, <1>9, <2>1
      <3>3. QED BY <1>4, <3>1, <3>2
    <2>2. QED BY <2>1
  <1>11. MarkerDir(d, k) = c
    <2>1. MarkerDir(d, k) = CHOOSE a \in Children(d) : a = k \/ a \in Ancestors[k]
      BY <1>1 DEF MarkerDir
    <2>2. \A a \in Children(d) : (a = k \/ a \in Ancestors[k]) <=> a = c
      BY <1>4, <1>8, <1>10 DEF Within
    <2>3. QED BY <1>8, <2>1, <2>2
  <1>12. QED BY <1>4, <1>8, <1>10, <1>11

\* It exists when the name does.
LEMMA MarkerDirExists ==
  ASSUME NEW d \in Folders, NEW k \in Below(d), k \in present, Ancestors[k] \subseteq present
  PROVE  MarkerDir(d, k) \in Children(d) \cap present
  BY MarkerDirIsChild DEF Within

-----------------------------------------------------------------------------
(* What a call of doTreeWalk leaves to do *)

\* A directory that has no entries is a result.
Emptied(d) == d \in present /\ Children(d) \cap present = {}

\* Ancestors of what exists exist.
Rooted == present \subseteq Keys /\ \A k \in present : Ancestors[k] \subseteq present

\* The marker that the recursive call for entry k gets.
MarkerArg(item, k) ==
  IF k = MarkerDir(item.key, item.marker) /\ k # item.marker THEN item.marker ELSE 0

\* one has an item for each entry of E.
OneEach(one, E, item, recursive) ==
  \A k \in E :
    /\ one[k].key = k
    /\ one[k].end => item.end /\ \A j \in E : j <= k
    /\ IF recursive /\ k \in Dirs
       THEN one[k].op = "list" /\ one[k].marker = MarkerArg(item, k)
       ELSE one[k].op = "send" /\ one[k].marker = 0

\* One item for each entry, that may end the walk if it is the last one.
LEMMA DoTreeWalkOne ==
  ASSUME NEW recursive \in BOOLEAN, NEW item, ItemFits(item, recursive),
         NEW emptyDir \in BOOLEAN, NEW stated \in SUBSET Keys, emptyDir = FALSE
  PROVE  LET E == Entries(item.key, item.marker, recursive, stated)
         IN \E one \in [E -> Items] :
              /\ DoTreeWalk(item, recursive, emptyDir, stated) = {one[k] : k \in E}
              /\ OneEach(one, E, item, recursive)
  <1> DEFINE d == item.key
             E == Entries(d, item.marker, recursive, stated)
             end(k) == item.end /\ \A j \in E : j <= k
             f == [k \in E |-> IF recursive /\ k \in Dirs
                               THEN ListItem(k, MarkerArg(item, k), end(k))
                               ELSE SendItem(k, end(k))]
  <1>1. item.marker \in Keys \cup {0} /\ item.end \in BOOLEAN BY DEF ItemFits, Items
  <1>2. E \subseteq Keys BY DEF Entries
  <1>3. \A k : MarkerArg(item, k) \in Keys \cup {0} BY <1>1 DEF MarkerArg
  <1>4. \A k : end(k) \in BOOLEAN /\ (end(k) => item.end /\ \A j \in E : j <= k) BY <1>1
  <1>5. DoTreeWalk(item, recursive, emptyDir, stated) = {f[k] : k \in E}
    <2>1. DoTreeWalk(item, recursive, emptyDir, stated)
            = {IF recursive /\ k \in Dirs THEN ListItem(k, MarkerArg(item, k), end(k))
                                          ELSE SendItem(k, end(k)) : k \in E}
      BY DEF DoTreeWalk, MarkerArg
    <2> HIDE DEF E, end
    <2>2. QED BY <2>1
  <1> HIDE DEF E, end
  <1>6. ASSUME NEW k \in Keys, NEW e \in BOOLEAN, NEW m \in Keys \cup {0}
        PROVE  /\ ListItem(k, m, e) \in Items /\ ListItem(k, m, e).op = "list"
               /\ ListItem(k, m, e).key = k /\ ListItem(k, m, e).marker = m
               /\ ListItem(k, m, e).end = e
               /\ SendItem(k, e) \in Items /\ SendItem(k, e).op = "send"
               /\ SendItem(k, e).key = k /\ SendItem(k, e).marker = 0 /\ SendItem(k, e).end = e
    BY DEF ListItem, SendItem, Items
  <1>7. ASSUME NEW k \in E
        PROVE  /\ f[k] \in Items /\ f[k].key = k /\ f[k].end = end(k)
               /\ IF recursive /\ k \in Dirs
                  THEN f[k].op = "list" /\ f[k].marker = MarkerArg(item, k)
                  ELSE f[k].op = "send" /\ f[k].marker = 0
    <2>1. k \in Keys /\ end(k) \in BOOLEAN /\ MarkerArg(item, k) \in Keys \cup {0}
      BY <1>2, <1>3, <1>4
    <2>2. CASE recursive /\ k \in Dirs
      <3>1. f[k] = ListItem(k, MarkerArg(item, k), end(k)) BY <2>2
      <3> HIDE DEF f
      <3>2. QED BY <1>6, <2>1, <2>2, <3>1
    <2>3. CASE ~(recursive /\ k \in Dirs)
      <3>1. f[k] = SendItem(k, end(k)) BY <2>3
      <3> HIDE DEF f
      <3>2. QED BY <1>6, <2>1, <2>3, <3>1
    <2>4. QED BY <2>2, <2>3
  <1>8. f \in [E -> Items]
    <2>1. \A k \in E : f[k] \in Items BY <1>7
    <2>2. QED BY <2>1
  <1> HIDE DEF f
  <1>9. \A k \in E : f[k].end => item.end /\ \A j \in E : j <= k BY <1>4, <1>7
  <1>10. /\ f \in [E -> Items]
         /\ DoTreeWalk(item, recursive, emptyDir, stated) = {f[k] : k \in E}
         /\ OneEach(f, E, item, recursive)
    BY <1>5, <1>7, <1>8, <1>9 DEF OneEach
  <1>11. QED BY <1>10 DEF E

\* Nothing is below an emptied directory.
LEMMA EmptiedBelow ==
  ASSUME NEW d \in Folders, Rooted, Children(d) \cap present = {}
  PROVE  Below(d) \cap present = {}
  BY MarkerDirExists DEF Rooted

\* The names that a walk has to list, of those that exist.
LEMMA OfListingFacts ==
  ASSUME NEW recursive \in BOOLEAN, NEW S \in SUBSET Keys, NEW k \in OfListing(recursive, S)
  PROVE  /\ k \in S /\ k \in Keys /\ k \in Nat /\ k > 0
         /\ recursive => k \notin Dirs
         /\ ~recursive => Ancestors[k] = {} /\ k \in Children(0)
  BY TreeFacts DEF OfListing, Children, Path

\* What is before the item is before those that replace it.
LEMMA DoTreeWalkPassed ==
  ASSUME NEW recursive \in BOOLEAN, NEW item, ItemFits(item, recursive), Rooted,
         NEW emptyDir \in BOOLEAN, NEW stated \in SUBSET Keys,
         ListDirReturns(item.key, emptyDir, stated),
         NEW k \in OfListing(recursive, present), Passed(item, k),
         NEW i \in DoTreeWalk(item, recursive, emptyDir, stated)
  PROVE  Passed(i, k)
  <1> DEFINE d == item.key
             m == item.marker
  <1>1. /\ k \in present /\ k \in Keys /\ k \in Nat /\ k > 0
        /\ recursive => k \notin Dirs
    BY OfListingFacts DEF Rooted
  <1>2. d \in Folders /\ d \in Nat /\ m \in Below(d) \cup {0} /\ m \in Nat
    BY BelowFacts, TreeFacts DEF ItemFits
  <1>3. k < d \/ k <= m BY DEF Passed
  <1>4. CASE emptyDir = TRUE
    <2> Emptied(d) BY <1>4 DEF ListDirReturns, Emptied
    <2>1. i.key = d /\ i.marker = 0
      <3>1. DoTreeWalk(item, recursive, emptyDir, stated) = {SendItem(d, item.end)}
        BY <1>4 DEF DoTreeWalk
      <3>2. QED BY <3>1 DEF SendItem
    <2>2. k \notin Below(d) BY <1>1, <1>2, EmptiedBelow DEF Emptied
    <2>3. recursive /\ d # 0 /\ d \in Dirs
      BY <1>2, TreeFacts DEF Emptied, ItemFits, Rooted, Folders
    <2>4. ~(d < k /\ k <= m)
      <3>1. SUFFICES ASSUME d < k, k <= m
                     PROVE  FALSE
        OBVIOUS
      <3>2. m \in Below(d) BY <1>1, <1>2, <3>1
      <3>3. k # m BY <2>2, <3>2
      <3>4. k \in Below(d) BY <1>1, <1>2, <3>1, <3>2, <3>3, BelowFacts
      <3>5. QED BY <2>2, <3>4
    <2>5. k # d BY <1>1, <2>3
    <2>6. k < d BY <1>1, <1>2, <1>3, <2>4, <2>5
    <2>7. QED BY <2>1, <2>6 DEF Passed
  <1>5. CASE emptyDir = FALSE
    <2> DEFINE E == Entries(d, m, recursive, stated)
    <2>1. PICK one \in [E -> Items] :
            /\ DoTreeWalk(item, recursive, emptyDir, stated) = {one[c] : c \in E}
            /\ OneEach(one, E, item, recursive)
      <3>1. \E one \in [E -> Items] :
              /\ DoTreeWalk(item, recursive, emptyDir, stated) = {one[c] : c \in E}
              /\ OneEach(one, E, item, recursive)
        BY <1>5, DoTreeWalkOne
      <3>2. QED BY <3>1
    <2>2. PICK c \in E : i = one[c] BY <2>1
    <2>3. /\ i.key = c
          /\ i.marker = IF recursive /\ c \in Dirs THEN MarkerArg(item, c) ELSE 0
      BY <2>1, <2>2 DEF OneEach
    <2>4. /\ c \in Children(d) /\ c \in present /\ c >= MarkerDir(d, m)
          /\ c = MarkerDir(d, m) => recursive /\ c \in Dirs
      BY DEF Entries, ListDirReturns
    <2> HIDE DEF E
    <2>5. c \in Keys /\ c \in Nat /\ d < c BY <1>2, <2>4, BelowFacts, TreeFacts
    <2>6. CASE k < d BY <1>1, <1>2, <2>3, <2>5, <2>6 DEF Passed
    <2>7. CASE k <= m
      <3>1. m \in Below(d) /\ m \in Keys BY <1>1, <1>2, <2>7, BelowFacts
      <3>2. MarkerDir(d, m) \in Children(d) /\ Within(MarkerDir(d, m), m)
        BY <1>2, <3>1, MarkerDirIsChild
      <3>3. MarkerDir(d, m) \in Nat BY <1>2, <3>2, BelowFacts, TreeFacts
      <3>4. CASE c > MarkerDir(d, m)
        <4>1. m < c BY <1>2, <2>4, <3>1, <3>2, <3>4, ChildBefore
        <4>2. k < c BY <1>1, <1>2, <2>5, <2>7, <4>1
        <4>3. QED BY <2>3, <4>2 DEF Passed
      <3>5. CASE c = MarkerDir(d, m)
        <4>1. recursive /\ c \in Dirs /\ i.marker = MarkerArg(item, c) BY <2>3, <2>4, <3>5
        <4>2. CASE c = m
          <5>1. k # c BY <1>1, <4>1
          <5>2. k < c BY <1>1, <2>5, <2>7, <4>2, <5>1
          <5>3. QED BY <2>3, <5>2 DEF Passed
        <4>3. CASE c # m
          <5>1. i.marker = m BY <3>5, <4>1, <4>3 DEF MarkerArg
          <5>2. QED BY <2>7, <5>1 DEF Passed
        <4>4. QED BY <4>2, <4>3
      <3>6. QED BY <2>4, <2>5, <3>3, <3>4, <3>5
    <2>8. QED BY <1>3, <2>6, <2>7
  <1>6. QED BY <1>4, <1>5

\* What the item still lists is listed by one of those that replace it.
LEMMA DoTreeWalkToCome ==
  ASSUME NEW recursive \in BOOLEAN, NEW item, ItemFits(item, recursive), Rooted,
         NEW emptyDir \in BOOLEAN, NEW stated \in SUBSET Keys,
         ListDirReturns(item.key, emptyDir, stated),
         NEW k \in OfListing(recursive, present), ToCome(item, k), k \notin Unseen(item, stated)
  PROVE  \E i \in DoTreeWalk(item, recursive, emptyDir, stated) : ToCome(i, k)
  <1> DEFINE d == item.key
             m == item.marker
             M == MarkerDir(d, m)
             c == MarkerDir(d, k)
             E == Entries(d, m, recursive, stated)
  <1>1. /\ k \in present /\ k \in Keys /\ k \in Nat /\ k > 0
        /\ recursive => k \notin Dirs
        /\ ~recursive => Ancestors[k] = {}
    BY OfListingFacts DEF Rooted
  <1>2. d \in Folders /\ d \in Nat /\ m \in Below(d) \cup {0} /\ m \in Nat
    BY BelowFacts, TreeFacts DEF ItemFits
  <1>3. k \in Below(d) /\ m < k BY DEF ToCome, ItemFits
  <1>4. emptyDir = FALSE BY <1>1, <1>2, <1>3, EmptiedBelow DEF Emptied, ListDirReturns
  <1>5. c \in Children(d) /\ c \in present /\ Within(c, k)
    BY <1>1, <1>2, <1>3, MarkerDirIsChild, MarkerDirExists DEF Rooted
  <1>6. c \in Keys /\ c \in Nat /\ c <= k
    <2> HIDE DEF c
    <2>1. c \in Keys /\ c \in Nat BY <1>2, <1>5, BelowFacts, TreeFacts
    <2>2. QED BY <1>1, <1>5, <2>1, TreeFacts DEF Within
  <1> HIDE DEF c
  <1>7. M \in Nat /\ M <= m /\ (m # 0 => M \in Children(d) /\ Within(M, m) /\ m \in Keys)
    <2>1. CASE m = 0 BY <2>1 DEF MarkerDir
    <2>2. CASE m # 0
      <3>1. m \in Below(d) /\ m \in Keys BY <1>2, <2>2, BelowFacts
      <3>2. M \in Children(d) /\ Within(M, m) BY <1>2, <3>1, MarkerDirIsChild
      <3> HIDE DEF M
      <3>3. M \in Nat /\ M <= m BY <1>2, <3>1, <3>2, BelowFacts, TreeFacts DEF Within
      <3>4. QED BY <3>1, <3>2, <3>3
    <2>3. QED BY <2>1, <2>2
  <1>8. c >= M
    <2>1. SUFFICES ASSUME c < M
                   PROVE  FALSE
      BY <1>6, <1>7
    <2>2. m # 0 BY <1>6, <1>7, <2>1
    <2>3. k < M BY <1>1, <1>2, <1>5, <1>7, <2>1, <2>2, ChildBefore
    <2>4. QED BY <1>1, <1>2, <1>3, <1>7, <2>3
  <1>9. c = M => recursive /\ c \in Dirs
    <2>1. SUFFICES ASSUME c = M
                   PROVE  recursive /\ c \in Dirs
      OBVIOUS
    <2>2. c # k BY <1>1, <1>2, <1>3, <1>7, <2>1
    <2>3. c \in Ancestors[k] BY <1>5, <2>2 DEF Within
    <2>4. QED BY <1>1, <2>3, TreeFacts
  <1>10. c \in E
    <2>1. c \in stated BY <1>1, <1>3, <1>5 DEF Unseen, Within
    <2>2. QED BY <1>8, <1>9, <2>1 DEF Entries
  <1>11. PICK one \in [E -> Items] :
            /\ DoTreeWalk(item, recursive, emptyDir, stated) = {one[j] : j \in E}
            /\ OneEach(one, E, item, recursive)
    BY <1>4, DoTreeWalkOne
  <1> HIDE DEF E
  <1>12. one[c] \in DoTreeWalk(item, recursive, emptyDir, stated) BY <1>10, <1>11
  <1>13. ToCome(one[c], k)
    <2>1. CASE recursive /\ c \in Dirs
      <3>1. one[c].op = "list" /\ one[c].key = c /\ one[c].marker = MarkerArg(item, c)
        BY <1>10, <1>11, <2>1 DEF OneEach
      <3>2. k \in Below(c)
        <4>1. c \in Ancestors[k] BY <1>1, <1>5, <2>1 DEF Within
        <4>2. QED BY <1>1, <1>6, <4>1, TreeFacts DEF Below
      <3>3. MarkerArg(item, c) < k BY <1>1, <1>3 DEF MarkerArg
      <3>4. QED BY <3>1, <3>2, <3>3 DEF ToCome
    <2>2. CASE ~(recursive /\ c \in Dirs)
      <3>1. one[c].op = "send" /\ one[c].key = c BY <1>10, <1>11, <2>2 DEF OneEach
      <3>2. c \notin Ancestors[k] BY <1>1, <2>2, TreeFacts
      <3>3. k = c BY <1>5, <3>2 DEF Within
      <3>4. QED BY <3>1, <3>3 DEF ToCome
    <2>3. QED BY <2>1, <2>2
  <1>14. QED BY <1>12, <1>13

\* What replaces an item is inside its directory.
Replaces(new, item, recursive) ==
  /\ \A i \in new :
       /\ i \in Items /\ i.key \in {item.key} \cup Below(item.key)
       /\ IF i.op = "send" THEN i.marker = 0 /\ (~recursive => Ancestors[i.key] = {})
                           ELSE ItemFits(i, recursive)
       /\ i.end => item.end /\ \A j \in new : j.key <= i.key
       /\ \A x : x \in Below(i.key) => x \in Below(item.key)
       /\ \A e \in Folders : e # item.key /\ item.key \notin Below(e) => i.key \notin Below(e)
  /\ \A i, j \in new : i # j => Apart(i, j)

LEMMA DoTreeWalkInside ==
  ASSUME NEW recursive \in BOOLEAN, NEW item, ItemFits(item, recursive), Rooted,
         NEW emptyDir \in BOOLEAN, NEW stated \in SUBSET Keys,
         ListDirReturns(item.key, emptyDir, stated)
  PROVE  Replaces(DoTreeWalk(item, recursive, emptyDir, stated), item, recursive)
  <1> DEFINE d == item.key
             m == item.marker
             new == DoTreeWalk(item, recursive, emptyDir, stated)
  <1>1. d \in Folders /\ d \in Nat /\ m \in Below(d) \cup {0} /\ m \in Nat /\ item \in Items
    BY BelowFacts, TreeFacts DEF ItemFits
  <1>2. CASE emptyDir = TRUE
    <2> Emptied(d) BY <1>2 DEF ListDirReturns, Emptied
    <2>1. /\ new = {SendItem(d, item.end)}
          /\ SendItem(d, item.end).op = "send" /\ SendItem(d, item.end).key = d
          /\ SendItem(d, item.end).marker = 0 /\ SendItem(d, item.end).end = item.end
      <3>1. new = {SendItem(d, item.end)} BY <1>2 DEF DoTreeWalk
      <3>2. QED BY <3>1 DEF SendItem
    <2> DEFINE s == SendItem(d, item.end)
    <2>2. s \in Items BY <1>1 DEF SendItem, Items
    <2>3. recursive BY <1>2, TreeFacts DEF Emptied, ItemFits, Rooted
    <2> HIDE DEF s
    <2>4. new = {s} /\ s.op = "send" /\ s.key = d /\ s.marker = 0 /\ s.end = item.end BY <2>1 DEF s
    <2> HIDE DEF new
    <2>5. d <= d BY <1>1
    <2>6. QED BY <2>2, <2>3, <2>4, <2>5 DEF Replaces, new
  <1>3. CASE emptyDir = FALSE
    <2> DEFINE E == Entries(d, m, recursive, stated)
    <2>1. PICK one \in [E -> Items] :
            /\ new = {one[j] : j \in E}
            /\ OneEach(one, E, item, recursive)
      BY <1>3, DoTreeWalkOne
    <2>2. E \subseteq Children(d) BY DEF Entries, ListDirReturns
    <2> HIDE DEF E, new
    <2>3. \A i \in new : /\ i \in Items /\ i.key \in E /\ i = one[i.key]
                         /\ i.end => item.end /\ \A j \in E : j <= i.key
                         /\ IF recursive /\ i.key \in Dirs
                            THEN i.op = "list" /\ i.marker = MarkerArg(item, i.key)
                            ELSE i.op = "send" /\ i.marker = 0
      BY <2>1 DEF OneEach
    <2>4. ASSUME NEW i \in new
          PROVE  /\ i \in Items /\ i.key \in {item.key} \cup Below(item.key)
                 /\ IF i.op = "send" THEN i.marker = 0 /\ (~recursive => Ancestors[i.key] = {})
                                     ELSE ItemFits(i, recursive)
                 /\ i.end => item.end /\ \A j \in new : j.key <= i.key
                 /\ \A x : x \in Below(i.key) => x \in Below(item.key)
                 /\ \A e \in Folders : e # item.key /\ item.key \notin Below(e) =>
                      i.key \notin Below(e)
      <3> DEFINE c == i.key
      <3>1. c \in Children(d) /\ c \in Below(d) /\ c \in Keys /\ Ancestors[c] = Path(d)
        BY <1>1, <2>2, <2>3, BelowFacts
      <3>2. i.end => item.end /\ \A j \in new : j.key <= i.key BY <2>3
      <3>3. ASSUME NEW x \in Below(c)
            PROVE  x \in Below(d)
        <4>1. x \in Keys /\ c \in Ancestors[x] /\ Path(d) \subseteq Ancestors[x]
          BY <3>1, <3>3, TreeFacts DEF Below
        <4>2. QED BY <4>1 DEF Below, Path
      <3>4. ASSUME NEW e \in Folders, e # d, d \notin Below(e), c \in Below(e)
            PROVE  FALSE
        <4>1. CASE e = 0 BY <1>1, <3>4, <4>1 DEF Below, Folders, ItemFits, Items
        <4>2. CASE e # 0
          <5>1. e \in Path(d) BY <3>1, <3>4, <4>2 DEF Below
          <5>2. e \in Ancestors[d] /\ d # 0 BY <3>4, <5>1 DEF Path
          <5>3. QED BY <1>1, <3>4, <5>2 DEF Below, ItemFits, Items
        <4>3. QED BY <4>1, <4>2
      <3>5. IF i.op = "send" THEN i.marker = 0 /\ (~recursive => Ancestors[i.key] = {})
                             ELSE ItemFits(i, recursive)
        <4>1. CASE recursive /\ c \in Dirs
          <5>1. i.op = "list" /\ i.marker = MarkerArg(item, c) BY <2>3, <4>1
          <5>2. i.marker \in Below(c) \cup {0}
            <6>1. CASE c = MarkerDir(d, m) /\ c # m
              <7>1. i.marker = m BY <5>1, <6>1 DEF MarkerArg
              <7>2. CASE m = 0 BY <7>1, <7>2
              <7>3. CASE m # 0
                <8>1. m \in Below(d) BY <1>1, <7>3
                <8>2. Within(c, m) /\ m \in Keys BY <1>1, <6>1, <8>1, MarkerDirIsChild, BelowFacts
                <8>3. QED BY <6>1, <7>1, <8>2 DEF Within, Below
              <7>4. QED BY <7>2, <7>3
            <6>2. CASE ~(c = MarkerDir(d, m) /\ c # m) BY <5>1, <6>2 DEF MarkerArg
            <6>3. QED BY <6>1, <6>2
          <5>3. QED BY <2>3, <4>1, <5>1, <5>2 DEF ItemFits, Folders
        <4>2. CASE ~(recursive /\ c \in Dirs)
          <5>1. i.op = "send" /\ i.marker = 0 BY <2>3, <4>2
          <5>2. ~recursive => Ancestors[c] = {} BY <3>1 DEF ItemFits, Path
          <5>3. QED BY <5>1, <5>2
        <4>3. QED BY <4>1, <4>2
      <3>6. QED BY <2>3, <3>1, <3>2, <3>3, <3>4, <3>5
    <2>5. ASSUME NEW i \in new, NEW j \in new, i # j
          PROVE  Apart(i, j)
      <3>1. i.key \in Children(d) /\ j.key \in Children(d) BY <2>2, <2>3
      <3>2. i.key # j.key BY <2>3, <2>5
      <3>3. i.key \in Keys /\ j.key \in Keys /\ d < i.key /\ Ancestors[j.key] = Path(d)
        BY <1>1, <3>1, BelowFacts
      <3>4. i.key \notin Ancestors[j.key] /\ i.key # 0 BY <1>1, <3>3, BelowFacts, TreeFacts
      <3>5. QED BY <3>2, <3>4 DEF Apart, Below
    <2>6. QED BY <2>4, <2>5 DEF Replaces, new
  <1>4. QED BY <1>2, <1>3

-----------------------------------------------------------------------------
(* The steps of a walk *)

\* The types of what a walk has.
LEMMA WalkTyped ==
  ASSUME NEW W \in WalkStates
  PROVE  /\ W.work \subseteq Items /\ W.recursive \in BOOLEAN /\ W.alive \subseteq Keys
         /\ W.resultCh \in Seq([key : Keys, end : BOOLEAN]) /\ Len(W.resultCh) \in Nat
         /\ \A a \in 1 .. Len(W.resultCh) : W.resultCh[a].key \in Keys /\ W.resultCh[a].key \in Nat
         /\ \A i \in W.work : i.key \in Nat /\ i.marker \in Nat /\ i.end \in BOOLEAN
         /\ Lasting(W) \subseteq Keys
         /\ \A k \in Lasting(W) : k \in Nat /\ k > 0
  <1>1. /\ W.work \subseteq Items /\ W.recursive \in BOOLEAN /\ W.alive \subseteq Keys
        /\ W.resultCh \in Seq([key : Keys, end : BOOLEAN])
    BY DEF WalkStates
  <1>2. \A k \in Keys : k \in Nat /\ k > 0 BY TreeFacts
  <1>3. \A i \in Items : i.key \in Nat /\ i.marker \in Nat /\ i.end \in BOOLEAN BY <1>2 DEF Items
  <1>4. /\ Len(W.resultCh) \in Nat
        /\ \A a \in 1 .. Len(W.resultCh) : W.resultCh[a] \in [key : Keys, end : BOOLEAN]
    <2> DEFINE ch == W.resultCh
               R == [key : Keys, end : BOOLEAN]
    <2>1. ch \in Seq(R) BY <1>1
    <2> HIDE DEF ch, R
    <2>2. Len(ch) \in Nat /\ \A a \in 1 .. Len(ch) : ch[a] \in R BY <2>1
    <2>3. QED BY <2>2 DEF ch, R
  <1>5. \A a \in 1 .. Len(W.resultCh) : W.resultCh[a].key \in Keys BY <1>4
  <1>6. Lasting(W) \subseteq Keys BY <1>1 DEF Lasting, OfListing
  <1>7. QED BY <1>1, <1>2, <1>3, <1>4, <1>5, <1>6

\* A step that leaves the channel alone and does not lose what is to come, but
\* for names that it gives up.
LEMMA WorkMoves ==
  ASSUME NEW W \in WalkStates, NEW V \in WalkStates, ChannelFits(W), W.work # {},
         V.resultCh = W.resultCh, V.recursive = W.recursive, V.alive \subseteq W.alive,
         W.st = "walking",
         \A k \in Lasting(V) :
           /\ (\A i \in W.work : Passed(i, k)) => \A i \in V.work : Passed(i, k)
           /\ (\E i \in W.work : ToCome(i, k)) => \E i \in V.work : ToCome(i, k)
  PROVE  /\ ChannelFits(V)
         /\ \A m \in Names : GoesOn(W, m) => GoesOn(V, m)
  <1>1. Lasting(V) \subseteq Lasting(W) BY DEF Lasting, OfListing
  <1>2. ChannelFits(V) BY <1>1 DEF ChannelFits
  <1>3. \A k \in Lasting(V) : Lists(W, k) => Lists(V, k) BY DEF Lists
  <1>4. ASSUME NEW m \in Names, GoesOn(W, m)
        PROVE  GoesOn(V, m)
    BY <1>1, <1>3, <1>4 DEF GoesOn
  <1>5. QED BY <1>2, <1>4

\* listDir: the directory gives way to its entries.
LEMMA ListDirWalk ==
  ASSUME NEW W \in WalkStates, WorkFits(W), ChannelFits(W), W.work # {}, W.st = "walking",
         FirstOf(W.work).op = "list", Rooted, W.alive \subseteq present,
         NEW V \in WalkStates,
         NEW emptyDir \in BOOLEAN, NEW stated \in SUBSET Keys,
         ListDirReturns(FirstOf(W.work).key, emptyDir, stated),
         V.work = (W.work \ {FirstOf(W.work)})
                    \cup DoTreeWalk(FirstOf(W.work), W.recursive, emptyDir, stated),
         V.resultCh = W.resultCh, V.recursive = W.recursive, V.st = W.st,
         V.alive = W.alive \ Unseen(FirstOf(W.work), stated)
  PROVE  /\ WorkFits(V) /\ ChannelFits(V)
         /\ \A m \in Names : GoesOn(W, m) => GoesOn(V, m)
  <1> DEFINE item == FirstOf(W.work)
             new == DoTreeWalk(item, W.recursive, emptyDir, stated)
             d == item.key
  <1>1. W.work \subseteq Items /\ W.recursive \in BOOLEAN /\ W.alive \subseteq Keys BY WalkTyped
  <1>2. item \in W.work /\ \A j \in W.work : item.key <= j.key BY <1>1, FirstOfLeast
  <1>3. /\ item.op = "list" /\ V.work = (W.work \ {item}) \cup new
        /\ V.alive = W.alive \ Unseen(item, stated) /\ ListDirReturns(d, emptyDir, stated)
    OBVIOUS
  <1> HIDE DEF item
  <1>4. ItemFits(item, W.recursive) BY <1>2, <1>3 DEF WorkFits
  <1>5. \A k \in Lasting(V) : k \in OfListing(W.recursive, present) /\ k \notin Unseen(item, stated)
    BY <1>3 DEF Lasting, OfListing
  <1>6. ASSUME NEW k \in Lasting(V)
        PROVE  /\ (\A i \in W.work : Passed(i, k)) => \A i \in V.work : Passed(i, k)
               /\ (\E i \in W.work : ToCome(i, k)) => \E i \in V.work : ToCome(i, k)
    <2>1. k \in OfListing(W.recursive, present) /\ k \notin Unseen(item, stated) BY <1>5
    <2>2. Passed(item, k) => \A i \in new : Passed(i, k)
      BY <1>1, <1>3, <1>4, <2>1, DoTreeWalkPassed
    <2>3. ToCome(item, k) => \E i \in new : ToCome(i, k)
      BY <1>1, <1>3, <1>4, <2>1, DoTreeWalkToCome
    <2> HIDE DEF new
    <2>4. QED BY <1>2, <1>3, <2>2, <2>3
  <1>7. ChannelFits(V) /\ \A m \in Names : GoesOn(W, m) => GoesOn(V, m)
    BY <1>3, <1>6, WorkMoves
  <1>8. /\ \A i \in new :
             /\ i \in Items /\ i.key \in {d} \cup Below(d)
             /\ IF i.op = "send" THEN i.marker = 0 /\ (~W.recursive => Ancestors[i.key] = {})
                                 ELSE ItemFits(i, W.recursive)
             /\ i.end => item.end /\ \A j \in new : j.key <= i.key
             /\ \A x : x \in Below(i.key) => x \in Below(d)
             /\ \A e \in Folders : e # d /\ d \notin Below(e) => i.key \notin Below(e)
        /\ \A i, j \in new : i # j => Apart(i, j)
    <2>1. Replaces(new, item, W.recursive) BY <1>1, <1>3, <1>4, DoTreeWalkInside
    <2> HIDE DEF new
    <2>2. QED BY <2>1 DEF Replaces
  <1> HIDE DEF new
  <1>9. /\ \A i \in W.work \ {item} : Apart(item, i) /\ Apart(i, item)
        /\ \A i, j \in W.work \ {item} : i # j => Apart(i, j)
    BY <1>2 DEF WorkFits
  <1>10. ASSUME NEW i \in V.work
         PROVE  IF i.op = "send" THEN i.marker = 0 /\ (~V.recursive => Ancestors[i.key] = {})
                                 ELSE ItemFits(i, V.recursive)
    <2>1. CASE i \in new BY <1>8, <2>1
    <2>2. CASE i \in W.work BY <2>2 DEF WorkFits
    <2>3. QED BY <1>3, <2>1, <2>2
  <1>11. ASSUME NEW i \in new, NEW j \in W.work \ {item}
         PROVE  Apart(i, j) /\ Apart(j, i)
    <2>1. Apart(item, j) /\ Apart(j, item) BY <1>9
    <2>2. j.key # i.key /\ j.key \notin Below(i.key) BY <1>8, <2>1 DEF Apart
    <2>3. i.key \notin Below(j.key)
      <3>1. CASE j.key \in Folders BY <1>8, <2>1, <3>1 DEF Apart
      <3>2. CASE j.key \notin Folders
        <4>1. Below(j.key) = {} BY <3>2, TreeFacts DEF Below, Folders
        <4>2. QED BY <4>1
      <3>3. QED BY <3>1, <3>2
    <2>4. QED BY <2>2, <2>3 DEF Apart
  <1>12. \A i, j \in V.work : i # j => Apart(i, j) BY <1>3, <1>8, <1>9, <1>11
  <1>13. /\ d \in Folders /\ d \in Nat /\ \A i \in V.work : i.key \in Nat
         /\ \A i \in W.work : i.key \in Keys \cup {0}
    <2>1. V.work \subseteq Items BY WalkTyped
    <2>2. \A i \in Items : i.key \in Keys \cup {0} BY DEF Items
    <2>3. \A k \in Keys \cup {0} : k \in Nat BY TreeFacts
    <2>4. QED BY <1>1, <1>2, <1>4, <2>1, <2>2, <2>3 DEF ItemFits
  <1>14. ASSUME NEW i \in V.work, NEW j \in V.work, i.end
         PROVE  j.key <= i.key
    <2>1. CASE i \in new
      <3>1. item.end /\ \A k \in new : k.key <= i.key BY <1>8, <1>14, <2>1
      <3>2. \A k \in W.work : k = item
        <4>1. \A k \in W.work : k.key <= item.key /\ item.key <= k.key BY <1>2, <3>1 DEF WorkFits
        <4>2. \A k \in W.work : k.key = item.key BY <1>13, <4>1, TreeFacts
        <4>3. QED BY <1>9, <4>2 DEF Apart
      <3>3. j \in new BY <1>3, <3>2
      <3>4. QED BY <3>1, <3>3
    <2>2. CASE i \in W.work \ {item}
      <3>1. \A k \in W.work : k.key <= i.key BY <1>14, <2>2 DEF WorkFits
      <3>2. CASE j \in W.work BY <3>1, <3>2
      <3>3. CASE j \in new
        <4>1. d <= i.key /\ d # i.key /\ i.key \notin Below(d) BY <1>2, <1>9, <2>2, <3>1 DEF Apart
        <4>2. d < i.key /\ i.key \in Keys BY <1>13, <2>2, <4>1
        <4>3. CASE j.key = d BY <4>1, <4>3
        <4>4. CASE j.key \in Below(d)
          <5>1. j.key < i.key BY <1>13, <4>1, <4>2, <4>4, BelowBefore
          <5>2. QED BY <1>13, <5>1
        <4>5. QED BY <1>8, <3>3, <4>3, <4>4
      <3>4. QED BY <1>3, <3>2, <3>3
    <2>3. QED BY <1>3, <2>1, <2>2
  <1>15. WorkFits(V) BY <1>10, <1>12, <1>14 DEF WorkFits
  <1>16. QED BY <1>7, <1>15

\* resultCh <- TreeWalkResult{...}
LEMMA SendWalk ==
  ASSUME NEW W \in WalkStates, WorkFits(W), ChannelFits(W), W.work # {}, W.st = "walking",
         FirstOf(W.work).op = "send",
         NEW V \in WalkStates, V.work = W.work \ {FirstOf(W.work)},
         V.resultCh = Append(W.resultCh, [key |-> FirstOf(W.work).key,
                                          end |-> FirstOf(W.work).end]),
         V.recursive = W.recursive, V.alive = W.alive, V.st = W.st, V.closes = W.closes
  PROVE  /\ WorkFits(V) /\ ChannelFits(V)
         /\ \A m \in Names : GoesOn(W, m) => GoesOn(V, m)
  <1> DEFINE item == FirstOf(W.work)
             ch == W.resultCh
             n == Len(ch)
             r == [key |-> item.key, end |-> item.end]
  <1>1. /\ W.work \subseteq Items /\ W.recursive \in BOOLEAN
        /\ ch \in Seq([key : Keys, end : BOOLEAN]) /\ n \in Nat
        /\ \A a \in 1 .. n : ch[a].key \in Nat
        /\ \A i \in W.work : i.key \in Nat
        /\ \A k \in Lasting(W) : k \in Nat /\ k > 0
    BY WalkTyped
  <1>2. /\ V.resultCh \in Seq([key : Keys, end : BOOLEAN])
        /\ \A a \in 1 .. Len(V.resultCh) : V.resultCh[a].key \in Nat
    BY WalkTyped
  <1>3. item \in W.work /\ \A j \in W.work : item.key <= j.key BY <1>1, FirstOfLeast
  <1>4. item.op = "send" /\ V.work = W.work \ {item} /\ V.resultCh = Append(ch, r) OBVIOUS
  <1>5. r.key = item.key /\ r.end = item.end OBVIOUS
  <1> HIDE DEF item, r
  <1>6. /\ item.marker = 0 /\ (~W.recursive => Ancestors[item.key] = {})
        /\ \A j \in W.work \ {item} : item.key < j.key
    <2>1. item.marker = 0 /\ (~W.recursive => Ancestors[item.key] = {}) BY <1>3, <1>4 DEF WorkFits
    <2>2. \A j \in W.work \ {item} : item.key # j.key BY <1>3 DEF WorkFits, Apart
    <2>3. QED BY <1>1, <1>3, <2>1, <2>2
  <1>7. /\ Len(V.resultCh) = n + 1 /\ V.resultCh[n + 1] = r
        /\ \A a \in 1 .. n : V.resultCh[a] = ch[a]
    BY <1>1, <1>4
  <1>8. \A a \in 1 .. n + 1 : a \in 1 .. n \/ a = n + 1 BY <1>1
  <1>9. /\ Lasting(V) = Lasting(W)
        /\ \A k \in Lasting(W) : Passed(item, k) => k < item.key
    BY <1>1, <1>3, <1>6 DEF Lasting, Passed
  <1>10. WorkFits(V) BY <1>4 DEF WorkFits
  <1>11. item.end => V.work = {}
    <2>1. ASSUME item.end, NEW j \in W.work \ {item}
          PROVE  FALSE
      <3>1. j.key <= item.key /\ item.key < j.key BY <1>3, <1>6, <2>1 DEF WorkFits
      <3>2. QED BY <1>1, <1>3, <3>1
    <2>2. QED BY <1>4, <2>1
  <1> HIDE DEF ch, n
  <1>12. ASSUME NEW a \in 1 .. n + 1, NEW k \in Lasting(W), k <= V.resultCh[a].key
         PROVE  /\ \A b \in 1 .. n + 1 : a < b => k < V.resultCh[b].key
                /\ \A i \in V.work : Passed(i, k)
    <2>1. CASE a \in 1 .. n
      <3>1. /\ \A b \in 1 .. n : a < b => k < ch[b].key
            /\ \A i \in W.work : Passed(i, k)
        BY <1>7, <1>12, <2>1 DEF ChannelFits, ch, n
      <3>2. k < item.key BY <1>3, <1>9, <3>1
      <3>3. QED BY <1>4, <1>5, <1>7, <1>8, <3>1, <3>2
    <2>2. CASE a = n + 1
      <3>1. \A b \in 1 .. n + 1 : ~(a < b) BY <1>1, <2>2
      <3>2. k <= item.key BY <1>5, <1>7, <1>12, <2>2
      <3>3. ASSUME NEW i \in V.work
            PROVE  Passed(i, k)
        <4>1. item.key < i.key /\ i.key \in Nat /\ item.key \in Nat /\ k \in Nat
          BY <1>1, <1>3, <1>4, <1>6
        <4>2. k < i.key BY <3>2, <4>1
        <4>3. QED BY <4>2 DEF Passed
      <3>4. QED BY <3>1, <3>3
    <2>3. QED BY <1>8, <2>1, <2>2
  <1>13. ASSUME NEW a \in 1 .. n + 1
         PROVE  /\ V.resultCh[a].end => a = n + 1 /\ V.work = {}
                /\ ~V.recursive => Ancestors[V.resultCh[a].key] = {}
    <2>1. CASE a \in 1 .. n BY <1>3, <1>7, <2>1 DEF ChannelFits, ch, n
    <2>2. CASE a = n + 1 BY <1>5, <1>6, <1>7, <1>11, <2>2
    <2>3. QED BY <1>8, <2>1, <2>2
  <1>14. ChannelFits(V) BY <1>7, <1>9, <1>12, <1>13 DEF ChannelFits
  <1>15. ASSUME NEW k \in Lasting(W), Lists(W, k)
         PROVE  Lists(V, k)
    <2>1. CASE \E a \in 1 .. n : ch[a].key = k
      <3>1. PICK a \in 1 .. n : ch[a].key = k BY <2>1
      <3>2. a \in 1 .. Len(V.resultCh) /\ V.resultCh[a].key = k BY <1>1, <1>7, <3>1
      <3>3. QED BY <3>2 DEF Lists
    <2>2. CASE \E i \in W.work : ToCome(i, k)
      <3>1. PICK i \in W.work : ToCome(i, k) BY <2>2
      <3>2. CASE i = item
        <4>1. k = item.key BY <1>4, <3>1, <3>2 DEF ToCome
        <4>2. n + 1 \in 1 .. Len(V.resultCh) /\ V.resultCh[n + 1].key = k BY <1>1, <1>5, <1>7, <4>1
        <4>3. QED BY <4>2 DEF Lists
      <3>3. CASE i # item BY <1>4, <3>1, <3>3 DEF Lists
      <3>4. QED BY <3>2, <3>3
    <2>3. QED BY <1>15, <2>1, <2>2 DEF Lists, ch, n
  <1>16. ASSUME NEW k \in Lasting(W), Lists(W, k), k < item.key
         PROVE  \E b \in 1 .. n : ch[b].key = k
    <2>1. SUFFICES ASSUME NEW i \in W.work, ToCome(i, k)
                   PROVE  FALSE
      BY <1>16 DEF Lists, ch, n
    <2>2. i.key <= k
      <3>1. CASE i.op = "send" BY <1>1, <2>1, <3>1 DEF ToCome
      <3>2. CASE i.op # "send"
        <4>1. i.key \in Folders /\ k \in Below(i.key) BY <2>1, <3>2 DEF ToCome, WorkFits, ItemFits
        <4>2. i.key < k BY <4>1, BelowFacts
        <4>3. QED BY <1>1, <4>2
      <3>3. QED BY <3>1, <3>2
    <2>3. item.key <= i.key /\ item.key \in Nat /\ i.key \in Nat /\ k \in Nat BY <1>1, <1>3
    <2>4. QED BY <1>16, <2>2, <2>3
  <1>17. ASSUME NEW m \in Names, GoesOn(W, m)
         PROVE  GoesOn(V, m)
    <2>1. ASSUME NEW k \in Lasting(W), k <= m
          PROVE  /\ \A a \in 1 .. n + 1 : k < V.resultCh[a].key
                 /\ \A i \in V.work : Passed(i, k)
      <3>1. /\ \A a \in 1 .. n : k < ch[a].key
            /\ \A i \in W.work : Passed(i, k)
        BY <1>17, <2>1 DEF GoesOn, ch, n
      <3>2. k < item.key BY <1>3, <1>9, <3>1
      <3>3. QED BY <1>4, <1>5, <1>7, <1>8, <3>1, <3>2
    <2>2. ASSUME NEW k \in Lasting(W), m < k
          PROVE  /\ \A a \in 1 .. n + 1 : k < V.resultCh[a].key =>
                      \E b \in 1 .. (a - 1) : V.resultCh[b].key = k
                 /\ Lists(V, k)
      <3>1. /\ \A a \in 1 .. n : k < ch[a].key => \E b \in 1 .. (a - 1) : ch[b].key = k
            /\ Lists(W, k)
        BY <1>17, <2>2 DEF GoesOn, ch, n
      <3>2. ASSUME NEW a \in 1 .. n + 1, k < V.resultCh[a].key
            PROVE  \E b \in 1 .. (a - 1) : V.resultCh[b].key = k
        <4>1. CASE a \in 1 .. n
          <5>1. PICK b \in 1 .. (a - 1) : ch[b].key = k BY <1>7, <3>1, <3>2, <4>1
          <5>2. b \in 1 .. n BY <1>1, <4>1
          <5>3. QED BY <1>7, <5>1, <5>2
        <4>2. CASE a = n + 1
          <5>1. PICK b \in 1 .. n : ch[b].key = k BY <1>5, <1>7, <1>16, <3>1, <3>2, <4>2
          <5>2. b \in 1 .. (a - 1) BY <1>1, <4>2
          <5>3. QED BY <1>7, <5>1, <5>2
        <4>3. QED BY <1>8, <4>1, <4>2
      <3>3. Lists(V, k) BY <1>15, <3>1
      <3>4. QED BY <3>2, <3>3
    <2>3. QED BY <1>7, <1>9, <2>1, <2>2 DEF GoesOn
  <1>18. QED BY <1>10, <1>14, <1>17

\* <-endWalkCh, and the end of the walk.
LEMMA EndOfWalk ==
  ASSUME NEW W \in WalkStates, WorkFits(W), ChannelFits(W), W.st = "walking",
         NEW V \in WalkStates, V.work = {}, V.st = "ended", V.resultCh = W.resultCh,
         V.recursive = W.recursive, V.alive = W.alive, V.closes = W.closes,
         W.closes > 0 \/ W.work = {}
  PROVE  /\ WorkFits(V) /\ ChannelFits(V)
         /\ \A m \in Names : GoesOn(W, m) => GoesOn(V, m)
  <1>1. Lasting(V) = Lasting(W) BY DEF Lasting
  <1>2. WorkFits(V) BY DEF WorkFits
  <1>3. ChannelFits(V) BY <1>1 DEF ChannelFits
  <1>4. ASSUME NEW m \in Names, GoesOn(W, m)
        PROVE  GoesOn(V, m)
    <2>1. V.closes = 0 => W.work = {}
      <3>1. V.closes \in Nat BY DEF WalkStates
      <3>2. QED BY <3>1
    <2>2. ASSUME NEW k \in Lasting(W), V.closes = 0, Lists(W, k)
          PROVE  Lists(V, k)
      BY <2>1, <2>2 DEF Lists
    <2>3. QED BY <1>1, <1>4, <2>2 DEF GoesOn
  <1>5. QED BY <1>2, <1>3, <1>4

\* A step that leaves work and channel alone: endWalkCh is closed, or a name is
\* deleted.
LEMMA SameWork ==
  ASSUME NEW W \in WalkStates, WorkFits(W), ChannelFits(W),
         NEW V \in WalkStates, V.work = W.work, V.resultCh = W.resultCh, V.st = W.st,
         V.recursive = W.recursive, V.alive \subseteq W.alive, V.closes = 0 => W.closes = 0
  PROVE  /\ WorkFits(V) /\ ChannelFits(V)
         /\ \A m \in Names : GoesOn(W, m) => GoesOn(V, m)
  <1>1. Lasting(V) \subseteq Lasting(W) BY DEF Lasting, OfListing
  <1>2. WorkFits(V) BY DEF WorkFits
  <1>3. ChannelFits(V) BY <1>1 DEF ChannelFits
  <1>4. \A k : Lists(W, k) <=> Lists(V, k) BY DEF Lists
  <1>5. ASSUME NEW m \in Names, GoesOn(W, m)
        PROVE  GoesOn(V, m)
    BY <1>1, <1>4, <1>5 DEF GoesOn
  <1>6. QED BY <1>2, <1>3, <1>5

\* startTreeWalk
LEMMA NewWalk ==
  ASSUME NEW W \in WalkStates, NEW m \in Names, W.st = "walking", W.resultCh = << >>,
         W.work = {ListItem(0, m, TRUE)}
  PROVE  WorkFits(W) /\ ChannelFits(W) /\ GoesOn(W, m)
  <1> DEFINE i == ListItem(0, m, TRUE)
  <1>1. /\ i \in Items /\ i.op = "list" /\ i.key = 0 /\ i.marker = m
    BY DEF ListItem, Items, Names
  <1> HIDE DEF i
  <1>2. W.work = {i} BY DEF i
  <1>3. ItemFits(i, W.recursive) BY <1>1 DEF ItemFits, Folders, Below, Names
  <1>4. WorkFits(W)
    <2>1. \A j \in W.work : j = i BY <1>2
    <2>2. i.op # "send" /\ i.key <= i.key BY <1>1
    <2>3. QED BY <1>3, <2>1, <2>2 DEF WorkFits
  <1>5. \A a \in 1 .. Len(W.resultCh) : FALSE OBVIOUS
  <1>6. ChannelFits(W) BY <1>5 DEF ChannelFits
  <1>7. /\ \A k : k <= m => Passed(i, k)
        /\ \A k \in Keys : m < k => ToCome(i, k)
    BY <1>1 DEF Passed, ToCome, Below
  <1>8. Lasting(W) \subseteq Keys BY WalkTyped
  <1>9. \A k \in Lasting(W) : m < k => Lists(W, k) BY <1>2, <1>7, <1>8 DEF Lists
  <1>10. GoesOn(W, m)
    <2>1. \A k : k <= m => \A j \in W.work : Passed(j, k) BY <1>2, <1>7
    <2>2. QED BY <1>5, <1>9, <2>1 DEF GoesOn
  <1>11. QED BY <1>4, <1>6, <1>10

\* A result is taken out of the channel.
LEMMA ReceiveWalk ==
  ASSUME NEW W \in WalkStates, WorkFits(W), ChannelFits(W), W.resultCh # << >>,
         NEW V \in WalkStates, V.work = W.work, V.resultCh = Tail(W.resultCh), V.st = W.st,
         V.recursive = W.recursive, V.alive = W.alive, V.closes = W.closes
  PROVE  LET x == Head(W.resultCh)
         IN /\ WorkFits(V) /\ ChannelFits(V)
            /\ x.key \in Keys
            /\ ~W.recursive => Ancestors[x.key] = {}
            /\ \A m \in Names : GoesOn(W, m) =>
                 /\ GoesOn(V, x.key)
                 /\ \A k \in Lasting(W) : /\ k <= m => k < x.key
                                          /\ m < k /\ k # x.key => x.key < k
                 /\ x.end /\ W.closes = 0 => \A k \in Lasting(W) : m < k => k = x.key
  <1> DEFINE ch == W.resultCh
             n == Len(ch)
             t == V.resultCh
             x == Head(ch)
  <1>1. /\ ch \in Seq([key : Keys, end : BOOLEAN]) /\ n \in Nat
        /\ \A a \in 1 .. n : ch[a].key \in Keys /\ ch[a].key \in Nat
        /\ \A i \in W.work : i.key \in Nat
        /\ \A k \in Lasting(W) : k \in Nat /\ k > 0
    BY WalkTyped
  <1>2. n > 0 /\ x = ch[1] /\ Len(t) = n - 1 /\ \A a \in 1 .. n - 1 : t[a] = ch[a + 1]
    <2> DEFINE R == [key : Keys, end : BOOLEAN]
    <2>1. ch \in Seq(R) /\ ch # << >> /\ t = Tail(ch) BY <1>1
    <2> HIDE DEF ch, t, R
    <2>2. n > 0 /\ Head(ch) = ch[1] /\ Len(t) = n - 1 /\ \A a \in 1 .. n - 1 : t[a] = ch[a + 1]
      BY <2>1
    <2>3. QED BY <2>2
  <1>3. Lasting(V) = Lasting(W) BY DEF Lasting
  <1>4. \A a \in 1 .. n - 1 : a + 1 \in 1 .. n BY <1>1
  <1>5. 1 \in 1 .. n BY <1>1, <1>2
  <1>6. WorkFits(V) BY DEF WorkFits
  <1>7. /\ \A a \in 1 .. n : \A k \in Lasting(W) : k <= ch[a].key =>
             /\ \A b \in 1 .. n : a < b => k < ch[b].key
             /\ \A i \in W.work : Passed(i, k)
        /\ \A a \in 1 .. n : /\ ch[a].end => a = n /\ W.work = {}
                             /\ ~W.recursive => Ancestors[ch[a].key] = {}
    BY DEF ChannelFits
  <1>8. V.work = W.work /\ V.recursive = W.recursive OBVIOUS
  <1> HIDE DEF ch, t, x
  <1>9. ChannelFits(V)
    <2>1. ASSUME NEW a \in 1 .. n - 1, NEW k \in Lasting(W), k <= t[a].key
          PROVE  /\ \A b \in 1 .. n - 1 : a < b => k < t[b].key
                 /\ \A i \in W.work : Passed(i, k)
      <3>1. k <= ch[a + 1].key BY <1>2, <2>1
      <3>2. /\ \A b \in 1 .. n : a + 1 < b => k < ch[b].key
            /\ \A i \in W.work : Passed(i, k)
        BY <1>4, <1>7, <3>1
      <3>3. ASSUME NEW b \in 1 .. n - 1, a < b
            PROVE  k < t[b].key
        <4>1. b + 1 \in 1 .. n /\ a + 1 < b + 1 BY <1>1, <3>3
        <4>2. QED BY <1>2, <3>2, <4>1
      <3>4. QED BY <3>2, <3>3
    <2>2. ASSUME NEW a \in 1 .. n - 1
          PROVE  /\ t[a].end => a = n - 1 /\ W.work = {}
                 /\ ~W.recursive => Ancestors[t[a].key] = {}
      <3>1. t[a] = ch[a + 1] /\ a + 1 \in 1 .. n BY <1>2, <1>4
      <3>2. a + 1 = n => a = n - 1 BY <1>1
      <3>3. QED BY <1>7, <3>1, <3>2
    <2>3. QED BY <1>2, <1>3, <1>8, <2>1, <2>2 DEF ChannelFits, t
  <1>10. x.key \in Keys /\ (~W.recursive => Ancestors[x.key] = {}) BY <1>1, <1>2, <1>5, <1>7
  <1>11. ASSUME NEW m \in Names, GoesOn(W, m)
         PROVE  /\ GoesOn(V, x.key)
                /\ \A k \in Lasting(W) : /\ k <= m => k < x.key
                                         /\ m < k /\ k # x.key => x.key < k
                /\ x.end /\ W.closes = 0 => \A k \in Lasting(W) : m < k => k = x.key
    <2>1. /\ m \in Nat /\ x.key \in Nat
      BY <1>10, TreeFacts DEF Names
    <2>2. ASSUME NEW k \in Lasting(W), k <= m
          PROVE  k < x.key
      <3>1. k < ch[1].key BY <1>5, <1>11, <2>2 DEF GoesOn, ch
      <3>2. QED BY <1>2, <3>1
    <2>3. ASSUME NEW k \in Lasting(W), m < k
          PROVE  /\ ~(k < x.key)
                 /\ \A a \in 1 .. n : k < ch[a].key => \E b \in 1 .. (a - 1) : ch[b].key = k
                 /\ W.st = "walking" \/ W.closes = 0 => Lists(W, k)
      <3>1. /\ \A a \in 1 .. n : k < ch[a].key => \E b \in 1 .. (a - 1) : ch[b].key = k
            /\ W.st = "walking" \/ W.closes = 0 => Lists(W, k)
        BY <1>11, <2>3 DEF GoesOn, ch
      <3>2. ~(\E b \in 1 .. (1 - 1) : ch[b].key = k) OBVIOUS
      <3>3. ~(k < ch[1].key) BY <1>5, <3>1, <3>2
      <3>4. QED BY <1>2, <3>1, <3>3
    <2>4. \A k \in Lasting(W) : m < k /\ k # x.key => x.key < k BY <1>1, <2>1, <2>3
    <2>5. ASSUME x.end, W.closes = 0, NEW k \in Lasting(W), m < k
          PROVE  k = x.key
      <3>1. n = 1 /\ W.work = {} BY <1>1, <1>2, <1>5, <1>7, <2>5
      <3>2. Lists(W, k) BY <2>3, <2>5
      <3>3. PICK a \in 1 .. n : ch[a].key = k BY <3>1, <3>2 DEF Lists, ch
      <3>4. a = 1 BY <3>1
      <3>5. QED BY <1>2, <3>3, <3>4
    <2>6. ASSUME NEW k \in Lasting(W), k <= x.key
          PROVE  /\ \A a \in 1 .. n - 1 : k < t[a].key
                 /\ \A i \in W.work : Passed(i, k)
      <3>1. /\ \A b \in 1 .. n : 1 < b => k < ch[b].key
            /\ \A i \in W.work : Passed(i, k)
        BY <1>2, <1>5, <1>7, <2>6
      <3>2. \A a \in 1 .. n - 1 : 1 < a + 1 BY <1>1
      <3>3. QED BY <1>2, <1>4, <3>1, <3>2
    <2>7. ASSUME NEW k \in Lasting(W), x.key < k
          PROVE  /\ \A a \in 1 .. n - 1 : k < t[a].key => \E b \in 1 .. (a - 1) : t[b].key = k
                 /\ W.st = "walking" \/ W.closes = 0 => Lists(V, k)
      <3>1. m < k
        <4>1. ~(k <= m) BY <1>1, <2>1, <2>2, <2>7
        <4>2. QED BY <1>1, <2>1, <4>1
      <3>2. ch[1].key # k BY <1>1, <1>2, <2>1, <2>7
      <3>3. ASSUME NEW a \in 1 .. n - 1, k < t[a].key
            PROVE  \E b \in 1 .. (a - 1) : t[b].key = k
        <4>1. k < ch[a + 1].key /\ a + 1 \in 1 .. n BY <1>2, <1>4, <3>3
        <4>2. PICK b \in 1 .. ((a + 1) - 1) : ch[b].key = k BY <2>3, <3>1, <4>1
        <4>3. b # 1 BY <3>2, <4>2
        <4>4. b - 1 \in 1 .. (a - 1) /\ b - 1 \in 1 .. n - 1 /\ (b - 1) + 1 = b BY <1>1, <4>3
        <4>5. t[b - 1] = ch[b] BY <1>2, <4>4
        <4>6. QED BY <4>2, <4>4, <4>5
      <3>4. ASSUME W.st = "walking" \/ W.closes = 0
            PROVE  Lists(V, k)
        <4>1. Lists(W, k) BY <2>3, <3>1, <3>4
        <4>2. CASE \E a \in 1 .. n : ch[a].key = k
          <5>1. PICK a \in 1 .. n : ch[a].key = k BY <4>2
          <5>2. a # 1 BY <3>2, <5>1
          <5>3. a - 1 \in 1 .. n - 1 /\ (a - 1) + 1 = a BY <1>1, <5>2
          <5>4. t[a - 1].key = k BY <1>2, <5>1, <5>3
          <5>5. QED BY <1>2, <5>3, <5>4 DEF Lists, t
        <4>3. CASE \E i \in W.work : ToCome(i, k) BY <1>8, <4>3 DEF Lists
        <4>4. QED BY <4>1, <4>2, <4>3 DEF Lists, ch
      <3>5. QED BY <3>3, <3>4
    <2>8. V.st = W.st /\ V.closes = W.closes OBVIOUS
    <2>9. GoesOn(V, x.key) BY <1>2, <1>3, <1>8, <2>6, <2>7, <2>8 DEF GoesOn, t
    <2>10. QED BY <2>2, <2>4, <2>5, <2>9
  <1>12. QED BY <1>6, <1>9, <1>10, <1>11 DEF x, ch

-----------------------------------------------------------------------------
(* The steps of the system *)

\* A client's listing n is l, but that it may be owed less.
OwedLess(n, l) ==
  /\ n.pc = l.pc /\ n.walk = l.walk /\ n.marker = l.marker /\ n.listed = l.listed
  /\ n.recursive = l.recursive /\ n.disorder = l.disorder /\ n.must \subseteq l.must

\* Then it goes on to fit.
LEMMA OwedLessFits ==
  ASSUME NEW n, NEW l, OwedLess(n, l)
  PROVE  /\ Listing(n) \subseteq Listing(l)
         /\ ListingFits(l) => ListingFits(n)
  <1>1. Listing(n) \subseteq Listing(l) BY DEF OwedLess, Listing, OfListing
  <1>2. ListingFits(l) => ListingFits(n) BY <1>1 DEF OwedLess, ListingFits
  <1>3. QED BY <1>1, <1>2

\* A step of one walk, that gives up names, and may be taken out of the pool.
LEMMA GivesUpStep ==
  ASSUME TreeInv, ListInv, NEW w \in WalkIds, NEW V \in WalkStates,
         walk' = [walk EXCEPT ![w] = V], WorkFits(V), ChannelFits(V),
         \A m \in Names : GoesOn(walk[w], m) => GoesOn(V, m),
         V.recursive = walk[w].recursive, V.alive \subseteq walk[w].alive,
         walk[w].stale => V.stale, UNCHANGED present,
         \A c \in Clients : /\ OwedLess(client'[c], client[c])
                            /\ client[c].walk = w /\ client[c].must \subseteq walk[w].alive =>
                                 client'[c].must \subseteq V.alive,
         \A j \in 1 .. Len(pool') : \E i \in 1 .. Len(pool) : pool'[j] = pool[i]
  PROVE  ListInv'
  <1>1. walk \in [WalkIds -> WalkStates] /\ client \in [Clients -> ClientStates]
    BY DEF TreeInv, Types
  <1>2. walk'[w] = V /\ \A v \in WalkIds : v # w => walk'[v] = walk[v] BY <1>1
  <1>3. ASSUME NEW v \in WalkIds
        PROVE  /\ walk'[v].recursive = walk[v].recursive /\ walk'[v].alive \subseteq walk[v].alive
               /\ walk[v].stale => walk'[v].stale
               /\ \A m \in Names : GoesOn(walk[v], m) => GoesOn(walk'[v], m)
    BY <1>2
  <1>4. NamesFit'
    <2>1. \A v \in WalkIds : walk'[v].alive \subseteq present BY <1>3 DEF ListInv, NamesFit
    <2>2. \A c \in Clients : client'[c].must \subseteq present BY DEF ListInv, NamesFit, OwedLess
    <2>3. QED BY <2>1, <2>2 DEF ListInv, NamesFit
  <1>5. WalksFit'
    <2>1. \A v \in WalkIds : WorkFits(walk'[v]) /\ ChannelFits(walk'[v])
      BY <1>2 DEF ListInv, WalksFit
    <2>2. QED BY <2>1 DEF WalksFit
  <1>6. PoolFits'
    <2>1. ASSUME NEW j \in 1 .. Len(pool')
          PROVE  /\ GoesOn(walk'[pool'[j].walk], pool'[j].marker)
                 /\ pool'[j].recursive = walk'[pool'[j].walk].recursive
      <3>1. PICK i \in 1 .. Len(pool) : pool'[j] = pool[i] OBVIOUS
      <3>2. pool[i].walk \in WalkIds /\ pool[i].marker \in Names
        <4>1. pool[i] \in PoolEntries BY PoolTyped DEF TreeInv
        <4>2. QED BY <4>1 DEF PoolEntries
      <3>3. /\ GoesOn(walk[pool[i].walk], pool[i].marker)
            /\ pool[i].recursive = walk[pool[i].walk].recursive
        BY DEF ListInv, PoolFits
      <3>4. QED BY <1>3, <3>1, <3>2, <3>3
    <2>2. QED BY <2>1 DEF PoolFits
  <1>7. ClientsFit'
    <2>1. ASSUME NEW c \in Clients
          PROVE  /\ ~client'[c].disorder
                 /\ client'[c].pc \in {"receive", "set"} =>
                      WalkingFits(client'[c], walk'[client'[c].walk])
                 /\ client'[c].pc \in {"receive", "set", "truncated"} => ListingFits(client'[c])
                 /\ client'[c].pc = "complete" /\ ~walk'[client'[c].walk].stale =>
                      Listing(client'[c]) \subseteq client'[c].listed
      <3>1. /\ ~client[c].disorder
            /\ client[c].pc \in {"receive", "set"} =>
                 WalkingFits(client[c], walk[client[c].walk])
            /\ client[c].pc \in {"receive", "set", "truncated"} => ListingFits(client[c])
            /\ client[c].pc = "complete" /\ ~walk[client[c].walk].stale =>
                 Listing(client[c]) \subseteq client[c].listed
        BY DEF ListInv, ClientsFit
      <3>2. client[c].pc \in {"receive", "set", "complete"} => client[c].walk \in WalkIds
        BY <1>1 DEF TreeInv, Owned, ClientsWalk, ClientStates
      <3>3. client[c].marker \in Names BY <1>1 DEF ClientStates
      <3>4. /\ OwedLess(client'[c], client[c])
            /\ Listing(client'[c]) \subseteq Listing(client[c])
            /\ ListingFits(client[c]) => ListingFits(client'[c])
        BY OwedLessFits
      <3>5. client[c].pc \in {"receive", "set"} => WalkingFits(client'[c], walk'[client[c].walk])
        <4>1. SUFFICES ASSUME client[c].pc \in {"receive", "set"}
                       PROVE  WalkingFits(client'[c], walk'[client[c].walk])
          OBVIOUS
        <4>2. client[c].walk \in WalkIds /\ WalkingFits(client[c], walk[client[c].walk])
          BY <3>1, <3>2, <4>1
        <4>3. client'[c].must \subseteq walk'[client[c].walk].alive
          BY <1>2, <3>4, <4>2 DEF WalkingFits, OwedLess
        <4>4. QED BY <1>3, <3>3, <3>4, <4>2, <4>3 DEF WalkingFits, OwedLess
      <3>6. client[c].pc = "complete" /\ walk[client[c].walk].stale => walk'[client[c].walk].stale
        BY <1>3, <3>2
      <3>7. QED BY <3>1, <3>4, <3>5, <3>6 DEF OwedLess
    <2>2. QED BY <2>1 DEF ClientsFit
  <1>8. QED BY <1>4, <1>5, <1>6, <1>7 DEF ListInv

\* A step of one walk, that may be taken out of the pool.
LEMMA OneWalkStep ==
  ASSUME TreeInv, ListInv, NEW w \in WalkIds, NEW V \in WalkStates,
         walk' = [walk EXCEPT ![w] = V], WorkFits(V), ChannelFits(V),
         \A m \in Names : GoesOn(walk[w], m) => GoesOn(V, m),
         V.recursive = walk[w].recursive, V.alive = walk[w].alive, walk[w].stale => V.stale,
         UNCHANGED <<present, client>>,
         \A j \in 1 .. Len(pool') : \E i \in 1 .. Len(pool) : pool'[j] = pool[i]
  PROVE  ListInv'
  <1>1. \A c \in Clients : /\ OwedLess(client'[c], client[c])
                           /\ client[c].walk = w /\ client[c].must \subseteq walk[w].alive =>
                                client'[c].must \subseteq V.alive
    BY DEF OwedLess
  <1>2. QED BY <1>1, GivesUpStep

\* Every walk fits.
LEMMA WalkOf ==
  ASSUME TreeInv, ListInv, NEW w \in WalkIds
  PROVE  /\ walk[w] \in WalkStates /\ WorkFits(walk[w]) /\ ChannelFits(walk[w])
         /\ walk[w].alive \subseteq present /\ Rooted
  BY DEF TreeInv, Types, ListInv, WalksFit, NamesFit, Rooted

\* listDir
LEMMA ListDirOrder ==
  ASSUME TreeInv, ListInv, NEW w \in WalkIds, ListDir(w)
  PROVE  ListInv'
  <1> DEFINE W == walk[w]
             item == FirstOf(W.work)
  <1>1. /\ W \in WalkStates /\ WorkFits(W) /\ ChannelFits(W)
        /\ W.alive \subseteq present /\ Rooted
    BY WalkOf
  <1>2. /\ W.st = "walking" /\ W.work # {} /\ item.op = "list" /\ item \in Items
        /\ UNCHANGED <<present, pool, timer, crashed>>
    BY ListDirReads
  <1>3. PICK emptyDir \in BOOLEAN, stated \in SUBSET Keys : ListDirDoes(w, emptyDir, stated)
    BY ListDirReads
  <1> DEFINE V == Listed(W, emptyDir, stated)
             S == Unseen(item, stated)
  <1>4. /\ walk' = [walk EXCEPT ![w] = V]
        /\ client' = [c \in Clients |-> Misses(client[c], w, S)]
        /\ ListDirReturns(item.key, emptyDir, stated)
    BY <1>3 DEF ListDirDoes
  <1>5. /\ V \in WalkStates /\ V.alive = W.alive \ S /\ V.st = W.st
        /\ V.work = (W.work \ {item}) \cup DoTreeWalk(item, W.recursive, emptyDir, stated)
        /\ V.recursive = W.recursive /\ V.resultCh = W.resultCh /\ V.stale = W.stale
    <2> HIDE DEF W
    <2>1. QED BY <1>1, <1>2, <1>4, ListedFields DEF Rooted
  <1> HIDE DEF V, W
  <1>6. /\ WorkFits(V) /\ ChannelFits(V)
        /\ \A m \in Names : GoesOn(W, m) => GoesOn(V, m)
    BY <1>1, <1>2, <1>4, <1>5, ListDirWalk
  <1> HIDE DEF S, item
  <1>7. ASSUME NEW c \in Clients
        PROVE  /\ OwedLess(client'[c], client[c])
               /\ client[c].walk = w /\ client[c].must \subseteq W.alive =>
                    client'[c].must \subseteq V.alive
    <2>1. client[c] \in ClientStates BY DEF TreeInv, Types
    <2>2. client'[c] = Misses(client[c], w, S) BY <1>4
    <2>3. QED BY <1>5, <2>1, <2>2, MissesFields DEF OwedLess
  <1>8. QED BY <1>2, <1>4, <1>5, <1>6, <1>7, GivesUpStep DEF W

\* resultCh <- TreeWalkResult{...}
LEMMA SendOrder ==
  ASSUME TreeInv, ListInv, NEW w \in WalkIds, Send(w)
  PROVE  ListInv'
  <1> DEFINE W == walk[w]
             item == FirstOf(W.work)
             r == [key |-> item.key, end |-> item.end]
             new == W.work \ {item}
             ch == Append(W.resultCh, r)
             V == [W EXCEPT !.work = new, !.resultCh = ch]
  <1>1. W \in WalkStates /\ WorkFits(W) /\ ChannelFits(W) BY WalkOf
  <1>2. /\ W.st = "walking" /\ W.work # {} /\ item.op = "send"
        /\ walk' = [walk EXCEPT ![w] = V]
        /\ UNCHANGED <<present, pool, timer, client, crashed>>
    BY DEF Send
  <1>3. W.work \subseteq Items /\ W.resultCh \in Seq([key : Keys, end : BOOLEAN]) BY <1>1, WalkTyped
  <1>4. item \in W.work /\ item \in Items BY <1>2, <1>3, FirstOfLeast
  <1>5. item.key \in Keys BY <1>2, <1>4 DEF TreeInv, WorkSound
  <1>6. r \in [key : Keys, end : BOOLEAN] BY <1>4, <1>5 DEF Items
  <1> HIDE DEF W, item, r
  <1>7. new \subseteq Items /\ ch \in Seq([key : Keys, end : BOOLEAN]) BY <1>3, <1>6
  <1> HIDE DEF new, ch
  <1>8. /\ V \in WalkStates /\ V.work = new /\ V.resultCh = ch
        /\ V.recursive = W.recursive /\ V.alive = W.alive /\ V.st = W.st /\ V.stale = W.stale
        /\ V.closes = W.closes
    BY <1>1, <1>7 DEF WalkStates
  <1> HIDE DEF V
  <1>9. /\ V.work = W.work \ {FirstOf(W.work)}
        /\ V.resultCh = Append(W.resultCh, [key |-> FirstOf(W.work).key,
                                            end |-> FirstOf(W.work).end])
        /\ FirstOf(W.work).op = "send"
    BY <1>2, <1>8 DEF new, ch, r, item
  <1>10. /\ WorkFits(V) /\ ChannelFits(V)
         /\ \A m \in Names : GoesOn(W, m) => GoesOn(V, m)
    BY <1>1, <1>2, <1>8, <1>9, SendWalk
  <1>11. \A j \in 1 .. Len(pool') : \E i \in 1 .. Len(pool) : pool'[j] = pool[i] BY <1>2
  <1>12. QED BY <1>2, <1>8, <1>10, <1>11, OneWalkStep DEF W

\* The walk ends, or is told to.
LEMMA EndOrder ==
  ASSUME TreeInv, ListInv, NEW w \in WalkIds, Abort(w) \/ EndWalk(w)
  PROVE  ListInv'
  <1> DEFINE W == walk[w]
             V == [W EXCEPT !.st = "ended", !.work = {}]
  <1>1. W \in WalkStates /\ WorkFits(W) /\ ChannelFits(W) BY WalkOf
  <1>2. /\ W.st = "walking" /\ (W.closes > 0 \/ W.work = {})
        /\ UNCHANGED <<present, pool, timer, client, crashed>>
    BY DEF Abort, EndWalk
  <1>3. walk' = [walk EXCEPT ![w] = V]
    <2>1. CASE Abort(w) BY <2>1 DEF Abort
    <2>2. CASE EndWalk(w)
      <3>1. walk[w].work = {} BY <2>2 DEF EndWalk
      <3>2. V = [walk[w] EXCEPT !.st = "ended"] BY <1>1, <3>1 DEF WalkStates
      <3>3. QED BY <2>2, <3>2 DEF EndWalk
    <2>3. QED BY <2>1, <2>2
  <1> HIDE DEF W
  <1>4. /\ V \in WalkStates /\ V.work = {} /\ V.st = "ended" /\ V.resultCh = W.resultCh
        /\ V.recursive = W.recursive /\ V.alive = W.alive /\ V.closes = W.closes
        /\ V.stale = W.stale
    BY <1>1 DEF WalkStates
  <1> HIDE DEF V
  <1>5. /\ WorkFits(V) /\ ChannelFits(V)
        /\ \A m \in Names : GoesOn(W, m) => GoesOn(V, m)
    BY <1>1, <1>2, <1>4, EndOfWalk
  <1>6. \A j \in 1 .. Len(pool') : \E i \in 1 .. Len(pool) : pool'[j] = pool[i] BY <1>2
  <1>7. QED BY <1>2, <1>3, <1>4, <1>5, <1>6, OneWalkStep DEF W

\* endWalkCh is closed, so that less is claimed of the walk.
LEMMA EvictOrder ==
  ASSUME TreeInv, ListInv, NEW t \in TimerIds, Evict(t), ~crashed
  PROVE  ListInv'
  <1> DEFINE w == timer[t].walk
             W == walk[w]
             inPool == \E i \in 1 .. Len(pool) : pool[i].timer = t
             stale == W.stale \/ ~inPool
             closes == W.closes + 1
             V == [W EXCEPT !.closes = closes, !.stale = stale]
  <1>1. /\ timer[t].st = "fired" /\ pool' = Evicted(t)
        /\ walk' = [walk EXCEPT ![w] = V]
        /\ UNCHANGED <<present, client>>
    BY DEF Evict, Close
  <1>2. w \in WalkIds
    <2>1. w # NoWalk BY <1>1 DEF TreeInv, Owned, TimersRun
    <2>2. timer[t] \in TimerStates BY DEF TreeInv, Types
    <2>3. QED BY <2>1, <2>2 DEF TimerStates
  <1>3. W \in WalkStates /\ WorkFits(W) /\ ChannelFits(W) BY <1>2, WalkOf
  <1>4. closes \in 0 .. 2 /\ (closes = 0 => W.closes = 0)
    <2>1. W.closes \in 0 .. 2 /\ W.closes <= 1
      BY <1>2, <1>3 DEF TreeInv, Owned, ClosedOnce, WalkStates
    <2>2. QED BY <2>1
  <1>5. stale \in BOOLEAN /\ (W.stale => stale)
    <2> HIDE DEF inPool
    <2>1. W.stale \in BOOLEAN BY <1>3 DEF WalkStates
    <2>2. QED BY <2>1
  <1> HIDE DEF W, stale, closes, w
  <1>6. /\ V \in WalkStates /\ V.work = W.work /\ V.st = W.st /\ V.resultCh = W.resultCh
        /\ V.recursive = W.recursive /\ V.alive = W.alive /\ V.closes = closes
        /\ V.stale = stale
    BY <1>3, <1>4, <1>5 DEF WalkStates
  <1> HIDE DEF V
  <1>7. /\ WorkFits(V) /\ ChannelFits(V)
        /\ \A m \in Names : GoesOn(W, m) => GoesOn(V, m)
    BY <1>3, <1>4, <1>6, SameWork
  <1>8. \A j \in 1 .. Len(pool') : \E i \in 1 .. Len(pool) : pool'[j] = pool[i]
    <2>1. \E f \in [1 .. Len(Evicted(t)) -> 1 .. Len(pool)] :
            /\ \A j \in 1 .. Len(Evicted(t)) : Evicted(t)[j] = pool[f[j]] /\ pool[f[j]].timer # t
            /\ \A j, k \in 1 .. Len(Evicted(t)) : f[j] = f[k] => j = k
      BY EvictedPlaces
    <2>2. QED BY <1>1, <2>1
  <1>9. QED BY <1>1, <1>2, <1>5, <1>6, <1>7, <1>8, OneWalkStep DEF W

\* A step of one client with a walk that no other client has.
LEMMA OneClientStep ==
  ASSUME TreeInv, ListInv, NEW c \in Clients, NEW l \in ClientStates,
         NEW w \in WalkIds, NEW V \in WalkStates,
         client' = [client EXCEPT ![c] = l], walk' = [walk EXCEPT ![w] = V], present' = present,
         WorkFits(V), ChannelFits(V), V.alive \subseteq present,
         l.must \subseteq present, ~l.disorder,
         l.pc \in {"receive", "set"} => l.walk = w /\ WalkingFits(l, V),
         l.pc \in {"receive", "set", "truncated"} => ListingFits(l),
         l.pc = "complete" => l.walk = w /\ (~V.stale => Listing(l) \subseteq l.listed),
         \A d \in Clients : d # c => client[d].walk # w,
         \A j \in 1 .. Len(pool') :
           \/ \E i \in 1 .. Len(pool) : pool'[j] = pool[i] /\ pool[i].walk # w
           \/ /\ pool'[j].walk = w /\ pool'[j].recursive = V.recursive
              /\ GoesOn(V, pool'[j].marker)
  PROVE  ListInv'
  <1>1. walk \in [WalkIds -> WalkStates] /\ client \in [Clients -> ClientStates]
    BY DEF TreeInv, Types
  <1>2. /\ walk'[w] = V /\ \A v \in WalkIds : v # w => walk'[v] = walk[v]
        /\ client'[c] = l /\ \A d \in Clients : d # c => client'[d] = client[d]
    BY <1>1
  <1>3. NamesFit'
    <2>1. \A v \in WalkIds : walk'[v].alive \subseteq present BY <1>2 DEF ListInv, NamesFit
    <2>2. \A d \in Clients : client'[d].must \subseteq present BY <1>2 DEF ListInv, NamesFit
    <2>3. QED BY <2>1, <2>2 DEF ListInv, NamesFit
  <1>4. WalksFit'
    <2>1. \A v \in WalkIds : WorkFits(walk'[v]) /\ ChannelFits(walk'[v])
      BY <1>2 DEF ListInv, WalksFit
    <2>2. QED BY <2>1 DEF WalksFit
  <1>5. PoolFits'
    <2>1. ASSUME NEW j \in 1 .. Len(pool')
          PROVE  /\ GoesOn(walk'[pool'[j].walk], pool'[j].marker)
                 /\ pool'[j].recursive = walk'[pool'[j].walk].recursive
      <3>1. CASE \E i \in 1 .. Len(pool) : pool'[j] = pool[i] /\ pool[i].walk # w
        <4>1. PICK i \in 1 .. Len(pool) : pool'[j] = pool[i] /\ pool[i].walk # w BY <3>1
        <4>2. pool[i].walk \in WalkIds BY PoolTyped DEF TreeInv
        <4>3. /\ GoesOn(walk[pool[i].walk], pool[i].marker)
              /\ pool[i].recursive = walk[pool[i].walk].recursive
          BY DEF ListInv, PoolFits
        <4>4. QED BY <1>2, <4>1, <4>2, <4>3
      <3>2. CASE /\ pool'[j].walk = w /\ pool'[j].recursive = V.recursive
                 /\ GoesOn(V, pool'[j].marker)
        BY <1>2, <3>2
      <3>3. QED BY <3>1, <3>2
    <2>2. QED BY <2>1 DEF PoolFits
  <1>6. ClientsFit'
    <2>1. ASSUME NEW d \in Clients
          PROVE  /\ ~client'[d].disorder
                 /\ client'[d].pc \in {"receive", "set"} =>
                      WalkingFits(client'[d], walk'[client'[d].walk])
                 /\ client'[d].pc \in {"receive", "set", "truncated"} => ListingFits(client'[d])
                 /\ client'[d].pc = "complete" /\ ~walk'[client'[d].walk].stale =>
                      Listing(client'[d]) \subseteq client'[d].listed
      <3>1. CASE d = c BY <1>2, <3>1
      <3>2. CASE d # c
        <4>1. /\ ~client[d].disorder
              /\ client[d].pc \in {"receive", "set"} =>
                   WalkingFits(client[d], walk[client[d].walk])
              /\ client[d].pc \in {"receive", "set", "truncated"} => ListingFits(client[d])
              /\ client[d].pc = "complete" /\ ~walk[client[d].walk].stale =>
                   Listing(client[d]) \subseteq client[d].listed
          BY DEF ListInv, ClientsFit
        <4>2. client[d].pc \in {"receive", "set", "complete"} => client[d].walk \in WalkIds
          BY <1>1 DEF TreeInv, Owned, ClientsWalk, ClientStates
        <4>3. client[d].pc \in {"receive", "set", "complete"} =>
                walk'[client[d].walk] = walk[client[d].walk]
          BY <1>2, <3>2, <4>2
        <4>4. client'[d] = client[d] BY <1>2, <3>2
        <4>5. QED BY <4>1, <4>3, <4>4
      <3>3. QED BY <3>1, <3>2
    <2>2. QED BY <2>1 DEF ClientsFit
  <1>7. QED BY <1>3, <1>4, <1>5, <1>6 DEF ListInv

\* What is owed to a listing, its walk has to list.
LEMMA ListingFacts ==
  ASSUME NEW l \in ClientStates, NEW W \in WalkStates, WalkingFits(l, W)
  PROVE  Listing(l) \subseteq Lasting(W) /\ Listing(l) \subseteq l.must
  BY DEF WalkingFits, Listing, Lasting, OfListing

\* A listing goes on with a result: it is behind what was listed, and before what
\* is missing.
LEMMA ListingReceives ==
  ASSUME NEW l \in ClientStates, NEW W \in WalkStates, WorkFits(W), ChannelFits(W),
         W.resultCh # << >>, NEW V \in WalkStates, V.work = W.work,
         V.resultCh = Tail(W.resultCh), V.st = W.st, V.recursive = W.recursive,
         V.alive = W.alive, V.closes = W.closes, WalkingFits(l, W), ListingFits(l),
         NEW n \in ClientStates, n.recursive = l.recursive, n.must = l.must,
         n.marker = Head(W.resultCh).key, n.listed = l.listed \cup {Head(W.resultCh).key}
  PROVE  LET x == Head(W.resultCh)
             lasting == l.must \ Dirs
         IN /\ ~(x.key \in lasting /\ \E k \in l.listed \cap lasting : k >= x.key)
            /\ ListingFits(n) /\ WalkingFits(n, V)
            /\ x.end /\ W.closes = 0 => Listing(n) \subseteq n.listed
  <1> DEFINE x == Head(W.resultCh)
             m == l.marker
  <1>1. /\ x.key \in Keys
        /\ ~W.recursive => Ancestors[x.key] = {}
        /\ \A j \in Names : GoesOn(W, j) =>
             /\ GoesOn(V, x.key)
             /\ \A k \in Lasting(W) : /\ k <= j => k < x.key
                                      /\ j < k /\ k # x.key => x.key < k
             /\ x.end /\ W.closes = 0 => \A k \in Lasting(W) : j < k => k = x.key
    BY ReceiveWalk
  <1>2. m \in Names /\ GoesOn(W, m) /\ l.recursive = W.recursive /\ l.must \subseteq W.alive
    BY DEF ClientStates, WalkingFits
  <1>3. n.marker = x.key /\ n.listed = l.listed \cup {x.key} OBVIOUS
  <1> HIDE DEF x
  <1>4. /\ GoesOn(V, x.key)
        /\ \A k \in Lasting(W) : /\ k <= m => k < x.key
                                 /\ m < k /\ k # x.key => x.key < k
        /\ x.end /\ W.closes = 0 => \A k \in Lasting(W) : m < k => k = x.key
    BY <1>1, <1>2
  <1>5. Listing(l) \subseteq Lasting(W) /\ Listing(n) = Listing(l) BY ListingFacts DEF Listing
  <1>6. \A k \in Listing(l) : /\ k \in l.listed => k < x.key
                              /\ k \notin l.listed => m < k
    BY <1>4, <1>5 DEF ListingFits
  <1>7. x.key \in Nat BY <1>1, TreeFacts
  <1>8. ~(x.key \in l.must \ Dirs /\ \E k \in l.listed \cap (l.must \ Dirs) : k >= x.key)
    <2>1. ASSUME NEW k \in l.listed \cap (l.must \ Dirs), k >= x.key
          PROVE  FALSE
      <3>1. k \in Listing(l) BY DEF Listing, OfListing, ListingFits
      <3>2. k < x.key /\ k \in Nat BY <1>6, <3>1, TreeFacts DEF ClientStates
      <3>3. QED BY <1>7, <2>1, <3>2
    <2>2. QED BY <2>1
  <1>9. ListingFits(n)
    <2>1. ASSUME NEW k \in Listing(l)
          PROVE  IF k \in n.listed THEN k <= n.marker ELSE n.marker < k
      <3>1. k \in Nat BY <1>5, WalkTyped
      <3>2. CASE k \in l.listed BY <1>3, <1>6, <1>7, <3>1, <3>2
      <3>3. CASE k \notin l.listed /\ k = x.key BY <1>3, <1>7, <3>3
      <3>4. CASE k \notin l.listed /\ k # x.key BY <1>3, <1>4, <1>5, <1>6, <3>4
      <3>5. QED BY <3>2, <3>3, <3>4
    <2>2. ~n.recursive => \A k \in n.listed : Ancestors[k] = {} BY <1>1, <1>2, <1>3 DEF ListingFits
    <2>3. QED BY <1>5, <2>1, <2>2 DEF ListingFits
  <1>10. WalkingFits(n, V) BY <1>2, <1>3, <1>4 DEF WalkingFits
  <1>11. x.end /\ W.closes = 0 => Listing(n) \subseteq n.listed BY <1>3, <1>4, <1>5, <1>6
  <1>12. QED BY <1>8, <1>9, <1>10, <1>11 DEF x

\* Every client fits.
LEMMA ClientOf ==
  ASSUME TreeInv, ListInv, NEW c \in Clients
  PROVE  /\ client[c] \in ClientStates /\ client[c].must \subseteq present
         /\ ~client[c].disorder
         /\ client[c].pc \in {"receive", "set"} => WalkingFits(client[c], walk[client[c].walk])
         /\ client[c].pc \in {"receive", "set", "truncated"} => ListingFits(client[c])
  BY DEF TreeInv, Types, ListInv, NamesFit, ClientsFit

\* Nothing else uses the walk of a client; it was not told to end, or by a timer
\* that fired late.
LEMMA OwnWalk ==
  ASSUME TreeInv, NEW c \in Clients, NEW w \in WalkIds, client[c].walk = w
  PROVE  /\ \A d \in Clients : d # c => client[d].walk # w
         /\ \A i \in 1 .. Len(pool) : pool[i].walk # w
         /\ ~walk[w].stale => walk[w].closes = 0
  <1>1. /\ \A d \in Clients : d # c => client[d].walk # w
        /\ \A i \in 1 .. Len(pool) : pool[i].walk # w
    BY NoWalkAssumption DEF TreeInv, Owned, Exclusive
  <1>2. walk[w].closes \in 0 .. 2 BY DEF TreeInv, Types, WalkStates
  <1>3. ~walk[w].stale => ~(walk[w].closes > 0) BY DEF TreeInv, Owned, PoolWalksLive
  <1>4. QED BY <1>1, <1>2, <1>3

\* A handler takes a result.
LEMMA ReceiveOrder ==
  ASSUME TreeInv, ListInv, NEW c \in Clients, Receive(c)
  PROVE  ListInv'
  <1> DEFINE l == client[c]
             w == l.walk
             W == walk[w]
             x == Head(W.resultCh)
             lasting == l.must \ Dirs
             late == x.key \in lasting /\ \E k \in l.listed \cap lasting : k >= x.key
             more == l.count + 1 < l.max
             pc == IF x.end THEN "complete" ELSE IF more THEN l.pc ELSE "set"
             disorder == l.disorder \/ late
             listed == l.listed \cup {x.key}
             count == l.count + 1
             n == [l EXCEPT !.pc = pc, !.marker = x.key, !.count = count,
                            !.listed = listed, !.disorder = disorder]
             f == [l EXCEPT !.pc = "failed", !.walk = NoWalk]
             tail == Tail(W.resultCh)
             V == [W EXCEPT !.resultCh = tail]
             g == [W EXCEPT !.resultCh = tail, !.lost = TRUE]
  <1>1. /\ l.pc = "receive" /\ W.resultCh # << >>
        /\ UNCHANGED <<present, pool, timer, crashed>>
    BY DEF Receive
  <1>2. w \in WalkIds BY <1>1, ReceivesFrom
  <1>3. /\ W \in WalkStates /\ WorkFits(W) /\ ChannelFits(W) /\ W.alive \subseteq present
    BY <1>2, WalkOf
  <1>4. /\ l \in ClientStates /\ l.must \subseteq present /\ ~l.disorder
        /\ WalkingFits(l, W) /\ ListingFits(l)
    BY <1>1, ClientOf
  <1>5. /\ \A d \in Clients : d # c => client[d].walk # w
        /\ \A i \in 1 .. Len(pool) : pool[i].walk # w
        /\ ~W.stale => W.closes = 0
    BY <1>2, OwnWalk
  <1>6. \A j \in 1 .. Len(pool') :
          \E i \in 1 .. Len(pool) : pool'[j] = pool[i] /\ pool[i].walk # w
    BY <1>1, <1>5
  <1>7. tail \in Seq([key : Keys, end : BOOLEAN])
    <2> DEFINE ch == W.resultCh
    <2>1. ch \in Seq([key : Keys, end : BOOLEAN]) /\ ch # << >> BY <1>1, <1>3, WalkTyped
    <2> HIDE DEF ch
    <2>2. Tail(ch) \in Seq([key : Keys, end : BOOLEAN]) BY <2>1, HeadTailProperties
    <2>3. QED BY <2>2 DEF ch
  <1>8. CASE walk' = [walk EXCEPT ![w] = V] /\ client' = [client EXCEPT ![c] = n]
    <2>1. walk' = [walk EXCEPT ![w] = V] /\ client' = [client EXCEPT ![c] = n] BY <1>8
    <2>2. x.key \in Keys BY <1>1, <1>3, WalkTyped
    <2> HIDE DEF W, tail
    <2>3. /\ V \in WalkStates /\ V.work = W.work /\ V.resultCh = tail /\ V.st = W.st
          /\ V.recursive = W.recursive /\ V.alive = W.alive /\ V.closes = W.closes
          /\ V.stale = W.stale
      BY <1>3, <1>7 DEF WalkStates
    <2> HIDE DEF V
    <2>4. /\ WorkFits(V) /\ ChannelFits(V)
      BY <1>1, <1>3, <2>3, ReceiveWalk DEF tail
    <2>5. pc \in {"complete", "receive", "set"} /\ (pc = "complete" => x.end) BY <1>1
    <2>6. disorder \in BOOLEAN
      <3> HIDE DEF late
      <3>1. QED BY <1>4 DEF ClientStates
    <2>7. count \in Nat /\ listed \subseteq Keys /\ x.key \in Names
      BY <1>4, <2>2 DEF ClientStates, Names
    <2> HIDE DEF l, pc, disorder, listed, count, x
    <2>8. /\ n \in ClientStates /\ n.recursive = l.recursive /\ n.must = l.must
          /\ n.marker = x.key /\ n.listed = listed /\ n.walk = w /\ n.pc = pc
          /\ n.disorder = disorder
      BY <1>4, <2>5, <2>6, <2>7 DEF ClientStates, w
    <2> HIDE DEF n, w
    <2>9. n.marker = Head(W.resultCh).key /\ n.listed = l.listed \cup {Head(W.resultCh).key}
      BY <2>8 DEF x, listed
    <2>10. /\ ~(x.key \in l.must \ Dirs /\ \E k \in l.listed \cap (l.must \ Dirs) : k >= x.key)
           /\ ListingFits(n) /\ WalkingFits(n, V)
           /\ x.end /\ W.closes = 0 => Listing(n) \subseteq n.listed
      BY <1>1, <1>3, <1>4, <2>3, <2>8, <2>9, ListingReceives DEF tail, x
    <2>11. ~n.disorder BY <1>4, <2>8, <2>10, Zenon DEF disorder, late, lasting
    <2>12. n.pc = "complete" => n.walk = w /\ (~V.stale => Listing(n) \subseteq n.listed)
      BY <1>5, <2>3, <2>5, <2>8, <2>10
    <2>13. n.pc \in {"receive", "set"} => n.walk = w /\ WalkingFits(n, V) BY <2>8, <2>10
    <2>14. V.alive \subseteq present /\ n.must \subseteq present /\ present' = present
      BY <1>1, <1>3, <1>4, <2>3, <2>8
    <2>15. QED
      BY <1>2, <1>5, <1>6, <2>1, <2>3, <2>4, <2>8, <2>10, <2>11, <2>12, <2>13, <2>14, OneClientStep,
       ZenonT(60)
  <1>9. CASE walk' = [walk EXCEPT ![w] = g] /\ client' = [client EXCEPT ![c] = f]
    <2>1. walk' = [walk EXCEPT ![w] = g] /\ client' = [client EXCEPT ![c] = f] BY <1>9
    <2> HIDE DEF W, tail
    <2>2. /\ g \in WalkStates /\ g.work = W.work /\ g.resultCh = tail /\ g.st = W.st
          /\ g.recursive = W.recursive /\ g.alive = W.alive /\ g.closes = W.closes
      BY <1>3, <1>7 DEF WalkStates
    <2> HIDE DEF g
    <2>3. /\ WorkFits(g) /\ ChannelFits(g)
      BY <1>1, <1>3, <2>2, ReceiveWalk DEF tail
    <2> HIDE DEF l
    <2>4. /\ f \in ClientStates /\ f.must = l.must /\ f.pc = "failed" /\ f.disorder = l.disorder
      BY <1>4 DEF ClientStates
    <2> HIDE DEF f, w
    <2>5. g.alive \subseteq present /\ f.must \subseteq present /\ present' = present /\ ~f.disorder
      BY <1>1, <1>3, <1>4, <2>2, <2>4
    <2>6. f.pc \notin {"receive", "set", "truncated", "complete"} BY <2>4
    <2>7. QED
      BY <1>2, <1>5, <1>6, <2>1, <2>2, <2>3, <2>4, <2>5, <2>6, OneClientStep,
       ZenonT(60)
  <1>10. \/ walk' = [walk EXCEPT ![w] = V] /\ client' = [client EXCEPT ![c] = n]
         \/ walk' = [walk EXCEPT ![w] = g] /\ client' = [client EXCEPT ![c] = f]
    BY ZenonT(60) DEF Receive
  <1>11. QED BY <1>8, <1>9, <1>10

\* A handler finds the channel closed.
LEMMA ReceiveClosedOrder ==
  ASSUME TreeInv, ListInv, NEW c \in Clients, ReceiveClosed(c)
  PROVE  ListInv'
  <1> DEFINE l == client[c]
             w == l.walk
             V == walk[w]
             n == [l EXCEPT !.pc = "complete"]
  <1>1. /\ l.pc = "receive" /\ V.resultCh = << >> /\ V.st = "ended"
        /\ UNCHANGED <<present, pool, timer, crashed>>
    BY DEF ReceiveClosed
  <1>2. w \in WalkIds BY <1>1, ReceivesFrom
  <1>3. /\ V \in WalkStates /\ WorkFits(V) /\ ChannelFits(V) /\ V.alive \subseteq present
    BY <1>2, WalkOf
  <1>4. /\ l \in ClientStates /\ l.must \subseteq present /\ ~l.disorder
        /\ WalkingFits(l, V) /\ ListingFits(l)
    BY <1>1, ClientOf
  <1>5. /\ \A d \in Clients : d # c => client[d].walk # w
        /\ \A i \in 1 .. Len(pool) : pool[i].walk # w
        /\ ~V.stale => V.closes = 0
    BY <1>2, OwnWalk
  <1>6. \A j \in 1 .. Len(pool') :
          \E i \in 1 .. Len(pool) : pool'[j] = pool[i] /\ pool[i].walk # w
    BY <1>1, <1>5
  <1>7. walk' = [walk EXCEPT ![w] = V] /\ client' = [client EXCEPT ![c] = n]
    BY <1>2 DEF ReceiveClosed, TreeInv, Types
  <1>8. ~V.stale => Listing(l) \subseteq l.listed
    <2>1. ASSUME ~V.stale, NEW k \in Listing(l), k \notin l.listed
          PROVE  FALSE
      <3>1. k \in Lasting(V) /\ l.marker < k BY <1>3, <1>4, <2>1, ListingFacts DEF ListingFits
      <3>2. Lists(V, k) BY <1>4, <1>5, <2>1, <3>1 DEF WalkingFits, GoesOn
      <3>3. V.work = {} BY <1>1, <1>3 DEF WorkFits
      <3>4. ~(\E a \in 1 .. Len(V.resultCh) : V.resultCh[a].key = k) BY <1>1
      <3>5. QED BY <3>2, <3>3, <3>4 DEF Lists
    <2>2. QED BY <2>1
  <1> HIDE DEF l
  <1>9. /\ n \in ClientStates /\ n.must = l.must /\ n.pc = "complete" /\ n.disorder = l.disorder
        /\ n.walk = w /\ n.listed = l.listed /\ n.recursive = l.recursive
    BY <1>4 DEF ClientStates, w
  <1> HIDE DEF n, V, w
  <1>10. n.must \subseteq present /\ ~n.disorder /\ present' = present BY <1>1, <1>4, <1>9
  <1>11. ~V.stale => Listing(n) \subseteq n.listed BY <1>8, <1>9 DEF Listing
  <1>12. n.pc \notin {"receive", "set", "truncated"} BY <1>9
  <1>13. QED
    BY <1>2, <1>3, <1>5, <1>6, <1>7, <1>9, <1>10, <1>11, <1>12, OneClientStep,
       ZenonT(60)

\* TreeWalkPool.Set: the pool has the walk at the marker of the listing.
LEMMA SetOrder ==
  ASSUME TreeInv, ListInv, NEW c \in Clients, Set(c)
  PROVE  ListInv'
  <1> DEFINE l == client[c]
             w == l.walk
             V == walk[w]
             n == [l EXCEPT !.pc = "truncated", !.walk = NoWalk, !.max = 0, !.count = 0]
  <1>1. /\ l.pc = "set" /\ client' = [client EXCEPT ![c] = n]
        /\ UNCHANGED <<present, walk, crashed>>
    BY DEF Set
  <1>2. w \in WalkIds BY <1>1, ReceivesFrom
  <1>3. /\ V \in WalkStates /\ WorkFits(V) /\ ChannelFits(V) /\ V.alive \subseteq present
    BY <1>2, WalkOf
  <1>4. /\ l \in ClientStates /\ l.must \subseteq present /\ ~l.disorder
        /\ WalkingFits(l, V) /\ ListingFits(l)
    BY <1>1, ClientOf
  <1>5. /\ \A d \in Clients : d # c => client[d].walk # w
        /\ \A i \in 1 .. Len(pool) : pool[i].walk # w
    BY <1>2, OwnWalk
  <1>6. walk' = [walk EXCEPT ![w] = V] BY <1>1, <1>2 DEF TreeInv, Types
  <1>7. \A j \in 1 .. Len(pool') :
          \/ \E i \in 1 .. Len(pool) : pool'[j] = pool[i] /\ pool[i].walk # w
          \/ /\ pool'[j].walk = w /\ pool'[j].recursive = V.recursive
             /\ GoesOn(V, pool'[j].marker)
    <2>1. PICK t \in TimerIds : pool' = Append(pool, PoolEntry(l, t)) BY DEF Set
    <2> DEFINE e == PoolEntry(l, t)
    <2>2. e.walk = w /\ e.recursive = l.recursive /\ e.marker = l.marker BY DEF PoolEntry
    <2>3. pool \in Seq(PoolEntries) /\ Len(pool) \in Nat BY DEF TreeInv, Types
    <2>4. pool' = Append(pool, e) BY <2>1
    <2> HIDE DEF e, V, w, l
    <2>5. /\ Len(pool') = Len(pool) + 1 /\ pool'[Len(pool) + 1] = e
          /\ \A j \in 1 .. Len(pool) : pool'[j] = pool[j]
      BY <2>3, <2>4
    <2>6. \A j \in 1 .. Len(pool') : j \in 1 .. Len(pool) \/ j = Len(pool) + 1 BY <2>3, <2>5
    <2>7. e.recursive = V.recursive /\ GoesOn(V, e.marker) BY <1>4, <2>2 DEF WalkingFits
    <2>8. QED BY <1>5, <2>2, <2>5, <2>6, <2>7
  <1> HIDE DEF l
  <1>8. /\ n \in ClientStates /\ n.must = l.must /\ n.pc = "truncated" /\ n.disorder = l.disorder
        /\ n.listed = l.listed /\ n.recursive = l.recursive /\ n.marker = l.marker
    BY <1>4 DEF ClientStates
  <1> HIDE DEF n, V, w
  <1>9. n.must \subseteq present /\ ~n.disorder /\ present' = present BY <1>1, <1>4, <1>8
  <1>10. ListingFits(n) BY <1>4, <1>8 DEF ListingFits, Listing
  <1>11. n.pc \notin {"receive", "set", "complete"} BY <1>8
  <1>12. QED
    BY <1>1, <1>2, <1>3, <1>5, <1>6, <1>7, <1>8, <1>9, <1>10, <1>11, OneClientStep,
       ZenonT(60)

\* A request for the next page, or for the first one.
Asks(listing) ==
  /\ listing \in ClientStates /\ listing.must \subseteq present /\ ~listing.disorder
  /\ ListingFits(listing)

\* TreeWalkPool.Release: the walk goes on behind the marker of the listing.
LEMMA ReleaseOrder ==
  ASSUME TreeInv, ListInv, NEW c \in Clients, NEW listing, Asks(listing), Release(c, listing),
         UNCHANGED <<present, crashed>>
  PROVE  ListInv'
  <1>1. PICK i \in 1 .. Len(pool) :
          /\ ForListing(pool[i], listing)
          /\ pool' = RemoveAt(pool, i)
          /\ client' = [client EXCEPT ![c] =
                 [listing EXCEPT !.pc = "receive", !.walk = pool[i].walk,
                                 !.must = @ \cap walk[pool[i].walk].alive]]
          /\ UNCHANGED walk
    BY DEF Release
  <1> DEFINE w == pool[i].walk
             V == walk[w]
             must == listing.must \cap V.alive
             n == [listing EXCEPT !.pc = "receive", !.walk = w, !.must = must]
  <1>2. w \in WalkIds BY PoolTyped DEF TreeInv
  <1>3. /\ V \in WalkStates /\ WorkFits(V) /\ ChannelFits(V) /\ V.alive \subseteq present
    BY <1>2, WalkOf
  <1>4. /\ listing \in ClientStates /\ listing.must \subseteq present /\ ~listing.disorder
        /\ ListingFits(listing)
    BY DEF Asks
  <1>5. /\ GoesOn(V, listing.marker) /\ listing.recursive = V.recursive
    BY <1>1 DEF ListInv, PoolFits, ForListing
  <1>6. walk' = [walk EXCEPT ![w] = V] /\ client' = [client EXCEPT ![c] = n]
    BY <1>1, <1>2 DEF TreeInv, Types
  <1>7. \A d \in Clients : client[d].walk # w BY DEF TreeInv, Owned, Exclusive
  <1>8. \A j \in 1 .. Len(pool') :
          \E k \in 1 .. Len(pool) : pool'[j] = pool[k] /\ pool[k].walk # w
    <2>1. pool \in Seq(PoolEntries) BY DEF TreeInv, Types
    <2>2. \E f \in [1 .. Len(RemoveAt(pool, i)) -> (1 .. Len(pool)) \ {i}] :
            /\ \A j \in 1 .. Len(RemoveAt(pool, i)) : RemoveAt(pool, i)[j] = pool[f[j]]
            /\ \A j, k \in 1 .. Len(RemoveAt(pool, i)) : f[j] = f[k] => j = k
      <3> HIDE DEF w
      <3>1. QED BY <2>1, RemoveAtPlaces, SMTT(60)
    <2>3. \A j \in 1 .. Len(pool') : \E k \in (1 .. Len(pool)) \ {i} : pool'[j] = pool[k]
      BY <1>1, <2>2
    <2>4. \A k \in (1 .. Len(pool)) \ {i} : pool[k].walk # w BY DEF TreeInv, Owned, Exclusive
    <2>5. QED BY <2>3, <2>4
  <1>9. /\ must \subseteq Keys /\ must \subseteq listing.must /\ must \subseteq V.alive
    BY <1>4 DEF ClientStates
  <1> HIDE DEF must, V
  <1>10. /\ n \in ClientStates /\ n.must = must /\ n.pc = "receive" /\ n.walk = w
         /\ n.disorder = listing.disorder /\ n.listed = listing.listed
         /\ n.recursive = listing.recursive /\ n.marker = listing.marker
    BY <1>2, <1>4, <1>9 DEF ClientStates
  <1> HIDE DEF n, w
  <1>11. WalkingFits(n, V) BY <1>5, <1>9, <1>10 DEF WalkingFits
  <1>12. Listing(n) \subseteq Listing(listing) BY <1>9, <1>10 DEF Listing, OfListing
  <1>13. ListingFits(n) BY <1>4, <1>10, <1>12 DEF ListingFits
  <1>14. n.must \subseteq present /\ ~n.disorder /\ present' = present BY <1>4, <1>9, <1>10
  <1>15. n.pc # "complete" BY <1>10
  <1>16. QED
    BY <1>2, <1>3, <1>6, <1>7, <1>8, <1>10, <1>11, <1>13, <1>14, <1>15, OneClientStep,
       ZenonT(60)

\* startTreeWalk: a new walk goes on behind the marker.
LEMMA StartTreeWalkOrder ==
  ASSUME TreeInv, ListInv, NEW c \in Clients, NEW listing, Asks(listing),
         StartTreeWalk(c, listing), UNCHANGED <<present, crashed>>
  PROVE  ListInv'
  <1> DEFINE V == [FreeWalk EXCEPT !.st = "walking", !.recursive = listing.recursive,
                                   !.alive = present,
                                   !.work = {ListItem(0, listing.marker, TRUE)}]
  <1>1. PICK w \in WalkIds :
          /\ Unused(w)
          /\ walk' = [walk EXCEPT ![w] = V]
          /\ client' = [client EXCEPT ![c] = [listing EXCEPT !.pc = "receive", !.walk = w]]
          /\ UNCHANGED pool
    BY DEF StartTreeWalk
  <1> DEFINE n == [listing EXCEPT !.pc = "receive", !.walk = w]
  <1>2. client' = [client EXCEPT ![c] = n] BY <1>1
  <1>3. /\ listing \in ClientStates /\ listing.must \subseteq present /\ ~listing.disorder
        /\ ListingFits(listing)
    BY DEF Asks
  <1>4. listing.recursive \in BOOLEAN /\ listing.marker \in Names /\ present \subseteq Keys
    BY <1>3 DEF ClientStates, TreeInv, Types
  <1>5. ListItem(0, listing.marker, TRUE) \in Items BY <1>4 DEF ListItem, Items, Names
  <1>6. /\ V \in WalkStates /\ V.resultCh = << >> /\ V.st = "walking"
        /\ V.work = {ListItem(0, listing.marker, TRUE)}
        /\ V.recursive = listing.recursive /\ V.alive = present
    BY <1>4, <1>5, FreshTypes DEF WalkStates, FreeWalk
  <1>7. /\ n \in ClientStates /\ n.must = listing.must /\ n.pc = "receive" /\ n.walk = w
        /\ n.disorder = listing.disorder /\ n.listed = listing.listed
        /\ n.recursive = listing.recursive /\ n.marker = listing.marker
    BY <1>3 DEF ClientStates
  <1> HIDE DEF n, V
  <1>8. WorkFits(V) /\ ChannelFits(V) /\ GoesOn(V, listing.marker) BY <1>4, <1>6, NewWalk
  <1>9. WalkingFits(n, V) BY <1>3, <1>6, <1>7, <1>8 DEF WalkingFits
  <1>10. ListingFits(n) BY <1>3, <1>7 DEF ListingFits, Listing
  <1>11. /\ \A i \in 1 .. Len(pool) : pool[i].walk # w
         /\ \A d \in Clients : client[d].walk # w
    BY <1>1 DEF Unused
  <1>12. \A j \in 1 .. Len(pool') :
           \E k \in 1 .. Len(pool) : pool'[j] = pool[k] /\ pool[k].walk # w
    BY <1>1, <1>11
  <1>13. /\ n.must \subseteq present /\ ~n.disorder /\ present' = present
         /\ V.alive \subseteq present /\ n.pc # "complete"
    BY <1>3, <1>6, <1>7
  <1>14. walk' = [walk EXCEPT ![w] = V] BY <1>1
  <1>15. QED
    BY <1>2, <1>14, <1>6, <1>7, <1>8, <1>9, <1>10, <1>11, <1>12, <1>13, OneClientStep,
       ZenonT(60)

\* A request for the first or the next page.
LEMMA ListPageOrder ==
  ASSUME TreeInv, ListInv, NEW c \in Clients, ListObjects(c) \/ NextPage(c)
  PROVE  ListInv'
  <1>1. ASSUME NEW listing, Asks(listing), ListPage(c, listing)
        PROVE  ListInv'
    BY <1>1, ReleaseOrder, StartTreeWalkOrder DEF ListPage
  <1>2. present \subseteq Keys BY DEF TreeInv, Types
  <1>3. \A max \in 1 .. MaxObjectList : max \in Nat BY MaxObjectListAssumption
  <1>4. CASE ListObjects(c)
    <2>1. PICK recursive \in BOOLEAN, max \in 1 .. MaxObjectList :
            ListPage(c, [NoListing EXCEPT !.recursive = recursive, !.max = max, !.must = present])
      BY <1>4 DEF ListObjects
    <2> DEFINE l == [NoListing EXCEPT !.recursive = recursive, !.max = max, !.must = present]
    <2>2. /\ l \in ClientStates /\ l.must = present /\ l.disorder = FALSE /\ l.listed = {}
          /\ l.marker = 0
      BY <1>2, <1>3, FreshTypes DEF ClientStates, NoListing
    <2> HIDE DEF l
    <2>3. \A k \in Listing(l) : l.marker < k BY <1>2, <2>2, TreeFacts DEF Listing, OfListing
    <2>4. Asks(l) BY <2>2, <2>3 DEF Asks, ListingFits
    <2>5. QED BY <1>1, <2>1, <2>4 DEF l
  <1>5. CASE NextPage(c)
    <2>1. PICK max \in 1 .. MaxObjectList : ListPage(c, [client[c] EXCEPT !.max = max, !.count = 0])
      BY <1>5 DEF NextPage
    <2> DEFINE l == [client[c] EXCEPT !.max = max, !.count = 0]
    <2>2. /\ client[c] \in ClientStates /\ client[c].must \subseteq present
          /\ ~client[c].disorder /\ ListingFits(client[c])
      BY <1>5, ClientOf DEF NextPage
    <2>3. /\ l \in ClientStates /\ l.must = client[c].must /\ l.disorder = client[c].disorder
          /\ l.listed = client[c].listed /\ l.marker = client[c].marker
          /\ l.recursive = client[c].recursive
      BY <1>3, <2>2 DEF ClientStates
    <2> HIDE DEF l
    <2>4. Asks(l) BY <2>2, <2>3 DEF Asks, ListingFits, Listing
    <2>5. QED BY <1>1, <2>1, <2>4 DEF l
  <1>6. QED BY <1>4, <1>5

\* A new name is owed to no listing.
LEMMA CreateOrder ==
  ASSUME TreeInv, ListInv, NEW k \in Keys, Create(k)
  PROVE  ListInv'
  <1>1. /\ present' = present \cup Path(k) /\ UNCHANGED <<walk, pool, timer, client, crashed>>
    BY DEF Create
  <1>2. Path(k) = Ancestors[k] \cup {k} BY TreeFacts DEF Path
  <1>3. \A j \in Path(k) : Ancestors[j] \subseteq Path(k) BY <1>2, TreeFacts
  <1>4. NamesFit' BY <1>1, <1>3 DEF ListInv, NamesFit
  <1>5. WalksFit' /\ PoolFits' /\ ClientsFit' BY <1>1 DEF ListInv, WalksFit, PoolFits, ClientsFit
  <1>6. QED BY <1>4, <1>5 DEF ListInv

\* A name that is gone is not owed to any listing.
LEMMA DeleteOrder ==
  ASSUME TreeInv, ListInv, NEW k \in Keys, Delete(k)
  PROVE  ListInv'
  <1> DEFINE V(w) == [walk[w] EXCEPT !.alive = @ \ {k}]
             n(c) == [client[c] EXCEPT !.must = @ \ {k}]
  <1>1. /\ present' = present \ {k} /\ \A j \in present : k \notin Ancestors[j]
        /\ walk' = [w \in WalkIds |-> V(w)] /\ client' = [c \in Clients |-> n(c)]
        /\ UNCHANGED pool
    BY DEF Delete
  <1>2. ASSUME NEW w \in WalkIds
        PROVE  /\ V(w) \in WalkStates /\ V(w).alive = walk[w].alive \ {k}
               /\ V(w).recursive = walk[w].recursive /\ V(w).stale = walk[w].stale
               /\ WorkFits(V(w)) /\ ChannelFits(V(w))
               /\ \A m \in Names : GoesOn(walk[w], m) => GoesOn(V(w), m)
    <2> DEFINE W == walk[w]
    <2>1. W \in WalkStates /\ WorkFits(W) /\ ChannelFits(W) BY WalkOf
    <2>2. /\ V(w) \in WalkStates /\ V(w).alive = W.alive \ {k}
          /\ V(w).recursive = W.recursive /\ V(w).stale = W.stale
          /\ V(w).work = W.work /\ V(w).resultCh = W.resultCh /\ V(w).st = W.st
          /\ V(w).closes = W.closes
      BY <2>1 DEF WalkStates
    <2> HIDE DEF V, W
    <2>3. /\ WorkFits(V(w)) /\ ChannelFits(V(w))
          /\ \A m \in Names : GoesOn(W, m) => GoesOn(V(w), m)
      BY <2>1, <2>2, SameWork
    <2>4. QED BY <2>2, <2>3 DEF W
  <1>3. ASSUME NEW c \in Clients
        PROVE  /\ n(c).must = client[c].must \ {k} /\ n(c).recursive = client[c].recursive
               /\ n(c).pc = client[c].pc /\ n(c).walk = client[c].walk
               /\ n(c).marker = client[c].marker /\ n(c).listed = client[c].listed
               /\ n(c).disorder = client[c].disorder
               /\ client[c] \in ClientStates /\ client[c].marker \in Names
               /\ client[c].pc \in {"receive", "set", "complete"} => client[c].walk \in WalkIds
    <2>1. client[c] \in ClientStates BY ClientOf
    <2>2. client[c].pc \in {"receive", "set", "complete"} => client[c].walk # NoWalk
      BY DEF TreeInv, Owned, ClientsWalk
    <2>3. QED BY <2>1, <2>2 DEF ClientStates
  <1> HIDE DEF V, n
  <1>4. /\ \A w \in WalkIds : walk'[w] = V(w)
        /\ \A c \in Clients : client'[c] = n(c)
    BY <1>1
  <1>5. NamesFit'
    <2>1. \A j \in present' : Ancestors[j] \subseteq present' BY <1>1 DEF ListInv, NamesFit
    <2>2. \A w \in WalkIds : walk'[w].alive \subseteq present'
      BY <1>1, <1>2, <1>4 DEF ListInv, NamesFit
    <2>3. \A c \in Clients : client'[c].must \subseteq present'
      BY <1>1, <1>3, <1>4 DEF ListInv, NamesFit
    <2>4. QED BY <2>1, <2>2, <2>3 DEF NamesFit
  <1>6. WalksFit'
    <2>1. \A w \in WalkIds : WorkFits(walk'[w]) /\ ChannelFits(walk'[w]) BY <1>2, <1>4
    <2>2. QED BY <2>1 DEF WalksFit
  <1>7. PoolFits'
    <2>1. ASSUME NEW i \in 1 .. Len(pool)
          PROVE  /\ GoesOn(walk'[pool[i].walk], pool[i].marker)
                 /\ pool[i].recursive = walk'[pool[i].walk].recursive
      <3>1. pool[i].walk \in WalkIds /\ pool[i].marker \in Names
        <4>1. pool[i] \in PoolEntries BY PoolTyped DEF TreeInv
        <4>2. QED BY <4>1 DEF PoolEntries
      <3>2. /\ GoesOn(walk[pool[i].walk], pool[i].marker)
            /\ pool[i].recursive = walk[pool[i].walk].recursive
        BY DEF ListInv, PoolFits
      <3>3. QED BY <1>2, <1>4, <3>1, <3>2
    <2>2. QED BY <1>1, <2>1 DEF PoolFits
  <1>8. ClientsFit'
    <2>1. ASSUME NEW c \in Clients
          PROVE  /\ ~client'[c].disorder
                 /\ client'[c].pc \in {"receive", "set"} =>
                      WalkingFits(client'[c], walk'[client'[c].walk])
                 /\ client'[c].pc \in {"receive", "set", "truncated"} => ListingFits(client'[c])
                 /\ client'[c].pc = "complete" /\ ~walk'[client'[c].walk].stale =>
                      Listing(client'[c]) \subseteq client'[c].listed
      <3>1. /\ ~client[c].disorder
            /\ client[c].pc \in {"receive", "set"} =>
                 WalkingFits(client[c], walk[client[c].walk])
            /\ client[c].pc \in {"receive", "set", "truncated"} => ListingFits(client[c])
            /\ client[c].pc = "complete" /\ ~walk[client[c].walk].stale =>
                 Listing(client[c]) \subseteq client[c].listed
        BY DEF ListInv, ClientsFit
      <3>2. Listing(n(c)) \subseteq Listing(client[c]) BY <1>3 DEF Listing, OfListing
      <3>3. client[c].pc \in {"receive", "set"} =>
              WalkingFits(n(c), walk'[client[c].walk])
        <4>1. SUFFICES ASSUME client[c].pc \in {"receive", "set"}
                       PROVE  WalkingFits(n(c), V(client[c].walk))
          BY <1>3, <1>4
        <4>2. client[c].walk \in WalkIds BY <1>3, <4>1
        <4>3. WalkingFits(client[c], walk[client[c].walk]) BY <3>1, <4>1
        <4>4. QED BY <1>2, <1>3, <4>2, <4>3 DEF WalkingFits
      <3>4. ListingFits(client[c]) => ListingFits(n(c)) BY <1>3, <3>2 DEF ListingFits
      <3>5. client[c].pc = "complete" => walk'[client[c].walk].stale = walk[client[c].walk].stale
        BY <1>2, <1>3, <1>4
      <3>6. client'[c] = n(c) BY <1>4
      <3>7. QED BY <1>3, <3>1, <3>2, <3>3, <3>4, <3>5, <3>6
    <2>2. QED BY <2>1 DEF ClientsFit
  <1>9. QED BY <1>5, <1>6, <1>7, <1>8 DEF ListInv

\* Only the walks, the pool, the clients and the names matter.
LEMMA SameOrder ==
  ASSUME ListInv, UNCHANGED <<present, walk, pool, client>>
  PROVE  ListInv'
  BY DEF ListInv, NamesFit, WalksFit, PoolFits, ClientsFit

\* Nothing is out of order when nothing runs.
LEMMA FreshOrder ==
  ASSUME Fresh, \A k \in present : Ancestors[k] \subseteq present
  PROVE  ListInv
  <1> USE DEF Fresh
  <1>1. FreeWalk \in WalkStates /\ FreeWalk.work = {} /\ FreeWalk.resultCh = << >>
        /\ FreeWalk.alive = {}
    BY FreshTypes DEF FreeWalk
  <1>2. WorkFits(FreeWalk) /\ ChannelFits(FreeWalk)
    <2>1. \A a \in 1 .. Len(FreeWalk.resultCh) : FALSE BY <1>1
    <2>2. QED BY <1>1, <2>1 DEF WorkFits, ChannelFits
  <1>3. \A c \in Clients : /\ client[c].pc = "idle" /\ client[c].must = {}
                           /\ client[c].disorder = FALSE
    BY DEF NoListing
  <1>4. Len(pool) = 0 OBVIOUS
  <1>5. NamesFit BY <1>1, <1>3 DEF NamesFit
  <1>6. WalksFit BY <1>2 DEF WalksFit
  <1>7. PoolFits BY <1>4 DEF PoolFits
  <1>8. ClientsFit BY <1>3 DEF ClientsFit
  <1>9. QED BY <1>5, <1>6, <1>7, <1>8 DEF ListInv

\* The process is started again.
LEMMA RestartOrder == TreeInv /\ ListInv /\ Restart => ListInv'
  <1> DEFINE R == Fresh /\ \A k \in present : Ancestors[k] \subseteq present
  <1>1. TreeInv /\ ListInv /\ Restart => R' BY DEF Restart, TreeInv, Types, Fresh, ListInv, NamesFit
  <1>2. R => ListInv BY FreshOrder
  <1> HIDE DEF R
  <1>3. R' => ListInv' BY <1>2, PTL
  <1>4. QED BY <1>1, <1>3

-----------------------------------------------------------------------------
\* What a walk sends, what is in its channel and what its listing has are in
\* order, and nothing is lost between them that lasts and that listDir returned.
THEOREM ListInvAlways == Spec => []ListInv
  <1>1. Init => ListInv BY FreshOrder DEF Init, Fresh
  <1>2. TreeInv /\ ListInv /\ [Next]_vars => ListInv'
    <2> SUFFICES ASSUME TreeInv, ListInv, [Next]_vars
                 PROVE  ListInv'
      OBVIOUS
    <2>1. ASSUME NEW c \in Clients, ListObjects(c) \/ NextPage(c) \/ Handler(c)
          PROVE  ListInv'
      BY <2>1, ListPageOrder, ReceiveOrder, ReceiveClosedOrder, SetOrder DEF Handler
    <2>2. ASSUME NEW w \in WalkIds, Walker(w)
          PROVE  ListInv'
      BY <2>2, ListDirOrder, SendOrder, EndOrder DEF Walker
    <2>3. ASSUME NEW t \in TimerIds, Timer(t), ~crashed
          PROVE  ListInv'
      <3>1. CASE TimeOut(t) \/ TimerStopped(t) BY <3>1, SameOrder DEF TimeOut, TimerStopped
      <3>2. CASE Evict(t) BY <2>3, <3>2, EvictOrder
      <3>3. QED BY <2>3, <3>1, <3>2 DEF Timer
    <2>4. ASSUME NEW k \in Keys, Create(k) \/ Delete(k)
          PROVE  ListInv'
      BY <2>4, CreateOrder, DeleteOrder
    <2>5. CASE UNCHANGED vars BY <2>5, SameOrder DEF vars
    <2>6. QED BY <2>1, <2>2, <2>3, <2>4, <2>5, RestartOrder DEF Next
  <1>3. QED BY <1>1, <1>2, TreeInvHolds, PTL DEF Spec

\* Objects that exist throughout a listing, and that no failing FilesLs or FilesStat
\* hid from its walk, are listed in order and none twice, over all its pages and the walks that it goes on with.
THEOREM ListingInOrderAlways == Spec => []ListingInOrder
  <1>1. ListInv => ListingInOrder BY DEF ListInv, ClientsFit, ListingInOrder
  <1>2. QED BY <1>1, ListInvAlways, PTL

\* A listing that is said to be complete has every name that existed from its
\* beginning to its end and that no failing FilesLs or FilesStat hid from its walk,
\* unless a timer that fired late ended its walk.
THEOREM ListingCompleteAlways == Spec => []ListingComplete
  <1>1. ListInv => ListingComplete
    <2>1. \A c \in Clients : Owed(c) = Listing(client[c]) BY DEF Owed, Listing, OfListing
    <2>2. QED BY <2>1 DEF ListInv, ClientsFit, ListingComplete
  <1>2. QED BY <1>1, ListInvAlways, PTL
=============================================================================

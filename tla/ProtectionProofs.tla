-------------------------- MODULE ProtectionProofs --------------------------
(***************************************************************************)
(* Proofs about what protects objects: LockedIsKept, for any number of     *)
(* handlers, objects, requests and settings; ReadBackAsPut, for any        *)
(* objects, keys, requests and number of operations; SignaturesDecide,     *)
(* for any users, bodies and times; and the namespace lock, for any number *)
(* of goroutines, paths and lock objects: LockInv is inductive, and it     *)
(* implies mutual exclusion, the absence of unlocking panics and the       *)
(* reference counts.                                                       *)
(***************************************************************************)
EXTENDS Retention, Encryption, Signatures, NSLock, FiniteSetTheorems, NaturalsInduction,
        TLAPS

(***************************************************************************)
(* Retention and legal holds.                                              *)
(***************************************************************************)
\* The modes, holds and permissions that occur.
Modes == {Unset} \cup {r.header.mode : r \in LockRequests} \cup {cfg.mode : cfg \in LockConfigs}
Holds == {Unset} \cup {r.header.hold : r \in LockRequests}
PermSets == {r.perms : r \in LockRequests}

Metas == [mode : Modes, until : Int, hold : Holds]
RequestHeaders == [mode : Modes, until : Int, hold : Holds, bypass : BOOLEAN]
Configs == [worm : BOOLEAN, mode : Modes, validity : Nat]
LockedObjects == [content : {0, 1, 2}, meta : Metas, created : Int]
Working == [pc : {"check", "act"}, op : LockOps, header : RequestHeaders, perms : PermSets,
            todo : SUBSET LockedNames, list : SUBSET LockedNames, meta : Metas]

RetentionTypeOK ==
  /\ locked \in [LockedNames -> LockedObjects]
  /\ lockConfig \in Configs
  /\ handlers \in [Handlers -> Working \cup {NoRequest}]
  /\ time \in Int

\* Nothing is known of an object that does not exist.
NothingOfMissing == \A o \in LockedNames : locked[o].content = 0 => locked[o] = NoObject

Asks(h) == IsObjectLockRetentionRequested(h) \/ IsObjectLockLegalHoldRequested(h)

\* What the request r decided on object o is still right: o is not locked
\* against it, or a new retention is no weaker than that of o.
StillRight(r, o) ==
  /\ r.op \in {"put", "upload", "delete", "multi", "remove"} =>
       /\ ~Held(o) /\ ~Retained(o, "COMPLIANCE")
       /\ Retained(o, "GOVERNANCE") =>
            r.header.bypass \/ r.header.hold \notin {Unset, "ON", "OFF"}
  /\ r.op = "retention" =>
       /\ Exists(o)
       /\ Retained(o, "COMPLIANCE") =>
            r.header.mode = "COMPLIANCE" /\ r.header.until >= locked[o].meta.until
       /\ Retained(o, "GOVERNANCE") /\ ~r.header.bypass =>
            r.header.until >= locked[o].meta.until

\* While the settings are in memory, a decision that was made and not overtaken
\* is right for every object it is about.
DecisionRight(p) ==
  (lockConfig.worm /\ handlers[p].pc # "idle" /\ ~Excused(p)) =>
    \A o \in handlers[p].list : StillRight(handlers[p], o)

DecisionsRight == \A p \in Handlers : DecisionRight(p)

RetentionInv == RetentionTypeOK /\ NothingOfMissing /\ DecisionsRight

\* A request whose handler does not ask.
DoesNotAsk(r) == r.op = "prefix" \/ (r.op = "upload" /\ ~Asks(r.header))

-----------------------------------------------------------------------------
(* The decisions *)

\* The empty string is no mode and no hold.
LEMMA UnsetIsNone == Unset \notin {"GOVERNANCE", "COMPLIANCE", "ON", "OFF"}
  BY Zenon DEF Unset

\* The types of what there is when nothing is there.
LEMMA NoTypes ==
  /\ NoMeta \in Metas /\ NoMeta.hold = Unset /\ NoMeta.mode = Unset /\ NoMeta.until = -1
  /\ NoObject \in LockedObjects /\ NoObject.content = 0 /\ NoObject.meta = NoMeta
  /\ NotWORM \in Configs
  /\ NoRequest.pc = "idle"
  /\ \A r \in Working : r.pc # "idle" /\ r # NoRequest
  <1>1. NoMeta = [mode |-> Unset, until |-> -1, hold |-> Unset] BY DEF NoMeta, Meta, NoDate
  <1>2. Unset \in Modes /\ Unset \in Holds BY DEF Modes, Holds
  <1>3. NoMeta \in Metas /\ NoMeta.hold = Unset /\ NoMeta.mode = Unset /\ NoMeta.until = -1
    BY <1>1, <1>2 DEF Metas
  <1>4. NoObject \in LockedObjects /\ NoObject.content = 0 /\ NoObject.meta = NoMeta
    BY <1>3 DEF NoObject, LockedObjects
  <1>5. NotWORM \in Configs BY <1>2 DEF NotWORM, Configs
  <1>6. NoRequest.pc = "idle" /\ \A r \in Working : r.pc # "idle" /\ r # NoRequest
    BY DEF NoRequest, Working
  <1>7. QED BY <1>3, <1>4, <1>5, <1>6

\* An upload that is let through while the settings are in memory is one of an
\* object that is not locked against it.
LEMMA PutDecision ==
  ASSUME RetentionTypeOK, NEW h \in RequestHeaders, NEW old \in Metas, NEW read,
         NEW perms, NEW clock,
         checkPutObjectLockAllowed(h, old, read, perms, clock).err = "ErrNone"
  PROVE  /\ checkPutObjectLockAllowed(h, old, read, perms, clock).meta \in Metas
         /\ lockConfig.worm /\ read =>
              /\ old.hold # "ON"
              /\ ~(old.mode = "COMPLIANCE" /\ old.until > time)
              /\ old.until > time => h.hold \notin {Unset, "ON", "OFF"}
  <1> DEFINE d == checkPutObjectLockAllowed(h, old, read, perms, clock)
             meta == IF read THEN old ELSE NoMeta
             hold == IF IsObjectLockLegalHoldRequested(h) THEN h.hold ELSE meta.hold
  <1>1. PICK m \in Metas : m = meta BY NoTypes
  <1>2. PICK k \in Holds : k = hold BY <1>1 DEF Metas, RequestHeaders
  <1>3. /\ lockConfig.mode \in Modes /\ time + lockConfig.validity \in Int
        /\ Unset \in Modes /\ Unset \in Holds
    BY DEF RetentionTypeOK, Configs, Modes, Holds
  <1>4. \A e : Refused(e).err = e BY DEF Refused
  <1>5. \A x : Allowed(x).meta = x BY DEF Allowed
  <1>6. \A mo \in Modes, u \in Int, ho \in Holds : Meta(mo, u, ho) \in Metas BY DEF Meta, Metas
  <1>7. NoDate \in Int BY DEF NoDate
  <1>8. \/ d.meta = NoMeta
        \/ d.meta = Meta(m.mode, m.until, Unset)
        \/ d.meta = Meta(h.mode, h.until, h.hold)
        \/ d.meta = Meta(lockConfig.mode, time + lockConfig.validity, k)
        \/ d.meta = Meta(Unset, NoDate, k)
    BY <1>1, <1>2, <1>4, <1>5 DEF checkPutObjectLockAllowed
  <1>9. d.meta \in Metas BY <1>3, <1>6, <1>7, <1>8, NoTypes DEF Metas, RequestHeaders
  <1>10. ASSUME lockConfig.worm, read
         PROVE  /\ old.hold # "ON"
                /\ ~(old.mode = "COMPLIANCE" /\ old.until > time)
                /\ old.until > time => h.hold \notin {Unset, "ON", "OFF"}
    <2>1. /\ ~(old.mode = "COMPLIANCE" /\ old.until > time) /\ old.hold # "ON"
          /\ \/ IsObjectLockLegalHoldRequested(h) /\ ~ValidHold(h.hold)
             \/ ~(old.until > time)
      BY <1>4, <1>10 DEF checkPutObjectLockAllowed
    <2>2. QED BY <2>1 DEF IsObjectLockLegalHoldRequested, ValidHold
  <1>11. QED BY <1>9, <1>10

\* A deletion that is let through is one of an object that is not locked against
\* it.
LEMMA DeleteDecision ==
  ASSUME NEW h \in RequestHeaders, NEW meta \in Metas, NEW perms, NEW clock,
         NEW web, time \in Int,
         enforceRetentionBypassForDelete(h, meta, perms, clock, web) = "ErrNone"
  PROVE  /\ meta.hold # "ON"
         /\ ~(meta.mode = "COMPLIANCE" /\ meta.until > time)
         /\ meta.mode = "GOVERNANCE" /\ meta.until > time => h.bypass
  <1>1. meta.until \in Int BY DEF Metas
  <1>2. meta.hold # "ON" BY DEF enforceRetentionBypassForDelete
  <1>3. meta.mode = "COMPLIANCE" \/ (meta.mode = "GOVERNANCE" /\ ~h.bypass) => meta.until < time
    BY <1>2 DEF enforceRetentionBypassForDelete
  <1>4. QED BY <1>1, <1>2, <1>3

\* A new retention that is let through is no weaker.
LEMMA RetentionDecision ==
  ASSUME NEW h, NEW meta \in Metas, NEW perms, NEW clock, time \in Int,
         enforceRetentionBypassForPut(h, meta, perms, clock)
  PROVE  /\ meta.mode = "COMPLIANCE" /\ meta.until > time =>
              h.mode = "COMPLIANCE" /\ h.until >= meta.until
         /\ meta.mode = "GOVERNANCE" /\ meta.until > time /\ ~h.bypass => h.until >= meta.until
  <1>1. meta.until > time => ~(meta.until < time) BY DEF Metas
  <1>2. meta.mode = "COMPLIANCE" /\ ~(meta.until < time) =>
          h.mode = "COMPLIANCE" /\ h.until >= meta.until
    BY DEF enforceRetentionBypassForPut, ValidMode
  <1>3. meta.mode = "GOVERNANCE" /\ ~(meta.until < time) =>
          h.bypass \/ (h.mode = "GOVERNANCE" /\ h.until >= meta.until)
    BY DEF enforceRetentionBypassForPut, ValidMode
  <1>4. QED BY <1>1, <1>2, <1>3

-----------------------------------------------------------------------------
(* Decisions that others leave alone *)

\* A request that does not move, and whose objects nobody changes, has decided
\* as well as before: time only ends retentions.
LEMMA QuietDecision ==
  ASSUME NEW q \in Handlers, DecisionRight(q), RetentionTypeOK, handlers'[q] = handlers[q],
         q \notin outdated' => q \notin outdated, time' \in Int, time' >= time,
         q \notin outdated' => \A o \in handlers[q].list :
             locked'[o] = locked[o] /\ o \in LockedNames /\ lockConfig' = lockConfig
  PROVE  DecisionRight(q)'
  <1> SUFFICES ASSUME lockConfig'.worm, handlers[q].pc # "idle", ~Excused(q)',
                      NEW o \in handlers[q].list
               PROVE  StillRight(handlers[q], o)'
    BY DEF DecisionRight
  <1>1. ~Excused(q) /\ q \notin outdated' BY DEF Excused
  <1>2. locked'[o] = locked[o] /\ o \in LockedNames /\ lockConfig' = lockConfig BY <1>1
  <1>3. StillRight(handlers[q], o) BY <1>1, <1>2 DEF DecisionRight
  <1>4. locked[o].meta.until \in Int /\ time \in Int
    BY <1>2 DEF RetentionTypeOK, LockedObjects, Metas
  <1>5. \A mode : Retained(o, mode)' => Retained(o, mode) BY <1>2, <1>4 DEF Retained
  <1>6. (Held(o)' <=> Held(o)) /\ (Exists(o)' <=> Exists(o)) BY <1>2 DEF Held, Exists
  <1>7. QED BY <1>2, <1>3, <1>5, <1>6 DEF StillRight

\* The objects of a request are names.
LEMMA WorkingLists ==
  ASSUME RetentionTypeOK, NEW p \in Handlers, handlers[p].pc # "idle"
  PROVE  handlers[p] \in Working /\ handlers[p].list \subseteq LockedNames
  BY NoTypes DEF RetentionTypeOK, Working

\* A handler decided, and has what it decided on in its list.
LEMMA MovesInv ==
  ASSUME RetentionInv, NEW p \in Handlers, handlers[p].pc # "idle",
         NEW m \in Working \cup {NoRequest}, Moves(p, m), outdated \subseteq outdated',
         (m # NoRequest /\ lockConfig.worm /\ p \notin outdated' /\ ~DoesNotAsk(m)) =>
             \A o \in m.list : StillRight(m, o)
  PROVE  RetentionInv'
  <1>1. /\ locked' = locked /\ lockConfig' = lockConfig /\ time' = time
        /\ handlers' = [handlers EXCEPT ![p] = m]
    BY DEF Moves, Settings
  <1>2. /\ handlers' \in [Handlers -> Working \cup {NoRequest}] /\ handlers'[p] = m
        /\ \A q \in Handlers \ {p} : handlers'[q] = handlers[q]
    BY <1>1 DEF RetentionInv, RetentionTypeOK
  <1>3. RetentionTypeOK' /\ NothingOfMissing'
    BY <1>1, <1>2 DEF RetentionInv, RetentionTypeOK, NothingOfMissing
  <1>4. ASSUME NEW q \in Handlers \ {p} PROVE DecisionRight(q)'
    <2>1. time' \in Int /\ time' >= time /\ DecisionRight(q) /\ RetentionTypeOK
      BY <1>1 DEF RetentionInv, RetentionTypeOK, DecisionsRight
    <2>2. CASE handlers[q].pc = "idle" BY <1>2, <2>2 DEF DecisionRight
    <2>3. CASE handlers[q].pc # "idle"
      <3>1. \A o \in handlers[q].list : o \in LockedNames BY <2>1, <2>3, WorkingLists
      <3>2. QED BY <1>1, <1>2, <2>1, <3>1, QuietDecision
    <2>4. QED BY <2>2, <2>3
  <1>5. DecisionRight(p)'
    <2> SUFFICES ASSUME lockConfig.worm, m.pc # "idle", ~Excused(p)', NEW o \in m.list
                 PROVE  StillRight(m, o)'
      BY <1>1, <1>2 DEF DecisionRight
    <2>1. m # NoRequest /\ p \notin outdated' /\ ~DoesNotAsk(m)
      BY <1>2, NoTypes DEF Excused, DoesNotAsk, Asks
    <2>2. StillRight(m, o) BY <2>1
    <2>3. QED BY <1>1, <2>2 DEF StillRight, Held, Retained, Exists
  <1>6. QED BY <1>3, <1>4, <1>5 DEF RetentionInv, DecisionsRight

-----------------------------------------------------------------------------
(* One lemma for each action *)

\* No object is there at the start.
LEMMA RetentionInitInv == RetentionInit => RetentionInv
  <1> SUFFICES ASSUME RetentionInit PROVE RetentionInv
    OBVIOUS
  <1>1. RetentionTypeOK BY NoTypes DEF RetentionInit, RetentionTypeOK
  <1>2. NothingOfMissing BY DEF RetentionInit, NothingOfMissing
  <1>3. DecisionsRight BY NoTypes DEF RetentionInit, DecisionsRight, DecisionRight
  <1>4. QED BY <1>1, <1>2, <1>3 DEF RetentionInv

\* A request comes with the headers that the parsers let through.
LEMMA ReceiveInv ==
  ASSUME RetentionInv, NEW p \in Handlers, Receive(p)
  PROVE  RetentionInv'
  <1>1. PICK r \in LockRequests : handlers' = [handlers EXCEPT ![p] =
            [pc |-> "check", op |-> r.op, header |-> r.header, perms |-> r.perms,
             todo |-> r.names, list |-> {}, meta |-> NoMeta]]
    BY DEF Receive
  <1>2. /\ locked' = locked /\ lockConfig' = lockConfig /\ time' = time
        /\ outdated' = outdated \ {p}
    BY DEF Receive, Settings
  <1> DEFINE m == [pc |-> "check", op |-> r.op, header |-> r.header, perms |-> r.perms,
                   todo |-> r.names, list |-> {}, meta |-> NoMeta]
  <1>3. m \in Working /\ m.list = {}
    <2>1. r.header \in RequestHeaders
      <3>1. r.header \in [mode : STRING, until : Int, hold : STRING, bypass : BOOLEAN]
        BY LockRequestsAssumption
      <3>2. r.header.mode \in Modes /\ r.header.hold \in Holds BY DEF Modes, Holds
      <3>3. QED BY <3>1, <3>2 DEF RequestHeaders
    <2>2. r.perms \in PermSets /\ r.op \in LockOps /\ r.names \subseteq LockedNames
      BY LockRequestsAssumption DEF PermSets
    <2>3. QED BY <2>1, <2>2, NoTypes DEF Working
  <1> HIDE DEF m
  <1>4. /\ handlers' \in [Handlers -> Working \cup {NoRequest}] /\ handlers'[p] = m
        /\ \A q \in Handlers \ {p} : handlers'[q] = handlers[q]
    BY <1>1, <1>3 DEF RetentionInv, RetentionTypeOK, m
  <1>5. RetentionTypeOK' /\ NothingOfMissing'
    BY <1>2, <1>4 DEF RetentionInv, RetentionTypeOK, NothingOfMissing
  <1>6. ASSUME NEW q \in Handlers \ {p} PROVE DecisionRight(q)'
    <2>1. time' \in Int /\ time' >= time /\ DecisionRight(q) /\ RetentionTypeOK
      BY <1>2 DEF RetentionInv, RetentionTypeOK, DecisionsRight
    <2>2. CASE handlers[q].pc = "idle" BY <1>4, <2>2 DEF DecisionRight
    <2>3. CASE handlers[q].pc # "idle"
      <3>1. \A o \in handlers[q].list : o \in LockedNames BY <2>1, <2>3, WorkingLists
      <3>2. QED BY <1>2, <1>4, <2>1, <3>1, QuietDecision
    <2>4. QED BY <2>2, <2>3
  <1>7. DecisionRight(p)' BY <1>3, <1>4 DEF DecisionRight
  <1>8. QED BY <1>5, <1>6, <1>7 DEF RetentionInv, DecisionsRight

\* PutObject and Upload decide.
LEMMA CheckPutInv ==
  ASSUME RetentionInv, NEW p \in Handlers, CheckPut(p)
  PROVE  RetentionInv'
  <1> DEFINE r == handlers[p]
             h == r.header
             perms == IF r.op = "put" /\ ~IsObjectLockRetentionRequested(h)
                      THEN r.perms \cup {"PutObjectRetention"} ELSE r.perms
  <1>1. r.pc = "check" /\ r.op \in {"put", "upload"} BY DEF CheckPut
  <1>2. r \in Working /\ RetentionTypeOK /\ h \in RequestHeaders
    BY <1>1, WorkingLists DEF RetentionInv, Working
  <1>3. PICK o \in r.todo, clock \in BOOLEAN, read \in BOOLEAN :
          LET found == Exists(o) /\ read
              d == IF r.op = "upload" /\ ~Asks(h) THEN Allowed(NoMeta)
                   ELSE checkPutObjectLockAllowed(h, locked[o].meta, found, perms, clock)
          IN /\ Moves(p, IF d.err # "ErrNone" THEN NoRequest
                        ELSE [r EXCEPT !.pc = "act", !.todo = {}, !.list = {o}, !.meta = d.meta])
             /\ outdated' = IF Exists(o) /\ ~read /\ d.err = "ErrNone"
                            THEN outdated \cup {p} ELSE outdated
    BY DEF CheckPut, Asks
  <1>4. o \in LockedNames BY <1>2 DEF Working
  <1>5. /\ locked[o] \in LockedObjects /\ locked[o].meta \in Metas
        /\ ~Exists(o) => locked[o].meta = NoMeta
    BY <1>4, NoTypes DEF RetentionInv, RetentionTypeOK, LockedObjects, NothingOfMissing, Exists
  <1> DEFINE found == Exists(o) /\ read
             c == checkPutObjectLockAllowed(h, locked[o].meta, found, perms, clock)
             d == IF r.op = "upload" /\ ~Asks(h) THEN Allowed(NoMeta) ELSE c
             m == [r EXCEPT !.pc = "act", !.todo = {}, !.list = {o}, !.meta = d.meta]
  <1>6. c.err = "ErrNone" =>
          /\ c.meta \in Metas
          /\ lockConfig.worm /\ found =>
              /\ locked[o].meta.hold # "ON"
              /\ ~(locked[o].meta.mode = "COMPLIANCE" /\ locked[o].meta.until > time)
              /\ locked[o].meta.until > time => h.hold \notin {Unset, "ON", "OFF"}
    BY <1>2, <1>5, PutDecision
  <1>7. Allowed(NoMeta).meta \in Metas BY NoTypes DEF Allowed
  <1> HIDE DEF c
  <1>8. outdated \subseteq outdated' BY <1>3 DEF c
  <1>9. CASE d.err # "ErrNone"
    <2>1. Moves(p, NoRequest) BY <1>3, <1>9 DEF c
    <2>2. QED BY <1>1, <1>8, <2>1, MovesInv
  <1>10. CASE d.err = "ErrNone"
    <2>1. Moves(p, m) /\ (outdated' = IF Exists(o) /\ ~read THEN outdated \cup {p} ELSE outdated)
      BY <1>3, <1>10 DEF c
    <2>2. d.meta \in Metas BY <1>6, <1>7, <1>10
    <2>3. m \in Working /\ m.op = r.op /\ m.header = h /\ m.list = {o}
      <3> HIDE DEF d
      <3> QED BY <1>2, <1>4, <2>2 DEF Working
    <2> HIDE DEF m
    <2>4. ASSUME lockConfig.worm, p \notin outdated', ~DoesNotAsk(m)
          PROVE  StillRight(m, o)
      <3>1. d = c BY <2>3, <2>4 DEF DoesNotAsk
      <3>2. ~Exists(o) \/ found BY <2>1, <2>4
      <3>3. /\ locked[o].meta.hold # "ON"
            /\ ~(locked[o].meta.mode = "COMPLIANCE" /\ locked[o].meta.until > time)
            /\ locked[o].meta.mode = "GOVERNANCE" /\ locked[o].meta.until > time =>
                  h.hold \notin {Unset, "ON", "OFF"}
        <4>1. CASE ~Exists(o) BY <1>5, <4>1, NoTypes, UnsetIsNone
        <4>2. CASE found BY <1>6, <1>10, <2>4, <3>1, <4>2
        <4>3. QED BY <3>2, <4>1, <4>2
      <3>4. QED BY <1>1, <2>3, <3>3 DEF StillRight, Held, Retained
    <2>5. QED BY <1>1, <1>8, <2>1, <2>3, <2>4, MovesInv
  <1>11. QED BY <1>9, <1>10

\* The deletions decide, object by object.
LEMMA CheckDeleteInv ==
  ASSUME RetentionInv, NEW p \in Handlers, CheckDelete(p)
  PROVE  RetentionInv'
  <1> DEFINE r == handlers[p]
             web == r.op = "remove"
  <1>1. r.pc = "check" /\ r.op \in {"delete", "multi", "remove"} /\ outdated' = outdated
    BY DEF CheckDelete
  <1>2. r \in Working /\ RetentionTypeOK /\ r.header \in RequestHeaders
    BY <1>1, WorkingLists DEF RetentionInv, Working
  <1>3. PICK o \in r.todo, clock \in BOOLEAN, read \in BOOLEAN :
          LET err == IF web /\ r.perms \cap {"BypassGovernanceRetention",
                                "GetBucketObjectLockConfiguration"} = {} THEN "ErrAccessDenied"
                     ELSE IF ~lockConfig.worm THEN "ErrNone"
                     ELSE IF ~Exists(o) THEN "ErrNoSuchKey"
                     ELSE IF ~read THEN "ErrInternalError"
                     ELSE enforceRetentionBypassForDelete(
                            r.header, locked[o].meta, r.perms, clock, web)
              todo == IF web /\ err \notin {"ErrNone", "ErrNoSuchKey"} THEN {} ELSE r.todo \ {o}
              list == IF err = "ErrNone" THEN r.list \cup {o} ELSE r.list
          IN Moves(p, IF list # {} /\ (web \/ todo = {})
                     THEN [r EXCEPT !.pc = "act", !.todo = todo, !.list = list]
                     ELSE IF todo = {} THEN NoRequest
                     ELSE [r EXCEPT !.todo = todo, !.list = list])
    BY DEF CheckDelete
  <1> DEFINE err == IF web /\ r.perms \cap {"BypassGovernanceRetention",
                                "GetBucketObjectLockConfiguration"} = {} THEN "ErrAccessDenied"
                     ELSE IF ~lockConfig.worm THEN "ErrNone"
                     ELSE IF ~Exists(o) THEN "ErrNoSuchKey"
                     ELSE IF ~read THEN "ErrInternalError"
                     ELSE enforceRetentionBypassForDelete(
                            r.header, locked[o].meta, r.perms, clock, web)
             todo == IF web /\ err \notin {"ErrNone", "ErrNoSuchKey"} THEN {} ELSE r.todo \ {o}
             list == IF err = "ErrNone" THEN r.list \cup {o} ELSE r.list
             m1 == [r EXCEPT !.pc = "act", !.todo = todo, !.list = list]
             m2 == [r EXCEPT !.todo = todo, !.list = list]
  <1>4. o \in LockedNames /\ locked[o].meta \in Metas
    BY <1>2 DEF Working, RetentionTypeOK, LockedObjects
  <1>5. ASSUME lockConfig.worm, err = "ErrNone" PROVE StillRight(r, o)
    <2>1. enforceRetentionBypassForDelete(r.header, locked[o].meta, r.perms, clock, web) = "ErrNone"
      BY <1>5
    <2>2. /\ locked[o].meta.hold # "ON"
          /\ ~(locked[o].meta.mode = "COMPLIANCE" /\ locked[o].meta.until > time)
          /\ locked[o].meta.mode = "GOVERNANCE" /\ locked[o].meta.until > time => r.header.bypass
      BY <1>2, <1>4, <2>1, DeleteDecision DEF RetentionTypeOK
    <2>3. QED BY <1>1, <2>2 DEF StillRight, Held, Retained
  <1> HIDE DEF err
  <1>6. todo \subseteq LockedNames /\ list \subseteq LockedNames BY <1>2, <1>4 DEF Working
  <1>7. ASSUME lockConfig.worm, p \notin outdated, NEW x \in list PROVE StillRight(r, x)
    <2>1. CASE x \in r.list
      <3>1. ~Excused(p) /\ DecisionRight(p) BY <1>1, <1>7 DEF Excused, RetentionInv, DecisionsRight
      <3>2. QED BY <1>1, <1>7, <2>1, <3>1 DEF DecisionRight
    <2>2. CASE x = o /\ err = "ErrNone" BY <1>5, <1>7, <2>2
    <2>3. QED BY <2>1, <2>2
  <1>8. Moves(p, m1) \/ Moves(p, NoRequest) \/ Moves(p, m2) BY <1>3 DEF err
  <1> HIDE DEF todo, list
  <1>9. /\ m1 \in Working /\ m1.op = r.op /\ m1.header = r.header /\ m1.list = list
        /\ m2 \in Working /\ m2.op = r.op /\ m2.header = r.header /\ m2.list = list
    BY <1>2, <1>6 DEF Working
  <1> HIDE DEF m1, m2
  <1>10. ASSUME NEW m \in {m1, m2}, lockConfig.worm, p \notin outdated, NEW x \in m.list
         PROVE  StillRight(m, x)
    <2>1. StillRight(r, x) /\ m.op = r.op /\ m.header = r.header BY <1>7, <1>9, <1>10
    <2>2. QED BY <2>1 DEF StillRight
  <1>11. PICK m \in {m1, m2, NoRequest} : Moves(p, m) BY <1>8
  <1>12. m \in Working \cup {NoRequest} BY <1>9
  <1>13. (m # NoRequest /\ lockConfig.worm /\ p \notin outdated' /\ ~DoesNotAsk(m)) =>
            \A x \in m.list : StillRight(m, x)
    BY <1>1, <1>10
  <1>14. QED BY <1>1, <1>11, <1>12, <1>13, MovesInv

\* RemoveObject of a folder does not decide.
LEMMA CheckPrefixInv ==
  ASSUME RetentionInv, NEW p \in Handlers, CheckPrefix(p)
  PROVE  RetentionInv'
  <1> DEFINE r == handlers[p]
             found == {o \in r.todo : Exists(o)}
             m == [r EXCEPT !.pc = "act", !.todo = {}, !.list = found]
  <1>1. r.pc = "check" /\ r.op = "prefix" /\ outdated' = outdated BY DEF CheckPrefix
  <1>2. r \in Working BY <1>1, WorkingLists DEF RetentionInv
  <1>3. Moves(p, NoRequest) \/ Moves(p, m) BY DEF CheckPrefix
  <1>4. m \in Working /\ m.op = "prefix"
    <2>1. found \subseteq LockedNames BY <1>2 DEF Working
    <2> HIDE DEF found
    <2>2. QED BY <1>1, <1>2, <2>1 DEF Working
  <1> HIDE DEF m
  <1>5. QED BY <1>1, <1>3, <1>4, MovesInv DEF DoesNotAsk

\* A new retention is decided on.
LEMMA CheckRetentionInv ==
  ASSUME RetentionInv, NEW p \in Handlers, CheckRetention(p)
  PROVE  RetentionInv'
  <1> DEFINE r == handlers[p]
  <1>1. r.pc = "check" /\ r.op = "retention" /\ outdated' = outdated BY DEF CheckRetention
  <1>2. r \in Working /\ RetentionTypeOK BY <1>1, WorkingLists DEF RetentionInv
  <1>3. PICK o \in r.todo, clock \in BOOLEAN :
          Moves(p, IF /\ Exists(o) /\ ParsesRetentionHeaders(r.header, clock)
                     /\ enforceRetentionBypassForPut(r.header, locked[o].meta, r.perms, clock)
                  THEN [r EXCEPT !.pc = "act", !.todo = {}, !.list = {o}]
                  ELSE NoRequest)
    BY DEF CheckRetention
  <1>4. o \in LockedNames /\ locked[o].meta \in Metas
    BY <1>2 DEF Working, RetentionTypeOK, LockedObjects
  <1> DEFINE m == [r EXCEPT !.pc = "act", !.todo = {}, !.list = {o}]
  <1>5. m \in Working /\ m.op = "retention" /\ m.header = r.header /\ m.list = {o}
    BY <1>1, <1>2, <1>4 DEF Working
  <1> HIDE DEF m
  <1>6. \/ Moves(p, NoRequest)
        \/ /\ Moves(p, m) /\ Exists(o)
           /\ enforceRetentionBypassForPut(r.header, locked[o].meta, r.perms, clock)
    BY <1>3 DEF m
  <1>7. CASE Moves(p, NoRequest) BY <1>1, <1>7, MovesInv
  <1>8. CASE /\ Moves(p, m) /\ Exists(o)
             /\ enforceRetentionBypassForPut(r.header, locked[o].meta, r.perms, clock)
    <2>1. /\ locked[o].meta.mode = "COMPLIANCE" /\ locked[o].meta.until > time =>
                r.header.mode = "COMPLIANCE" /\ r.header.until >= locked[o].meta.until
          /\ locked[o].meta.mode = "GOVERNANCE" /\ locked[o].meta.until > time /\ ~r.header.bypass =>
                r.header.until >= locked[o].meta.until
      BY <1>2, <1>4, <1>8, RetentionDecision DEF RetentionTypeOK
    <2>2. StillRight(m, o) BY <1>5, <1>8, <2>1 DEF StillRight, Retained
    <2>3. QED BY <1>1, <1>5, <1>8, <2>2, MovesInv
  <1>9. QED BY <1>6, <1>7, <1>8

\* What a handler makes of an object is an object or none.
LEMMA ResultIsObject ==
  ASSUME RetentionTypeOK, NEW r \in Working, NEW o \in LockedNames
  PROVE  /\ Result(r, o) \in LockedObjects
         /\ Result(r, o).content = 0 => Result(r, o) = NoObject
         /\ r.op = "retention" /\ Exists(o) =>
              /\ Result(r, o).content = locked[o].content
              /\ Result(r, o).meta.hold = locked[o].meta.hold
              /\ Result(r, o).meta.mode = r.header.mode
              /\ Result(r, o).meta.until = r.header.until
  <1>1. /\ locked[o] \in LockedObjects /\ time \in Int /\ r.meta \in Metas
        /\ r.header \in RequestHeaders
    BY DEF RetentionTypeOK, Working
  <1>2. CASE r.op \in {"put", "upload"}
    <2>1. Result(r, o) = [content |-> IF locked[o].content = 1 THEN 2 ELSE 1,
                          meta |-> r.meta, created |-> time]
      BY <1>2 DEF Result
    <2>2. QED BY <1>1, <1>2, <2>1 DEF LockedObjects
  <1>3. CASE r.op = "retention" /\ Exists(o)
    <2> DEFINE m == [locked[o].meta EXCEPT !.mode = r.header.mode, !.until = r.header.until]
               x == [locked[o] EXCEPT !.meta = m]
    <2>1. Result(r, o) = x BY <1>1, <1>3 DEF Result, LockedObjects, Metas
    <2>2. /\ m \in Metas /\ m.mode = r.header.mode /\ m.until = r.header.until
          /\ m.hold = locked[o].meta.hold
      BY <1>1 DEF LockedObjects, Metas, RequestHeaders
    <2> HIDE DEF m
    <2>3. x \in LockedObjects /\ x.meta = m /\ x.content = locked[o].content
      BY <1>1, <2>2 DEF LockedObjects
    <2>4. QED BY <1>3, <2>1, <2>2, <2>3 DEF Exists
  <1>4. CASE r.op \notin {"put", "upload"} /\ ~(r.op = "retention" /\ Exists(o))
    <2>1. Result(r, o) = NoObject BY <1>4 DEF Result
    <2>2. QED BY <1>4, <2>1, NoTypes
  <1>5. QED BY <1>2, <1>3, <1>4

\* An object is written, gets a new retention or is removed: who decided on it
\* before is overtaken.
LEMMA ActInv ==
  ASSUME RetentionInv, NEW p \in Handlers, Act(p)
  PROVE  RetentionInv'
  <1> DEFINE r == handlers[p]
  <1>1. r.pc = "act" /\ r \in Working /\ RetentionTypeOK /\ r.list \subseteq LockedNames
    BY WorkingLists DEF RetentionInv, Act
  <1>2. PICK o \in r.list :
          LET rest == r.list \ {o}
          IN /\ locked' = [locked EXCEPT ![o] = Result(r, o)]
             /\ handlers' = [handlers EXCEPT ![p] =
                  IF rest # {} THEN [r EXCEPT !.list = rest]
                  ELSE IF r.todo # {} THEN [r EXCEPT !.pc = "check", !.list = {}]
                  ELSE NoRequest]
             /\ outdated' = (IF rest = {} THEN outdated \ {p} ELSE outdated)
                              \cup Overtaken(p, {o})
    BY DEF Act
  <1>3. o \in LockedNames /\ lockConfig' = lockConfig /\ time' = time
    BY <1>1, <1>2 DEF Act, Settings
  <1> DEFINE rest == r.list \ {o}
             m1 == [r EXCEPT !.list = rest]
             m2 == [r EXCEPT !.pc = "check", !.list = {}]
  <1>4. /\ m1 \in Working /\ m1.op = r.op /\ m1.header = r.header /\ m1.list = rest
        /\ m2 \in Working /\ m2.list = {}
    <2>1. rest \subseteq LockedNames BY <1>1
    <2> HIDE DEF rest
    <2>2. QED BY <1>1, <2>1 DEF Working
  <1>5. PICK m : m = IF rest # {} THEN m1 ELSE IF r.todo # {} THEN m2 ELSE NoRequest OBVIOUS
  <1>6. handlers' = [handlers EXCEPT ![p] = m] BY <1>2, <1>5
  <1> HIDE DEF m1, m2
  <1>7. /\ handlers' \in [Handlers -> Working \cup {NoRequest}] /\ handlers'[p] = m
        /\ \A q \in Handlers \ {p} : handlers'[q] = handlers[q]
    BY <1>4, <1>5, <1>6 DEF RetentionInv, RetentionTypeOK
  <1>8. /\ locked' \in [LockedNames -> LockedObjects] /\ locked'[o] = Result(r, o)
        /\ \A x \in LockedNames \ {o} : locked'[x] = locked[x]
    BY <1>1, <1>2, <1>3, ResultIsObject DEF RetentionTypeOK
  <1>9. RetentionTypeOK' BY <1>3, <1>7, <1>8 DEF RetentionInv, RetentionTypeOK
  <1>10. NothingOfMissing' BY <1>1, <1>3, <1>8, ResultIsObject DEF RetentionInv, NothingOfMissing
  <1>11. ASSUME NEW q \in Handlers \ {p} PROVE DecisionRight(q)'
    <2>1. time' \in Int /\ time' >= time /\ DecisionRight(q)
      BY <1>3 DEF RetentionInv, RetentionTypeOK, DecisionsRight
    <2>2. CASE handlers[q].pc = "idle" BY <1>7, <2>2 DEF DecisionRight
    <2>3. CASE handlers[q].pc # "idle"
      <3>1. \A x \in handlers[q].list : x \in LockedNames BY <1>1, <2>3, WorkingLists
      <3>2. q \notin outdated' => q \notin outdated /\ o \notin handlers[q].list
        BY <1>2, <2>3 DEF Overtaken
      <3>3. q \notin outdated' => \A x \in handlers[q].list :
              locked'[x] = locked[x] /\ x \in LockedNames /\ lockConfig' = lockConfig
        BY <1>3, <1>8, <3>1, <3>2
      <3>4. QED BY <1>1, <1>7, <2>1, <3>2, <3>3, QuietDecision
    <2>4. QED BY <2>2, <2>3
  <1>12. DecisionRight(p)'
    <2>1. CASE rest = {} BY <1>4, <1>5, <1>7, <2>1, NoTypes DEF DecisionRight
    <2>2. CASE rest # {}
      <3> SUFFICES ASSUME lockConfig.worm, ~Excused(p)', NEW x \in rest
                   PROVE  StillRight(m, x)'
        BY <1>3, <1>4, <1>5, <1>7, <2>2 DEF DecisionRight
      <3>1. p \notin outdated BY <1>2, <2>2 DEF Excused
      <3>2. ~Excused(p) BY <1>4, <1>5, <1>7, <2>2, <3>1 DEF Excused
      <3>3. StillRight(r, x) BY <1>1, <3>2 DEF RetentionInv, DecisionsRight, DecisionRight
      <3>4. locked'[x] = locked[x] BY <1>1, <1>8
      <3>5. QED BY <1>3, <1>4, <1>5, <2>2, <3>3, <3>4 DEF StillRight, Held, Retained, Exists
    <2>3. QED BY <2>1, <2>2
  <1>13. QED BY <1>9, <1>10, <1>11, <1>12 DEF RetentionInv, DecisionsRight

\* The steps of nobody: the handlers that had decided are outdated, or what they
\* decided on is as it was.
LEMMA OutsideInv ==
  ASSUME RetentionInv, RetentionTypeOK', NothingOfMissing', handlers' = handlers,
         outdated \subseteq outdated', time' >= time,
         \A q \in Handlers : handlers[q].pc # "idle" /\ q \notin outdated' =>
           \A o \in handlers[q].list : locked'[o] = locked[o] /\ lockConfig' = lockConfig
  PROVE  RetentionInv'
  <1>1. ASSUME NEW q \in Handlers PROVE DecisionRight(q)'
    <2>1. time' \in Int /\ DecisionRight(q) /\ RetentionTypeOK
      BY DEF RetentionInv, RetentionTypeOK, DecisionsRight
    <2>2. CASE handlers[q].pc = "idle" BY <2>2 DEF DecisionRight
    <2>3. CASE handlers[q].pc # "idle"
      <3>1. \A o \in handlers[q].list : o \in LockedNames BY <2>1, <2>3, WorkingLists
      <3>2. q \notin outdated' => \A o \in handlers[q].list :
              locked'[o] = locked[o] /\ o \in LockedNames /\ lockConfig' = lockConfig
        BY <2>3, <3>1
      <3>3. QED BY <2>1, <3>2, QuietDecision
    <2>4. QED BY <2>2, <2>3
  <1>2. QED BY <1>1 DEF RetentionInv, DecisionsRight

\* An object expires.
LEMMA ExpireInv ==
  ASSUME RetentionInv, Expire
  PROVE  RetentionInv'
  <1>1. PICK o \in LockedNames :
          /\ locked' = [locked EXCEPT ![o] = NoObject]
          /\ outdated' = outdated \cup
               {q \in Handlers : handlers[q].pc # "idle" /\ o \in handlers[q].list}
    BY DEF Expire
  <1>2. handlers' = handlers /\ lockConfig' = lockConfig /\ time' = time BY DEF Expire, Settings
  <1>3. /\ locked' \in [LockedNames -> LockedObjects] /\ locked'[o] = NoObject
        /\ \A x \in LockedNames \ {o} : locked'[x] = locked[x]
    BY <1>1, NoTypes DEF RetentionInv, RetentionTypeOK
  <1>4. RetentionTypeOK' /\ time' >= time BY <1>2, <1>3 DEF RetentionInv, RetentionTypeOK
  <1>5. NothingOfMissing' BY <1>3 DEF RetentionInv, NothingOfMissing
  <1>6. ASSUME NEW q \in Handlers, handlers[q].pc # "idle", q \notin outdated',
               NEW x \in handlers[q].list
        PROVE  locked'[x] = locked[x]
    <2>1. x \in LockedNames /\ x # o BY <1>1, <1>6, WorkingLists DEF RetentionInv
    <2>2. QED BY <1>3, <2>1
  <1>7. outdated \subseteq outdated' BY <1>1
  <1>8. QED BY <1>2, <1>4, <1>5, <1>6, <1>7, OutsideInv

\* The settings are set: what was decided under the old ones is outdated.
LEMMA SetConfigInv ==
  ASSUME RetentionInv, SetConfig
  PROVE  RetentionInv'
  <1>1. PICK cfg \in LockConfigs, clock \in BOOLEAN : lockConfig' = ToRetention(cfg, clock)
    BY DEF SetConfig
  <1>2. /\ locked' = locked /\ handlers' = handlers /\ time' = time
        /\ outdated' = outdated \cup
             {q \in Handlers : handlers[q].pc # "idle" /\ handlers[q].list # {}}
    BY DEF SetConfig
  <1>3. cfg \in Configs
    <2>1. cfg \in [worm : BOOLEAN, mode : STRING, validity : Nat] BY LockConfigsAssumption
    <2>2. cfg.mode \in Modes BY DEF Modes
    <2>3. QED BY <2>1, <2>2 DEF Configs
  <1>4. lockConfig' \in Configs BY <1>1, <1>3 DEF ToRetention, Configs
  <1>5. RetentionTypeOK' /\ time' >= time /\ NothingOfMissing'
    BY <1>2, <1>4 DEF RetentionInv, RetentionTypeOK, NothingOfMissing
  <1>6. ASSUME NEW q \in Handlers, handlers[q].pc # "idle", q \notin outdated'
        PROVE  handlers[q].list = {}
    BY <1>2, <1>6
  <1>7. QED BY <1>2, <1>5, <1>6, OutsideInv

\* Requests and settings are gone; the objects are not.
LEMMA RestartInv ==
  ASSUME RetentionInv, Restart
  PROVE  RetentionInv'
  <1>1. /\ locked' = locked /\ time' = time /\ lockConfig' = NotWORM
        /\ handlers' = [p \in Handlers |-> NoRequest]
    BY DEF Restart
  <1>2. RetentionTypeOK' /\ NothingOfMissing'
    BY <1>1, NoTypes DEF RetentionInv, RetentionTypeOK, NothingOfMissing
  <1>3. \A q \in Handlers : handlers'[q].pc = "idle" BY <1>1, NoTypes
  <1>4. QED BY <1>2, <1>3 DEF RetentionInv, DecisionsRight, DecisionRight

\* Time only ends retentions.
LEMMA TimePassesInv ==
  ASSUME RetentionInv, TimePasses
  PROVE  RetentionInv'
  <1>1. /\ locked' = locked /\ lockConfig' = lockConfig /\ handlers' = handlers
        /\ outdated' = outdated /\ time' = time + 1
    BY DEF TimePasses
  <1>2. RetentionTypeOK' /\ time' >= time /\ NothingOfMissing'
    BY <1>1 DEF RetentionInv, RetentionTypeOK, NothingOfMissing
  <1>3. QED BY <1>1, <1>2, OutsideInv

\* Every step keeps the invariant.
LEMMA RetentionNextInv == RetentionInv /\ [RetentionNext]_retentionVars => RetentionInv'
  <1> SUFFICES ASSUME RetentionInv, [RetentionNext]_retentionVars PROVE RetentionInv'
    OBVIOUS
  <1>1. ASSUME NEW p \in Handlers,
               \/ Receive(p) \/ CheckPut(p) \/ CheckDelete(p) \/ CheckPrefix(p)
               \/ CheckRetention(p) \/ Act(p)
        PROVE  RetentionInv'
    BY <1>1, ReceiveInv, CheckPutInv, CheckDeleteInv, CheckPrefixInv, CheckRetentionInv, ActInv
  <1>2. CASE Expire \/ SetConfig \/ Restart \/ TimePasses
    BY <1>2, ExpireInv, SetConfigInv, RestartInv, TimePassesInv
  <1>3. CASE UNCHANGED retentionVars
    BY <1>3 DEF retentionVars, RetentionInv, RetentionTypeOK, NothingOfMissing, DecisionsRight,
       DecisionRight, Excused, StillRight, Held, Retained, Exists
  <1>4. QED BY <1>1, <1>2, <1>3 DEF RetentionNext

-----------------------------------------------------------------------------
(* The theorems *)

\* What a handler decided on, and no other step overtook, is right until the
\* handler acts on it (checkPutObjectLockAllowed, the functions
\* enforceRetention*), and an object that does not exist has no lock.
THEOREM DecisionsStayRight == RetentionSpec => []RetentionInv
  <1>1. RetentionInit => RetentionInv BY RetentionInitInv
  <1>2. RetentionInv /\ [RetentionNext]_retentionVars => RetentionInv' BY RetentionNextInv
  <1>3. QED BY <1>1, <1>2, PTL DEF RetentionSpec

\* What LockedIsKept says of a step.
KeepsLocked ==
  (lockConfig.worm /\ \A p \in Handlers : Acting(p) => ~Excused(p)) =>
    \A o \in LockedNames :
      /\ Held(o) => ~Overwritten(o) /\ locked'[o].meta.hold = "ON"
      /\ Retained(o, "COMPLIANCE") => /\ ~Overwritten(o) /\ StaysRetained(o)
                                      /\ locked'[o].meta.mode = "COMPLIANCE"
      /\ (Retained(o, "GOVERNANCE") /\ \A p \in Handlers : Acting(p) => ~Bypasses(p)) =>
           ~Overwritten(o) /\ StaysRetained(o)

\* An object that a step leaves alone stays locked.
LEMMA UntouchedKept ==
  ASSUME RetentionTypeOK, NEW o \in LockedNames, locked'[o] = locked[o]
  PROVE  /\ ~Overwritten(o) /\ StaysRetained(o)
         /\ Held(o) => locked'[o].meta.hold = "ON"
         /\ \A mode : Retained(o, mode) => locked'[o].meta.mode = mode
  <1>1. locked[o].meta.until \in Int BY DEF RetentionTypeOK, LockedObjects, Metas
  <1>2. QED BY <1>1 DEF Overwritten, StaysRetained, Held, Retained

\* A handler that decided, and was not overtaken, acts on an object that is not
\* locked against it.
LEMMA ActKeeps ==
  ASSUME RetentionInv, NEW p \in Handlers, Act(p)
  PROVE  KeepsLocked
  <1> DEFINE r == handlers[p]
  <1>1. r.pc = "act" /\ r \in Working /\ RetentionTypeOK /\ r.list \subseteq LockedNames
    BY WorkingLists DEF RetentionInv, Act
  <1>2. PICK o \in r.list :
          LET rest == r.list \ {o}
          IN /\ locked' = [locked EXCEPT ![o] = Result(r, o)]
             /\ handlers' = [handlers EXCEPT ![p] =
                  IF rest # {} THEN [r EXCEPT !.list = rest]
                  ELSE IF r.todo # {} THEN [r EXCEPT !.pc = "check", !.list = {}]
                  ELSE NoRequest]
    BY DEF Act
  <1>3. /\ o \in LockedNames /\ locked'[o] = Result(r, o)
        /\ \A x \in LockedNames \ {o} : locked'[x] = locked[x]
    BY <1>1, <1>2 DEF RetentionTypeOK
  <1>4. Acting(p)
    <2> DEFINE rest == r.list \ {o}
               m1 == [r EXCEPT !.list = rest]
               m2 == [r EXCEPT !.pc = "check", !.list = {}]
    <2>1. m1.list = rest /\ m2.pc = "check" /\ NoRequest.pc = "idle" BY <1>1, NoTypes DEF Working
    <2>2. handlers'[p] = IF rest # {} THEN m1 ELSE IF r.todo # {} THEN m2 ELSE NoRequest
      BY <1>1, <1>2 DEF RetentionTypeOK
    <2>3. m1 # r /\ m2 # r /\ NoRequest # r
      <3>1. rest # r.list OBVIOUS
      <3> HIDE DEF rest, m1, m2
      <3>2. QED BY <1>1, <2>1, <3>1
    <2> HIDE DEF m1, m2
    <2>4. QED BY <1>1, <2>2, <2>3 DEF Acting
  <1> SUFFICES ASSUME lockConfig.worm, ~Excused(p), NEW x \in LockedNames
               PROVE
      /\ Held(x) => ~Overwritten(x) /\ locked'[x].meta.hold = "ON"
      /\ Retained(x, "COMPLIANCE") => /\ ~Overwritten(x) /\ StaysRetained(x)
                                      /\ locked'[x].meta.mode = "COMPLIANCE"
      /\ Retained(x, "GOVERNANCE") /\ ~Bypasses(p) => ~Overwritten(x) /\ StaysRetained(x)
    BY <1>4 DEF KeepsLocked
  <1>5. CASE x # o BY <1>1, <1>3, <1>5, UntouchedKept
  <1>6. CASE x = o
    <2>1. StillRight(r, o) BY <1>1 DEF RetentionInv, DecisionsRight, DecisionRight
    <2>2. CASE r.op = "retention"
      <3>1. /\ locked'[o].content = locked[o].content
            /\ locked'[o].meta.hold = locked[o].meta.hold
            /\ locked'[o].meta.mode = r.header.mode
            /\ locked'[o].meta.until = r.header.until
        BY <1>1, <1>3, <2>1, <2>2, ResultIsObject DEF StillRight
      <3>2. QED
        BY <1>6, <2>1, <2>2, <3>1
        DEF StillRight, Held, Retained, Overwritten, StaysRetained, Bypasses
    <2>3. CASE r.op \in {"put", "upload", "delete", "multi", "remove"}
      BY <1>6, <2>1, <2>3 DEF StillRight, Bypasses
    <2>4. r.op # "prefix" BY DEF Excused
    <2>5. QED BY <1>1, <2>2, <2>3, <2>4 DEF Working, LockOps
  <1>7. QED BY <1>5, <1>6

\* An object does not expire while it is locked, whether or not the clock
\* answers.
LEMMA ExpireKeeps ==
  ASSUME RetentionInv, Expire
  PROVE  KeepsLocked
  <1>1. PICK o \in LockedNames, clock \in BOOLEAN :
          /\ locked' = [locked EXCEPT ![o] = NoObject]
          /\ ~enforceRetentionForLifecycle(locked[o].meta, clock)
    BY DEF Expire
  <1>2. ~Held(o) /\ ~Retained(o, "COMPLIANCE") /\ ~Retained(o, "GOVERNANCE")
    BY <1>1 DEF enforceRetentionForLifecycle, ValidMode, Held, Retained
  <1>3. RetentionTypeOK BY DEF RetentionInv
  <1>4. \A x \in LockedNames \ {o} : locked'[x] = locked[x] BY <1>1, <1>3 DEF RetentionTypeOK
  <1>5. QED BY <1>2, <1>3, <1>4, UntouchedKept DEF KeepsLocked

\* LockedIsKept, for every number of handlers and objects and for all requests,
\* settings and lifecycles: what a decision that no step overtook leaves locked
\* is not written over, removed or weakened, whatever the clock does
\* (checkPutObjectLockAllowed, the functions enforceRetention*).
THEOREM LockedIsKeptAlways == RetentionSpec => LockedIsKept
  <1>1. ASSUME RetentionInv, [RetentionNext]_retentionVars
        PROVE  [KeepsLocked]_retentionVars
    <2>1. ASSUME NEW p \in Handlers, Act(p) PROVE KeepsLocked BY <1>1, <2>1, ActKeeps
    <2>2. CASE Expire BY <1>1, <2>2, ExpireKeeps
    <2>3. CASE locked' = locked BY <1>1, <2>3, UntouchedKept DEF RetentionInv, KeepsLocked
    <2>4. ASSUME NEW p \in Handlers,
                 \/ Receive(p) \/ CheckPut(p) \/ CheckDelete(p) \/ CheckPrefix(p)
                 \/ CheckRetention(p)
          PROVE  locked' = locked
      BY <2>4, ZenonT(60) DEF Receive, CheckPut, CheckDelete, CheckPrefix, CheckRetention, Moves
    <2>5. CASE SetConfig \/ Restart \/ TimePasses BY <2>3, <2>5 DEF SetConfig, Restart, TimePasses
    <2>6. CASE UNCHANGED retentionVars BY <2>6
    <2>7. QED BY <1>1, <2>1, <2>2, <2>3, <2>4, <2>5, <2>6 DEF RetentionNext
  <1>2. RetentionSpec => [][KeepsLocked]_retentionVars
    BY <1>1, DecisionsStayRight, PTL DEF RetentionSpec
  <1>3. QED BY <1>2 DEF LockedIsKept, KeepsLocked

(***************************************************************************)
(* Encrypted objects. Sealed values are terms, so that a sealed key opens  *)
(* under what it was sealed with and nothing else; the invariant says what *)
(* the store has of an object for every kind of promise that a put can     *)
(* make.                                                                   *)
(***************************************************************************)
\* The sealed key in the metadata is the object's key under "extKey".
SealedUnder(sealed, key, extKey, domain, name) ==
  /\ sealed.key = key
  /\ sealed.algorithm \in {SealAlgorithm, InsecureSealAlgorithm}
  /\ sealed.under = SealingKey(sealed.algorithm, extKey, sealed.iv, domain, name)

\* Objects and promises are records.
WellFormed(o) ==
  /\ DOMAIN o = {"metadata", "data", "key", "etag"}
  /\ DOMAIN o.etag = {"form", "of", "key"}

WellSaid(p) == DOMAIN p = {"data", "etag", "hasMD5", "mode", "key"}

\* What the store has of an object is what its promise says: a plain object has
\* no key, one of SSE-C has its own under the customer's, one of SSE-S3 under a
\* data key that is sealed under the service's.
PlainKept(o, p) ==
  /\ o.metadata = NoMetadata /\ o.key = NoKey
  /\ p.etag = o.etag

SSECKept(o, p, name) ==
  /\ DOMAIN o.metadata = {"ssec"} /\ o.key # NoKey
  /\ SealedUnder(o.metadata.ssec, o.key, p.key, "SSE-C", name)
  /\ p.hasMD5 => o.etag.form = "sealed" /\ p.etag = LastDigits(o.etag)

S3Kept(o, p, name) ==
  /\ DOMAIN o.metadata = {"s3", "kms"} /\ o.key # NoKey
  /\ p.key \notin {None, Down}
  /\ o.metadata.kms.key # NoKey
  /\ o.metadata.kms.under = <<p.key, KeyID, name>>
  /\ SealedUnder(o.metadata.s3, o.key, o.metadata.kms.key, "SSE-S3", name)
  /\ \/ o.etag = SealedMD5(p.data, o.key) /\ p.etag = MD5Of(p.data)
     \/ o.etag = CutETag(p.data) /\ p.etag = o.etag

Kept(name) ==
  LET o == objects[name]
      p == promise[name]
  IN /\ WellFormed(o) /\ WellSaid(p) /\ o.data = p.data
     /\ p.mode \in {"plain", "SSE-C", "SSE-S3", "neither"}
     /\ p.mode = "plain" => PlainKept(o, p)
     /\ p.mode \in {"SSE-C", "neither"} => SSECKept(o, p, name)
     /\ p.mode = "SSE-S3" => S3Kept(o, p, name)

AllKept ==
  /\ DOMAIN promise = DOMAIN objects
  /\ \A name \in DOMAIN objects : Kept(name)

EncryptionTypeOK ==
  /\ random \in Nat
  /\ DOMAIN objects \subseteq ObjectNames

EncryptionInv == EncryptionTypeOK /\ AllKept /\ ReadBackAsPut

(* Sealed keys *)

\* A sealed key opens under what it was sealed with, and under nothing else.
LEMMA UnsealsUnderOwnKey ==
  ASSUME NEW sealed, NEW key, NEW extKey, NEW other, NEW domain, NEW name,
         SealedUnder(sealed, key, extKey, domain, name)
  PROVE  Unseal(sealed, other, domain, name) = IF other = extKey THEN key ELSE NoKey
  <1>1. CASE sealed.algorithm = SealAlgorithm BY <1>1 DEF SealedUnder, Unseal, SealingKey
  <1>2. CASE sealed.algorithm # SealAlgorithm BY <1>2 DEF SealedUnder, Unseal, SealingKey
  <1>3. QED BY <1>1, <1>2

LEMMA SealIs ==
  ASSUME NEW key, NEW extKey, NEW iv, NEW domain, NEW name
  PROVE  SealedUnder(Seal(key, extKey, iv, domain, name), key, extKey, domain, name)
  BY DEF SealedUnder, Seal

\* What the metadata of each kind is.
LEMMA PlainMetadata ==
  ~S3IsEncrypted(NoMetadata) /\ ~SSECIsEncrypted(NoMetadata) /\ ~IsEncrypted(NoMetadata)
  BY DEF NoMetadata, S3IsEncrypted, SSECIsEncrypted, IsEncrypted

LEMMA SSECKeys ==
  ASSUME NEW o, NEW p, NEW name, SSECKept(o, p, name)
  PROVE  /\ ~S3IsEncrypted(o.metadata) /\ SSECIsEncrypted(o.metadata) /\ IsEncrypted(o.metadata)
         /\ \A extKey : DecryptObjectKey(extKey, name, o.metadata)
                          = IF extKey = p.key THEN o.key ELSE NoKey
  <1>1. ~S3IsEncrypted(o.metadata) /\ SSECIsEncrypted(o.metadata) /\ IsEncrypted(o.metadata)
    BY DEF SSECKept, S3IsEncrypted, SSECIsEncrypted, IsEncrypted
  <1>2. ASSUME NEW extKey
        PROVE  DecryptObjectKey(extKey, name, o.metadata) = IF extKey = p.key THEN o.key ELSE NoKey
    BY <1>1, UnsealsUnderOwnKey DEF DecryptObjectKey, SSECKept
  <1>3. QED BY <1>1, <1>2

LEMMA S3Keys ==
  ASSUME NEW o, NEW p, NEW name, S3Kept(o, p, name)
  PROVE  /\ S3IsEncrypted(o.metadata) /\ ~SSECIsEncrypted(o.metadata) /\ IsEncrypted(o.metadata)
         /\ \A extKey : DecryptObjectKey(extKey, name, o.metadata)
                          = IF globalKMS = p.key THEN o.key ELSE NoKey
  <1>1. S3IsEncrypted(o.metadata) /\ ~SSECIsEncrypted(o.metadata) /\ IsEncrypted(o.metadata)
    BY DEF S3Kept, S3IsEncrypted, SSECIsEncrypted, IsEncrypted
  <1>2. UnsealKey(o.metadata.kms, name) = IF globalKMS = p.key THEN o.metadata.kms.key ELSE NoKey
    BY DEF S3Kept, UnsealKey, KMSAnswers
  <1>3. Unseal(o.metadata.s3, o.metadata.kms.key, "SSE-S3", name) = o.key
    BY UnsealsUnderOwnKey DEF S3Kept
  <1>4. ASSUME NEW extKey
        PROVE  DecryptObjectKey(extKey, name, o.metadata) = IF globalKMS = p.key THEN o.key ELSE NoKey
    BY <1>1, <1>2, <1>3 DEF DecryptObjectKey, S3Kept
  <1>5. QED BY <1>1, <1>4

(* Reading *)

LEMMA CustomersSound ==
  ASSUME NEW h \in Headers
  PROVE  /\ h.ssec.sound => SSECIsRequested(h)
         /\ h.copy.sound => SSECopyIsRequested(h)
         /\ ~SSECopyIsRequested(h) => ~CopySource(h)
         /\ SSECIsRequested(h) \in BOOLEAN /\ SSECopyIsRequested(h) \in BOOLEAN
  BY DEF SSECIsRequested, SSECopyIsRequested, CopySource, NoCustomer

\* NewGetObjectReader and DecryptObjectInfo of an SSE-C object: only the key it
\* is sealed under opens it.
LEMMA ReadSSEC ==
  ASSUME NEW o, NEW p, NEW name, NEW h \in Headers, SSECKept(o, p, name),
         DecryptBlocksKey(h, name, o.metadata) = o.key
  PROVE  \/ SSECIsRequested(h) /\ h.ssec.key = p.key
         \/ SSECopyIsRequested(h) /\ h.copy.key = p.key
  <1>1. o.key # NoKey BY DEF SSECKept
  <1>2. CASE CopySource(h)
    BY <1>1, <1>2, SSECKeys DEF DecryptBlocksKey, CopySource, SSECopyIsRequested
  <1>3. CASE ~CopySource(h)
    <2>1. h.ssec.sound /\ h.ssec.key = p.key BY <1>1, <1>3, SSECKeys DEF DecryptBlocksKey, ParseHTTP
    <2>2. QED BY <2>1, CustomersSound
  <1>4. QED BY <1>2, <1>3

LEMMA ReadS3 ==
  ASSUME NEW o, NEW p, NEW name, NEW h \in Headers, S3Kept(o, p, name),
         DecryptBlocksKey(h, name, o.metadata) = o.key
  PROVE  globalKMS = p.key
  <1>1. o.key # NoKey BY DEF S3Kept
  <1>2. QED BY <1>1, S3Keys DEF DecryptBlocksKey

\* What a client who fits the promise is answered.
Fetched(o, h, name) ==
  GetDecryptedETag(h, [o EXCEPT !.etag = GetDecryptedETag(h, o, name, CopySource(h))],
                   name, FALSE)

LEMMA FitSSEC ==
  ASSUME NEW o, NEW p, NEW name, NEW h \in Headers, SSECKept(o, p, name),
         h.sse = None, ~SSECopyIsRequested(h), h.ssec = [key |-> p.key, sound |-> TRUE],
         WellFormed(o)
  PROVE  /\ DecryptBlocksKey(h, name, o.metadata) = o.key
         /\ ~DecryptObjectInfoFails(h, o.metadata)
         /\ p.hasMD5 => Fetched(o, h, name) = p.etag
  <1>1. SSECIsRequested(h) /\ h.ssec.key = p.key /\ h.ssec.sound /\ ~S3IsRequested(h)
    BY CustomersSound DEF S3IsRequested, None
  <1>2. DecryptBlocksKey(h, name, o.metadata) = o.key
    BY <1>1, SSECKeys, CustomersSound DEF DecryptBlocksKey, ParseHTTP
  <1>3. ~DecryptObjectInfoFails(h, o.metadata) BY <1>1, SSECKeys DEF DecryptObjectInfoFails
  <1>4. ASSUME p.hasMD5 PROVE Fetched(o, h, name) = p.etag
    <2>1. o.etag.form = "sealed" /\ p.etag = LastDigits(o.etag) /\ SSECIsEncrypted(o.metadata)
      BY <1>4, SSECKeys DEF SSECKept
    <2>2. GetDecryptedETag(h, o, name, CopySource(h)) = p.etag
      <3>1. ~CopySource(h) BY CustomersSound
      <3>2. QED BY <2>1, <3>1 DEF GetDecryptedETag, Short
    <2>3. p.etag.form = "end of sealed" BY <2>1 DEF LastDigits, WellFormed
    <2>4. Short(p.etag) BY <2>3 DEF Short
    <2> DEFINE read == [o EXCEPT !.etag = GetDecryptedETag(h, o, name, CopySource(h))]
    <2>5. read.etag = p.etag BY <2>2 DEF WellFormed
    <2> HIDE DEF read
    <2>6. GetDecryptedETag(h, read, name, FALSE) = p.etag BY <2>4, <2>5 DEF GetDecryptedETag
    <2>7. QED BY <2>6 DEF read, Fetched
  <1>5. QED BY <1>2, <1>3, <1>4

LEMMA FitS3 ==
  ASSUME NEW o, NEW p, NEW name, NEW h \in Headers, S3Kept(o, p, name),
         h.sse = None, ~SSECopyIsRequested(h), h.ssec = NoCustomer, globalKMS = p.key,
         WellFormed(o)
  PROVE  /\ DecryptBlocksKey(h, name, o.metadata) = o.key
         /\ ~DecryptObjectInfoFails(h, o.metadata)
         /\ Fetched(o, h, name) = p.etag
  <1>1. ~SSECIsRequested(h) /\ ~S3IsRequested(h) BY DEF S3IsRequested, None, SSECIsRequested
  <1>2. DecryptBlocksKey(h, name, o.metadata) = o.key
    <2>1. ~CopySource(h) BY CustomersSound
    <2>2. QED BY <2>1, S3Keys DEF DecryptBlocksKey
  <1>3. ~DecryptObjectInfoFails(h, o.metadata) BY <1>1, S3Keys DEF DecryptObjectInfoFails
  <1>4. Fetched(o, h, name) = p.etag
    <2> DEFINE read == [o EXCEPT !.etag = GetDecryptedETag(h, o, name, CopySource(h))]
    <2>1. ~SSECIsEncrypted(o.metadata) /\ o.key # NoKey
          /\ DecryptObjectKey(ZeroKey, name, o.metadata) = o.key
      BY S3Keys DEF S3Kept
    <2>2. GetDecryptedETag(h, o, name, CopySource(h))
            = IF Short(o.etag) THEN o.etag ELSE TryDecryptETag(o.key, o.etag)
      BY <2>1 DEF GetDecryptedETag
    <2>3. read.etag = GetDecryptedETag(h, o, name, CopySource(h)) /\ read.metadata = o.metadata
      BY DEF WellFormed
    <2> HIDE DEF read
    <2>4. GetDecryptedETag(h, read, name, FALSE)
            = IF Short(read.etag) THEN read.etag ELSE TryDecryptETag(o.key, read.etag)
      BY <2>1, <2>3 DEF GetDecryptedETag
    <2>5. read.etag = p.etag
      <3>1. CASE o.etag = SealedMD5(p.data, o.key) /\ p.etag = MD5Of(p.data)
        BY <2>2, <2>3, <3>1 DEF SealedMD5, MD5Of, Short, TryDecryptETag
      <3>2. CASE o.etag = CutETag(p.data) /\ p.etag = o.etag
        BY <2>2, <2>3, <3>2 DEF CutETag, Short, TryDecryptETag
      <3>3. QED BY <3>1, <3>2 DEF S3Kept
    <2>6. Short(p.etag) \/ TryDecryptETag(o.key, p.etag) = p.etag
      BY DEF S3Kept, MD5Of, CutETag, Short, TryDecryptETag
    <2>7. GetDecryptedETag(h, read, name, FALSE) = p.etag BY <2>4, <2>5, <2>6
    <2>8. QED BY <2>7 DEF read, Fetched
  <1>5. QED BY <1>2, <1>3, <1>4

LEMMA FitPlain ==
  ASSUME NEW o, NEW p, NEW name, NEW h \in Headers, PlainKept(o, p),
         h.sse = None, ~SSECopyIsRequested(h), h.ssec = NoCustomer
  PROVE  /\ ~IsEncrypted(o.metadata) /\ o.key = NoKey
         /\ ~DecryptObjectInfoFails(h, o.metadata)
  <1>1. ~SSECIsRequested(h) /\ ~S3IsRequested(h) BY DEF S3IsRequested, None, SSECIsRequested
  <1>2. QED BY <1>1, PlainMetadata DEF PlainKept, DecryptObjectInfoFails

\* Who fits a promise gets through, and the ETag of the put.
LEMMA FitsIsServed ==
  ASSUME NEW o, NEW p, NEW name, NEW h \in Headers, WellFormed(o), FitsPromise(h, p),
         p.mode \in {"plain", "SSE-C", "SSE-S3", "neither"},
         p.mode = "plain" => PlainKept(o, p),
         p.mode \in {"SSE-C", "neither"} => SSECKept(o, p, name),
         p.mode = "SSE-S3" => S3Kept(o, p, name)
  PROVE  /\ ~GetRefused("api", h) /\ ~DecryptObjectInfoFails(h, o.metadata)
         /\ (IF IsEncrypted(o.metadata) THEN DecryptBlocksKey(h, name, o.metadata) ELSE NoKey) = o.key
         /\ (p.mode = "SSE-C" => p.hasMD5)
              => (IF IsEncrypted(o.metadata) THEN Fetched(o, h, name) ELSE o.etag) = p.etag
  <1>0. h.sse = None /\ ~SSECopyIsRequested(h) BY DEF FitsPromise
  <1>1. CASE p.mode = "plain"
    <2>1. h.ssec = NoCustomer BY <1>1 DEF FitsPromise
    <2>2. ~GetRefused("api", h)
      BY <1>0, <2>1 DEF GetRefused, S3IsRequested, S3KMSIsRequested, SSECIsRequested, None
    <2>3. QED BY <1>0, <1>1, <2>1, <2>2, FitPlain DEF PlainKept
  <1>2. CASE p.mode = "SSE-C"
    <2>1. h.ssec = [key |-> p.key, sound |-> TRUE] BY <1>2 DEF FitsPromise
    <2>2. ~GetRefused("api", h)
      BY <1>0, <2>1 DEF GetRefused, S3IsRequested, S3KMSIsRequested, ParseHTTP, None
    <2>3. SSECKept(o, p, name) BY <1>2
    <2>4. QED BY <1>0, <1>2, <2>1, <2>2, <2>3, FitSSEC, SSECKeys
  <1>3. CASE p.mode = "SSE-S3"
    <2>1. h.ssec = NoCustomer /\ globalKMS = p.key BY <1>3 DEF FitsPromise
    <2>2. ~GetRefused("api", h)
      BY <1>0, <2>1 DEF GetRefused, S3IsRequested, S3KMSIsRequested, SSECIsRequested, None
    <2>3. S3Kept(o, p, name) BY <1>3
    <2>4. QED BY <1>0, <1>3, <2>1, <2>2, <2>3, FitS3, S3Keys
  <1>4. CASE p.mode = "neither" BY <1>4 DEF FitsPromise
  <1>5. QED BY <1>1, <1>2, <1>3, <1>4

\* Reading keeps the promise.
LEMMA GetObjectInv ==
  ASSUME EncryptionInv, NEW via, NEW h \in Headers, NEW name \in DOMAIN objects,
         GetObject(via, name, h)
  PROVE  EncryptionInv'
  <1> DEFINE o == objects[name]
             p == promise[name]
             found == IF IsEncrypted(o.metadata) THEN DecryptBlocksKey(h, name, o.metadata) ELSE NoKey
             ok == /\ ~GetRefused(via, h) /\ ~DecryptObjectInfoFails(h, o.metadata)
                   /\ found = o.key
             etag == IF IsEncrypted(o.metadata) THEN Fetched(o, h, name) ELSE o.etag
  <1>1. /\ answer' = [name |-> name, headers |-> h, ok |-> ok, data |-> o.data, etag |-> etag]
        /\ objects' = objects /\ globalKMS' = globalKMS /\ random' = random /\ promise' = promise
    BY DEF GetObject, Fetched
  <1>2. /\ WellFormed(o) /\ WellSaid(p) /\ o.data = p.data
        /\ p.mode \in {"plain", "SSE-C", "SSE-S3", "neither"}
        /\ p.mode = "plain" => PlainKept(o, p)
        /\ p.mode \in {"SSE-C", "neither"} => SSECKept(o, p, name)
        /\ p.mode = "SSE-S3" => S3Kept(o, p, name)
    BY DEF EncryptionInv, AllKept, Kept
  <1>3. GetRefused(via, h) => GetRefused("api", h) BY DEF GetRefused
  <1>4. ok /\ p.mode = "SSE-C" => \/ SSECIsRequested(h) /\ h.ssec.key = p.key
                                  \/ SSECopyIsRequested(h) /\ h.copy.key = p.key
    BY <1>2, ReadSSEC, SSECKeys
  <1>5. ok /\ p.mode = "SSE-S3" => globalKMS = p.key BY <1>2, ReadS3, S3Keys
  <1>6. ASSUME FitsPromise(h, p)
        PROVE  ok /\ ((p.mode = "SSE-C" => p.hasMD5) => etag = p.etag)
    <2>1. /\ ~GetRefused("api", h) /\ ~DecryptObjectInfoFails(h, o.metadata)
          /\ (IF IsEncrypted(o.metadata) THEN DecryptBlocksKey(h, name, o.metadata) ELSE NoKey) = o.key
          /\ (p.mode = "SSE-C" => p.hasMD5)
               => (IF IsEncrypted(o.metadata) THEN Fetched(o, h, name) ELSE o.etag) = p.etag
      <3> HIDE DEF o, p
      <3>1. QED BY <1>2, <1>6, FitsIsServed
    <2>2. QED BY <1>3, <2>1
  <1>7. ReadBackAsPut'
    <2> HIDE DEF ok, etag, found
    <2>1. /\ answer'.name = name /\ answer'.headers = h /\ answer'.ok = ok
          /\ answer'.data = o.data /\ answer'.etag = etag
      BY <1>1
    <2>2. promise'[answer'.name] = p BY <1>1, <2>1
    <2> HIDE DEF o, p
    <2>3. QED BY <1>1, <1>2, <1>4, <1>5, <1>6, <2>1, <2>2 DEF ReadBackAsPut, FitsPromise
  <1>8. EncryptionTypeOK' /\ AllKept' BY <1>1 DEF EncryptionInv, EncryptionTypeOK, AllKept, Kept
  <1>9. QED BY <1>7, <1>8 DEF EncryptionInv

(* Changes *)

\* What is put is kept as the client is told.
LEMMA PutKept ==
  ASSUME NEW via, NEW h \in Headers, NEW name, NEW hasMD5 \in BOOLEAN, random \in Nat,
         ~PutRefused(via, h), NEW o, NEW p, NEW key,
         key = IF IsRequested(h) THEN random + 2 ELSE NoKey,
         o = [metadata |-> IF IsRequested(h) THEN NewEncryptMetadata(h, name) ELSE NoMetadata,
              data |-> random, key |-> key, etag |-> MD5CurrentHexString(random, hasMD5, key)],
         p = [data |-> random, etag |-> PutETag(o, key), hasMD5 |-> hasMD5,
              mode |-> IF ~IsRequested(h) THEN "plain" ELSE IF S3IsRequested(h) THEN "SSE-S3"
                       ELSE IF SSECIsRequested(h) THEN "SSE-C" ELSE "neither",
              key |-> IF S3IsRequested(h) THEN globalKMS
                      ELSE IF SSECIsRequested(h) THEN h.ssec.key ELSE ZeroKey]
  PROVE  /\ WellFormed(o) /\ WellSaid(p) /\ o.data = p.data
         /\ p.mode \in {"plain", "SSE-C", "SSE-S3", "neither"}
         /\ p.mode = "plain" => PlainKept(o, p)
         /\ p.mode \in {"SSE-C", "neither"} => SSECKept(o, p, name)
         /\ p.mode = "SSE-S3" => S3Kept(o, p, name)
  <1>1. /\ o.data = random /\ o.key = key /\ o.etag = MD5CurrentHexString(random, hasMD5, key)
        /\ o.metadata = IF IsRequested(h) THEN NewEncryptMetadata(h, name) ELSE NoMetadata
        /\ DOMAIN o = {"metadata", "data", "key", "etag"}
    OBVIOUS
  <1>2. /\ WellSaid(p) /\ p.data = random /\ p.etag = PutETag(o, key) /\ p.hasMD5 = hasMD5
        /\ p.mode = IF ~IsRequested(h) THEN "plain" ELSE IF S3IsRequested(h) THEN "SSE-S3"
                    ELSE IF SSECIsRequested(h) THEN "SSE-C" ELSE "neither"
        /\ p.key = IF S3IsRequested(h) THEN globalKMS
                   ELSE IF SSECIsRequested(h) THEN h.ssec.key ELSE ZeroKey
    BY DEF WellSaid
  <1>3. WellFormed(o) BY <1>1 DEF WellFormed, MD5CurrentHexString, CutETag, MD5Of, SealedMD5
  <1>4. CASE ~IsRequested(h)
    <2>1. o.metadata = NoMetadata /\ o.key = NoKey /\ p.mode = "plain" BY <1>1, <1>2, <1>4
    <2>2. p.etag = o.etag BY <1>2, <2>1, PlainMetadata DEF PutETag
    <2>3. QED BY <1>1, <1>2, <1>3, <2>1, <2>2 DEF PlainKept
  <1>5. CASE IsRequested(h) /\ S3IsRequested(h)
    <2>1. o.key = random + 2 /\ o.key # NoKey /\ p.mode = "SSE-S3" /\ p.key = globalKMS
      BY <1>1, <1>2, <1>5 DEF NoKey
    <2>2. o.metadata = S3Metadata(Seal(random + 2, random + 1, random + 3, "SSE-S3", name),
                                  GenerateKey(random + 1, name))
      BY <1>1, <1>5 DEF NewEncryptMetadata
    <2>3. /\ DOMAIN o.metadata = {"s3", "kms"}
          /\ o.metadata.kms.key = random + 1 /\ o.metadata.kms.under = <<globalKMS, KeyID, name>>
          /\ o.metadata.s3 = Seal(random + 2, random + 1, random + 3, "SSE-S3", name)
      BY <2>2 DEF S3Metadata, GenerateKey
    <2>4. SealedUnder(o.metadata.s3, o.key, o.metadata.kms.key, "SSE-S3", name)
      BY <2>1, <2>3, SealIs
    <2>5. globalKMS \notin {None, Down} BY <1>5 DEF PutRefused, KMSAnswers
    <2>6. o.metadata.kms.key # NoKey BY <2>3 DEF NoKey
    <2>7. S3IsEncrypted(o.metadata) BY <2>3 DEF S3IsEncrypted
    <2>8. p.etag = TryDecryptETag(o.key, o.etag) BY <1>1, <1>2, <2>7 DEF PutETag
    <2>9. \/ o.etag = SealedMD5(p.data, o.key) /\ p.etag = MD5Of(p.data)
          \/ o.etag = CutETag(p.data) /\ p.etag = o.etag
      <3>1. CASE hasMD5
        <4>1. o.etag = SealedMD5(p.data, o.key) BY <1>1, <1>2, <2>1, <3>1 DEF MD5CurrentHexString
        <4>2. QED BY <2>8, <4>1 DEF SealedMD5, MD5Of, TryDecryptETag
      <3>2. CASE ~hasMD5
        <4>1. o.etag = CutETag(p.data) BY <1>1, <1>2, <3>2 DEF MD5CurrentHexString
        <4>2. QED BY <2>8, <4>1 DEF CutETag, TryDecryptETag
      <3>3. QED BY <3>1, <3>2
    <2>10. S3Kept(o, p, name) BY <2>1, <2>3, <2>4, <2>5, <2>6, <2>9 DEF S3Kept
    <2>11. QED BY <1>1, <1>2, <1>3, <2>1, <2>10
  <1>6. CASE IsRequested(h) /\ ~S3IsRequested(h)
    <2>1. o.key = random + 2 /\ o.key # NoKey /\ p.mode \in {"SSE-C", "neither"}
      BY <1>1, <1>2, <1>6 DEF NoKey
    <2>2. o.metadata = SSECMetadata(Seal(random + 2, p.key, random + 3, "SSE-C", name))
      BY <1>1, <1>2, <1>6 DEF NewEncryptMetadata
    <2>3. DOMAIN o.metadata = {"ssec"}
          /\ o.metadata.ssec = Seal(random + 2, p.key, random + 3, "SSE-C", name)
      BY <2>2 DEF SSECMetadata
    <2>4. SealedUnder(o.metadata.ssec, o.key, p.key, "SSE-C", name) BY <2>1, <2>3, SealIs
    <2>5. ~S3IsEncrypted(o.metadata) /\ SSECIsEncrypted(o.metadata)
      BY <2>3 DEF S3IsEncrypted, SSECIsEncrypted
    <2>6. ASSUME hasMD5
          PROVE  o.etag.form = "sealed" /\ p.etag = LastDigits(o.etag)
      <3>1. o.etag = SealedMD5(p.data, o.key) BY <1>1, <1>2, <2>1, <2>6 DEF MD5CurrentHexString
      <3>2. o.etag.form = "sealed" BY <3>1 DEF SealedMD5
      <3>3. QED BY <1>1, <1>2, <2>5, <3>2 DEF PutETag
    <2>7. SSECKept(o, p, name) BY <1>2, <2>1, <2>3, <2>4, <2>6 DEF SSECKept
    <2>8. QED BY <1>1, <1>2, <1>3, <2>1, <2>7
  <1>7. QED BY <1>4, <1>5, <1>6

LEMMA PutObjectInv ==
  ASSUME EncryptionInv, NEW via, NEW h \in Headers, NEW name \in ObjectNames,
         NEW hasMD5 \in BOOLEAN, PutObject(via, name, h, hasMD5)
  PROVE  EncryptionInv'
  <1> DEFINE key == IF IsRequested(h) THEN random + 2 ELSE NoKey
             o == [metadata |-> IF IsRequested(h) THEN NewEncryptMetadata(h, name) ELSE NoMetadata,
                   data |-> random, key |-> key, etag |-> MD5CurrentHexString(random, hasMD5, key)]
             p == [data |-> random, etag |-> PutETag(o, key), hasMD5 |-> hasMD5,
                   mode |-> IF ~IsRequested(h) THEN "plain" ELSE IF S3IsRequested(h) THEN "SSE-S3"
                            ELSE IF SSECIsRequested(h) THEN "SSE-C" ELSE "neither",
                   key |-> IF S3IsRequested(h) THEN globalKMS
                           ELSE IF SSECIsRequested(h) THEN h.ssec.key ELSE ZeroKey]
  <1>1. /\ ~PutRefused(via, h) /\ objects' = With(objects, name, o) /\ promise' = With(promise, name, p)
        /\ random' = random + 4 /\ answer' = NoAnswer
    BY DEF PutObject
  <1>2. random \in Nat /\ DOMAIN objects \subseteq ObjectNames /\ AllKept
    BY DEF EncryptionInv, EncryptionTypeOK
  <1>3. /\ WellFormed(o) /\ WellSaid(p) /\ o.data = p.data
        /\ p.mode \in {"plain", "SSE-C", "SSE-S3", "neither"}
        /\ p.mode = "plain" => PlainKept(o, p)
        /\ p.mode \in {"SSE-C", "neither"} => SSECKept(o, p, name)
        /\ p.mode = "SSE-S3" => S3Kept(o, p, name)
    BY <1>1, <1>2, PutKept
  <1> HIDE DEF o, p
  <1>4. /\ DOMAIN objects' = DOMAIN objects \cup {name} /\ objects'[name] = o
        /\ \A y \in DOMAIN objects : y # name => objects'[y] = objects[y]
    BY <1>1 DEF With
  <1>5. /\ DOMAIN promise' = DOMAIN promise \cup {name} /\ promise'[name] = p
        /\ \A y \in DOMAIN promise : y # name => promise'[y] = promise[y]
    BY <1>1 DEF With
  <1>6. Kept(name)' BY <1>3, <1>4, <1>5 DEF Kept
  <1>7. ASSUME NEW y \in DOMAIN objects, y # name PROVE Kept(y)'
    <2>1. Kept(y) /\ objects'[y] = objects[y] /\ promise'[y] = promise[y]
      BY <1>2, <1>4, <1>5, <1>7 DEF AllKept
    <2>2. QED BY <2>1 DEF Kept
  <1>8. AllKept' BY <1>2, <1>4, <1>5, <1>6, <1>7 DEF AllKept
  <1>9. EncryptionTypeOK' /\ ReadBackAsPut' BY <1>1, <1>2, <1>4 DEF EncryptionTypeOK, ReadBackAsPut
  <1>10. QED BY <1>8, <1>9 DEF EncryptionInv

\* Rotation: the key of the object stays, and is sealed under the new key.
LEMMA RotatedIs ==
  ASSUME NEW sealed, NEW key, NEW oldKey, NEW newKey, NEW name,
         SealedUnder(sealed, key, oldKey, "SSE-C", name)
  PROVE  SealedUnder(RotatedSSEC(sealed, key, oldKey, newKey, name), key, newKey, "SSE-C", name)
  <1>1. CASE oldKey = newKey /\ sealed.algorithm = SealAlgorithm BY <1>1 DEF RotatedSSEC
  <1>2. CASE ~(oldKey = newKey /\ sealed.algorithm = SealAlgorithm) BY <1>2, SealIs DEF RotatedSSEC
  <1>3. QED BY <1>1, <1>2

\* An object whose metadata changes is kept, if it keeps the promise.
LEMMA ReplacedInv ==
  ASSUME EncryptionInv, NEW name \in DOMAIN objects, NEW o, NEW p,
         objects' = [objects EXCEPT ![name] = o],
         DOMAIN promise' = DOMAIN promise, promise'[name] = p,
         \A y \in DOMAIN promise : y # name => promise'[y] = promise[y],
         answer' = NoAnswer, random' \in Nat,
         WellFormed(o), WellSaid(p), o.data = p.data, p.mode \in {"SSE-C", "SSE-S3", "neither"},
         p.mode \in {"SSE-C", "neither"} => SSECKept(o, p, name),
         p.mode = "SSE-S3" => S3Kept(o, p, name)
  PROVE  EncryptionInv'
  <1>1. DOMAIN objects' = DOMAIN objects /\ DOMAIN promise' = DOMAIN objects
    BY DEF EncryptionInv, AllKept
  <1>2. /\ objects'[name] = o /\ promise'[name] = p
        /\ \A y \in DOMAIN objects : y # name => objects'[y] = objects[y] /\ promise'[y] = promise[y]
    BY DEF EncryptionInv, AllKept
  <1>3. Kept(name)' BY <1>2 DEF Kept
  <1>4. ASSUME NEW y \in DOMAIN objects, y # name PROVE Kept(y)'
    <2>1. Kept(y) BY DEF EncryptionInv, AllKept
    <2>2. QED BY <1>2, <1>4, <2>1 DEF Kept
  <1>5. AllKept' BY <1>1, <1>3, <1>4 DEF AllKept
  <1>6. EncryptionTypeOK' /\ ReadBackAsPut'
    BY <1>1 DEF EncryptionInv, EncryptionTypeOK, ReadBackAsPut
  <1>7. QED BY <1>5, <1>6 DEF EncryptionInv

LEMMA RotateKeyInv ==
  ASSUME EncryptionInv, NEW name \in DOMAIN objects, NEW oldKey, NEW newKey,
         RotateKey(name, oldKey, newKey)
  PROVE  EncryptionInv'
  <1> DEFINE o == objects[name]
             p == promise[name]
             key == DecryptObjectKey(oldKey, name, o.metadata)
  <1>1. /\ key # NoKey /\ answer' = NoAnswer /\ random \in Nat /\ name \in DOMAIN promise
    BY DEF RotateKey, EncryptionInv, EncryptionTypeOK, AllKept
  <1>2. /\ WellFormed(o) /\ WellSaid(p) /\ o.data = p.data
        /\ p.mode \in {"plain", "SSE-C", "SSE-S3", "neither"}
        /\ p.mode = "plain" => PlainKept(o, p)
        /\ p.mode \in {"SSE-C", "neither"} => SSECKept(o, p, name)
        /\ p.mode = "SSE-S3" => S3Kept(o, p, name)
    BY <1>1 DEF EncryptionInv, AllKept, Kept
  <1>3. CASE p.mode \in {"SSE-C", "neither"}
    <2> DEFINE sealed == RotatedSSEC(o.metadata.ssec, key, oldKey, newKey, name)
               changed == [o EXCEPT !.metadata = SSECMetadata(sealed)]
               said == [p EXCEPT !.key = newKey]
    <2>1. SSECKept(o, p, name) /\ SSECIsEncrypted(o.metadata) /\ ~S3IsEncrypted(o.metadata)
      BY <1>2, <1>3, SSECKeys
    <2>2. /\ objects' = [objects EXCEPT ![name] = changed] /\ promise' = [promise EXCEPT ![name] = said]
          /\ random' = random
      BY <2>1 DEF RotateKey
    <2>3. oldKey = p.key /\ key = o.key BY <1>1, <2>1, SSECKeys
    <2>4. SealedUnder(sealed, o.key, newKey, "SSE-C", name) BY <2>1, <2>3, RotatedIs DEF SSECKept
    <2>5. /\ WellFormed(changed) /\ changed.key = o.key /\ changed.data = o.data
          /\ changed.etag = o.etag /\ changed.metadata = SSECMetadata(sealed)
      BY <1>2 DEF WellFormed
    <2>6. said.mode = p.mode /\ said.data = p.data /\ said.etag = p.etag /\ said.hasMD5 = p.hasMD5
          /\ said.key = newKey /\ WellSaid(said)
      BY <1>2 DEF WellSaid
    <2> HIDE DEF sealed, changed, said
    <2>7. SSECKept(changed, said, name) BY <2>1, <2>4, <2>5, <2>6 DEF SSECKept, SSECMetadata
    <2>8. /\ DOMAIN promise' = DOMAIN promise /\ promise'[name] = said
          /\ \A y \in DOMAIN promise : y # name => promise'[y] = promise[y]
      BY <1>1, <2>2
    <2>9. QED BY <1>1, <1>2, <1>3, <2>2, <2>5, <2>6, <2>7, <2>8, ReplacedInv
  <1>4. CASE p.mode = "SSE-S3"
    <2> DEFINE changed == [o EXCEPT !.metadata =
                 S3Metadata(Seal(key, random + 1, random + 2, "SSE-S3", name), GenerateKey(random + 1, name))]
    <2>1. S3Kept(o, p, name) /\ ~SSECIsEncrypted(o.metadata) /\ S3IsEncrypted(o.metadata)
      BY <1>2, <1>4, S3Keys
    <2>2. /\ objects' = [objects EXCEPT ![name] = changed] /\ promise' = promise
          /\ random' = random + 2
      BY <2>1 DEF RotateKey
    <2>3. globalKMS = p.key /\ key = o.key BY <1>1, <2>1, S3Keys
    <2>4. /\ WellFormed(changed) /\ changed.key = o.key /\ changed.data = o.data /\ changed.etag = o.etag
          /\ changed.metadata = S3Metadata(Seal(o.key, random + 1, random + 2, "SSE-S3", name),
                                           GenerateKey(random + 1, name))
      BY <1>2, <2>3 DEF WellFormed
    <2> HIDE DEF changed
    <2>5. /\ DOMAIN changed.metadata = {"s3", "kms"} /\ changed.metadata.kms.key = random + 1
          /\ changed.metadata.kms.under = <<p.key, KeyID, name>>
          /\ changed.metadata.s3 = Seal(o.key, random + 1, random + 2, "SSE-S3", name)
      BY <2>3, <2>4 DEF S3Metadata, GenerateKey
    <2>6. SealedUnder(changed.metadata.s3, o.key, changed.metadata.kms.key, "SSE-S3", name)
      BY <2>5, SealIs
    <2>7. S3Kept(changed, p, name) BY <1>1, <2>1, <2>4, <2>5, <2>6 DEF S3Kept, NoKey
    <2>8. /\ DOMAIN promise' = DOMAIN promise /\ promise'[name] = p
          /\ \A y \in DOMAIN promise : y # name => promise'[y] = promise[y]
      BY <2>2
    <2>9. objects' = [objects EXCEPT ![name] = changed] /\ random' \in Nat /\ changed.data = p.data
      BY <1>1, <1>2, <2>2, <2>4
    <2>10. WellFormed(changed) /\ WellSaid(p) BY <1>2, <2>4
    <2> HIDE DEF o, p
    <2>11. QED BY <1>1, <1>4, <2>7, <2>8, <2>9, <2>10, ReplacedInv
  <1>5. CASE p.mode = "plain" BY <1>1, <1>2, <1>5, PlainMetadata DEF PlainKept, DecryptObjectKey
  <1>6. QED BY <1>2, <1>3, <1>4, <1>5

LEMMA ConfigureInv == ASSUME EncryptionInv, Configure PROVE EncryptionInv'
  BY DEF EncryptionInv, Configure, EncryptionTypeOK, AllKept, Kept, ReadBackAsPut

\* Objects from before have the key of their customer.
LEMMA EncryptionInitInv == EncryptionInit => EncryptionInv
  <1> SUFFICES ASSUME EncryptionInit PROVE EncryptionInv
    OBVIOUS
  <1>1. PICK name \in ObjectNames, key \in CustomerKeys, old \in BOOLEAN :
          /\ objects = [n \in IF old THEN {name} ELSE {} |-> OldObject(key)]
          /\ promise = [n \in IF old THEN {name} ELSE {} |-> OldPromise(key)]
    BY DEF EncryptionInit
  <1>2. /\ WellFormed(OldObject(key)) /\ OldObject(key).data = OldPromise(key).data
        /\ OldPromise(key).mode = "SSE-C" /\ WellSaid(OldPromise(key))
    BY DEF WellFormed, WellSaid, OldObject, OldPromise, SealedMD5
  <1>3. SSECKept(OldObject(key), OldPromise(key), name)
    <2>1. /\ OldObject(key).key = -2 /\ OldObject(key).etag = SealedMD5(-1, -2)
          /\ OldPromise(key).key = key /\ OldPromise(key).etag = LastDigits(SealedMD5(-1, -2))
          /\ OldObject(key).metadata.ssec =
               [key |-> -2, iv |-> -3, algorithm |-> InsecureSealAlgorithm,
                under |-> SealingKey(InsecureSealAlgorithm, key, -3, "SSE-C", None)]
          /\ DOMAIN OldObject(key).metadata = {"ssec"}
      BY DEF OldObject, OldPromise, SSECMetadata
    <2>2. SealedUnder(OldObject(key).metadata.ssec, OldObject(key).key, key, "SSE-C", name)
      BY <2>1 DEF SealedUnder, SealingKey, SealAlgorithm, InsecureSealAlgorithm
    <2>3. QED BY <2>1, <2>2 DEF SSECKept, NoKey, SealedMD5
  <1>4. AllKept BY <1>1, <1>2, <1>3 DEF AllKept, Kept
  <1>5. QED BY <1>1, <1>4 DEF EncryptionInv, EncryptionTypeOK, ReadBackAsPut, EncryptionInit

\* Whatever is put, read and rotated, whoever configures the service, in any
\* order: what the store has of an object keeps the promise that its put made
\* (newEncryptMetadata, rotateKey, Seal and Unseal of ObjectKey).
THEOREM PromisesKept == EncryptionSpec => []EncryptionInv
  <1>1. ASSUME EncryptionInv, [EncryptionNext]_encryptionVars PROVE EncryptionInv'
    <2>1. ASSUME NEW via \in {"api", "web"}, NEW h \in Headers, NEW name \in ObjectNames,
                 NEW hasMD5 \in BOOLEAN, PutObject(via, name, h, hasMD5)
          PROVE  EncryptionInv'
      BY <1>1, <2>1, PutObjectInv
    <2>2. ASSUME NEW via \in {"api", "web"}, NEW h \in Headers, NEW name \in DOMAIN objects,
                 GetObject(via, name, h)
          PROVE  EncryptionInv'
      BY <1>1, <2>2, GetObjectInv
    <2>3. ASSUME NEW name \in DOMAIN objects, NEW oldKey \in CustomerKeys, NEW newKey \in CustomerKeys,
                 RotateKey(name, oldKey, newKey)
          PROVE  EncryptionInv'
      BY <1>1, <2>3, RotateKeyInv
    <2>4. ASSUME UNCHANGED encryptionVars PROVE EncryptionInv'
      BY <1>1, <2>4 DEF encryptionVars, EncryptionInv, EncryptionTypeOK, AllKept, Kept,
                        ReadBackAsPut, FitsPromise
    <2>5. QED BY <1>1, <2>1, <2>2, <2>3, <2>4, ConfigureInv DEF EncryptionNext
  <1>2. QED BY <1>1, EncryptionInitInv, PTL DEF EncryptionSpec

\* ReadBackAsPut: objects are read back as they were put, by who has the key
\* and by nobody else (newEncryptMetadata, rotateKey, decryptObjectInfo).
THEOREM ReadBackAsPutAlways == EncryptionSpec => []ReadBackAsPut
  <1>1. EncryptionInv => ReadBackAsPut BY DEF EncryptionInv
  <1>2. QED BY <1>1, PromisesKept, PTL

(***************************************************************************)
(* Signatures.                                                             *)
(***************************************************************************)
ShaHeader == "x-amz-content-sha256"
TokenHeader == "x-amz-security-token"

MessageFields ==
  {"scheme", "method", "path", "resource", "query", "body", "header", "date", "expires", "key",
   "day", "region", "service", "signedHeaders", "signature"}

\* A message and its headers are functions.
IsMessage(m) ==
  /\ m = [f \in MessageFields |-> m[f]]
  /\ m.header = [h \in HeaderNames |-> m.header[h]]

Credentials ==
  [secret : (Keys \cup {Absent}) \X (0..2), token : Keys \cup {Absent}, off : BOOLEAN,
   expiration : Int]

\* What stands for the hash of the body in a signature in the header or query.
SignedPayload(o, hasSha) == IF hasSha THEN o.body ELSE "UNSIGNED-PAYLOAD"

\* The credentials are ones that nothing has happened to.
Untouched(key, cred) == cred.secret = <<key, 1>> /\ ~cred.off /\ cred.expiration = 0

\* The fields that the server relies on, as the client sets them.
FieldsFit(o, cred, hasSha) ==
  /\ o.scheme \in Schemes
  /\ o.key \in Keys /\ Untouched(o.key, cred)
  /\ o.body \in Bodies
  /\ o.date \in Int /\ o.date <= now /\ o.expires \in Int /\ o.day \in Int
  /\ o.header["host"] = "ipos"
  /\ o.header[ShaHeader] = IF hasSha /\ o.scheme # "V4STS" THEN o.body ELSE Absent
  /\ o.scheme \in V4Schemes => o.region = "us"
  /\ o.scheme \in {"V4", "PresignV4", "PostPolicyV4"} => o.service = "s3"
  /\ o.scheme = "V4STS" => o.service = "sts"
  /\ o.scheme = "JWT" => ~IsTemp(cred)
  /\ o.scheme \in {"V4", "PresignV4"} => o.header[TokenHeader] = cred.token
  /\ o.scheme = "PresignV4" => o.expires = Expiry

\* The headers a client signs.
HeadersFit(o) ==
  /\ o.scheme \in {"V4", "V4STS"} => o.signedHeaders = Present(o) \ V4IgnoredHeaders
  /\ o.scheme = "PresignV4" =>
       o.signedHeaders = Present(o) \ (V4IgnoredHeaders \cup {TokenHeader})

\* What each scheme signs.
SignatureFits(o, cred, hasSha) ==
  /\ o.scheme \in {"V4", "V4STS"} =>
       o.signature = Sum(cred.secret, Scope(o),
                         TextV4(o, o.signedHeaders, SignedPayload(o, hasSha)))
  /\ o.scheme = "PresignV4" =>
       o.signature = Sum(cred.secret, Scope(o),
                         TextPresignV4(o, o.signedHeaders, SignedPayload(o, hasSha)))
  /\ o.scheme = "PostPolicyV4" => o.signature = Sum(cred.secret, Scope(o), <<o.body>>)
  /\ o.scheme = "V2" => o.signature = Sum(cred.secret, NoScope, TextV2(o, o.date))
  /\ o.scheme = "PresignV2" => o.signature = Sum(cred.secret, NoScope, TextV2(o, o.expires))
  /\ o.scheme = "JWT" => o.signature = Sum(cred.secret, NoScope, <<o.key, o.expires>>)

\* What no change on the way alters, or not in any way.
KeptOnItsWay(m, o) ==
  /\ m.scheme = o.scheme /\ m.service = o.service /\ m.signature = o.signature
  /\ m.key \in Keys
  /\ m.body \in {o.body, "changed"}
  /\ m.date \in Int /\ m.expires \in Int

\* A user's secret is its own, or it has none; root's never changes.
CredsFit ==
  /\ creds \in [Keys -> Credentials]
  /\ \A k \in Keys : /\ creds[k].secret \in {<<k, 1>>, <<k, 2>>, NoSecret}
                      /\ creds[k].token \in {k, Absent}
  /\ creds[Root].secret = <<Root, 1>>

OriginalFits ==
  /\ IsMessage(original.message)
  /\ FieldsFit(original.message, original.cred, original.hasSha)
  /\ HeadersFit(original.message)
  /\ SignatureFits(original.message, original.cred, original.hasSha)
  /\ original.cred \in Credentials /\ original.hasSha \in BOOLEAN

VerdictFits ==
  verdict.done => verdict = [done |-> TRUE, matches |-> Matches(message),
                             account |-> Account(message), bodyVerified |-> BodyVerified(message)]

\* The inductive invariant.
SignaturesInv ==
  /\ now \in Int
  /\ CredsFit
  /\ VerdictFits
  /\ IF message.scheme = "none"
     THEN ~verdict.done /\ \A k \in Keys : Untouched(k, creds[k])
     ELSE OriginalFits /\ KeptOnItsWay(message, original.message)

\* Names, so that the provers need not look into strings.
LEMMA AbsentDiffers == Absent \notin {"ipos", "changed", "UNSIGNED-PAYLOAD", "s3", "sts"}
  BY Zenon DEF Absent

\* The provers see numbers of this size only where they must.
LEMMA WeekIsNumber == Week \in Nat
  BY SMT DEF Week

\* At the start nothing is signed.
LEMMA SignaturesInitInv == SignaturesInit => SignaturesInv
  <1> SUFFICES ASSUME SignaturesInit PROVE SignaturesInv
    OBVIOUS
  <1>1. PICK temps \in SUBSET Users :
           creds = [k \in Keys |-> [secret |-> <<k, 1>>, token |-> IF k \in temps THEN k ELSE Absent,
                                    off |-> FALSE, expiration |-> 0]]
    BY DEF SignaturesInit
  <1>2. \A k \in Keys : /\ creds[k] \in Credentials
                        /\ creds[k].secret = <<k, 1>> /\ Untouched(k, creds[k])
                        /\ creds[k].token \in {k, Absent}
    BY <1>1 DEF Credentials, Untouched
  <1>3. CredsFit BY <1>1, <1>2 DEF CredsFit, Keys
  <1>4. message.scheme = "none" BY DEF SignaturesInit, Request
  <1>5. ~verdict.done BY DEF SignaturesInit, NotYet
  <1>6. VerdictFits BY <1>5 DEF VerdictFits
  <1>7. now \in Int BY DEF SignaturesInit
  <1>8. QED BY <1>2, <1>3, <1>4, <1>5, <1>6, <1>7 DEF SignaturesInv

\* A request that was written and not signed yet.
LEMMA PreparedFits ==
  ASSUME SignaturesInv, NEW key \in Keys, NEW scheme \in Schemes, NEW b \in Bodies,
         NEW query, NEW hasSha \in BOOLEAN, NEW ctype, NEW cred \in Credentials,
         Untouched(key, cred),
         scheme = "JWT" => ~IsTemp(cred),
         NEW m, m = Prepared(Request("PUT", b, "v", query, hasSha, ctype), scheme, key, cred, now)
  PROVE  /\ IsMessage(m)
         /\ FieldsFit([m EXCEPT !.header[ShaHeader] = IF m.scheme = "V4STS" THEN Absent ELSE @],
                      cred, hasSha)
         /\ m.scheme = scheme /\ m.key = key
         /\ GetHashedPayload(m) = SignedPayload(m, hasSha)
  <1> DEFINE r == Request("PUT", b, "v", query, hasSha, ctype)
  <1>1. IsMessage(r) BY DEF IsMessage, Request, MessageFields
  <1>2. /\ r.body = b /\ r.header["host"] = "ipos"
        /\ r.header[ShaHeader] = IF hasSha THEN b ELSE Absent
    BY DEF Request, HeaderNames, ShaHeader
  <1> HIDE DEF r
  <1>3. /\ IsMessage(m) /\ m.scheme = scheme /\ m.key = key /\ m.body = b
        /\ m.date = now /\ m.day = Day(now)
    BY <1>1, <1>2 DEF IsMessage, Prepared, MessageFields, HeaderNames, r
  <1>4. /\ m.header["host"] = "ipos"
        /\ m.header[ShaHeader] = IF hasSha THEN b ELSE Absent
        /\ m.header[TokenHeader] = IF scheme \in {"V4", "PresignV4"} THEN cred.token ELSE Absent
    BY <1>1, <1>2 DEF IsMessage, Prepared, MessageFields, HeaderNames, ShaHeader, TokenHeader, r
  <1>5. /\ m.region = IF scheme \in V4Schemes THEN "us" ELSE Absent
        /\ m.service = IF scheme = "V4STS" THEN "sts"
                       ELSE IF scheme \in V4Schemes THEN "s3" ELSE Absent
        /\ m.expires = IF scheme \in {"PresignV2", "JWT"} THEN now + Expiry
                       ELSE IF scheme = "PresignV4" THEN Expiry ELSE 0
    BY <1>1, <1>2 DEF IsMessage, Prepared, MessageFields, r
  <1>6. now \in Int /\ Expiry \in Int /\ m.day \in Int
    BY <1>3, SignaturesAssumption DEF SignaturesInv, Day
  <1> DEFINE s == [m EXCEPT !.header[ShaHeader] = IF m.scheme = "V4STS" THEN Absent ELSE @]
  <1>7. \A f \in MessageFields : f # "header" => s[f] = m[f] BY <1>3 DEF IsMessage, MessageFields
  <1>8. \A h \in HeaderNames :
           s.header[h] = IF h = ShaHeader /\ scheme = "V4STS" THEN Absent ELSE m.header[h]
    BY <1>3 DEF IsMessage, MessageFields
  <1> HIDE DEF s
  <1>9. /\ s.scheme = scheme /\ s.key = key /\ s.body = b /\ s.date = now /\ s.day = m.day
        /\ s.region = m.region /\ s.service = m.service /\ s.expires = m.expires
    BY <1>3, <1>7 DEF MessageFields
  <1>10. FieldsFit(s, cred, hasSha)
    BY <1>4, <1>5, <1>6, <1>8, <1>9 DEF FieldsFit, V4Schemes, HeaderNames, ShaHeader, TokenHeader
  <1>11. GetHashedPayload(m) = SignedPayload(m, hasSha)
    BY <1>3, <1>4, RequestsAssumption DEF GetHashedPayload, SignedPayload, ShaHeader
  <1>12. QED BY <1>3, <1>10, <1>11 DEF s

\* Two messages with the same contents.
SameContents(o, s) == \A f \in MessageFields \ {"signedHeaders", "signature"} : o[f] = s[f]

\* Signed headers and signature are not looked at by what is signed.
LEMMA StampedFits ==
  ASSUME NEW s, NEW o, NEW cred, NEW hasSha, SameContents(o, s)
  PROVE  /\ FieldsFit(s, cred, hasSha) => FieldsFit(o, cred, hasSha)
         /\ Present(o) = Present(s) /\ Scope(o) = Scope(s)
         /\ \A names, payload : TextV4(o, names, payload) = TextV4(s, names, payload)
         /\ \A names, payload :
              TextPresignV4(o, names, payload) = TextPresignV4(s, names, payload)
         /\ \A date : TextV2(o, date) = TextV2(s, date)
         /\ o.scheme = s.scheme /\ o.body = s.body /\ o.key = s.key
         /\ o.date = s.date /\ o.expires = s.expires
         /\ SignedPayload(o, hasSha) = SignedPayload(s, hasSha)
  <1>1. /\ o.scheme = s.scheme /\ o.method = s.method /\ o.path = s.path
        /\ o.resource = s.resource /\ o.query = s.query /\ o.body = s.body
        /\ o.header = s.header /\ o.date = s.date /\ o.expires = s.expires /\ o.key = s.key
        /\ o.day = s.day /\ o.region = s.region /\ o.service = s.service
    BY DEF SameContents, MessageFields
  <1>2. Present(o) = Present(s) /\ Scope(o) = Scope(s) BY <1>1 DEF Present, Scope
  <1>3. \A names : Select(o, names) = Select(s, names) BY <1>1 DEF Select
  <1>4. \A names, payload : TextV4(o, names, payload) = TextV4(s, names, payload)
    BY <1>1, <1>3 DEF TextV4
  <1>5. \A names, payload : TextPresignV4(o, names, payload) = TextPresignV4(s, names, payload)
    BY <1>1, <1>4 DEF TextPresignV4
  <1>6. \A date : TextV2(o, date) = TextV2(s, date) BY <1>1, <1>2, <1>3, Zenon DEF TextV2
  <1>7. FieldsFit(s, cred, hasSha) => FieldsFit(o, cred, hasSha) BY <1>1, Zenon DEF FieldsFit
  <1>8. QED BY <1>1, <1>2, <1>4, <1>5, <1>6, <1>7 DEF SignedPayload

\* The signature goes over the fields as they are sent.
LEMMA SignedFits ==
  ASSUME SignaturesInv, NEW key \in Keys, NEW scheme \in Schemes, NEW b \in Bodies,
         NEW query, NEW hasSha \in BOOLEAN, NEW ctype, NEW cred \in Credentials,
         Untouched(key, cred),
         scheme = "JWT" => ~IsTemp(cred),
         NEW m, m = Prepared(Request("PUT", b, "v", query, hasSha, ctype), scheme, key, cred, now),
         NEW o, o = Signed(m, cred.secret)
  PROVE  /\ IsMessage(o)
         /\ FieldsFit(o, cred, hasSha) /\ HeadersFit(o) /\ SignatureFits(o, cred, hasSha)
  <1> DEFINE s == [m EXCEPT !.header[ShaHeader] = IF m.scheme = "V4STS" THEN Absent ELSE @]
  <1>1. /\ IsMessage(m) /\ FieldsFit(s, cred, hasSha) /\ m.scheme = scheme /\ m.key = key
        /\ GetHashedPayload(m) = SignedPayload(m, hasSha)
    BY PreparedFits
  <1>2. IsMessage(s) /\ s.scheme = scheme /\ s.body = m.body /\ Scope(m) = Scope(s)
    BY <1>1 DEF IsMessage, MessageFields, HeaderNames, ShaHeader, Scope
  <1>3. scheme # "V4STS" => s = m BY <1>1 DEF IsMessage, MessageFields, HeaderNames, ShaHeader
  <1> DEFINE payload == SignedPayload(s, hasSha)
             Stamped(names, g) == [s EXCEPT !.signedHeaders = names, !.signature = g]
  <1>4. SignedPayload(m, hasSha) = payload BY <1>2 DEF SignedPayload
  <1> HIDE DEF s, payload
  <1>5. ASSUME NEW names, NEW g, o = Stamped(names, g)
        PROVE  /\ IsMessage(o) /\ o.signedHeaders = names /\ o.signature = g
               /\ SameContents(o, s)
    BY <1>2, <1>5 DEF IsMessage, MessageFields, SameContents
  <1>6. ASSUME NEW names, NEW g, o = Stamped(names, g)
        PROVE  /\ IsMessage(o) /\ o.signedHeaders = names /\ o.signature = g
               /\ FieldsFit(o, cred, hasSha)
               /\ Present(o) = Present(s) /\ Scope(o) = Scope(s)
               /\ \A n, p : /\ TextV4(o, n, p) = TextV4(s, n, p)
                            /\ TextPresignV4(o, n, p) = TextPresignV4(s, n, p)
               /\ \A date : TextV2(o, date) = TextV2(s, date)
               /\ o.scheme = scheme /\ o.body = s.body /\ o.key = s.key
               /\ o.date = s.date /\ o.expires = s.expires
               /\ SignedPayload(o, hasSha) = payload
    <2>1. /\ IsMessage(o) /\ o.signedHeaders = names /\ o.signature = g
          /\ SameContents(o, s)
      BY <1>5, <1>6
    <2>2. FieldsFit(s, cred, hasSha) /\ s.scheme = scheme BY <1>1, <1>2
    <2> HIDE DEF Stamped
    <2>3. FieldsFit(o, cred, hasSha) /\ Present(o) = Present(s) /\ Scope(o) = Scope(s)
      BY <2>1, <2>2, StampedFits
    <2>4. \A n, p : TextV4(o, n, p) = TextV4(s, n, p) BY <2>1, StampedFits
    <2>5. \A n, p : TextPresignV4(o, n, p) = TextPresignV4(s, n, p) BY <2>1, StampedFits
    <2>6. \A date : TextV2(o, date) = TextV2(s, date) BY <2>1, StampedFits
    <2>7. /\ o.scheme = s.scheme /\ o.body = s.body /\ o.key = s.key
          /\ o.date = s.date /\ o.expires = s.expires
          /\ SignedPayload(o, hasSha) = SignedPayload(s, hasSha)
      BY <2>1, StampedFits
    <2>8. QED BY <2>1, <2>2, <2>3, <2>4, <2>5, <2>6, <2>7 DEF payload
  <1>7. \A g : [s EXCEPT !.signature = g] = Stamped(s.signedHeaders, g)
    BY <1>2 DEF IsMessage, MessageFields
  <1> HIDE DEF Stamped
  <1>8. CASE scheme \in {"V4", "V4STS"}
    <2> DEFINE names == Present(s) \ V4IgnoredHeaders
               g == Sum(cred.secret, Scope(s), TextV4(s, names, payload))
    <2>1. o = Stamped(names, g)
      BY <1>1, <1>2, <1>4, <1>8, Zenon DEF Signed, SignV4, ShaHeader, s, Stamped
    <2>2. QED BY <1>6, <1>8, <2>1 DEF HeadersFit, SignatureFits
  <1>9. CASE scheme = "PresignV4"
    <2> DEFINE names == Present(s) \ (V4IgnoredHeaders \cup {TokenHeader})
               g == Sum(cred.secret, Scope(s), TextPresignV4(s, names, payload))
    <2>1. o = PreSignV4(s, cred.secret) /\ GetHashedPayload(s) = payload
      BY <1>1, <1>3, <1>4, <1>9 DEF Signed
    <2>2. o = Stamped(names, g) BY <2>1, Zenon DEF PreSignV4, TokenHeader, Stamped
    <2>3. QED BY <1>6, <1>9, <2>2 DEF HeadersFit, SignatureFits
  <1>10. ASSUME NEW g, o = [s EXCEPT !.signature = g]
         PROVE  o = Stamped(s.signedHeaders, g)
    BY <1>7, <1>10
  <1>11. CASE scheme = "PostPolicyV4"
    <2> DEFINE g == Sum(cred.secret, Scope(s), <<s.body>>)
    <2>1. o = [s EXCEPT !.signature = g] BY <1>1, <1>3, <1>11 DEF Signed, PostPresignSignatureV4
    <2>2. QED BY <1>6, <1>10, <1>11, <2>1 DEF HeadersFit, SignatureFits
  <1>12. CASE scheme = "V2"
    <2> DEFINE g == Sum(cred.secret, NoScope, TextV2(s, s.date))
    <2>1. o = [s EXCEPT !.signature = g] BY <1>1, <1>3, <1>12 DEF Signed, SignV2
    <2>2. QED BY <1>6, <1>10, <1>12, <2>1 DEF HeadersFit, SignatureFits
  <1>13. CASE scheme = "PresignV2"
    <2> DEFINE g == Sum(cred.secret, NoScope, TextV2(s, s.expires))
    <2>1. o = [s EXCEPT !.signature = g] BY <1>1, <1>3, <1>13 DEF Signed, PreSignV2
    <2>2. QED BY <1>6, <1>10, <1>13, <2>1 DEF HeadersFit, SignatureFits
  <1>14. CASE scheme = "JWT"
    <2> DEFINE g == Sum(cred.secret, NoScope, <<s.key, s.expires>>)
    <2>1. o = [s EXCEPT !.signature = g] BY <1>1, <1>3, <1>14 DEF Signed, SignJWT
    <2>2. QED BY <1>6, <1>10, <1>14, <2>1 DEF HeadersFit, SignatureFits
  <1>15. QED BY <1>8, <1>9, <1>11, <1>12, <1>13, <1>14 DEF Schemes, V4Schemes

\* The client.
LEMMA SignStep ==
  ASSUME SignaturesInv, NEW key \in Keys, NEW scheme \in Schemes, NEW b \in Bodies,
         NEW query, NEW hasSha \in BOOLEAN, NEW ctype,
         Sign(key, scheme, b, query, hasSha, ctype)
  PROVE  SignaturesInv'
  <1>1. PICK m, o : /\ m = Prepared(Request("PUT", b, "v", query, hasSha, ctype), scheme,
                                    key, creds[key], now)
                    /\ o = Signed(m, creds[key].secret)
    OBVIOUS
  <1>2. /\ message' = o
        /\ original' = [message |-> o, cred |-> creds[key], hasSha |-> hasSha]
        /\ UNCHANGED <<creds, now, verdict>>
        /\ message.scheme = "none"
        /\ scheme = "JWT" => ~IsTemp(creds[key])
    BY <1>1, Zenon DEF Sign
  <1>3. creds[key] \in Credentials /\ Untouched(key, creds[key]) /\ ~verdict.done
    BY <1>2 DEF SignaturesInv, CredsFit
  <1>4. /\ IsMessage(o) /\ FieldsFit(o, creds[key], hasSha) /\ HeadersFit(o)
        /\ SignatureFits(o, creds[key], hasSha)
    BY <1>1, <1>2, <1>3, SignedFits
  <1>5. original'.message = o /\ original'.cred = creds[key] /\ original'.hasSha = hasSha BY <1>2
  <1>6. FieldsFit(o, creds[key], hasSha)' BY <1>2, <1>4 DEF FieldsFit
  <1>7. OriginalFits'
    BY <1>2, <1>3, <1>4, <1>5, <1>6 DEF OriginalFits, FieldsFit, HeadersFit, SignatureFits
  <1>8. KeptOnItsWay(message', original'.message) /\ message'.scheme # "none"
    BY <1>2, <1>4, <1>5 DEF KeptOnItsWay, FieldsFit, Schemes, V4Schemes
  <1>9. CredsFit' /\ VerdictFits' /\ now' \in Int
    BY <1>2, <1>3 DEF SignaturesInv, CredsFit, VerdictFits
  <1>10. QED BY <1>7, <1>8, <1>9 DEF SignaturesInv

\* A message that was changed on its way.
LEMMA ChangedMessage ==
  ASSUME SignaturesInv, OnItsWay, message = original.message,
         UNCHANGED <<creds, now, original, verdict>>, KeptOnItsWay(message', message)
  PROVE  SignaturesInv'
  <1>1. OriginalFits /\ ~verdict.done /\ KeptOnItsWay(message, original.message)
    BY DEF SignaturesInv, OnItsWay
  <1>2. OriginalFits' BY <1>1 DEF OriginalFits, FieldsFit, HeadersFit, SignatureFits
  <1>3. KeptOnItsWay(message', original'.message) /\ message'.scheme # "none"
    BY <1>1 DEF KeptOnItsWay, OnItsWay
  <1>4. CredsFit' /\ VerdictFits' /\ now' \in Int BY <1>1 DEF SignaturesInv, CredsFit, VerdictFits
  <1>5. QED BY <1>2, <1>3, <1>4 DEF SignaturesInv

\* One part of a message changes on its way.
LEMMA ChangeSteps ==
  ASSUME SignaturesInv,
         \/ \E field \in {"method", "path", "resource", "query", "body", "region"} :
              ChangeText(field)
         \/ \E field \in {"date", "expires", "day"} : ChangeNumber(field)
         \/ \E h \in HeaderNames : ChangeHeader(h)
         \/ \E key \in Keys : ChangeKey(key)
  PROVE  SignaturesInv'
  <1>1. OnItsWay /\ message = original.message /\ UNCHANGED <<creds, now, original, verdict>>
    BY DEF ChangeText, ChangeNumber, ChangeHeader, ChangeKey
  <1>2. /\ IsMessage(message) /\ message.key \in Keys
        /\ message.date \in Int /\ message.expires \in Int
    BY <1>1 DEF SignaturesInv, OnItsWay, OriginalFits, FieldsFit
  <1>3. ASSUME NEW field \in {"method", "path", "resource", "query", "body", "region"},
               ChangeText(field)
        PROVE  KeptOnItsWay(message', message)
    BY <1>2, <1>3 DEF ChangeText, KeptOnItsWay, IsMessage, MessageFields
  <1>4. ASSUME NEW field \in {"date", "expires", "day"}, ChangeNumber(field)
        PROVE  KeptOnItsWay(message', message)
    BY <1>2, <1>4 DEF ChangeNumber, KeptOnItsWay, IsMessage, MessageFields
  <1>5. ASSUME NEW h \in HeaderNames, ChangeHeader(h)
        PROVE  KeptOnItsWay(message', message)
    BY <1>2, <1>5 DEF ChangeHeader, KeptOnItsWay, IsMessage, MessageFields
  <1>6. ASSUME NEW key \in Keys, ChangeKey(key)
        PROVE  KeptOnItsWay(message', message)
    BY <1>2, <1>6 DEF ChangeKey, KeptOnItsWay, IsMessage, MessageFields
  <1>7. KeptOnItsWay(message', message) BY <1>3, <1>4, <1>5, <1>6
  <1>8. QED BY <1>1, <1>7, ChangedMessage

\* Time passes, and what is written stays.
LEMMA TickStep ==
  ASSUME SignaturesInv, Tick
  PROVE  SignaturesInv'
  <1>1. now' \in Int /\ now < now' /\ ~verdict.done /\ UNCHANGED <<creds, message, original, verdict>>
    BY DEF SignaturesInv, Tick
  <1>2. OriginalFits => OriginalFits'
    BY <1>1 DEF SignaturesInv, OriginalFits, FieldsFit, HeadersFit, SignatureFits
  <1>3. CredsFit' /\ VerdictFits' BY <1>1 DEF SignaturesInv, CredsFit, VerdictFits
  <1>4. QED BY <1>1, <1>2, <1>3 DEF SignaturesInv

\* The credentials of a user change while its request is on its way.
LEMMA ChangeCredsStep ==
  ASSUME SignaturesInv, NEW key \in Keys, ChangeCreds(key)
  PROVE  SignaturesInv'
  <1>1. PICK cred \in {[creds[key] EXCEPT !.secret = <<key, 2>>], [creds[key] EXCEPT !.off = TRUE],
                       [creds[key] EXCEPT !.expiration = 1], Gone} :
           creds' = [creds EXCEPT ![key] = cred]
    BY DEF ChangeCreds
  <1>2. key # Root /\ OnItsWay /\ UNCHANGED <<now, message, original, verdict>>
    BY SignaturesAssumption DEF ChangeCreds
  <1>3. /\ cred \in Credentials
        /\ cred.secret \in {<<key, 1>>, <<key, 2>>, NoSecret}
        /\ cred.token \in {key, Absent}
    <2>1. /\ creds[key] \in Credentials
          /\ creds[key].secret \in {<<key, 1>>, <<key, 2>>, NoSecret}
          /\ creds[key].token \in {key, Absent}
      BY DEF SignaturesInv, CredsFit
    <2>2. CASE cred = [creds[key] EXCEPT !.secret = <<key, 2>>] BY <2>1, <2>2 DEF Credentials
    <2>3. CASE cred = [creds[key] EXCEPT !.off = TRUE] BY <2>1, <2>3 DEF Credentials
    <2>4. CASE cred = [creds[key] EXCEPT !.expiration = 1] BY <2>1, <2>4 DEF Credentials
    <2>5. CASE cred = Gone BY <2>5 DEF Credentials, Gone, NoSecret
    <2>6. QED BY <1>1, <2>2, <2>3, <2>4, <2>5
  <1>4. CredsFit' BY <1>1, <1>2, <1>3 DEF SignaturesInv, CredsFit
  <1>5. OriginalFits => OriginalFits' BY <1>2 DEF OriginalFits, FieldsFit, HeadersFit, SignatureFits
  <1>6. QED BY <1>2, <1>4, <1>5 DEF SignaturesInv, OnItsWay, VerdictFits

\* What the server makes of a message depends on nothing but this.
LEMMA SameJudgement ==
  ASSUME UNCHANGED creds, UNCHANGED now, UNCHANGED message
  PROVE  Matches(message)' = Matches(message) /\ Account(message)' = Account(message)
  <1>1. ASSUME NEW service
        PROVE  /\ DoesSignatureMatch(message, service)' = DoesSignatureMatch(message, service)
               /\ ValidCredential(message, service)' = ValidCredential(message, service)
    BY SMT DEF DoesSignatureMatch, ValidCredential, CheckKeyValid, IsExpired
  <1>2. DoesPresignedSignatureMatch(message)' = DoesPresignedSignatureMatch(message)
    BY <1>1, Zenon DEF DoesPresignedSignatureMatch
  <1>3. DoesPolicySignatureV4Match(message)' = DoesPolicySignatureV4Match(message)
    BY SMT DEF DoesPolicySignatureV4Match, ValidCredential, CheckKeyValid, IsExpired
  <1>4. DoesSignV2Match(message)' = DoesSignV2Match(message)
    BY SMT DEF DoesSignV2Match, CheckKeyValid, IsExpired
  <1>5. DoesPresignV2SignatureMatch(message)' = DoesPresignV2SignatureMatch(message)
    BY SMT DEF DoesPresignV2SignatureMatch, CheckKeyValid, IsExpired
  <1>6. WebTokenAuthenticate(message)' = WebTokenAuthenticate(message)
    BY SMT DEF WebTokenAuthenticate, WebTokenKey, CheckKeyValid, IsExpired
  <1>7. Matches(message)' = Matches(message)
    BY <1>1, <1>2, <1>3, <1>4, <1>5, <1>6, Zenon DEF Matches
  <1>8. Account(message)' = Account(message)
    <2>1. /\ DoesSignatureMatch(message, "s3")' = DoesSignatureMatch(message, "s3")
          /\ WebTokenAuthenticate(message)' = WebTokenAuthenticate(message)
      BY <1>1, <1>6
    <2>2. \A key : /\ CheckKeyValid(key)' = CheckKeyValid(key)
                   /\ CheckClaims(message, key)' = CheckClaims(message, key)
      BY SMT DEF CheckKeyValid, IsExpired, CheckClaims
    <2>3. ReqAccessKey(message)' = ReqAccessKey(message) BY DEF ReqAccessKey
    <2>4. QED BY <2>1, <2>2, <2>3, Zenon DEF Account
  <1>9. QED BY <1>7, <1>8

\* The server decides by what it has then, and nothing moves after it.
LEMMA VerifyStep ==
  ASSUME SignaturesInv, Verify
  PROVE  SignaturesInv'
  <1>1. OnItsWay /\ UNCHANGED <<creds, now, message, original>> BY DEF Verify
  <1>2. verdict' = [done |-> TRUE, matches |-> Matches(message), account |-> Account(message),
                    bodyVerified |-> BodyVerified(message)]
    BY DEF Verify
  <1>3. Matches(message)' = Matches(message) /\ Account(message)' = Account(message)
    BY <1>1, SameJudgement
  <1>4. VerdictFits' BY <1>1, <1>2, <1>3 DEF VerdictFits
  <1>5. CredsFit' /\ (OriginalFits => OriginalFits')
    BY <1>1 DEF SignaturesInv, CredsFit, OriginalFits, FieldsFit, HeadersFit, SignatureFits
  <1>6. QED BY <1>1, <1>4, <1>5 DEF SignaturesInv, OnItsWay

\* Nothing moves.
LEMMA StutterStep ==
  ASSUME SignaturesInv, UNCHANGED signatureVars
  PROVE  SignaturesInv'
  <1>1. UNCHANGED <<creds, now, message, original, verdict>> BY DEF signatureVars
  <1>2. Matches(message)' = Matches(message) /\ Account(message)' = Account(message)
    BY <1>1, SameJudgement
  <1>3. VerdictFits' BY <1>1, <1>2 DEF SignaturesInv, VerdictFits
  <1>4. CredsFit' /\ (OriginalFits => OriginalFits')
    BY <1>1 DEF SignaturesInv, CredsFit, OriginalFits, FieldsFit, HeadersFit, SignatureFits
  <1>5. QED BY <1>1, <1>3, <1>4 DEF SignaturesInv

\* Every step keeps the invariant.
LEMMA SignaturesNextInv == SignaturesInv /\ [SignaturesNext]_signatureVars => SignaturesInv'
  BY SignStep, ChangeSteps, TickStep, ChangeCredsStep, VerifyStep, StutterStep
     DEF SignaturesNext

\* A secret belongs to one key.
LEMMA SecretTells ==
  ASSUME CredsFit, NEW key, NEW k \in Keys, creds[k].secret = <<key, 1>>
  PROVE  k = key
  BY DEF CredsFit, NoSecret

\* A signature was made of what it is compared with.
LEMMA SumsEqual ==
  ASSUME NEW s1, NEW s2, NEW c1, NEW c2, NEW t1, NEW t2, Sum(s1, c1, t1) = Sum(s2, c2, t2)
  PROVE  s1 = s2 /\ c1 = c2 /\ t1 = t2
  BY DEF Sum

\* The same names and values were selected.
LEMMA SelectsEqual ==
  ASSUME NEW m1, NEW m2, NEW names1, NEW names2, Select(m1, names1) = Select(m2, names2)
  PROVE  names1 = names2 /\ \A h \in names1 : m1.header[h] = m2.header[h]
  <1>1. names1 = DOMAIN Select(m1, names1) /\ names2 = DOMAIN Select(m2, names2) BY DEF Select
  <1>2. \A h \in names1 : Select(m1, names1)[h] = m1.header[h] BY DEF Select
  <1>3. \A h \in names2 : Select(m2, names2)[h] = m2.header[h] BY DEF Select
  <1>4. QED BY <1>1, <1>2, <1>3

\* The body of a request whose hash was signed in its header is the one that the
\* reader compared with it, and so is the one of a request for a session.
LEMMA BodyAsSigned ==
  ASSUME SignaturesInv, message.scheme \in {"V4", "V4STS"},
         SignedPayload(original.message, original.hasSha) = GetContentSha256Cksum(message),
         Select(message, message.signedHeaders) =
           Select(original.message, original.message.signedHeaders),
         message.scheme = "V4STS" \/ (original.hasSha /\ message.query \notin Keys),
         BodyVerified(message)
  PROVE  message.body = original.message.body
  <1> DEFINE o == original.message
  <1>1. /\ KeptOnItsWay(message, o) /\ FieldsFit(o, original.cred, original.hasSha) /\ HeadersFit(o)
    BY DEF SignaturesInv, OriginalFits
  <1>2. o.body \in Bodies /\ o.body \notin {Absent, "UNSIGNED-PAYLOAD"}
    BY <1>1, RequestsAssumption DEF FieldsFit
  <1>3. CASE message.scheme = "V4STS"
    <2>1. message.service = "sts" /\ message.body \in {o.body, "changed"}
      BY <1>1, <1>3 DEF KeptOnItsWay, FieldsFit
    <2>2. SignedPayload(o, original.hasSha) = message.body BY <2>1 DEF GetContentSha256Cksum
    <2>3. QED BY <2>1, <2>2 DEF SignedPayload
  <1>4. CASE message.scheme = "V4"
    <2>1. /\ message.service = "s3" /\ o.scheme = "V4" /\ original.hasSha
          /\ ~IsRequestPresignedSignatureV4(message)
      BY <1>1, <1>4 DEF KeptOnItsWay, FieldsFit, IsRequestPresignedSignatureV4
    <2>2. o.header[ShaHeader] = o.body /\ o.signedHeaders = Present(o) \ V4IgnoredHeaders
      BY <1>1, <2>1 DEF FieldsFit, HeadersFit
    <2>3. ShaHeader \in o.signedHeaders
      BY <1>2, <2>2 DEF Present, HeaderNames, ShaHeader, V4IgnoredHeaders
    <2>4. message.header[ShaHeader] = o.body BY <2>2, <2>3, SelectsEqual
    <2>5. QED BY <1>2, <2>1, <2>4 DEF BodyVerified, NoHash, ShaHeader
  <1>5. QED BY <1>3, <1>4

\* What is accepted was signed.
LEMMA AcceptedOnlySigned ==
  ASSUME SignaturesInv, verdict.done, verdict.matches
  PROVE  AcceptedAsSigned
  <1> DEFINE o == original.message
             signer == original.cred.secret
  <1>1. /\ CredsFit /\ OriginalFits /\ KeptOnItsWay(message, o) /\ now \in Int
        /\ VerdictFits
    BY DEF SignaturesInv
  <1>2. /\ Matches(message) /\ (verdict.bodyVerified => BodyVerified(message))
        /\ verdict.account = Account(message)
    BY <1>1 DEF VerdictFits
  <1>3. /\ FieldsFit(o, original.cred, original.hasSha) /\ HeadersFit(o)
        /\ SignatureFits(o, original.cred, original.hasSha)
    BY <1>1 DEF OriginalFits
  <1>4. /\ message.scheme = o.scheme /\ message.signature = o.signature /\ message.key \in Keys
        /\ message.date \in Int /\ message.expires \in Int
        /\ signer = <<o.key, 1>> /\ o.scheme \in Schemes /\ o.key \in Keys
        /\ o.date \in Int /\ o.expires \in Int
    BY <1>1, <1>3 DEF KeptOnItsWay, FieldsFit, Untouched
  <1>5. creds[message.key].secret = signer => message.key = o.key BY <1>1, <1>4, SecretTells
  <1> HIDE DEF o, signer
  <1>6. ASSUME NEW s1, NEW c1, NEW t1, NEW c2, NEW t2,
                message.signature = Sum(s1, c1, t1), o.signature = Sum(signer, c2, t2)
         PROVE  s1 = signer /\ t1 = t2
    <2>1. Sum(s1, c1, t1) = Sum(signer, c2, t2) BY <1>4, <1>6
    <2>2. QED BY <2>1, SumsEqual
  <1>7. CASE o.scheme \in {"V4", "V4STS"}
    <2> DEFINE t1 == TextV4(message, message.signedHeaders, GetContentSha256Cksum(message))
               t2 == TextV4(o, o.signedHeaders, SignedPayload(o, original.hasSha))
    <2>1. message.signature = Sum(creds[message.key].secret, Scope(message), t1)
      BY <1>2, <1>4, <1>7, Zenon DEF Matches, DoesSignatureMatch
    <2>2. o.signature = Sum(signer, Scope(o), t2) BY <1>3, <1>7 DEF SignatureFits, signer
    <2> HIDE DEF t1, t2
    <2>3. creds[message.key].secret = signer /\ t1 = t2 BY <1>6, <2>1, <2>2
    <2>4. /\ message.method = o.method /\ message.path = o.path
          /\ message.resource = o.resource /\ message.query = o.query
          /\ Select(message, message.signedHeaders) = Select(o, o.signedHeaders)
          /\ GetContentSha256Cksum(message) = SignedPayload(o, original.hasSha)
          /\ message.date = o.date
      BY <2>3 DEF TextV4, t1, t2
    <2>5. Select(message, o.signedHeaders) = Select(o, o.signedHeaders)
      BY <2>4, SelectsEqual DEF Select
    <2>6. Covered(message) = Covered(original.message) BY <1>4, <1>7, <2>4, <2>5 DEF Covered, o
    <2>7. InTime(original.message) BY <1>7 DEF InTime, o
    <2>8. ( /\ \/ message.scheme = "V4STS"
               \/ message.scheme = "V4" /\ original.hasSha /\ message.query \notin Keys
            /\ verdict.bodyVerified ) => message.body = original.message.body
      BY <1>2, <1>4, <1>7, <2>4, BodyAsSigned DEF o
    <2>9. ReqAccessKey(message) = ReqAccessKey(original.message)
      BY <1>5, <2>3, <2>4 DEF ReqAccessKey, o
    <2>10. message.scheme = "V4" => verdict.account \in {ReqAccessKey(original.message), "refused"}
      BY <1>2, <2>9 DEF Account
    <2>11. QED BY <1>5, <2>3, <2>6, <2>7, <2>8, <2>10 DEF AcceptedAsSigned, o, signer
  <1>8. CASE o.scheme = "PresignV4"
    <2> DEFINE t1 == TextPresignV4(message, message.signedHeaders, GetContentSha256Cksum(message))
               t2 == TextPresignV4(o, o.signedHeaders, SignedPayload(o, original.hasSha))
    <2>1. /\ message.signature = Sum(creds[message.key].secret, Scope(message), t1)
          /\ now - message.date <= message.expires
      BY <1>2, <1>4, <1>8, Zenon DEF Matches, DoesPresignedSignatureMatch
    <2>2. o.signature = Sum(signer, Scope(o), t2) BY <1>3, <1>8 DEF SignatureFits, signer
    <2> HIDE DEF t1, t2
    <2>3. creds[message.key].secret = signer /\ t1 = t2 BY <1>6, <2>1, <2>2
    <2>4. /\ message.expires = o.expires
          /\ TextV4(message, message.signedHeaders, GetContentSha256Cksum(message)) =
               TextV4(o, o.signedHeaders, SignedPayload(o, original.hasSha))
      BY <2>3 DEF TextPresignV4, t1, t2
    <2>5. /\ message.method = o.method /\ message.path = o.path
          /\ message.resource = o.resource /\ message.query = o.query
          /\ Select(message, message.signedHeaders) = Select(o, o.signedHeaders)
          /\ message.date = o.date
      BY <2>4 DEF TextV4
    <2>6. Select(message, o.signedHeaders) = Select(o, o.signedHeaders)
      BY <2>5, SelectsEqual DEF Select
    <2>7. Covered(message) = Covered(original.message)
      BY <1>4, <1>8, <2>4, <2>5, <2>6 DEF Covered, o
    <2>8. now <= o.date + o.expires BY <1>1, <1>4, <2>1, <2>4, <2>5
    <2>9. QED BY <1>4, <1>5, <1>8, <2>3, <2>7, <2>8 DEF AcceptedAsSigned, InTime, o, signer
  <1>9. CASE o.scheme = "PostPolicyV4"
    <2>1. message.signature = Sum(creds[message.key].secret, Scope(message), <<message.body>>)
      BY <1>2, <1>4, <1>9, Zenon DEF Matches, DoesPolicySignatureV4Match
    <2>2. o.signature = Sum(signer, Scope(o), <<o.body>>) BY <1>3, <1>9 DEF SignatureFits, signer
    <2>3. creds[message.key].secret = signer /\ <<message.body>> = <<o.body>> BY <1>6, <2>1, <2>2
    <2>4. Covered(message) = Covered(original.message) BY <1>4, <1>9, <2>3 DEF Covered, o
    <2>5. QED BY <1>4, <1>5, <1>9, <2>3, <2>4 DEF AcceptedAsSigned, InTime, o, signer
  <1>10. CASE o.scheme = "V2"
    <2>1. message.signature =
            Sum(creds[message.key].secret, NoScope, TextV2(message, message.date))
      BY <1>2, <1>4, <1>10, Zenon DEF Matches, DoesSignV2Match
    <2>2. o.signature = Sum(signer, NoScope, TextV2(o, o.date))
      BY <1>3, <1>10 DEF SignatureFits, signer
    <2>3. /\ creds[message.key].secret = signer
          /\ TextV2(message, message.date) = TextV2(o, o.date)
      BY <1>6, <2>1, <2>2
    <2>4. Covered(message) = Covered(original.message) BY <1>4, <1>10, <2>3 DEF Covered, o
    <2>5. QED BY <1>4, <1>5, <1>10, <2>3, <2>4 DEF AcceptedAsSigned, InTime, o, signer
  <1>11. CASE o.scheme = "PresignV2"
    <2>1. /\ message.signature =
               Sum(creds[message.key].secret, NoScope, TextV2(message, message.expires))
          /\ message.expires >= now
      BY <1>2, <1>4, <1>11, Zenon DEF Matches, DoesPresignV2SignatureMatch
    <2>2. o.signature = Sum(signer, NoScope, TextV2(o, o.expires))
      BY <1>3, <1>11 DEF SignatureFits, signer
    <2>3. /\ creds[message.key].secret = signer
          /\ TextV2(message, message.expires) = TextV2(o, o.expires)
      BY <1>6, <2>1, <2>2
    <2>4. message.expires = o.expires BY <2>3 DEF TextV2
    <2>5. now <= o.expires BY <1>1, <1>4, <2>1, <2>4
    <2>6. Covered(message) = Covered(original.message) BY <1>4, <1>11, <2>3 DEF Covered, o
    <2>7. QED BY <1>4, <1>5, <1>11, <2>3, <2>5, <2>6 DEF AcceptedAsSigned, InTime, o, signer
  <1>12. CASE o.scheme = "JWT"
    <2>1. /\ message.signature =
               Sum(WebTokenKey(message.key), NoScope, <<message.key, message.expires>>)
          /\ now <= message.expires
      BY <1>2, <1>4, <1>12, Zenon DEF Matches, WebTokenAuthenticate
    <2>2. o.signature = Sum(signer, NoScope, <<o.key, o.expires>>)
      BY <1>3, <1>12 DEF SignatureFits, signer
    <2>3. /\ WebTokenKey(message.key) = signer
          /\ <<message.key, message.expires>> = <<o.key, o.expires>>
      BY <1>6, <2>1, <2>2
    <2>4. message.key = o.key /\ message.expires = o.expires BY <2>3
    <2>5. creds[message.key].secret = signer
      <3>1. CASE WebTokenKey(message.key) = creds[Root].secret
        <4>1. creds[Root].secret = <<Root, 1>> BY <1>1 DEF CredsFit
        <4>2. o.key = Root BY <1>4, <2>3, <3>1, <4>1
        <4>3. QED BY <2>3, <2>4, <3>1, <4>2
      <3>2. QED BY <2>3, <3>1, Zenon DEF WebTokenKey
    <2>6. Covered(message) = Covered(original.message) BY <1>4, <1>12, <2>4 DEF Covered, o
    <2>7. QED BY <1>4, <1>12, <2>1, <2>4, <2>5, <2>6 DEF AcceptedAsSigned, InTime, o, signer
  <1>13. QED BY <1>4, <1>7, <1>8, <1>9, <1>10, <1>11, <1>12 DEF Schemes, V4Schemes

\* What was signed is accepted.
LEMMA SignedAccepted ==
  ASSUME SignaturesInv
  PROVE  SignedIsAccepted
  <1> DEFINE o == original.message
             cred == original.cred
  <1>1. SUFFICES ASSUME verdict.done, message = o, creds[message.key] = cred, InTime(message),
                        message.scheme \in {"V4", "V4STS"} => original.hasSha
                 PROVE  /\ verdict.matches
                        /\ message.scheme \in {"V4", "JWT"} /\ message.query \notin Keys =>
                             verdict.account = message.key
    BY Zenon DEF SignedIsAccepted
  <1>2. /\ CredsFit /\ OriginalFits /\ KeptOnItsWay(message, o) /\ now \in Int
        /\ VerdictFits
    BY <1>1 DEF SignaturesInv
  <1>3. verdict.matches = Matches(message) /\ verdict.account = Account(message)
    BY <1>1, <1>2 DEF VerdictFits
  <1>4. /\ FieldsFit(message, cred, original.hasSha) /\ HeadersFit(message)
        /\ SignatureFits(message, cred, original.hasSha)
    BY <1>1, <1>2 DEF OriginalFits
  <1> HIDE DEF o, cred
  <1>5. /\ message.scheme \in Schemes /\ message.key \in Keys /\ message.body \in Bodies
        /\ message.date \in Int /\ message.date <= now /\ message.expires \in Int
    BY <1>4 DEF FieldsFit
  <1>6. CheckKeyValid(message.key)
    <2>1. ~creds[message.key].off /\ creds[message.key].expiration = 0
      BY <1>1, <1>4 DEF FieldsFit, Untouched
    <2>2. QED BY <1>5, <2>1 DEF CheckKeyValid, IsExpired, Keys
  <1>7. /\ message.scheme \in V4Schemes => IsValidRegion(message.region)
    BY <1>4, RequestsAssumption DEF FieldsFit, IsValidRegion
  <1>8. /\ message.scheme \in {"V4", "PresignV4", "PostPolicyV4"} => ValidCredential(message, "s3")
        /\ message.scheme = "V4STS" => ValidCredential(message, "sts")
    BY <1>4, <1>6, <1>7 DEF FieldsFit, ValidCredential, V4Schemes
  <1>9. message.scheme \in {"V4", "V4STS", "PresignV4"} => ExtractSignedHeaders(message)
    BY <1>4, AbsentDiffers
       DEF FieldsFit, HeadersFit, ExtractSignedHeaders, Present, HeaderNames, V4IgnoredHeaders,
           TokenHeader
  <1>10. message.body \notin {Absent, "UNSIGNED-PAYLOAD"} BY <1>5, RequestsAssumption
  <1>11. message.scheme \in {"V4", "V4STS", "PresignV4"} =>
           GetContentSha256Cksum(message) = SignedPayload(message, original.hasSha)
    BY <1>1, <1>4, <1>10
       DEF FieldsFit, GetContentSha256Cksum, IsRequestPresignedSignatureV4, SignedPayload, ShaHeader
  <1>12. ASSUME message.scheme = "V4"
         PROVE  /\ DoesSignatureMatch(message, "s3")
                /\ message.query \notin Keys => Account(message) = message.key
    <2>1. DoesSignatureMatch(message, "s3")
      BY <1>1, <1>4, <1>8, <1>9, <1>11, <1>12 DEF DoesSignatureMatch, SignatureFits
    <2>2. message.header[TokenHeader] = creds[message.key].token BY <1>1, <1>4, <1>12 DEF FieldsFit
    <2>3. message.key = Absent => creds[message.key].token = Absent BY <1>2, <1>5 DEF CredsFit
    <2>4. QED BY <1>6, <1>12, <2>1, <2>2, <2>3 DEF Account, ReqAccessKey, CheckClaims, TokenHeader
  <1>13. ASSUME message.scheme = "V4STS"
         PROVE  DoesSignatureMatch(message, "sts")
    BY <1>1, <1>4, <1>8, <1>9, <1>11, <1>13 DEF DoesSignatureMatch, SignatureFits
  <1>14. ASSUME message.scheme = "PresignV4"
         PROVE  DoesPresignedSignatureMatch(message)
    <2>1. message.signature = Sum(creds[message.key].secret, Scope(message),
                                  TextPresignV4(message, message.signedHeaders,
                                                GetContentSha256Cksum(message)))
      BY <1>1, <1>4, <1>11, <1>14 DEF SignatureFits
    <2>2. message.expires \in 0..Week
      BY <1>4, <1>14, SignaturesAssumption, RequestsAssumption, WeekIsNumber DEF FieldsFit
    <2>3. message.header[TokenHeader] = creds[message.key].token BY <1>1, <1>4, <1>14 DEF FieldsFit
    <2>4. message.date <= now + SkewTime /\ now - message.date <= message.expires
      BY <1>1, <1>2, <1>5, <1>14, SignaturesAssumption DEF InTime
    <2>5. QED
      BY <1>8, <1>9, <1>14, <2>1, <2>2, <2>3, <2>4 DEF DoesPresignedSignatureMatch, TokenHeader
  <1>15. ASSUME message.scheme = "PostPolicyV4"
         PROVE  DoesPolicySignatureV4Match(message)
    BY <1>1, <1>4, <1>8, <1>15 DEF DoesPolicySignatureV4Match, SignatureFits
  <1>16. ASSUME message.scheme = "V2"
         PROVE  DoesSignV2Match(message)
    BY <1>1, <1>4, <1>6, <1>16 DEF DoesSignV2Match, SignatureFits
  <1>17. ASSUME message.scheme = "PresignV2"
         PROVE  DoesPresignV2SignatureMatch(message)
    <2>1. message.expires >= now BY <1>1, <1>2, <1>5, <1>17 DEF InTime
    <2>2. QED BY <1>1, <1>4, <1>6, <1>17, <2>1 DEF DoesPresignV2SignatureMatch, SignatureFits
  <1>18. ASSUME message.scheme = "JWT"
         PROVE  WebTokenAuthenticate(message) /\ Account(message) = message.key
    <2>1. WebTokenKey(message.key) = creds[message.key].secret
      BY <1>1, <1>4, <1>18 DEF FieldsFit, WebTokenKey
    <2>2. WebTokenAuthenticate(message)
      BY <1>1, <1>4, <1>6, <1>18, <2>1 DEF WebTokenAuthenticate, SignatureFits, InTime
    <2>3. QED BY <1>18, <2>2 DEF Account
  <1>19. Matches(message)
    BY <1>5, <1>12, <1>13, <1>14, <1>15, <1>16, <1>17, <1>18, Zenon
       DEF Matches, Schemes, V4Schemes
  <1>20. QED BY <1>3, <1>12, <1>18, <1>19

\* Messages, credentials and verdicts fit together, and nothing that a change on the
\* way leaves alone is lost.
THEOREM SignaturesInvAlways == SignaturesSpec => []SignaturesInv
  BY SignaturesInitInv, SignaturesNextInv, PTL DEF SignaturesSpec

\* The invariant contains the property.
LEMMA SignaturesInvSuffices == SignaturesInv => SignaturesDecide
  BY AcceptedOnlySigned, SignedAccepted DEF SignaturesDecide, AcceptedAsSigned

\* Verification decides as signing does, for any number of users and bodies, any
\* lifetimes and clock skew, and whatever changes on the way (doesSignatureMatch and
\* its siblings, against pkg/signer).
THEOREM SignaturesDecideAlways == SignaturesSpec => []SignaturesDecide
  BY SignaturesInvAlways, SignaturesInvSuffices, PTL

(***************************************************************************)
(* The namespace lock.                                                     *)
(***************************************************************************)
\* Finitely many goroutines lock finitely many paths: nsLk.ref can count them.
LEMMA SlotsFinite == IsFiniteSet(Slots)
  <1>1. IsFiniteSet(1 .. MaxPaths) BY FS_Interval, MaxPathsAssumption
  <1>2. IsFiniteSet(Procs \X (1 .. MaxPaths)) BY <1>1, FS_Product, ProcsAssumption
  <1>3. QED BY <1>2 DEF Slots

\* The slots of a lock form finite sets, before and after any step.
LEMMA SlotSetsFinite ==
  ASSUME NEW r
  PROVE  /\ IsFiniteSet(RefSlots(r)) /\ IsFiniteSet(HoldSlots(r))
         /\ Cardinality(RefSlots(r)) \in Nat /\ Cardinality(HoldSlots(r)) \in Nat
  <1>1. RefSlots(r) \in SUBSET Slots /\ HoldSlots(r) \in SUBSET Slots BY DEF RefSlots, HoldSlots
  <1>2. IsFiniteSet(RefSlots(r)) /\ IsFiniteSet(HoldSlots(r)) BY <1>1, SlotsFinite, FS_Subset
  <1>3. QED BY <1>2, FS_CardinalityType

\* A holder is referenced: unlock releases the LRWMutex before it counts down.
LEMMA HoldersReferenced ==
  ASSUME NEW r
  PROVE  HoldSlots(r) \subseteq RefSlots(r)
  BY DEF HoldSlots, RefSlots, Holding, Referenced

\* newNSLock's empty lockMap satisfies the invariant.
LEMMA InitInv == Init => LockInv
  <1> SUFFICES ASSUME Init PROVE LockInv
    OBVIOUS
  <1>1. TypeOK BY DEF Init, TypeOK, PCs, NOLOCKS
  <1>2. Progress BY MaxPathsAssumption DEF Init, Progress
  <1>3. PointersCurrent BY DEF Init, PointersCurrent
  <1>4. \A r \in Resources : RefSlots(r) = {} BY DEF Init, RefSlots, Slots
  <1>5. EntryIffReferenced BY <1>4 DEF Init, EntryIffReferenced
  <1>6. StateMatchesHolders BY DEF Init, StateMatchesHolders
  <1>7. QED BY <1>1, <1>2, <1>3, <1>5, <1>6 DEF LockInv

\* A step that leaves the map, the locks and all slots as they are.
LEMMA QuietStep ==
  ASSUME LockInv, UNCHANGED sharedVars,
         \A r \in Resources : RefSlots(r)' = RefSlots(r) /\ HoldSlots(r)' = HoldSlots(r),
         \A r \in Resources : \A s \in HoldSlots(r) : readLock'[s[1]] = readLock[s[1]]
  PROVE  EntryIffReferenced' /\ StateMatchesHolders'
  <1>1. EntryIffReferenced' BY DEF LockInv, EntryIffReferenced, sharedVars
  <1>2. StateMatchesHolders' BY DEF LockInv, StateMatchesHolders, sharedVars
  <1>3. QED BY <1>1, <1>2

\* NewNSLock keeps the invariant: a new instance has no references yet.
LEMMA NewNSLockInv ==
  ASSUME LockInv, NEW p \in Procs, NewNSLock(p)
  PROVE  LockInv'
  <1> USE DEF LockInv
  <1>1. PICK args \in PathArgs : \E rd \in BOOLEAN : \E ps \in SortedPaths(args) :
          /\ paths' = [paths EXCEPT ![p] = ps]
          /\ readLock' = [readLock EXCEPT ![p] = rd]
    BY DEF NewNSLock
  <1>2. PICK rd \in BOOLEAN, ps \in SortedPaths(args) :
          /\ paths' = [paths EXCEPT ![p] = ps]
          /\ readLock' = [readLock EXCEPT ![p] = rd]
    BY <1>1
  <1>3. Len(args) \in Nat /\ Len(args) <= MaxPaths BY PathArgsAssumption
  <1>4. ps \in Seq(Resources) /\ Len(ps) <= MaxPaths BY <1>3, MaxPathsAssumption DEF SortedPaths
  <1>5. TypeOK' BY <1>2, <1>4 DEF NewNSLock, TypeOK, PCs, sharedVars
  <1>6. Progress' BY <1>2, <1>4 DEF NewNSLock, TypeOK, Progress
  <1>7. PointersCurrent'
    BY <1>2 DEF NewNSLock, TypeOK, PointersCurrent, sharedVars, LockPath, UnlockPath
  <1>8. \A k \in 1 .. MaxPaths : /\ ~Referenced(p, k) /\ ~Holding(p, k)
                                 /\ ~Referenced(p, k)' /\ ~Holding(p, k)'
    BY DEF NewNSLock, TypeOK, Progress, Referenced, Holding
  <1>9. \A q \in Procs : q # p => \A k : /\ Referenced(q, k)' = Referenced(q, k)
                                         /\ Holding(q, k)' = Holding(q, k)
                                         /\ paths'[q] = paths[q]
                                         /\ readLock'[q] = readLock[q]
    BY <1>2 DEF NewNSLock, TypeOK, Referenced, Holding
  <1>10. \A r \in Resources : RefSlots(r)' = RefSlots(r) /\ HoldSlots(r)' = HoldSlots(r)
    BY <1>8, <1>9 DEF RefSlots, HoldSlots, Slots
  <1>11. \A r \in Resources : \A s \in HoldSlots(r) : readLock'[s[1]] = readLock[s[1]]
    BY <1>8, <1>9 DEF HoldSlots, Slots
  <1>12. QED BY <1>5, <1>6, <1>7, <1>10, <1>11, QuietStep DEF NewNSLock

\* A step of p alone that disturbs no slot of p and keeps its instance.
LEMMA UnmovedSlots ==
  ASSUME UNCHANGED instVars,
         \A q \in Procs : \A k \in 1 .. MaxPaths :
             /\ Referenced(q, k)' = Referenced(q, k)
             /\ Holding(q, k)' = Holding(q, k)
  PROVE  /\ \A r \in Resources : RefSlots(r)' = RefSlots(r) /\ HoldSlots(r)' = HoldSlots(r)
         /\ \A r \in Resources : \A s \in HoldSlots(r) : readLock'[s[1]] = readLock[s[1]]
  BY DEF RefSlots, HoldSlots, Slots, instVars

\* GetLock or GetRLock returns nil with every path locked, and changes no slot.
LEMMA GotLockInv ==
  ASSUME LockInv, NEW p \in Procs, GotLock(p)
  PROVE  LockInv'
  <1> USE DEF LockInv
  <1>1. TypeOK' /\ Progress' /\ PointersCurrent'
    BY DEF GotLock, TypeOK, PCs, Progress, PointersCurrent, LockPath, UnlockPath,
           sharedVars, instVars
  <1>2. \A q \in Procs : \A k \in 1 .. MaxPaths :
             /\ Referenced(q, k)' = Referenced(q, k)
             /\ Holding(q, k)' = Holding(q, k)
    BY DEF GotLock, TypeOK, Referenced, Holding
  <1>3. QED BY <1>1, <1>2, UnmovedSlots, QuietStep DEF GotLock

\* lockLoop gives up: the waiting slot stays referenced until lock counts it down.
LEMMA LockTimeoutInv ==
  ASSUME LockInv, NEW p \in Procs, LockTimeout(p)
  PROVE  LockInv'
  <1> USE DEF LockInv
  <1>1. TypeOK' /\ Progress' /\ PointersCurrent'
    BY DEF LockTimeout, TypeOK, PCs, Progress, PointersCurrent, LockPath, UnlockPath,
           sharedVars, instVars
  <1>2. \A q \in Procs : \A k \in 1 .. MaxPaths :
             /\ Referenced(q, k)' = Referenced(q, k)
             /\ Holding(q, k)' = Holding(q, k)
    BY DEF LockTimeout, TypeOK, Referenced, Holding
  <1>3. QED BY <1>1, <1>2, UnmovedSlots, QuietStep DEF LockTimeout

\* Unlock or RUnlock begins, and changes no slot.
LEMMA UnlockInv ==
  ASSUME LockInv, NEW p \in Procs, Unlock(p)
  PROVE  LockInv'
  <1> USE DEF LockInv
  <1>1. TypeOK' /\ Progress' /\ PointersCurrent'
    BY DEF Unlock, TypeOK, PCs, Progress, PointersCurrent, LockPath, UnlockPath,
           sharedVars, instVars
  <1>2. \A q \in Procs : \A k \in 1 .. MaxPaths :
             /\ Referenced(q, k)' = Referenced(q, k)
             /\ Holding(q, k)' = Holding(q, k)
    BY DEF Unlock, TypeOK, Referenced, Holding
  <1>3. QED BY <1>1, <1>2, UnmovedSlots, QuietStep DEF Unlock

\* Unlock or RUnlock returns: every path was released.
LEMMA UnlockedInv ==
  ASSUME LockInv, NEW p \in Procs, Unlocked(p)
  PROVE  LockInv'
  <1> USE DEF LockInv
  <1>1. TypeOK' /\ Progress' /\ PointersCurrent'
    BY DEF Unlocked, TypeOK, PCs, Progress, PointersCurrent, LockPath, UnlockPath,
           sharedVars, instVars
  <1>2. \A q \in Procs : \A k \in 1 .. MaxPaths :
             /\ Referenced(q, k)' = Referenced(q, k)
             /\ Holding(q, k)' = Holding(q, k)
    BY MaxPathsAssumption DEF Unlocked, TypeOK, Referenced, Holding
  <1>3. QED BY <1>1, <1>2, UnmovedSlots, QuietStep DEF Unlocked

\* The slot that a goroutine is working on.
LEMMA CurrentSlot ==
  ASSUME LockInv, NEW p \in Procs
  PROVE  /\ acquired[p] < Len(paths[p]) =>
               /\ LockPath(p) \in Resources
               /\ acquired[p] + 1 \in 1 .. MaxPaths
               /\ acquired[p] + 1 \in DOMAIN paths[p]
         /\ released[p] < acquired[p] =>
               /\ UnlockPath(p) \in Resources
               /\ released[p] + 1 \in 1 .. MaxPaths
               /\ released[p] + 1 \in DOMAIN paths[p]
  BY MaxPathsAssumption DEF LockInv, TypeOK, Progress, LockPath, UnlockPath, Slots

\* Whether slot k of p is among the slots of r.
LEMMA SlotIn ==
  ASSUME NEW r, NEW p \in Procs, NEW k \in 1 .. MaxPaths
  PROVE  /\ <<p, k>> \in RefSlots(r) <=>
              k \in DOMAIN paths[p] /\ paths[p][k] = r /\ Referenced(p, k)
         /\ <<p, k>> \in HoldSlots(r) <=>
              k \in DOMAIN paths[p] /\ paths[p][k] = r /\ Holding(p, k)
  BY DEF RefSlots, HoldSlots, Slots

\* The pointer that a goroutine keeps is the entry of its path.
LEMMA CurrentPointer ==
  ASSUME LockInv, NEW p \in Procs
  PROVE  /\ pc[p] \in {"try", "drop"} => nsLk[p] = lockMap[LockPath(p)] /\ nsLk[p] # NoLock
         /\ pc[p] \in {"release", "deref"} => nsLk[p] = lockMap[UnlockPath(p)] /\ nsLk[p] # NoLock
  BY DEF LockInv, PointersCurrent

\* unlock finds the entry of a path it holds, so it does not return early.
LEMMA UnlockFindInv ==
  ASSUME LockInv, NEW p \in Procs, UnlockFind(p)
  PROVE  LockInv'
  <1> USE DEF LockInv
  <1> DEFINE r == UnlockPath(p)
  <1>1. r \in Resources /\ <<p, released[p] + 1>> \in RefSlots(r)
    <2>1. released[p] < acquired[p] BY DEF UnlockFind
    <2>2. Referenced(p, released[p] + 1) BY <2>1 DEF Referenced, TypeOK
    <2>3. QED BY <2>1, <2>2, CurrentSlot, SlotIn DEF UnlockPath
  <1>2. lockMap[r] # NoLock BY <1>1 DEF EntryIffReferenced
  <1>3. /\ nsLk' = [nsLk EXCEPT ![p] = lockMap[r]]
        /\ pc' = [pc EXCEPT ![p] = "release"]
        /\ UNCHANGED <<sharedVars, instVars, acquired, released>>
    BY <1>2 DEF UnlockFind
  <1>4. TypeOK' /\ Progress' /\ PointersCurrent'
    BY <1>1, <1>2, <1>3 DEF UnlockFind, TypeOK, PCs, Progress, PointersCurrent, LockPath,
           UnlockPath, sharedVars, instVars
  <1>5. \A q \in Procs : \A k \in 1 .. MaxPaths :
             /\ Referenced(q, k)' = Referenced(q, k)
             /\ Holding(q, k)' = Holding(q, k)
    BY <1>3 DEF UnlockFind, TypeOK, Referenced, Holding
  <1>6. QED BY <1>3, <1>4, <1>5, UnmovedSlots, QuietStep

\* A step that moves only slot k of p.
LEMMA MovedSlot ==
  ASSUME UNCHANGED instVars, NEW p \in Procs, NEW k \in 1 .. MaxPaths,
         k \in DOMAIN paths[p], NEW r \in Resources, r = paths[p][k],
         \A q \in Procs : \A j \in 1 .. MaxPaths : q # p \/ j # k =>
             /\ Referenced(q, j)' = Referenced(q, j)
             /\ Holding(q, j)' = Holding(q, j)
  PROVE  /\ RefSlots(r)' = IF Referenced(p, k)' THEN RefSlots(r) \cup {<<p, k>>}
                                               ELSE RefSlots(r) \ {<<p, k>>}
         /\ HoldSlots(r)' = IF Holding(p, k)' THEN HoldSlots(r) \cup {<<p, k>>}
                                             ELSE HoldSlots(r) \ {<<p, k>>}
         /\ \A o \in Resources : o # r => /\ RefSlots(o)' = RefSlots(o)
                                          /\ HoldSlots(o)' = HoldSlots(o)
         /\ \A q \in Procs : readLock'[q] = readLock[q]
  BY DEF RefSlots, HoldSlots, Slots, instVars

\* Counting a slot in and out.
LEMMA CountSlot ==
  ASSUME NEW r, NEW x
  PROVE  /\ Cardinality(RefSlots(r) \cup {x}) =
              IF x \in RefSlots(r) THEN Cardinality(RefSlots(r)) ELSE Cardinality(RefSlots(r)) + 1
         /\ Cardinality(RefSlots(r) \ {x}) =
              IF x \in RefSlots(r) THEN Cardinality(RefSlots(r)) - 1 ELSE Cardinality(RefSlots(r))
         /\ Cardinality(HoldSlots(r) \cup {x}) =
              IF x \in HoldSlots(r) THEN Cardinality(HoldSlots(r)) ELSE Cardinality(HoldSlots(r)) + 1
         /\ Cardinality(HoldSlots(r) \ {x}) =
              IF x \in HoldSlots(r) THEN Cardinality(HoldSlots(r)) - 1 ELSE Cardinality(HoldSlots(r))
         /\ RefSlots(r) \ {x} = {} /\ x \in RefSlots(r) <=> Cardinality(RefSlots(r)) = 1 /\ x \in RefSlots(r)
  <1>1. IsFiniteSet(RefSlots(r)) /\ IsFiniteSet(HoldSlots(r)) BY SlotSetsFinite
  <1>2. IsFiniteSet(RefSlots(r) \ {x}) BY <1>1, FS_RemoveElement
  <1>3. RefSlots(r) \ {x} = {} <=> Cardinality(RefSlots(r) \ {x}) = 0 BY <1>2, FS_EmptySet
  <1>4. /\ Cardinality(RefSlots(r) \ {x}) =
              IF x \in RefSlots(r) THEN Cardinality(RefSlots(r)) - 1 ELSE Cardinality(RefSlots(r))
        /\ Cardinality(HoldSlots(r) \ {x}) =
              IF x \in HoldSlots(r) THEN Cardinality(HoldSlots(r)) - 1 ELSE Cardinality(HoldSlots(r))
    BY <1>1, FS_RemoveElement
  <1>5. /\ Cardinality(RefSlots(r) \cup {x}) =
              IF x \in RefSlots(r) THEN Cardinality(RefSlots(r)) ELSE Cardinality(RefSlots(r)) + 1
        /\ Cardinality(HoldSlots(r) \cup {x}) =
              IF x \in HoldSlots(r) THEN Cardinality(HoldSlots(r)) ELSE Cardinality(HoldSlots(r)) + 1
    BY <1>1, FS_AddElement
  <1>6. Cardinality(RefSlots(r)) \in Nat BY SlotSetsFinite
  <1>7. QED BY <1>3, <1>4, <1>5, <1>6

\* Only the entry and the references of r have changed.
LEMMA EntryStep ==
  ASSUME LockInv, NEW r \in Resources,
         \A o \in Resources : o # r =>
             /\ RefSlots(o)' = RefSlots(o)
             /\ lockMap'[o] = lockMap[o]
             /\ lockMap[o] # NoLock => ref'[lockMap[o]] = ref[lockMap[o]],
         lockMap'[r] = NoLock => RefSlots(r)' = {},
         lockMap'[r] # NoLock => /\ RefSlots(r)' # {}
                                 /\ ref'[lockMap'[r]] = Cardinality(RefSlots(r)')
  PROVE  EntryIffReferenced'
  <1> SUFFICES ASSUME NEW o \in Resources
               PROVE  /\ lockMap'[o] = NoLock => RefSlots(o)' = {}
                      /\ lockMap'[o] # NoLock => /\ RefSlots(o)' # {}
                                                 /\ ref'[lockMap'[o]] = Cardinality(RefSlots(o)')
    BY DEF EntryIffReferenced
  <1>1. CASE o = r BY <1>1
  <1>2. CASE o # r BY <1>2 DEF LockInv, EntryIffReferenced
  <1>3. QED BY <1>1, <1>2

\* Only the lock and the holders of r have changed.
LEMMA StateStep ==
  ASSUME LockInv, NEW r \in Resources,
         \A o \in Resources : o # r =>
             /\ HoldSlots(o)' = HoldSlots(o)
             /\ lockMap'[o] = lockMap[o]
             /\ lockMap[o] # NoLock => state'[lockMap[o]] = state[lockMap[o]],
         \A q \in Procs : readLock'[q] = readLock[q],
         lockMap'[r] # NoLock =>
             \/ /\ state'[lockMap'[r]] = WRITELOCK
                /\ \E s \in Slots : HoldSlots(r)' = {s} /\ ~readLock[s[1]]
             \/ /\ state'[lockMap'[r]] = Cardinality(HoldSlots(r)')
                /\ \A s \in HoldSlots(r)' : readLock[s[1]]
  PROVE  StateMatchesHolders'
  <1>1. /\ \A s \in Slots : readLock'[s[1]] = readLock[s[1]]
        /\ \A o \in Resources : HoldSlots(o)' \subseteq Slots
    BY DEF Slots, HoldSlots
  <1> SUFFICES ASSUME NEW o \in Resources, lockMap'[o] # NoLock
               PROVE  \/ /\ state'[lockMap'[o]] = WRITELOCK
                         /\ \E s \in Slots : HoldSlots(o)' = {s} /\ ~readLock'[s[1]]
                      \/ /\ state'[lockMap'[o]] = Cardinality(HoldSlots(o)')
                         /\ \A s \in HoldSlots(o)' : readLock'[s[1]]
    BY DEF StateMatchesHolders, WRITELOCK, Slots
  <1>2. CASE o = r BY <1>1, <1>2
  <1>3. CASE o # r BY <1>1, <1>3 DEF LockInv, StateMatchesHolders
  <1>4. QED BY <1>2, <1>3

\* lock finds or makes the entry and counts one reference more.
LEMMA LockEnterInv ==
  ASSUME LockInv, NEW p \in Procs, LockEnter(p)
  PROVE  LockInv'
  <1> USE DEF LockInv
  <1>1. /\ pc[p] = "next" /\ pc' = [pc EXCEPT ![p] = "try"]
        /\ acquired[p] < Len(paths[p])
        /\ UNCHANGED instVars /\ acquired' = acquired /\ released' = released
    BY DEF LockEnter
  <1>2. PICK r \in Resources, k \in 1 .. MaxPaths :
            r = LockPath(p) /\ k = acquired[p] + 1 /\ k \in DOMAIN paths[p] /\ r = paths[p][k]
    BY <1>1, CurrentSlot DEF LockPath
  <1>3. /\ \A q \in Procs : \A j \in 1 .. MaxPaths : q # p \/ j # k =>
             /\ Referenced(q, j)' = Referenced(q, j)
             /\ Holding(q, j)' = Holding(q, j)
        /\ Referenced(p, k)' /\ ~Referenced(p, k) /\ ~Holding(p, k)' /\ ~Holding(p, k)
    BY <1>1, <1>2 DEF TypeOK, Referenced, Holding
  <1>4. /\ RefSlots(r)' = RefSlots(r) \cup {<<p, k>>}
        /\ HoldSlots(r)' = HoldSlots(r)
        /\ \A o \in Resources : o # r => /\ RefSlots(o)' = RefSlots(o)
                                         /\ HoldSlots(o)' = HoldSlots(o)
        /\ \A q \in Procs : readLock'[q] = readLock[q]
        /\ <<p, k>> \notin RefSlots(r)
    <2>1. <<p, k>> \notin RefSlots(r) /\ <<p, k>> \notin HoldSlots(r) BY <1>2, <1>3, SlotIn
    <2>2. /\ RefSlots(r)' = IF Referenced(p, k)' THEN RefSlots(r) \cup {<<p, k>>}
                                                 ELSE RefSlots(r) \ {<<p, k>>}
          /\ HoldSlots(r)' = IF Holding(p, k)' THEN HoldSlots(r) \cup {<<p, k>>}
                                               ELSE HoldSlots(r) \ {<<p, k>>}
          /\ \A o \in Resources : o # r => /\ RefSlots(o)' = RefSlots(o)
                                           /\ HoldSlots(o)' = HoldSlots(o)
          /\ \A q \in Procs : readLock'[q] = readLock[q]
      BY <1>1, <1>2, <1>3, MovedSlot
    <2>3. QED BY <1>3, <2>1, <2>2
  <1>5. Cardinality(RefSlots(r)') = Cardinality(RefSlots(r)) + 1 BY <1>4, CountSlot
  <1>7. CASE lockMap[r] = NoLock
    <2>1. PICK l \in LockIds : /\ Unused(l)
                               /\ lockMap' = [lockMap EXCEPT ![r] = l]
                               /\ ref' = [ref EXCEPT ![l] = 1]
                               /\ state' = [state EXCEPT ![l] = NOLOCKS]
                               /\ nsLk' = [nsLk EXCEPT ![p] = l]
      BY <1>2, <1>7 DEF LockEnter
    <2>2. l # NoLock BY NoLockAssumption
    <2>3. TypeOK' /\ Progress' BY <1>1, <2>1 DEF TypeOK, PCs, Progress, instVars, NOLOCKS
    <2>4. PointersCurrent'
      BY <1>1, <1>2, <1>7, <2>1, <2>2 DEF TypeOK, Progress, PointersCurrent, LockPath, UnlockPath, Unused, instVars
    <2>5. RefSlots(r) = {} /\ HoldSlots(r) = {}
      BY <1>2, <1>7, HoldersReferenced DEF EntryIffReferenced
    <2>6. Cardinality(RefSlots(r)) = 0 /\ Cardinality(HoldSlots(r)) = 0 BY <2>5, FS_EmptySet
    <2>7. EntryIffReferenced'
      <3>1. \A o \in Resources : o # r =>
             /\ lockMap'[o] = lockMap[o]
             /\ lockMap[o] # NoLock => ref'[lockMap[o]] = ref[lockMap[o]]
        BY <2>1 DEF TypeOK, Unused
      <3>2. lockMap'[r] = l /\ ref'[l] = 1 BY <2>1 DEF TypeOK
      <3>3. QED BY <1>4, <1>5, <2>2, <2>6, <3>1, <3>2, EntryStep
    <2>8. StateMatchesHolders'
      <3>1. \A o \in Resources : o # r =>
             /\ lockMap'[o] = lockMap[o]
             /\ lockMap[o] # NoLock => state'[lockMap[o]] = state[lockMap[o]]
        BY <2>1 DEF TypeOK, Unused
      <3>2. lockMap'[r] = l /\ state'[l] = 0 BY <2>1 DEF TypeOK, NOLOCKS
      <3>3. QED BY <1>4, <2>5, <2>6, <3>1, <3>2, StateStep
    <2>9. QED BY <2>3, <2>4, <2>7, <2>8
  <1>8. CASE lockMap[r] # NoLock
    <2>1. /\ ref' = [ref EXCEPT ![lockMap[r]] = @ + 1]
          /\ nsLk' = [nsLk EXCEPT ![p] = lockMap[r]]
          /\ UNCHANGED <<lockMap, state>>
      BY <1>2, <1>8 DEF LockEnter
    <2>2. lockMap[r] \in LockIds BY <1>2, <1>8 DEF TypeOK
    <2>3. TypeOK' /\ Progress' BY <1>1, <2>1, <2>2 DEF TypeOK, PCs, Progress, instVars
    <2>4. PointersCurrent'
      BY <1>1, <1>2, <1>8, <2>1 DEF TypeOK, Progress, PointersCurrent, LockPath, UnlockPath, instVars
    <2>5. EntryIffReferenced'
      <3>1. \A o \in Resources : o # r =>
             /\ lockMap'[o] = lockMap[o]
             /\ lockMap[o] # NoLock => ref'[lockMap[o]] = ref[lockMap[o]]
        BY <2>1, <2>2 DEF TypeOK, PointersCurrent
      <3>2. ref'[lockMap[r]] = ref[lockMap[r]] + 1 /\ lockMap'[r] = lockMap[r]
        BY <2>1, <2>2 DEF TypeOK
      <3>3. ref[lockMap[r]] = Cardinality(RefSlots(r)) BY <1>8 DEF EntryIffReferenced
      <3>4. QED BY <1>4, <1>5, <1>8, <3>1, <3>2, <3>3, EntryStep
    <2>6. StateMatchesHolders' BY <1>4, <1>8, <2>1, StateStep DEF StateMatchesHolders
    <2>7. QED BY <2>3, <2>4, <2>5, <2>6
  <1>9. QED BY <1>7, <1>8

\* lockLoop takes the LRWMutex of the entry that lock had found.
LEMMA LockSuccessInv ==
  ASSUME LockInv, NEW p \in Procs, LockSuccess(p)
  PROVE  LockInv'
  <1> USE DEF LockInv
  <1>1. /\ pc[p] = "try" /\ pc' = [pc EXCEPT ![p] = "next"]
        /\ acquired' = [acquired EXCEPT ![p] = @ + 1]
        /\ nsLk' = [nsLk EXCEPT ![p] = NoLock]
        /\ UNCHANGED instVars /\ released' = released /\ lockMap' = lockMap /\ ref' = ref
    BY DEF LockSuccess
  <1>2. PICK r \in Resources, k \in 1 .. MaxPaths :
            r = LockPath(p) /\ k = acquired[p] + 1 /\ k \in DOMAIN paths[p] /\ r = paths[p][k]
    BY <1>1, CurrentSlot DEF LockPath, Progress
  <1>3. nsLk[p] = lockMap[r] /\ lockMap[r] # NoLock /\ lockMap[r] \in LockIds
    <2>1. nsLk[p] = lockMap[r] /\ lockMap[r] # NoLock BY <1>1, <1>2, CurrentPointer
    <2>2. QED BY <2>1 DEF TypeOK
  <1>4. state' = [state EXCEPT ![lockMap[r]] = IF readLock[p] THEN @ + 1 ELSE WRITELOCK]
    BY <1>3 DEF LockSuccess
  <1>5. /\ \A q \in Procs : \A j \in 1 .. MaxPaths : q # p \/ j # k =>
             /\ Referenced(q, j)' = Referenced(q, j)
             /\ Holding(q, j)' = Holding(q, j)
        /\ Referenced(p, k)' /\ Referenced(p, k) /\ Holding(p, k)' /\ ~Holding(p, k)
    BY <1>1, <1>2 DEF TypeOK, Progress, Referenced, Holding
  <1>6. /\ <<p, k>> \in RefSlots(r) /\ <<p, k>> \notin HoldSlots(r)
    BY <1>2, <1>5, SlotIn
  <1>7. /\ RefSlots(r)' = IF Referenced(p, k)' THEN RefSlots(r) \cup {<<p, k>>}
                                               ELSE RefSlots(r) \ {<<p, k>>}
        /\ HoldSlots(r)' = IF Holding(p, k)' THEN HoldSlots(r) \cup {<<p, k>>}
                                             ELSE HoldSlots(r) \ {<<p, k>>}
        /\ \A o \in Resources : o # r => /\ RefSlots(o)' = RefSlots(o)
                                         /\ HoldSlots(o)' = HoldSlots(o)
        /\ \A q \in Procs : readLock'[q] = readLock[q]
    BY <1>1, <1>2, <1>5, MovedSlot
  <1>8. RefSlots(r)' = RefSlots(r) /\ HoldSlots(r)' = HoldSlots(r) \cup {<<p, k>>}
    BY <1>5, <1>6, <1>7
  <1>9. TypeOK' /\ Progress' BY <1>1, <1>3, <1>4 DEF TypeOK, PCs, Progress, instVars, WRITELOCK
  <1>10. PointersCurrent'
    BY <1>1 DEF TypeOK, Progress, PointersCurrent, LockPath, UnlockPath, instVars
  <1>11. EntryIffReferenced' BY <1>1, <1>7, <1>8 DEF EntryIffReferenced
  <1>12. StateMatchesHolders'
    <2>1. \A o \in Resources : o # r =>
             /\ lockMap'[o] = lockMap[o]
             /\ lockMap[o] # NoLock => state'[lockMap[o]] = state[lockMap[o]]
      BY <1>1, <1>3, <1>4 DEF TypeOK, PointersCurrent
    <2>2. Cardinality(HoldSlots(r)) \in Nat BY SlotSetsFinite
    <2>3. CASE readLock[p]
      <3>1. state[lockMap[r]] # WRITELOCK BY <1>3, <2>3 DEF LockSuccess, CanLock
      <3>2. /\ state[lockMap[r]] = Cardinality(HoldSlots(r))
            /\ \A s \in HoldSlots(r) : readLock[s[1]]
        BY <1>3, <3>1 DEF StateMatchesHolders
      <3>3. state'[lockMap[r]] = Cardinality(HoldSlots(r)')
        <4>1. Cardinality(HoldSlots(r)') = Cardinality(HoldSlots(r)) + 1
          <5>1. Cardinality(HoldSlots(r) \cup {<<p, k>>}) = Cardinality(HoldSlots(r)) + 1
            BY <1>6, CountSlot
          <5>2. QED BY <1>8, <5>1
        <4>2. state'[lockMap[r]] = state[lockMap[r]] + 1 BY <1>3, <1>4, <2>3 DEF TypeOK
        <4>3. QED BY <3>2, <4>1, <4>2
      <3>4. \A s \in HoldSlots(r)' : readLock[s[1]] BY <1>8, <2>3, <3>2
      <3>5. QED BY <1>1, <1>7, <2>1, <3>3, <3>4, StateStep
    <2>4. CASE ~readLock[p]
      <3>1. state[lockMap[r]] = 0 BY <1>3, <2>4 DEF LockSuccess, CanLock, NOLOCKS
      <3>2. Cardinality(HoldSlots(r)) = 0 BY <1>3, <3>1 DEF StateMatchesHolders, WRITELOCK
      <3>3. HoldSlots(r) = {} BY <3>2, SlotSetsFinite, FS_EmptySet
      <3>4. HoldSlots(r)' = {<<p, k>>} /\ <<p, k>> \in Slots /\ ~readLock[<<p, k>>[1]]
        BY <1>8, <2>4, <3>3 DEF Slots
      <3>5. state'[lockMap[r]] = WRITELOCK BY <1>3, <1>4, <2>4 DEF TypeOK
      <3>6. QED BY <1>1, <1>7, <2>1, <3>4, <3>5, StateStep
    <2>5. QED BY <2>3, <2>4
  <1>13. QED BY <1>9, <1>10, <1>11, <1>12

\* Counting down the reference of one slot, in lock and in unlock.
LEMMA UnrefStep ==
  ASSUME LockInv, NEW r \in Resources, NEW x, lockMap[r] # NoLock,
         Unref(lockMap[r], r), state' = state,
         x \in RefSlots(r), x \notin HoldSlots(r), RefSlots(r)' = RefSlots(r) \ {x},
         HoldSlots(r)' = HoldSlots(r),
         \A o \in Resources : o # r => /\ RefSlots(o)' = RefSlots(o)
                                       /\ HoldSlots(o)' = HoldSlots(o),
         \A q \in Procs : readLock'[q] = readLock[q]
  PROVE  /\ lockMap' \in [Resources -> LockIds \cup {NoLock}]
         /\ ref' \in [LockIds -> Nat]
         /\ \A o \in Resources : lockMap'[o] = lockMap[o] \/ (o = r /\ lockMap'[o] = NoLock)
         /\ lockMap'[r] = NoLock => RefSlots(r) = {x}
         /\ EntryIffReferenced'
         /\ StateMatchesHolders'
  <1> USE DEF LockInv
  <1>1. lockMap[r] \in LockIds BY DEF TypeOK
  <1>2. ref[lockMap[r]] = Cardinality(RefSlots(r)) BY DEF EntryIffReferenced
  <1>3. Cardinality(RefSlots(r) \ {x}) = Cardinality(RefSlots(r)) - 1 BY CountSlot
  <1>4. RefSlots(r) \ {x} = {} <=> ref[lockMap[r]] = 1 BY <1>2, CountSlot
  <1>5. ref[lockMap[r]] >= 1
    <2>1. Cardinality(RefSlots(r)) # 0 BY SlotSetsFinite, FS_EmptySet
    <2>2. QED BY <1>2, <2>1, SlotSetsFinite
  <1>6. ref' = [ref EXCEPT ![lockMap[r]] = @ - 1] BY DEF Unref
  <1>7. ref' \in [LockIds -> Nat] /\ ref'[lockMap[r]] = ref[lockMap[r]] - 1
    BY <1>1, <1>5, <1>6 DEF TypeOK
  <1>8. \A o \in Resources : o # r =>
             /\ lockMap'[o] = lockMap[o]
             /\ lockMap[o] # NoLock => ref'[lockMap[o]] = ref[lockMap[o]]
             /\ lockMap[o] # NoLock => state'[lockMap[o]] = state[lockMap[o]]
    BY <1>1, <1>6 DEF TypeOK, PointersCurrent, Unref
  <1>9. CASE ref[lockMap[r]] = 1
    <2>1. lockMap' = [lockMap EXCEPT ![r] = NoLock] BY <1>9 DEF Unref
    <2>2. lockMap'[r] = NoLock /\ lockMap' \in [Resources -> LockIds \cup {NoLock}]
      BY <2>1 DEF TypeOK
    <2>3. RefSlots(r)' = {} BY <1>4, <1>9
    <2>4. EntryIffReferenced' BY <1>8, <2>2, <2>3, EntryStep
    <2>5. StateMatchesHolders' BY <1>8, <2>2, StateStep
    <2>6. QED BY <1>4, <1>7, <1>8, <1>9, <2>2, <2>4, <2>5
  <1>10. CASE ref[lockMap[r]] # 1
    <2>1. lockMap' = lockMap BY <1>10 DEF Unref
    <2>2. RefSlots(r)' # {} BY <1>4, <1>10
    <2>3. EntryIffReferenced' BY <1>2, <1>3, <1>7, <1>8, <2>1, <2>2, EntryStep
    <2>4. StateMatchesHolders' BY <1>8, <2>1, StateStep DEF StateMatchesHolders
    <2>5. QED BY <1>7, <2>1, <2>3, <2>4 DEF TypeOK
  <1>11. QED BY <1>9, <1>10

\* A pointer that another goroutine keeps is not the one that Unref deletes.
LEMMA UnrefPointers ==
  ASSUME LockInv, NEW p \in Procs, NEW r \in Resources, NEW k \in 1 .. MaxPaths,
         \A o \in Resources : lockMap'[o] = lockMap[o] \/ (o = r /\ lockMap'[o] = NoLock),
         lockMap'[r] = NoLock => RefSlots(r) = {<<p, k>>},
         NEW q \in Procs, q # p,
         paths'[q] = paths[q], acquired'[q] = acquired[q], released'[q] = released[q],
         nsLk'[q] = nsLk[q], pc'[q] = pc[q]
  PROVE  /\ pc'[q] \in {"try", "drop"} => nsLk'[q] = lockMap'[LockPath(q)'] /\ nsLk'[q] # NoLock
         /\ pc'[q] \in {"release", "deref"} =>
               nsLk'[q] = lockMap'[UnlockPath(q)'] /\ nsLk'[q] # NoLock
  <1> USE DEF LockInv
  <1>1. LockPath(q)' = LockPath(q) /\ UnlockPath(q)' = UnlockPath(q) BY DEF LockPath, UnlockPath
  <1>2. CASE pc[q] \in {"try", "drop"}
    <2>1. LockPath(q) \in Resources /\ <<q, acquired[q] + 1>> \in RefSlots(LockPath(q))
      <3>1. acquired[q] < Len(paths[q]) /\ Referenced(q, acquired[q] + 1)
        BY <1>2 DEF Progress, Referenced
      <3>2. QED BY <3>1, CurrentSlot, SlotIn DEF LockPath
    <2>2. lockMap'[LockPath(q)] = lockMap[LockPath(q)] BY <2>1
    <2>3. QED BY <1>1, <1>2, <2>2 DEF PointersCurrent
  <1>3. CASE pc[q] \in {"release", "deref"}
    <2>1. UnlockPath(q) \in Resources /\ <<q, released[q] + 1>> \in RefSlots(UnlockPath(q))
      <3>1. released[q] < acquired[q] /\ Referenced(q, released[q] + 1)
        BY <1>3 DEF Progress, Referenced, TypeOK
      <3>2. QED BY <3>1, CurrentSlot, SlotIn DEF UnlockPath
    <2>2. lockMap'[UnlockPath(q)] = lockMap[UnlockPath(q)] BY <2>1
    <2>3. QED BY <1>1, <1>3, <2>2 DEF PointersCurrent
  <1>4. QED BY <1>2, <1>3

\* After a timeout lock counts its reference down and may delete the entry.
LEMMA LockDropInv ==
  ASSUME LockInv, NEW p \in Procs, LockDrop(p)
  PROVE  LockInv'
  <1> USE DEF LockInv
  <1>1. /\ pc[p] = "drop" /\ pc' = [pc EXCEPT ![p] = "find"]
        /\ nsLk' = [nsLk EXCEPT ![p] = NoLock]
        /\ UNCHANGED instVars /\ acquired' = acquired /\ released' = released /\ state' = state
    BY DEF LockDrop
  <1>2. PICK r \in Resources, k \in 1 .. MaxPaths :
            r = LockPath(p) /\ k = acquired[p] + 1 /\ k \in DOMAIN paths[p] /\ r = paths[p][k]
    BY <1>1, CurrentSlot DEF LockPath, Progress
  <1>3. nsLk[p] = lockMap[r] /\ lockMap[r] # NoLock BY <1>1, <1>2, CurrentPointer
  <1>4. Unref(lockMap[r], r) BY <1>2, <1>3 DEF LockDrop
  <1>5. /\ \A q \in Procs : \A j \in 1 .. MaxPaths : q # p \/ j # k =>
             /\ Referenced(q, j)' = Referenced(q, j)
             /\ Holding(q, j)' = Holding(q, j)
        /\ ~Referenced(p, k)' /\ Referenced(p, k) /\ ~Holding(p, k)' /\ ~Holding(p, k)
    BY <1>1, <1>2 DEF TypeOK, Progress, Referenced, Holding
  <1>6. /\ <<p, k>> \in RefSlots(r) /\ <<p, k>> \notin HoldSlots(r)
    BY <1>2, <1>5, SlotIn
  <1>7. /\ RefSlots(r)' = IF Referenced(p, k)' THEN RefSlots(r) \cup {<<p, k>>}
                                               ELSE RefSlots(r) \ {<<p, k>>}
        /\ HoldSlots(r)' = IF Holding(p, k)' THEN HoldSlots(r) \cup {<<p, k>>}
                                             ELSE HoldSlots(r) \ {<<p, k>>}
        /\ \A o \in Resources : o # r => /\ RefSlots(o)' = RefSlots(o)
                                         /\ HoldSlots(o)' = HoldSlots(o)
        /\ \A q \in Procs : readLock'[q] = readLock[q]
    BY <1>1, <1>2, <1>5, MovedSlot
  <1>8. RefSlots(r)' = RefSlots(r) \ {<<p, k>>} /\ HoldSlots(r)' = HoldSlots(r) BY <1>5, <1>6, <1>7
  <1>9. /\ lockMap' \in [Resources -> LockIds \cup {NoLock}]
        /\ ref' \in [LockIds -> Nat]
        /\ \A o \in Resources : lockMap'[o] = lockMap[o] \/ (o = r /\ lockMap'[o] = NoLock)
        /\ lockMap'[r] = NoLock => RefSlots(r) = {<<p, k>>}
        /\ EntryIffReferenced'
        /\ StateMatchesHolders'
    BY <1>1, <1>3, <1>4, <1>6, <1>7, <1>8, UnrefStep
  <1>10. TypeOK' /\ Progress' BY <1>1, <1>9 DEF TypeOK, PCs, Progress, instVars
  <1>11. PointersCurrent'
    <2>1. \A q \in Procs : q # p =>
            /\ pc'[q] \in {"try", "drop"} => nsLk'[q] = lockMap'[LockPath(q)'] /\ nsLk'[q] # NoLock
            /\ pc'[q] \in {"release", "deref"} =>
                  nsLk'[q] = lockMap'[UnlockPath(q)'] /\ nsLk'[q] # NoLock
      <3> SUFFICES ASSUME NEW q \in Procs, q # p
                   PROVE  /\ pc'[q] \in {"try", "drop"} =>
                                nsLk'[q] = lockMap'[LockPath(q)'] /\ nsLk'[q] # NoLock
                          /\ pc'[q] \in {"release", "deref"} =>
                                nsLk'[q] = lockMap'[UnlockPath(q)'] /\ nsLk'[q] # NoLock
        OBVIOUS
      <3>1. /\ paths'[q] = paths[q] /\ acquired'[q] = acquired[q] /\ released'[q] = released[q]
            /\ nsLk'[q] = nsLk[q] /\ pc'[q] = pc[q]
        BY <1>1 DEF TypeOK, instVars
      <3>2. QED BY <1>9, <3>1, UnrefPointers
    <2>2. pc'[p] = "find" BY <1>1 DEF TypeOK
    <2>3. \A o, q \in Resources : lockMap'[o] = lockMap'[q] /\ lockMap'[o] # NoLock => o = q
      BY <1>9 DEF PointersCurrent
    <2>4. QED BY <2>1, <2>2, <2>3 DEF PointersCurrent
  <1>12. QED BY <1>9, <1>10, <1>11

\* unlock counts its reference down and may delete the entry.
LEMMA UnlockDerefInv ==
  ASSUME LockInv, NEW p \in Procs, UnlockDeref(p)
  PROVE  LockInv'
  <1> USE DEF LockInv
  <1>1. /\ pc[p] = "deref" /\ pc' = [pc EXCEPT ![p] = "find"]
        /\ nsLk' = [nsLk EXCEPT ![p] = NoLock]
        /\ released' = [released EXCEPT ![p] = @ + 1]
        /\ UNCHANGED instVars /\ acquired' = acquired /\ state' = state
    BY DEF UnlockDeref
  <1>2. PICK r \in Resources, k \in 1 .. MaxPaths :
            r = UnlockPath(p) /\ k = released[p] + 1 /\ k \in DOMAIN paths[p] /\ r = paths[p][k]
    BY <1>1, CurrentSlot DEF UnlockPath, Progress
  <1>3. nsLk[p] = lockMap[r] /\ lockMap[r] # NoLock BY <1>1, <1>2, CurrentPointer
  <1>4. /\ \A q \in Procs : \A j \in 1 .. MaxPaths : q # p \/ j # k =>
             /\ Referenced(q, j)' = Referenced(q, j)
             /\ Holding(q, j)' = Holding(q, j)
        /\ ~Referenced(p, k)' /\ Referenced(p, k) /\ ~Holding(p, k)' /\ ~Holding(p, k)
    BY <1>1, <1>2 DEF TypeOK, Progress, Referenced, Holding
  <1>5. /\ <<p, k>> \in RefSlots(r) /\ <<p, k>> \notin HoldSlots(r)
    BY <1>2, <1>4, SlotIn
  <1>6. Unref(lockMap[r], r)
    <2>1. Cardinality(RefSlots(r)) # 0 BY <1>5, SlotSetsFinite, FS_EmptySet
    <2>2. ref[lockMap[r]] # 0 BY <1>3, <2>1 DEF EntryIffReferenced
    <2>3. QED BY <1>2, <1>3, <2>2 DEF UnlockDeref
  <1>7. /\ RefSlots(r)' = IF Referenced(p, k)' THEN RefSlots(r) \cup {<<p, k>>}
                                               ELSE RefSlots(r) \ {<<p, k>>}
        /\ HoldSlots(r)' = IF Holding(p, k)' THEN HoldSlots(r) \cup {<<p, k>>}
                                             ELSE HoldSlots(r) \ {<<p, k>>}
        /\ \A o \in Resources : o # r => /\ RefSlots(o)' = RefSlots(o)
                                         /\ HoldSlots(o)' = HoldSlots(o)
        /\ \A q \in Procs : readLock'[q] = readLock[q]
    BY <1>1, <1>2, <1>4, MovedSlot
  <1>8. RefSlots(r)' = RefSlots(r) \ {<<p, k>>} /\ HoldSlots(r)' = HoldSlots(r) BY <1>4, <1>5, <1>7
  <1>9. /\ lockMap' \in [Resources -> LockIds \cup {NoLock}]
        /\ ref' \in [LockIds -> Nat]
        /\ \A o \in Resources : lockMap'[o] = lockMap[o] \/ (o = r /\ lockMap'[o] = NoLock)
        /\ lockMap'[r] = NoLock => RefSlots(r) = {<<p, k>>}
        /\ EntryIffReferenced'
        /\ StateMatchesHolders'
    BY <1>1, <1>3, <1>5, <1>6, <1>7, <1>8, UnrefStep
  <1>10. TypeOK' /\ Progress' BY <1>1, <1>9 DEF TypeOK, PCs, Progress, instVars
  <1>11. PointersCurrent'
    <2>1. \A q \in Procs : q # p =>
            /\ pc'[q] \in {"try", "drop"} => nsLk'[q] = lockMap'[LockPath(q)'] /\ nsLk'[q] # NoLock
            /\ pc'[q] \in {"release", "deref"} =>
                  nsLk'[q] = lockMap'[UnlockPath(q)'] /\ nsLk'[q] # NoLock
      <3> SUFFICES ASSUME NEW q \in Procs, q # p
                   PROVE  /\ pc'[q] \in {"try", "drop"} =>
                                nsLk'[q] = lockMap'[LockPath(q)'] /\ nsLk'[q] # NoLock
                          /\ pc'[q] \in {"release", "deref"} =>
                                nsLk'[q] = lockMap'[UnlockPath(q)'] /\ nsLk'[q] # NoLock
        OBVIOUS
      <3>1. /\ paths'[q] = paths[q] /\ acquired'[q] = acquired[q] /\ released'[q] = released[q]
            /\ nsLk'[q] = nsLk[q] /\ pc'[q] = pc[q]
        BY <1>1 DEF TypeOK, instVars
      <3>2. QED BY <1>9, <3>1, UnrefPointers
    <2>2. pc'[p] = "find" BY <1>1 DEF TypeOK
    <2>3. \A o, q \in Resources : lockMap'[o] = lockMap'[q] /\ lockMap'[o] # NoLock => o = q
      BY <1>9 DEF PointersCurrent
    <2>4. QED BY <2>1, <2>2, <2>3 DEF PointersCurrent
  <1>12. QED BY <1>9, <1>10, <1>11

\* What holding a slot says about the state of its lock.
LEMMA HolderState ==
  ASSUME LockInv, NEW r \in Resources, NEW s \in HoldSlots(r)
  PROVE  /\ lockMap[r] # NoLock
         /\ readLock[s[1]] => /\ state[lockMap[r]] = Cardinality(HoldSlots(r))
                              /\ state[lockMap[r]] >= 1
                              /\ \A t \in HoldSlots(r) : readLock[t[1]]
         /\ ~readLock[s[1]] => state[lockMap[r]] = WRITELOCK /\ HoldSlots(r) = {s}
  <1>1. lockMap[r] # NoLock BY HoldersReferenced DEF LockInv, EntryIffReferenced
  <1>2. Cardinality(HoldSlots(r)) \in Nat /\ Cardinality(HoldSlots(r)) # 0
    BY SlotSetsFinite, FS_EmptySet
  <1>3. QED BY <1>1, <1>2 DEF LockInv, StateMatchesHolders

\* unlock releases the LRWMutex, which it holds: unlock of lsync does not panic.
LEMMA UnlockReleaseInv ==
  ASSUME LockInv, NEW p \in Procs, UnlockRelease(p)
  PROVE  LockInv' /\ CanUnlock(p)
  <1> USE DEF LockInv
  <1>1. /\ pc[p] = "release"
        /\ UNCHANGED instVars /\ acquired' = acquired /\ released' = released
        /\ lockMap' = lockMap /\ ref' = ref /\ nsLk' = nsLk
    BY DEF UnlockRelease
  <1>2. PICK r \in Resources, k \in 1 .. MaxPaths :
            r = UnlockPath(p) /\ k = released[p] + 1 /\ k \in DOMAIN paths[p] /\ r = paths[p][k]
    BY <1>1, CurrentSlot DEF UnlockPath, Progress
  <1>3. nsLk[p] = lockMap[r] /\ lockMap[r] # NoLock BY <1>1, <1>2, CurrentPointer
  <1>4. Holding(p, k) BY <1>1, <1>2 DEF Holding, Progress, TypeOK
  <1>5. <<p, k>> \in HoldSlots(r) /\ <<p, k>>[1] = p BY <1>2, <1>4, SlotIn
  <1>6. CanUnlock(p) BY <1>3, <1>5, HolderState DEF CanUnlock, WRITELOCK, NOLOCKS
  <1>7. /\ state' = [state EXCEPT ![lockMap[r]] = IF readLock[p] THEN @ - 1 ELSE NOLOCKS]
        /\ pc' = [pc EXCEPT ![p] = "deref"]
    BY <1>3, <1>6 DEF UnlockRelease
  <1>8. lockMap[r] \in LockIds BY <1>3 DEF TypeOK
  <1>9. /\ \A q \in Procs : \A j \in 1 .. MaxPaths : q # p \/ j # k =>
             /\ Referenced(q, j)' = Referenced(q, j)
             /\ Holding(q, j)' = Holding(q, j)
        /\ Referenced(p, k)' /\ Referenced(p, k) /\ ~Holding(p, k)'
    BY <1>1, <1>2, <1>7 DEF TypeOK, Progress, Referenced, Holding
  <1>10. <<p, k>> \in RefSlots(r) BY <1>2, <1>9, SlotIn
  <1>11. /\ RefSlots(r)' = IF Referenced(p, k)' THEN RefSlots(r) \cup {<<p, k>>}
                                                ELSE RefSlots(r) \ {<<p, k>>}
         /\ HoldSlots(r)' = IF Holding(p, k)' THEN HoldSlots(r) \cup {<<p, k>>}
                                              ELSE HoldSlots(r) \ {<<p, k>>}
         /\ \A o \in Resources : o # r => /\ RefSlots(o)' = RefSlots(o)
                                          /\ HoldSlots(o)' = HoldSlots(o)
         /\ \A q \in Procs : readLock'[q] = readLock[q]
    BY <1>1, <1>2, <1>9, MovedSlot
  <1>12. RefSlots(r)' = RefSlots(r) /\ HoldSlots(r)' = HoldSlots(r) \ {<<p, k>>}
    BY <1>9, <1>10, <1>11
  <1>13. TypeOK' /\ Progress' /\ PointersCurrent'
    BY <1>1, <1>7, <1>8 DEF TypeOK, PCs, Progress, PointersCurrent, LockPath, UnlockPath,
           instVars, NOLOCKS
  <1>14. EntryIffReferenced' BY <1>1, <1>11, <1>12 DEF EntryIffReferenced
  <1>15. StateMatchesHolders'
    <2>1. \A o \in Resources : o # r =>
             /\ lockMap'[o] = lockMap[o]
             /\ lockMap[o] # NoLock => state'[lockMap[o]] = state[lockMap[o]]
      BY <1>1, <1>3, <1>7 DEF TypeOK, PointersCurrent
    <2>2. /\ state'[lockMap[r]] = Cardinality(HoldSlots(r)')
          /\ \A s \in HoldSlots(r)' : readLock[s[1]]
      <3>1. CASE readLock[p]
        <4>1. /\ state[lockMap[r]] = Cardinality(HoldSlots(r))
              /\ \A t \in HoldSlots(r) : readLock[t[1]]
          BY <1>5, <3>1, HolderState
        <4>2. Cardinality(HoldSlots(r)') = Cardinality(HoldSlots(r)) - 1 BY <1>5, <1>12, CountSlot
        <4>3. state'[lockMap[r]] = state[lockMap[r]] - 1 BY <1>7, <1>8, <3>1 DEF TypeOK
        <4>4. QED BY <1>12, <4>1, <4>2, <4>3
      <3>2. CASE ~readLock[p]
        <4>1. HoldSlots(r)' = {} BY <1>5, <1>12, <3>2, HolderState
        <4>2. state'[lockMap[r]] = 0 BY <1>7, <1>8, <3>2 DEF TypeOK, NOLOCKS
        <4>3. QED BY <4>1, <4>2, FS_EmptySet
      <3>3. QED BY <3>1, <3>2
    <2>3. QED BY <1>1, <1>11, <2>1, <2>2, StateStep
  <1>16. QED BY <1>6, <1>13, <1>14, <1>15

-----------------------------------------------------------------------------
\* LockInv holds in every reachable state of the namespace lock.
THEOREM LockInvariant == Spec => []LockInv
  <1>1. LockInv /\ [Next]_vars => LockInv'
    <2> SUFFICES ASSUME LockInv, [Next]_vars
                 PROVE  LockInv'
      OBVIOUS
    <2>1. ASSUME NEW p \in Procs, NewNSLock(p) \/ Unlock(p) \/ Step(p)
          PROVE  LockInv'
      BY <2>1, NewNSLockInv, UnlockInv, GotLockInv, LockEnterInv, LockSuccessInv,
         LockTimeoutInv, LockDropInv, UnlockedInv, UnlockFindInv, UnlockReleaseInv,
         UnlockDerefInv DEF Step
    <2>2. CASE UNCHANGED vars
      <3>1. TypeOK' /\ Progress' /\ PointersCurrent'
        BY <2>2 DEF vars, LockInv, TypeOK, Progress, PointersCurrent, LockPath, UnlockPath
      <3>2. \A q \in Procs : \A k \in 1 .. MaxPaths :
                /\ Referenced(q, k)' = Referenced(q, k)
                /\ Holding(q, k)' = Holding(q, k)
        BY <2>2 DEF vars, Referenced, Holding
      <3>3. UNCHANGED instVars /\ UNCHANGED sharedVars BY <2>2 DEF vars, instVars, sharedVars
      <3>4. QED BY <3>1, <3>2, <3>3, UnmovedSlots, QuietStep DEF LockInv
    <2>3. QED BY <2>1, <2>2 DEF Next
  <1>2. QED BY <1>1, InitInv, PTL DEF Spec

\* TypeOK, for every value of the constants.
THEOREM TypeCorrect == Spec => []TypeOK
  <1>1. LockInv => TypeOK BY DEF LockInv
  <1>2. QED BY <1>1, LockInvariant, PTL

\* lockLoop never lets a writer share a resource with another acquisition.
THEOREM LocksExclude == Spec => []MutualExclusion
  <1>1. LockInv => MutualExclusion
    <2> SUFFICES ASSUME LockInv, NEW r \in Resources, NEW s \in HoldSlots(r),
                        NEW t \in HoldSlots(r), s # t
                 PROVE  readLock[s[1]] /\ readLock[t[1]]
      BY DEF MutualExclusion
    <2>1. QED BY HolderState
  <1>2. QED BY <1>1, LockInvariant, PTL

\* No unlock panics, misses its map entry or finds a reference count of 0.
THEOREM UnlockNeverPanics == Spec => []ReleaseIsSafe
  <1>1. LockInv => ReleaseIsSafe
    <2> SUFFICES ASSUME LockInv, NEW p \in Procs
                 PROVE  /\ pc[p] # "panic"
                        /\ pc[p] = "find" /\ released[p] < acquired[p] =>
                              lockMap[UnlockPath(p)] # NoLock
                        /\ pc[p] = "release" => CanUnlock(p)
                        /\ pc[p] = "deref" => ref[nsLk[p]] # 0
      BY DEF ReleaseIsSafe
    <2> USE DEF LockInv
    <2>1. pc[p] # "panic" BY DEF Progress
    <2>2. ASSUME released[p] < acquired[p], pc[p] # "try", pc[p] # "drop"
          PROVE  /\ UnlockPath(p) \in Resources
                 /\ <<p, released[p] + 1>> \in RefSlots(UnlockPath(p))
                 /\ lockMap[UnlockPath(p)] # NoLock
      <3>1. Referenced(p, released[p] + 1) BY <2>2 DEF Referenced, TypeOK
      <3>2. /\ UnlockPath(p) \in Resources
            /\ <<p, released[p] + 1>> \in RefSlots(UnlockPath(p))
        BY <2>2, <3>1, CurrentSlot, SlotIn DEF UnlockPath
      <3>3. QED BY <3>2 DEF EntryIffReferenced
    <2>3. pc[p] = "release" => CanUnlock(p)
      <3> SUFFICES ASSUME pc[p] = "release" PROVE CanUnlock(p)
        OBVIOUS
      <3>1. released[p] < acquired[p] /\ Holding(p, released[p] + 1)
        BY DEF Progress, Holding, TypeOK
      <3>2. /\ UnlockPath(p) \in Resources
            /\ <<p, released[p] + 1>> \in HoldSlots(UnlockPath(p))
        BY <3>1, CurrentSlot, SlotIn DEF UnlockPath
      <3>3. nsLk[p] = lockMap[UnlockPath(p)] BY DEF PointersCurrent
      <3>4. QED BY <3>2, <3>3, HolderState DEF CanUnlock, WRITELOCK, NOLOCKS
    <2>4. pc[p] = "deref" => ref[nsLk[p]] # 0
      <3> SUFFICES ASSUME pc[p] = "deref" PROVE ref[nsLk[p]] # 0
        OBVIOUS
      <3>1. released[p] < acquired[p] BY DEF Progress
      <3>2. PICK r \in Resources : r = UnlockPath(p) /\ RefSlots(r) # {} /\ lockMap[r] # NoLock
        BY <2>2, <3>1
      <3>3. Cardinality(RefSlots(r)) # 0 BY <3>2, SlotSetsFinite, FS_EmptySet
      <3>4. nsLk[p] = lockMap[r] BY <3>2 DEF PointersCurrent
      <3>5. QED BY <3>2, <3>3, <3>4 DEF EntryIffReferenced
    <2>5. QED BY <2>1, <2>2, <2>3, <2>4
  <1>2. QED BY <1>1, LockInvariant, PTL

\* The lock map holds exactly the locks in use, with the right counts.
THEOREM NoEntryLeaks == Spec => []EntryIffReferenced
  <1>1. LockInv => EntryIffReferenced BY DEF LockInv
  <1>2. QED BY <1>1, LockInvariant, PTL

-----------------------------------------------------------------------------
(* Waiting in a circle *)

\* sort.Strings(paths) of NewNSLock: nothing else sets the paths.
PathsSorted ==
  \A p \in Procs : \A i, j \in 1 .. Len(paths[p]) : i < j => paths[p][i] <= paths[p][j]

LEMMA PathsSortedHolds == Spec => []PathsSorted
  <1>1. Init => PathsSorted BY DEF Init, PathsSorted
  <1>2. LockInv /\ PathsSorted /\ [Next]_vars => PathsSorted'
    <2> SUFFICES ASSUME LockInv, PathsSorted, [Next]_vars
                 PROVE  PathsSorted'
      OBVIOUS
    <2>1. ASSUME NEW p \in Procs, NewNSLock(p)
          PROVE  PathsSorted'
      <3>1. PICK args \in PathArgs : \E ps \in SortedPaths(args) : paths' = [paths EXCEPT ![p] = ps]
        BY <2>1 DEF NewNSLock
      <3>2. PICK ps \in SortedPaths(args) : paths' = [paths EXCEPT ![p] = ps] BY <3>1
      <3>3. Len(args) \in Nat BY PathArgsAssumption
      <3>4. Len(ps) = Len(args) /\ \A i, j \in 1 .. Len(ps) : i < j => ps[i] <= ps[j]
        BY <3>3 DEF SortedPaths
      <3>5. /\ paths'[p] = ps
            /\ \A q \in Procs : q # p => paths'[q] = paths[q]
        BY <3>2 DEF LockInv, TypeOK
      <3>6. QED BY <3>4, <3>5 DEF PathsSorted
    <2>2. ASSUME NEW p \in Procs, Unlock(p) \/ Step(p)
          PROVE  PathsSorted'
      <3>1. paths' = paths
        BY <2>2 DEF Unlock, Step, GotLock, LockEnter, LockSuccess, LockTimeout, LockDrop,
               Unlocked, UnlockFind, UnlockRelease, UnlockDeref, instVars
      <3>2. QED BY <3>1 DEF PathsSorted
    <2>3. CASE UNCHANGED vars BY <2>3 DEF vars, PathsSorted
    <2>4. QED BY <2>1, <2>2, <2>3 DEF Next
  <1>3. QED BY <1>1, <1>2, LockInvariant, PTL DEF Spec

\* Of finitely many goroutines one waits for the last path.
LEMMA LastWaiter ==
  ASSUME NEW S \in SUBSET Procs, S # {}, NEW f \in [S -> Int]
  PROVE  \E p \in S : \A q \in S : f[q] <= f[p]
  <1> DEFINE above(p) == {q \in S : f[q] > f[p]}
             T == {Cardinality(above(p)) : p \in S}
  <1>1. IsFiniteSet(S) BY ProcsAssumption, FS_Subset
  <1>2. ASSUME NEW p \in S
        PROVE  IsFiniteSet(above(p)) /\ Cardinality(above(p)) \in Nat
    <2>1. above(p) \in SUBSET S OBVIOUS
    <2>2. IsFiniteSet(above(p)) BY <1>1, <2>1, FS_Subset
    <2>3. QED BY <2>2, FS_CardinalityType
  <1>3. T \subseteq Nat /\ T # {} BY <1>2
  <1>4. PICK n \in T : \A m \in T : ~(<<m, n>> \in OpToRel(<, Nat))
    BY <1>3, NatLessThanWellFounded, WFMin
  <1>5. PICK p \in S : n = Cardinality(above(p)) OBVIOUS
  <1>6. ASSUME NEW q \in S, f[q] > f[p]
        PROVE  FALSE
    <2>1. above(q) \subseteq above(p) /\ above(q) # above(p)
      <3>1. q \in above(p) /\ q \notin above(q) BY <1>6
      <3>2. \A x \in above(q) : x \in above(p) BY <1>6
      <3>3. QED BY <3>1, <3>2
    <2>2. Cardinality(above(q)) < Cardinality(above(p)) BY <1>2, <2>1, FS_Subset
    <2>3. Cardinality(above(q)) \in Nat /\ Cardinality(above(p)) \in Nat BY <1>2
    <2>4. Cardinality(above(q)) \in T OBVIOUS
    <2> HIDE DEF above, T
    <2>5. <<Cardinality(above(q)), n>> \in OpToRel(<, Nat) BY <1>5, <2>2, <2>3 DEF OpToRel
    <2>6. QED BY <1>4, <2>4, <2>5
  <1>7. \A q \in S : f[q] <= f[p] BY <1>6
  <1>8. QED BY <1>7

\* A goroutine that waits for a path holds no later one.
LEMMA HoldsEarlierPaths ==
  ASSUME LockInv, PathsSorted, NEW q \in Procs, pc[q] = "try",
         NEW r \in Resources, NEW s \in HoldSlots(r), s[1] = q
  PROVE  r <= LockPath(q)
  <1> DEFINE k == s[2]
  <1>1. s = <<q, k>> /\ k \in 1 .. MaxPaths BY DEF HoldSlots, Slots
  <1>2. k \in DOMAIN paths[q] /\ paths[q][k] = r /\ Holding(q, k) BY <1>1, SlotIn
  <1>3. k <= acquired[q] /\ acquired[q] \in Nat /\ acquired[q] < Len(paths[q]) /\ Len(paths[q]) \in Nat
    BY <1>2 DEF Holding, LockInv, TypeOK, Progress
  <1>4. k \in 1 .. Len(paths[q]) /\ acquired[q] + 1 \in 1 .. Len(paths[q]) /\ k < acquired[q] + 1
    BY <1>1, <1>3
  <1>5. QED BY <1>2, <1>4 DEF PathsSorted, LockPath

\* Sorted paths exclude deadlock: the goroutine of a circle that waits for its
\* last path would wait for one that holds this path and waits for it again, for
\* a third; but that one shares the path with the third, and need not wait.
THEOREM NoWaitCycleAlways == Spec => []NoWaitCycle
  <1>1. LockInv /\ PathsSorted => NoWaitCycle
    <2> SUFFICES ASSUME LockInv, PathsSorted, NEW S \in SUBSET Procs, S # {},
                        \A p \in S : \E q \in S \ {p} : WaitsFor(p, q)
                 PROVE  FALSE
      BY DEF NoWaitCycle
    <2>1. ASSUME NEW p \in S
          PROVE  LockPath(p) \in Resources /\ LockPath(p) \in Int /\ pc[p] = "try" /\ p \in Procs
      <3>1. pc[p] = "try" BY DEF WaitsFor
      <3>2. LockPath(p) \in Resources BY <3>1, CurrentSlot DEF LockInv, Progress
      <3>3. QED BY <3>1, <3>2, ResourcesAssumption
    <2> DEFINE f == [p \in S |-> LockPath(p)]
    <2>2. f \in [S -> Int] BY <2>1
    <2>3. PICK p \in S : \A q \in S : f[q] <= f[p] BY <2>2, LastWaiter
    <2>4. \A q \in S : LockPath(q) <= LockPath(p) BY <2>3
    <2> HIDE DEF f
    <2>5. PICK q \in S \ {p} : WaitsFor(p, q) OBVIOUS
    <2>6. PICK s \in HoldSlots(LockPath(p)) : s[1] = q BY <2>5 DEF WaitsFor
    <2>7. LockPath(q) = LockPath(p)
      <3>1. LockPath(p) <= LockPath(q)
        <4>1. PICK r \in Resources : r = LockPath(p) BY <2>1
        <4>2. s \in HoldSlots(r) /\ s[1] = q BY <2>6, <4>1
        <4>3. q \in Procs /\ pc[q] = "try" BY <2>1
        <4>4. r <= LockPath(q) BY <4>2, <4>3, HoldsEarlierPaths
        <4>5. QED BY <4>1, <4>4
      <3>2. QED BY <2>1, <2>4, <3>1
    <2>8. PICK r \in Resources : r = LockPath(p) /\ r = LockPath(q) BY <2>1, <2>7
    <2>9. PICK o \in S \ {q} : WaitsFor(q, o) OBVIOUS
    <2>10. PICK t \in HoldSlots(r) : t[1] = o BY <2>8, <2>9 DEF WaitsFor
    <2>11. s # t /\ s \in HoldSlots(r) BY <2>6, <2>8, <2>9, <2>10
    <2>12. readLock[q] /\ state[lockMap[r]] >= 1 /\ state[lockMap[r]] = Cardinality(HoldSlots(r))
      BY <2>6, <2>10, <2>11, HolderState
    <2>13. nsLk[q] = lockMap[r] BY <2>1, <2>8, CurrentPointer
    <2>14. CanLock(q) BY <2>12, <2>13, SlotSetsFinite DEF CanLock, WRITELOCK
    <2>15. QED BY <2>9, <2>14 DEF WaitsFor
  <1>2. QED BY <1>1, LockInvariant, PathsSortedHolds, PTL

-----------------------------------------------------------------------------
(* The table of locks that the namespace lock implements *)

HoldersSame ==
  \A r \in Resources :
    HoldSlots(r)' = HoldSlots(r) /\ \A s \in HoldSlots(r) : readLock'[s[1]] = readLock[s[1]]

\* A step that keeps every instance and what it holds.
LEMMA UnmovedHolders ==
  ASSUME UNCHANGED instVars,
         \A q \in Procs : \A k \in 1 .. MaxPaths : Holding(q, k)' = Holding(q, k)
  PROVE  HoldersSame
  BY DEF HoldersSame, HoldSlots, Slots, instVars

\* Only lockLoop and LRWMutex.unlock move a lock; counting references, finding
\* and deleting entries do not.
LEMMA QuietHolders ==
  ASSUME LockInv, NEW p \in Procs,
         \/ GotLock(p) \/ LockEnter(p) \/ LockTimeout(p) \/ LockDrop(p) \/ Unlock(p)
         \/ Unlocked(p) \/ UnlockFind(p) \/ UnlockDeref(p)
  PROVE  HoldersSame
  <1> USE DEF LockInv
  <1>1. CASE GotLock(p) \/ LockEnter(p) \/ LockTimeout(p) \/ LockDrop(p) \/ Unlock(p)
    <2>1. /\ acquired' = acquired /\ released' = released /\ UNCHANGED instVars
          /\ pc[p] # "deref" /\ pc'[p] # "deref"
          /\ \A q \in Procs : q # p => pc'[q] = pc[q]
      BY <1>1 DEF GotLock, LockEnter, LockTimeout, LockDrop, Unlock, TypeOK
    <2>2. \A q \in Procs : \A k \in 1 .. MaxPaths : Holding(q, k)' = Holding(q, k)
      BY <2>1 DEF Holding
    <2>3. QED BY <2>1, <2>2, UnmovedHolders
  <1>2. CASE Unlocked(p)
    <2>1. \A q \in Procs : \A k \in 1 .. MaxPaths : Holding(q, k)' = Holding(q, k)
      BY <1>2 DEF Unlocked, Holding, TypeOK
    <2>2. QED BY <1>2, <2>1, UnmovedHolders DEF Unlocked
  <1>3. CASE UnlockFind(p)
    <2>1. lockMap[UnlockPath(p)] # NoLock
      <3>1. pc[p] = "find" /\ released[p] < acquired[p] BY <1>3 DEF UnlockFind
      <3>2. Holding(p, released[p] + 1) BY <3>1 DEF Holding, TypeOK
      <3>3. UnlockPath(p) \in Resources /\ <<p, released[p] + 1>> \in HoldSlots(UnlockPath(p))
        BY <3>1, <3>2, CurrentSlot, SlotIn DEF UnlockPath
      <3>4. QED BY <3>3, HolderState
    <2>2. /\ acquired' = acquired /\ released' = released /\ UNCHANGED instVars
          /\ pc[p] # "deref" /\ pc'[p] # "deref"
          /\ \A q \in Procs : q # p => pc'[q] = pc[q]
      BY <1>3, <2>1 DEF UnlockFind, TypeOK
    <2>3. \A q \in Procs : \A k \in 1 .. MaxPaths : Holding(q, k)' = Holding(q, k)
      BY <2>2 DEF Holding
    <2>4. QED BY <2>2, <2>3, UnmovedHolders
  <1>4. CASE UnlockDeref(p)
    <2>1. \A q \in Procs : \A k \in 1 .. MaxPaths : Holding(q, k)' = Holding(q, k)
      BY <1>4 DEF UnlockDeref, Holding, TypeOK
    <2>2. QED BY <1>4, <2>1, UnmovedHolders DEF UnlockDeref
  <1>5. QED BY <1>1, <1>2, <1>3, <1>4

LEMMA NewHolders ==
  ASSUME LockInv, NEW p \in Procs, NewNSLock(p)
  PROVE  HoldersSame
  <1>1. \A k \in 1 .. MaxPaths : ~Holding(p, k) /\ ~Holding(p, k)'
    BY DEF NewNSLock, LockInv, TypeOK, Progress, Holding
  <1>2. \A q \in Procs : q # p => paths'[q] = paths[q] /\ readLock'[q] = readLock[q]
    BY DEF NewNSLock, LockInv, TypeOK
  <1>3. \A q \in Procs : q # p => \A k : Holding(q, k)' = Holding(q, k)
    BY DEF NewNSLock, LockInv, TypeOK, Holding
  <1>4. QED BY <1>1, <1>2, <1>3 DEF HoldersSame, HoldSlots, Slots

\* lockLoop takes the lock of a path for one slot, under the condition of the
\* table.
LEMMA LockSuccessHolders ==
  ASSUME LockInv, NEW p \in Procs, LockSuccess(p)
  PROVE  \E r \in Resources, h \in Slots :
           /\ h[1] = p /\ h \notin HoldSlots(r)
           /\ HoldSlots(r)' = HoldSlots(r) \cup {h}
           /\ \A o \in Resources : o # r => HoldSlots(o)' = HoldSlots(o)
           /\ readLock' = readLock
           /\ IF readLock[p] THEN \A s \in HoldSlots(r) : readLock[s[1]] ELSE HoldSlots(r) = {}
  <1> USE DEF LockInv
  <1>1. /\ pc[p] = "try" /\ pc' = [pc EXCEPT ![p] = "next"]
        /\ acquired' = [acquired EXCEPT ![p] = @ + 1]
        /\ UNCHANGED instVars /\ released' = released
    BY DEF LockSuccess
  <1>2. PICK r \in Resources, k \in 1 .. MaxPaths :
            r = LockPath(p) /\ k = acquired[p] + 1 /\ k \in DOMAIN paths[p] /\ r = paths[p][k]
    BY <1>1, CurrentSlot DEF LockPath, Progress
  <1>3. nsLk[p] = lockMap[r] /\ lockMap[r] # NoLock BY <1>1, <1>2, CurrentPointer
  <1>4. /\ \A q \in Procs : \A j \in 1 .. MaxPaths : q # p \/ j # k =>
             /\ Referenced(q, j)' = Referenced(q, j)
             /\ Holding(q, j)' = Holding(q, j)
        /\ Holding(p, k)' /\ ~Holding(p, k)
    BY <1>1, <1>2 DEF TypeOK, Progress, Referenced, Holding
  <1>5. <<p, k>> \notin HoldSlots(r) /\ <<p, k>> \in Slots BY <1>2, <1>4, SlotIn DEF Slots
  <1>6. /\ HoldSlots(r)' = IF Holding(p, k)' THEN HoldSlots(r) \cup {<<p, k>>}
                                             ELSE HoldSlots(r) \ {<<p, k>>}
        /\ \A o \in Resources : o # r => HoldSlots(o)' = HoldSlots(o)
    BY <1>1, <1>2, <1>4, MovedSlot
  <1>7. HoldSlots(r)' = HoldSlots(r) \cup {<<p, k>>} BY <1>4, <1>6
  <1>8. readLock' = readLock BY <1>1 DEF instVars
  <1>9. CASE readLock[p]
    <2>1. state[lockMap[r]] # WRITELOCK BY <1>3, <1>9 DEF LockSuccess, CanLock
    <2>2. \A s \in HoldSlots(r) : readLock[s[1]] BY <1>3, <2>1 DEF StateMatchesHolders
    <2>3. QED BY <1>5, <1>6, <1>7, <1>8, <1>9, <2>2
  <1>10. CASE ~readLock[p]
    <2>1. state[lockMap[r]] = 0 BY <1>3, <1>10 DEF LockSuccess, CanLock, NOLOCKS
    <2>2. Cardinality(HoldSlots(r)) = 0 BY <1>3, <2>1 DEF StateMatchesHolders, WRITELOCK
    <2>3. HoldSlots(r) = {} BY <2>2, SlotSetsFinite, FS_EmptySet
    <2>4. QED BY <1>5, <1>6, <1>7, <1>8, <1>10, <2>3
  <1>11. QED BY <1>9, <1>10

\* LRWMutex.unlock gives it back.
LEMMA UnlockReleaseHolders ==
  ASSUME LockInv, NEW p \in Procs, UnlockRelease(p)
  PROVE  \E r \in Resources, h \in Slots :
           /\ h \in HoldSlots(r)
           /\ HoldSlots(r)' = HoldSlots(r) \ {h}
           /\ \A o \in Resources : o # r => HoldSlots(o)' = HoldSlots(o)
           /\ readLock' = readLock
  <1>1. /\ pc[p] = "release" /\ CanUnlock(p)
        /\ UNCHANGED instVars /\ acquired' = acquired /\ released' = released
    BY UnlockReleaseInv DEF UnlockRelease
  <1>2. pc' = [pc EXCEPT ![p] = "deref"] BY <1>1 DEF UnlockRelease
  <1> USE DEF LockInv
  <1>3. PICK r \in Resources, k \in 1 .. MaxPaths :
            r = UnlockPath(p) /\ k = released[p] + 1 /\ k \in DOMAIN paths[p] /\ r = paths[p][k]
    BY <1>1, CurrentSlot DEF UnlockPath, Progress
  <1>4. /\ \A q \in Procs : \A j \in 1 .. MaxPaths : q # p \/ j # k =>
             /\ Referenced(q, j)' = Referenced(q, j)
             /\ Holding(q, j)' = Holding(q, j)
        /\ ~Holding(p, k)' /\ Holding(p, k)
    BY <1>1, <1>2, <1>3 DEF TypeOK, Progress, Referenced, Holding
  <1>5. <<p, k>> \in HoldSlots(r) /\ <<p, k>> \in Slots BY <1>3, <1>4, SlotIn DEF Slots
  <1>6. /\ HoldSlots(r)' = IF Holding(p, k)' THEN HoldSlots(r) \cup {<<p, k>>}
                                             ELSE HoldSlots(r) \ {<<p, k>>}
        /\ \A o \in Resources : o # r => HoldSlots(o)' = HoldSlots(o)
    BY <1>1, <1>3, <1>4, MovedSlot
  <1>7. QED BY <1>1, <1>4, <1>5, <1>6 DEF instVars

TableReaders == [r \in Resources |-> {s \in HoldSlots(r) : readLock[s[1]]}]
TableWriters == [r \in Resources |-> {s \in HoldSlots(r) : ~readLock[s[1]]}]

\* What happens to the table when one slot of a resource changes.
LEMMA TableStep ==
  ASSUME NEW r \in Resources,
         \A o \in Resources : o # r => HoldSlots(o)' = HoldSlots(o), readLock' = readLock
  PROVE  /\ TableReaders' = [TableReaders EXCEPT ![r] = {s \in HoldSlots(r)' : readLock[s[1]]}]
         /\ TableWriters' = [TableWriters EXCEPT ![r] = {s \in HoldSlots(r)' : ~readLock[s[1]]}]
  BY DEF TableReaders, TableWriters

\* The namespace lock is a table of readers/writer locks: every critical section
\* acquires or releases one lock of the table, or leaves the table alone.
THEOREM ImplementsTable == Spec => RefinesTable
  <1>1. Init => Table!TableInit BY DEF Init, Table!TableInit, HoldSlots, Slots
  <1>2. LockInv /\ [Next]_vars => [Table!TableNext]_(Table!tableVars)
    <2> SUFFICES ASSUME LockInv, [Next]_vars
                 PROVE  Table!TableNext \/ UNCHANGED Table!tableVars
      OBVIOUS
    <2>1. ASSUME HoldersSame
          PROVE  UNCHANGED Table!tableVars
      BY <2>1 DEF HoldersSame, Table!tableVars
    <2>2. ASSUME NEW p \in Procs, LockSuccess(p)
          PROVE  Table!TableNext
      <3>1. PICK r \in Resources, h \in Slots :
              /\ h[1] = p /\ h \notin HoldSlots(r)
              /\ HoldSlots(r)' = HoldSlots(r) \cup {h}
              /\ \A o \in Resources : o # r => HoldSlots(o)' = HoldSlots(o)
              /\ readLock' = readLock
              /\ IF readLock[p] THEN \A s \in HoldSlots(r) : readLock[s[1]]
                                ELSE HoldSlots(r) = {}
        BY <2>2, LockSuccessHolders
      <3>2. /\ TableReaders' = [TableReaders EXCEPT ![r] = {s \in HoldSlots(r)' : readLock[s[1]]}]
            /\ TableWriters' = [TableWriters EXCEPT ![r] = {s \in HoldSlots(r)' : ~readLock[s[1]]}]
        BY <3>1, TableStep
      <3>3. CASE readLock[p]
        <4>1. /\ TableWriters[r] = {} /\ h \notin TableReaders[r]
              /\ TableReaders' = [TableReaders EXCEPT ![r] = @ \cup {h}]
              /\ TableWriters' = TableWriters
          <5>1. readLock[h[1]] /\ \A s \in HoldSlots(r) : readLock[s[1]] BY <3>1, <3>3
          <5>2. /\ {s \in HoldSlots(r)' : readLock[s[1]]} = {s \in HoldSlots(r) : readLock[s[1]]} \cup {h}
                /\ {s \in HoldSlots(r)' : ~readLock[s[1]]} = {}
                /\ {s \in HoldSlots(r) : ~readLock[s[1]]} = {}
            BY <3>1, <5>1
          <5>3. /\ TableReaders[r] = {s \in HoldSlots(r) : readLock[s[1]]}
                /\ TableWriters[r] = {s \in HoldSlots(r) : ~readLock[s[1]]}
            BY DEF TableReaders, TableWriters
          <5>4. [TableWriters EXCEPT ![r] = {}] = TableWriters BY <5>2 DEF TableWriters
          <5>5. h \notin TableReaders[r] /\ TableWriters[r] = {} BY <3>1, <5>2, <5>3
          <5>6. TableReaders' = [TableReaders EXCEPT ![r] = @ \cup {h}] /\ TableWriters' = TableWriters
            BY <3>2, <5>2, <5>3, <5>4
          <5>7. QED BY <5>5, <5>6
        <4>2. Table!AcquireRead(h, r) BY <4>1 DEF Table!AcquireRead, TableReaders, TableWriters
        <4>3. QED BY <4>2 DEF Table!TableNext
      <3>4. CASE ~readLock[p]
        <4>1. /\ TableWriters[r] = {} /\ TableReaders[r] = {}
              /\ TableWriters' = [TableWriters EXCEPT ![r] = {h}]
              /\ TableReaders' = TableReaders
          BY <3>1, <3>2, <3>4 DEF TableReaders, TableWriters
        <4>2. Table!AcquireWrite(h, r) BY <4>1 DEF Table!AcquireWrite, TableReaders, TableWriters
        <4>3. QED BY <4>2 DEF Table!TableNext
      <3>5. QED BY <3>3, <3>4
    <2>3. ASSUME NEW p \in Procs, UnlockRelease(p)
          PROVE  Table!TableNext
      <3>1. PICK r \in Resources, h \in Slots :
              /\ h \in HoldSlots(r)
              /\ HoldSlots(r)' = HoldSlots(r) \ {h}
              /\ \A o \in Resources : o # r => HoldSlots(o)' = HoldSlots(o)
              /\ readLock' = readLock
        BY <2>3, UnlockReleaseHolders
      <3>2. /\ TableReaders' = [TableReaders EXCEPT ![r] = {s \in HoldSlots(r)' : readLock[s[1]]}]
            /\ TableWriters' = [TableWriters EXCEPT ![r] = {s \in HoldSlots(r)' : ~readLock[s[1]]}]
        BY <3>1, TableStep
      <3>3. /\ h \in TableReaders[r] \cup TableWriters[r]
            /\ TableReaders' = [TableReaders EXCEPT ![r] = @ \ {h}]
            /\ TableWriters' = [TableWriters EXCEPT ![r] = @ \ {h}]
        BY <3>1, <3>2 DEF TableReaders, TableWriters
      <3>4. Table!Release(h, r) BY <3>3 DEF Table!Release, TableReaders, TableWriters
      <3>5. QED BY <3>4 DEF Table!TableNext
    <2>4. CASE UNCHANGED vars BY <2>4 DEF vars, Table!tableVars, HoldSlots, Holding
    <2>5. QED BY <2>1, <2>2, <2>3, <2>4, QuietHolders, NewHolders DEF Next, Step
  <1>3. QED BY <1>1, <1>2, LockInvariant, PTL DEF Spec, RefinesTable
=============================================================================

----------------------------- MODULE Retention -----------------------------
(***************************************************************************)
(* Retention and legal holds of objects (object-lock.go, pkg/bucket/object *)
(* /lock), with the handlers that write and remove objects and the rules  *)
(* of lifecycles (pkg/bucket/lifecycle), for one bucket of an object layer *)
(* that keeps metadata.                                                    *)
(*                                                                         *)
(* A handler reads the object's metadata, decides, and only then writes or *)
(* removes the object: the steps of other requests come between.  The lock *)
(* settings of buckets are in memory; nothing reads them back after a      *)
(* restart.  The clock may fail to answer (UTCNowNTP).                     *)
(*                                                                         *)
(* enforceRetentionBypassForPut and enforceRetentionForLifecycle have no   *)
(* caller in the repository; PutRetention and Expire are operations that   *)
(* do what these two allow.                                                *)
(***************************************************************************)
EXTENDS Integers, Sequences, FiniteSets

CONSTANTS Handlers,     \* goroutines of requests
          LockedNames,  \* names of objects
          LockRequests, \* requests: operation, lock headers, names of objects and
                        \* the actions the caller is allowed
          LockConfigs,  \* settings of the bucket
          Lifecycles,   \* lifecycle configurations
          LastTime      \* bound on the clock

LockOps == {"put", "upload", "delete", "multi", "remove", "prefix", "retention"}

\* What the parsers of requests and of the settings let through.
ASSUME LockRequestsAssumption ==
  \A r \in LockRequests :
    /\ r.op \in LockOps
    /\ r.header \in [mode : STRING, until : Int, hold : STRING, bypass : BOOLEAN]
    /\ r.names \subseteq LockedNames
ASSUME LockConfigsAssumption ==
  \A cfg \in LockConfigs : cfg \in [worm : BOOLEAN, mode : STRING, validity : Nat]

VARIABLES locked,     \* per name: its content, metadata and time of the write
          lockConfig, \* globalBucketObjectLockConfig of the bucket
          handlers,   \* per handler: the request
          time,
          \* history, read by no action:
          outdated    \* handlers whose decision was overtaken or uninformed

retentionVars == <<locked, lockConfig, handlers, time, outdated>>

\* A mode or a hold that is not there: the empty string.
Unset == ""
NoDate == -1
BadDate == -2

\* Content 0 is that of no object; a write changes the content.
Meta(mode, until, hold) == [mode |-> mode, until |-> until, hold |-> hold]
NoMeta == Meta(Unset, NoDate, Unset)
NoObject == [content |-> 0, meta |-> NoMeta, created |-> 0]

Exists(o) == locked[o].content # 0

ValidMode(mode) == mode \in {"GOVERNANCE", "COMPLIANCE"}
ValidHold(hold) == hold \in {"ON", "OFF"}

\* Settings: of no object lock, of one without default, or a default.
NotWORM == [worm |-> FALSE, mode |-> Unset, validity |-> 0]
RetentionIsEmpty(cfg) == ~ValidMode(cfg.mode) \/ cfg.validity = 0

\* A rule for a default has a mode and a period; ToRetention has no period
\* when the clock does not answer.
ParsesLockConfig(cfg) == cfg.mode # Unset => ValidMode(cfg.mode) /\ cfg.validity > 0
ToRetention(cfg, clock) == IF clock THEN cfg ELSE [cfg EXCEPT !.validity = 0]

IsObjectLockRetentionRequested(h) == h.mode # Unset \/ h.until # NoDate
IsObjectLockLegalHoldRequested(h) == h.hold # Unset

ParsesRetentionHeaders(h, clock) ==
  /\ ValidMode(h.mode)
  /\ h.until \notin {NoDate, BadDate}
  /\ clock
  /\ h.until >= time

(***************************************************************************)
(* Decisions.                                                              *)
(***************************************************************************)
Refused(err) == [err |-> err, meta |-> NoMeta]
Allowed(meta) == [err |-> "ErrNone", meta |-> meta]

\* checkPutObjectLockAllowed, of an object whose metadata was read or not.
\* A legal hold that does not parse is taken for no error.
checkPutObjectLockAllowed(h, old, read, perms, clock) ==
  LET retention == IsObjectLockRetentionRequested(h)
      held == IsObjectLockLegalHoldRequested(h)
      meta == IF read THEN old ELSE NoMeta
      hold == IF held THEN h.hold ELSE meta.hold
  IN IF ~lockConfig.worm
     THEN IF retention \/ held THEN Refused("ErrInvalidBucketObjectLockConfiguration")
          ELSE Allowed(NoMeta)
     ELSE IF ~clock \/ (meta.mode = "COMPLIANCE" /\ meta.until > time) \/ meta.hold = "ON"
     THEN Refused("ErrObjectLocked")
     ELSE IF held /\ ~ValidHold(h.hold) THEN Allowed(Meta(meta.mode, meta.until, Unset))
     ELSE IF retention /\ ~ParsesRetentionHeaders(h, clock) THEN Refused("ErrInvalidHeaders")
     ELSE IF meta.until > time THEN Refused("ErrObjectLocked")
     ELSE IF "PutObjectRetention" \notin perms THEN Refused("ErrAccessDenied")
     ELSE IF retention THEN Allowed(Meta(h.mode, h.until, h.hold))
     ELSE IF ~held /\ ~RetentionIsEmpty(lockConfig)
     THEN Allowed(Meta(lockConfig.mode, time + lockConfig.validity, hold))
     ELSE Allowed(Meta(Unset, NoDate, hold))

\* enforceRetentionBypassForDelete; the Web variant leaves the permission to
\* its caller.
enforceRetentionBypassForDelete(h, meta, perms, clock, web) ==
  IF meta.hold = "ON" THEN "ErrObjectLocked"
  ELSE IF meta.mode = "COMPLIANCE" \/ (meta.mode = "GOVERNANCE" /\ ~h.bypass)
  THEN IF clock /\ meta.until < time THEN "ErrNone" ELSE "ErrObjectLocked"
  ELSE IF /\ meta.mode = "GOVERNANCE" /\ ~web
          /\ perms \cap {"BypassGovernanceRetention", "GetBucketObjectLockConfiguration"} = {}
  THEN "ErrAccessDenied"
  ELSE "ErrNone"

\* A bypass needs its permission only when governance is asked for.
isPutRetentionAllowed(h, bypass, perms) ==
  \/ bypass /\ (h.mode = "GOVERNANCE" => "BypassGovernanceRetention" \in perms)
  \/ "PutObjectRetention" \in perms

enforceRetentionBypassForPut(h, meta, perms, clock) ==
  /\ clock
  /\ IF ~ValidMode(meta.mode) \/ meta.until < time
     THEN isPutRetentionAllowed(h, h.bypass, perms)
     ELSE IF meta.mode = "GOVERNANCE"
          THEN /\ h.bypass \/ (h.mode = "GOVERNANCE" /\ h.until >= meta.until)
               /\ isPutRetentionAllowed(h, h.bypass, perms)
          ELSE /\ h.mode = "COMPLIANCE" /\ h.until >= meta.until
               /\ isPutRetentionAllowed(h, FALSE, perms)

\* Mutant of enforceRetentionForLifecycle: no time, no lock.
enforceRetentionForLifecycleMutant(meta, clock) ==
  \/ meta.hold = "ON"
  \/ ValidMode(meta.mode) /\ clock /\ meta.until > time

enforceRetentionForLifecycle(meta, clock) ==
  \/ meta.hold = "ON"
  \/ ValidMode(meta.mode) /\ (clock => meta.until > time)

\* An Expiration element needs neither days nor a date to be one.
NoExpiration == [days |-> 0, date |-> NoDate]

ValidRule(rule) == rule.status \in {"Enabled", "Disabled"}

\* Lifecycle.Validate, of rules whose prefixes are given as the set of names
\* they cover: prefixes overlap when one covers the other's names.
ValidLifecycle(rules) ==
  /\ rules # << >>
  /\ \A i \in DOMAIN rules : ValidRule(rules[i])
  /\ \A i, j \in DOMAIN rules : i < j => ~(\/ rules[i].names \subseteq rules[j].names
                                           \/ rules[j].names \subseteq rules[i].names)

\* The first enabled rule for the name decides.
FilterRuleActions(rules, o) ==
  LET fits == {i \in DOMAIN rules : rules[i].status # "Disabled" /\ o \in rules[i].names}
  IN IF fits = {} THEN NoExpiration
     ELSE LET i == CHOOSE i \in fits : \A j \in fits : i <= j
          IN [days |-> rules[i].days, date |-> rules[i].date]

ComputeAction(rules, o) ==
  LET exp == FilterRuleActions(rules, o)
  IN \/ exp.date # NoDate /\ time > exp.date
     \/ exp.days # 0 /\ time > locked[o].created + exp.days

(***************************************************************************)
(* Requests.                                                               *)
(***************************************************************************)
NoRequest == [pc |-> "idle"]

Settings == <<lockConfig, time>>

\* What the other handlers decided on these names is out of date.
Overtaken(p, names) ==
  {q \in Handlers \ {p} : handlers[q].pc # "idle" /\ handlers[q].list \cap names # {}}

\* A handler got its request and is past the checks of the other modules.
Receive(p) ==
  /\ handlers[p].pc = "idle"
  /\ \E r \in LockRequests :
       /\ r.op \in {"put", "upload", "delete", "retention"} => Cardinality(r.names) = 1
       /\ r.op \in {"put", "upload"} => "PutObject" \in r.perms
       /\ r.op \in {"delete", "multi", "remove", "prefix"} => "DeleteObject" \in r.perms
       /\ handlers' = [handlers EXCEPT ![p] =
            [pc |-> "check", op |-> r.op, header |-> r.header, perms |-> r.perms,
             todo |-> r.names, list |-> {}, meta |-> NoMeta]]
  /\ outdated' = outdated \ {p}
  /\ UNCHANGED <<locked, Settings>>

Moves(p, request) ==
  /\ handlers' = [handlers EXCEPT ![p] = request]
  /\ UNCHANGED <<locked, Settings>>

\* PutObjectHandler asks for a permission only with retention headers.
\* Upload leaves the check out when it has no lock headers.
CheckPut(p) ==
  LET r == handlers[p]
      h == r.header
  IN /\ r.pc = "check" /\ r.op \in {"put", "upload"}
     /\ \E o \in r.todo, clock \in BOOLEAN, read \in BOOLEAN :
          LET asks == IsObjectLockRetentionRequested(h) \/ IsObjectLockLegalHoldRequested(h)
              perms == IF r.op = "put" /\ ~IsObjectLockRetentionRequested(h)
                       THEN r.perms \cup {"PutObjectRetention"} ELSE r.perms
              found == Exists(o) /\ read
              d == IF r.op = "upload" /\ ~asks THEN Allowed(NoMeta)
                   ELSE checkPutObjectLockAllowed(h, locked[o].meta, found, perms, clock)
          IN /\ Moves(p, IF d.err # "ErrNone" THEN NoRequest
                        ELSE [r EXCEPT !.pc = "act", !.todo = {}, !.list = {o}, !.meta = d.meta])
             /\ outdated' = IF Exists(o) /\ ~read /\ d.err = "ErrNone"
                            THEN outdated \cup {p} ELSE outdated

\* DeleteObjectHandler and DeleteMultipleObjectsHandler check all before they
\* remove, RemoveObject each before it removes it.  A name that is missing is
\* removed by none of them; RemoveObject gives up at the first refusal, and
\* always wants a permission to bypass.
CheckDelete(p) ==
  LET r == handlers[p]
      web == r.op = "remove"
  IN /\ r.pc = "check" /\ r.op \in {"delete", "multi", "remove"}
     /\ \E o \in r.todo, clock \in BOOLEAN, read \in BOOLEAN :
          LET err == IF web /\ r.perms \cap {"BypassGovernanceRetention",
                                "GetBucketObjectLockConfiguration"} = {} THEN "ErrAccessDenied"
                     ELSE IF ~lockConfig.worm THEN "ErrNone"
                     ELSE IF ~Exists(o) THEN "ErrNoSuchKey"
                     ELSE IF ~read THEN "ErrInternalError"
                     ELSE enforceRetentionBypassForDelete(
                            r.header, locked[o].meta, r.perms, clock, web)
              todo == IF web /\ err \notin {"ErrNone", "ErrNoSuchKey"} THEN {} ELSE r.todo \ {o}
              list == IF err = "ErrNone" THEN r.list \cup {o} ELSE r.list
          IN Moves(p, IF list # {} /\ (web \/ todo = {})
                     THEN [r EXCEPT !.pc = "act", !.todo = todo, !.list = list]
                     ELSE IF todo = {} THEN NoRequest
                     ELSE [r EXCEPT !.todo = todo, !.list = list])
     /\ UNCHANGED outdated

\* RemoveObject of a folder walks it and removes what it finds.
CheckPrefix(p) ==
  /\ handlers[p].pc = "check" /\ handlers[p].op = "prefix"
  /\ LET found == {o \in handlers[p].todo : Exists(o)}
     IN Moves(p, IF found = {} THEN NoRequest
                ELSE [handlers[p] EXCEPT !.pc = "act", !.todo = {}, !.list = found])
  /\ UNCHANGED outdated

\* The retention asked for has a mode and a date in the future.
CheckRetention(p) ==
  LET r == handlers[p]
  IN /\ r.pc = "check" /\ r.op = "retention"
     /\ \E o \in r.todo, clock \in BOOLEAN :
          Moves(p, IF /\ Exists(o) /\ ParsesRetentionHeaders(r.header, clock)
                     /\ enforceRetentionBypassForPut(r.header, locked[o].meta, r.perms, clock)
                  THEN [r EXCEPT !.pc = "act", !.todo = {}, !.list = {o}]
                  ELSE NoRequest)
     /\ UNCHANGED outdated

\* What the handler makes of an object: it is written with the metadata that
\* was decided on, it gets a new retention, or it is removed.
Result(r, o) ==
  CASE r.op \in {"put", "upload"} ->
         [content |-> IF locked[o].content = 1 THEN 2 ELSE 1, meta |-> r.meta, created |-> time]
    [] r.op = "retention" /\ Exists(o) ->
         [locked[o] EXCEPT !.meta.mode = r.header.mode, !.meta.until = r.header.until]
    [] OTHER -> NoObject

Act(p) ==
  LET r == handlers[p]
  IN /\ r.pc = "act"
     /\ \E o \in r.list :
          LET rest == r.list \ {o}
          IN /\ locked' = [locked EXCEPT ![o] = Result(r, o)]
             /\ handlers' = [handlers EXCEPT ![p] =
                  IF rest # {} THEN [r EXCEPT !.list = rest]
                  ELSE IF r.todo # {} THEN [r EXCEPT !.pc = "check", !.list = {}]
                  ELSE NoRequest]
             /\ outdated' = (IF rest = {} THEN outdated \ {p} ELSE outdated)
                              \cup Overtaken(p, {o})
     /\ UNCHANGED Settings

\* An object expires.
Expire ==
  \E o \in LockedNames, rules \in Lifecycles, clock \in BOOLEAN :
    /\ ValidLifecycle(rules)
    /\ Exists(o) /\ ComputeAction(rules, o)
    /\ ~enforceRetentionForLifecycle(locked[o].meta, clock)
    /\ locked' = [locked EXCEPT ![o] = NoObject]
    /\ outdated' = outdated \cup
         {q \in Handlers : handlers[q].pc # "idle" /\ o \in handlers[q].list}
    /\ UNCHANGED <<handlers, Settings>>

\* The settings are set; initBucketObjectLockConfig, which reads them from
\* the store, and Restart, after which they are gone.
SetConfig ==
  /\ \E cfg \in LockConfigs, clock \in BOOLEAN :
       /\ ParsesLockConfig(cfg)
       /\ lockConfig' = ToRetention(cfg, clock)
       /\ lockConfig' # lockConfig
  /\ outdated' = outdated \cup
       {q \in Handlers : handlers[q].pc # "idle" /\ handlers[q].list # {}}
  /\ UNCHANGED <<locked, handlers, time>>

Restart ==
  /\ lockConfig' = NotWORM
  /\ handlers' = [p \in Handlers |-> NoRequest]
  /\ outdated' = {}
  /\ UNCHANGED <<locked, time>>

TimePasses ==
  /\ time < LastTime
  /\ time' = time + 1
  /\ UNCHANGED <<locked, lockConfig, handlers, outdated>>

RetentionInit ==
  /\ locked = [o \in LockedNames |-> NoObject]
  /\ lockConfig = NotWORM
  /\ handlers = [p \in Handlers |-> NoRequest]
  /\ time = 0 /\ outdated = {}

RetentionNext ==
  \/ \E p \in Handlers :
       \/ Receive(p) \/ CheckPut(p) \/ CheckDelete(p) \/ CheckPrefix(p)
       \/ CheckRetention(p) \/ Act(p)
  \/ Expire \/ SetConfig \/ Restart \/ TimePasses

RetentionSpec == RetentionInit /\ [][RetentionNext]_retentionVars

(***************************************************************************)
(* Properties.                                                             *)
(***************************************************************************)
Held(o) == locked[o].meta.hold = "ON"
Retained(o, mode) == locked[o].meta.mode = mode /\ locked[o].meta.until > time

StaysRetained(o) == locked'[o].meta.until >= locked[o].meta.until
Overwritten(o) == locked'[o].content # locked[o].content

Acting(p) == handlers[p].pc = "act" /\ handlers'[p] # handlers[p]

\* A handler whose decision was overtaken, or that made none.
Excused(p) ==
  \/ p \in outdated
  \/ handlers[p].op = "prefix"
  \/ /\ handlers[p].op = "upload"
     /\ ~IsObjectLockRetentionRequested(handlers[p].header)
     /\ ~IsObjectLockLegalHoldRequested(handlers[p].header)

\* A request that says it bypasses governance, or whose legal hold does not
\* parse.
Bypasses(p) ==
  \/ handlers[p].header.bypass
  \/ handlers[p].header.hold \notin {Unset, "ON", "OFF"}

\* While the settings of the bucket are in memory, an object under legal hold
\* or in compliance mode is neither written over nor removed before its
\* date, nor is its hold lifted or its date brought forward, and one in
\* governance mode only by a request that bypasses it.  That holds for every
\* request whose decision no other step overtook, at every failure of the
\* clock, of every handler but Upload without lock headers and RemoveObject
\* of a folder, which do not ask (checkPutObjectLockAllowed, the functions
\* enforceRetention*).
LockedIsKept ==
  [][(lockConfig.worm /\ \A p \in Handlers : Acting(p) => ~Excused(p)) =>
       \A o \in LockedNames :
         /\ Held(o) => ~Overwritten(o) /\ locked'[o].meta.hold = "ON"
         /\ Retained(o, "COMPLIANCE") => /\ ~Overwritten(o) /\ StaysRetained(o)
                                         /\ locked'[o].meta.mode = "COMPLIANCE"
         /\ (Retained(o, "GOVERNANCE") /\ \A p \in Handlers : Acting(p) => ~Bypasses(p)) =>
              ~Overwritten(o) /\ StaysRetained(o)]_retentionVars
=============================================================================

-------------------------------- MODULE IAM --------------------------------
(***************************************************************************)
(* Users, groups and policies (iam.go, iam-object-store.go).               *)
(*                                                                         *)
(* Every change is made under the lock of IAMSys: documents of the meta    *)
(* bucket are written one by one, and maps in memory with them.  Every few *)
(* minutes, and at start, loadAll reads the documents without the lock and *)
(* replaces the maps by what it read.                                      *)
(*                                                                         *)
(* A document is written over the older one and never truncated; one that  *)
(* is shorter than its file cannot be parsed, and one document that cannot *)
(* be parsed fails the whole loadAll.                                      *)
(***************************************************************************)
EXTENDS Integers, Sequences, FiniteSets, SequencesExt

CONSTANTS Regular,     \* access keys of users
          Temp,        \* access keys of temporary users (STS)
          Service,     \* access keys of service accounts
          Groups,
          Policies,    \* names of policies
          Canned,      \* the policies setDefaultCannedPolicies adds
          NoDoc,
          MaxFailures, \* bound on failing writes
          MaxUpdates   \* bound on changes and restarts

ASSUME NamesAssumption ==
  /\ Regular \cap Temp = {} /\ Regular \cap Service = {} /\ Temp \cap Service = {}
  /\ Canned \subseteq Policies

Names == Regular \cup Temp \cup Service

ASSUME FiniteAssumption == IsFiniteSet(Names) /\ IsFiniteSet(Groups)

\* What documents hold: credentials, groups, policies and names of policies.
Creds == [kind : {"user", "temp", "svc"}, status : {"on", "off", "enabled", "disabled"},
          parent : Names \cup {NoDoc}]
GroupDocs == [members : SUBSET Names, status : {"enabled", "disabled"}]
Documents == Creds \cup GroupDocs \cup Policies \cup {"custom", "canned"}

\* NoDoc is nothing else.
ASSUME NoDocAssumption ==
  /\ NoDoc \notin Documents
  /\ NoDoc \notin [doc : Documents, size : Nat]
  /\ NoDoc \notin [groups : SUBSET Groups, doubt : BOOLEAN]

VARIABLES store,     \* per path: NoDoc, or its document and the size of the file
          sys,       \* the maps of IAMSys
          todo,      \* what the holder of the lock still has to write
          deleting,  \* DeleteUser between its critical sections
          load,      \* loadAll: the step it is at and what it read
          failures,
          updates,
          \* history, read by no action:
          overtaken, \* something was written since loadAll began
          stale,     \* the maps may differ from the documents
          stained,   \* and did so with memberships, since the process started
          torn       \* a change failed, broke off, was made on stale maps or took a
                     \* service account for a user

vars == <<store, sys, todo, deleting, load, failures, updates,
          overtaken, stale, stained, torn>>
history == <<overtaken, stale, stained, torn>>

(***************************************************************************)
(* Documents, at paths that are pairs of a kind and a name.                *)
(***************************************************************************)
Paths ==
  ({"user"} \X Names) \cup ({"sts"} \X Temp) \cup ({"svc"} \X Service)
    \cup ({"group"} \X Groups) \cup ({"policy"} \X Policies)
    \cup ({"umap"} \X Names) \cup ({"stsmap"} \X Temp) \cup ({"gmap"} \X Groups)

Cred(kind, status, parent) == [kind |-> kind, status |-> status, parent |-> parent]
Group(members, status) == [members |-> members, status |-> status]

\* The order of the lengths of the documents at one path.
Size(path, doc) ==
  CASE path[1] = "user"  -> CASE doc.status = "on" -> 1 [] doc.status = "off" -> 2
                              [] doc.status = "enabled" -> 3 [] OTHER -> 4
    [] path[1] = "group" -> 2 * Cardinality(doc.members)
                              + (IF doc.status = "disabled" THEN 1 ELSE 0)
    [] OTHER -> 0

\* saveIAMConfig and deleteIAMConfig
Write(path, doc) ==
  [store EXCEPT ![path] =
     IF doc = NoDoc THEN NoDoc
     ELSE LET n == Size(path, doc)
          IN [doc |-> doc, size |-> IF @ # NoDoc /\ @.size > n THEN @.size ELSE n]]

Doc(path) == IF store[path] = NoDoc THEN NoDoc ELSE store[path].doc

\* loadIAMConfig: json.Unmarshal of the whole file.
Readable(path) ==
  store[path] # NoDoc => store[path].size = Size(path, store[path].doc)

(***************************************************************************)
(* Memory.                                                                 *)
(***************************************************************************)
Empty ==
  [users |-> [n \in Names |-> NoDoc], groups |-> [g \in Groups |-> NoDoc],
   docs |-> [p \in Policies |-> NoDoc], umap |-> [n \in Names |-> NoDoc],
   gmap |-> [g \in Groups |-> NoDoc], memberOf |-> [n \in Names |-> {}],
   nil |-> TRUE]   \* iamGroupPolicyMap is nil

NotLoading == [pc |-> "idle", sys |-> Empty]

\* A change in memory: the map, the key and the value.
Put(map, key, value) == <<map, key, value>>

Applied(mem, changes) ==
  LET value(map, key) ==
        IF \E c \in changes : c[1] = map /\ c[2] = key
        THEN (CHOOSE c \in changes : c[1] = map /\ c[2] = key)[3]
        ELSE mem[map][key]
  IN [map \in DOMAIN mem |->
        IF map = "nil" THEN mem.nil
        ELSE [key \in DOMAIN mem[map] |-> value(map, key)]]

\* A write, what changes in memory after it, and what becomes of the change
\* when the write fails: the rest is given up, skipped or done all the same.
Step(path, doc, changes, fail) ==
  [path |-> path, doc |-> doc, changes |-> changes, fail |-> fail]

\* Writing to a nil map panics; the deferred unlock frees the lock.
Panics(step) == sys.nil /\ \E c \in step.changes : c[1] = "gmap" /\ c[3] # NoDoc

\* The holder of the lock makes a step and has the rest still to do.
Do(steps) ==
  LET step == Head(steps)
  IN \/ /\ store' = Write(step.path, step.doc)
        /\ overtaken' = (overtaken \/ load.pc # "idle")
        /\ IF Panics(step)
           THEN sys' = sys /\ todo' = << >> /\ stale' = TRUE
           ELSE sys' = Applied(sys, step.changes) /\ todo' = Tail(steps) /\ stale' = stale
        /\ UNCHANGED <<failures, load, stained>>
     \/ /\ failures < MaxFailures
        /\ failures' = failures + 1
        /\ stale' = TRUE
        /\ sys' = IF step.fail = "force" THEN Applied(sys, step.changes) ELSE sys
        /\ todo' = IF step.fail = "abort" THEN << >> ELSE Tail(steps)
        /\ UNCHANGED <<store, load, overtaken, stained>>

\* A change that takes the lock, when it is free.
Change ==
  /\ todo = << >>
  /\ updates < MaxUpdates
  /\ updates' = updates + 1

LockedUnless(odd, steps) ==
  /\ Change
  /\ Do(steps)
  /\ torn' = (torn \/ stale \/ odd \/ failures' # failures)
  /\ UNCHANGED deleting

Locked(steps) == LockedUnless(FALSE, steps)

Init ==
  /\ store = [path \in Paths |-> NoDoc]
  /\ sys = Empty
  /\ todo = << >>
  /\ deleting = [n \in Names |-> NoDoc]
  /\ load = [NotLoading EXCEPT !.pc = "policies"]
  /\ failures = 0
  /\ updates = 0
  /\ overtaken = FALSE
  /\ stale = TRUE
  /\ stained = FALSE
  /\ torn = FALSE

IsTemp(n) == sys.users[n] # NoDoc /\ sys.users[n].kind = "temp"
IsServiceAccount(n) == sys.users[n] # NoDoc /\ sys.users[n].kind = "svc"

(***************************************************************************)
(* Reading.                                                                *)
(***************************************************************************)
\* GetUser lets a request in whose credentials are valid.
GetUser(n) == sys.users[n] # NoDoc /\ sys.users[n].status # "off"

policyDBGet(n) ==
  IF sys.users[n].status = "disabled" THEN {}
  ELSE ({sys.umap[n]}
          \cup {sys.gmap[g] : g \in {h \in sys.memberOf[n] :
                                      /\ sys.groups[h] # NoDoc
                                      /\ sys.groups[h].status # "disabled"}}) \ {NoDoc}

\* What IsAllowed combines for a user that was let in: nothing for a service
\* account, for a temporary user the mapping, which the token has to name too.
EffectivePolicies(n) ==
  IF ~GetUser(n) \/ IsServiceAccount(n) THEN {}
  ELSE IF IsTemp(n) THEN {sys.umap[n]} \ {NoDoc}
  ELSE policyDBGet(n)

(***************************************************************************)
(* Policies.                                                               *)
(***************************************************************************)
SetPolicy(p) ==
  Locked(<<Step(<<"policy", p>>, "custom", {Put("docs", p, "custom")}, "abort")>>)

\* policyDBSet, of a user at a path of the given kind or of a group
MapKind(kind) == IF kind = "gmap" THEN "gmap" ELSE "umap"

\* Mutant of policyDBSet: a mapping that is taken away stays in memory.
policyDBSetMutant(kind, name, policy, fail) ==
  Step(<<kind, name>>, policy,
       IF policy = NoDoc THEN {} ELSE {Put(MapKind(kind), name, policy)}, fail)

policyDBSet(kind, name, policy, fail) ==
  Step(<<kind, name>>, policy, {Put(MapKind(kind), name, policy)}, fail)

PolicyDBSet(name, policy, isGroup) ==
  /\ policy # NoDoc => sys.docs[policy] # NoDoc
  /\ IF isGroup THEN sys.groups[name] # NoDoc ELSE sys.users[name] # NoDoc
  /\ Locked(<<policyDBSet(IF isGroup THEN "gmap" ELSE "umap", name, policy, "abort")>>)

\* Mutant of DeletePolicy: who has the policy keeps it.
DeletePolicyMutant(p) ==
  Locked(<<Step(<<"policy", p>>, NoDoc, {Put("docs", p, NoDoc)}, "force")>>)

\* Mappings of users are only looked at when all their users are there, and
\* that of a group that is not there stays.
DeletePolicy(p) ==
  LET users  == {n \in Names : sys.umap[n] = p}
      strays == {g \in Groups : sys.gmap[g] = p /\ sys.groups[g] = NoDoc}
      groups == {g \in Groups : sys.gmap[g] = p} \ strays
      unmap(n) == policyDBSet(IF IsTemp(n) THEN "stsmap" ELSE "umap", n, NoDoc, "skip")
      first == <<Step(<<"policy", p>>, NoDoc, {Put("docs", p, NoDoc)}, "force")>>
      lost == \E n \in users : sys.users[n] = NoDoc
  IN LockedUnless(lost \/ strays # {},
       IF lost THEN first
       ELSE first \o SetToSeq({unmap(n) : n \in users})
                  \o SetToSeq({policyDBSet("gmap", g, NoDoc, "skip") : g \in groups}))

(***************************************************************************)
(* Users.                                                                  *)
(***************************************************************************)
SaveUser(kind, n, cred) == Step(<<kind, n>>, cred, {Put("users", n, cred)}, "abort")

SetUser(n, status, policy) ==
  /\ ~IsTemp(n)
  /\ Locked(<<SaveUser("user", n, Cred("user", status, NoDoc))>>
              \o (IF policy # NoDoc /\ sys.docs[policy] # NoDoc
                  THEN <<policyDBSet("umap", n, policy, "abort")>> ELSE << >>))

\* These write a user's document also for a service account, which then has
\* two, and for a temporary user.
SetUserStatus(n, status) ==
  /\ sys.users[n] # NoDoc
  /\ ~IsTemp(n)
  /\ LockedUnless(IsServiceAccount(n),
                  <<SaveUser("user", n, Cred("user", status, NoDoc))>>)

SetUserSecretKey(n) ==
  /\ sys.users[n] # NoDoc
  /\ LockedUnless(IsServiceAccount(n), <<SaveUser("user", n, sys.users[n])>>)

SetTempUser(n) ==
  /\ sys.users[n] = NoDoc   \* access keys are random
  /\ Locked(<<SaveUser("sts", n, Cred("temp", "on", NoDoc))>>)

NewServiceAccount(n, parent) ==
  /\ sys.users[n] = NoDoc   \* access keys are random
  /\ sys.users[parent] # NoDoc
  /\ ~IsTemp(parent)
  /\ Locked(<<SaveUser("svc", n, Cred("svc", "on", parent))>>)

DeleteServiceAccount(n) ==
  /\ IsServiceAccount(n)
  /\ store[<<"svc", n>>] # NoDoc   \* else errNoSuchUser: nothing changes, not even memory
  /\ Locked(<<Step(<<"svc", n>>, NoDoc, {Put("users", n, NoDoc)}, "abort")>>)

(***************************************************************************)
(* Groups.                                                                 *)
(***************************************************************************)
KnownUsers(members) == \A n \in members : sys.users[n] # NoDoc /\ ~IsTemp(n)

AddUsersToGroup(g, members) ==
  LET old == IF sys.groups[g] = NoDoc THEN Group({}, "enabled") ELSE sys.groups[g]
      gi  == [old EXCEPT !.members = @ \cup members]
  IN /\ KnownUsers(members)
     /\ Change
     /\ Do(<<Step(<<"group", g>>, gi,
                  {Put("groups", g, gi)}
                    \cup {Put("memberOf", n, sys.memberOf[n] \cup {g}) : n \in members},
                  "abort")>>)
     /\ torn' = (torn \/ stale \/ failures' # failures)
     /\ deleting' = [n \in Names |-> IF n \in members /\ deleting[n] # NoDoc
                                     THEN [deleting[n] EXCEPT !.doubt = TRUE]
                                     ELSE deleting[n]]

\* Removing nobody from an empty group removes the group.
RemovalOf(g, members) ==
  LET gi == [sys.groups[g] EXCEPT !.members = @ \ members]
  IN IF members = {}
     THEN <<Step(<<"gmap", g>>, NoDoc, {}, "abort"),
            Step(<<"group", g>>, NoDoc,
                 {Put("groups", g, NoDoc), Put("gmap", g, NoDoc)}, "abort")>>
     ELSE <<Step(<<"group", g>>, gi,
                 {Put("groups", g, gi)}
                   \cup {Put("memberOf", n, sys.memberOf[n] \ {g}) : n \in members},
                 "abort")>>

RemoveUsersFromGroup(g, members) ==
  /\ sys.groups[g] # NoDoc
  /\ KnownUsers(members)
  /\ members = {} => sys.groups[g].members = {}
  /\ Locked(RemovalOf(g, members))

SetGroupStatus(g, status) ==
  /\ sys.groups[g] # NoDoc
  /\ LET gi == [sys.groups[g] EXCEPT !.status = status]
     IN Locked(<<Step(<<"group", g>>, gi, {Put("groups", g, gi)}, "abort")>>)

(***************************************************************************)
(* DeleteUser: reads the user's groups, leaves them one by one, and then   *)
(* deletes the user, taking the lock anew each time.                       *)
(***************************************************************************)
DeleteUser(n) ==
  /\ Change
  /\ deleting[n] = NoDoc
  /\ sys.users[n] # NoDoc
  /\ ~IsTemp(n)
  /\ deleting' = [deleting EXCEPT ![n] = [groups |-> sys.memberOf[n], doubt |-> stale]]
  /\ UNCHANGED <<store, sys, todo, load, failures, history>>

DeleteUserReturns(n) == deleting' = [deleting EXCEPT ![n] = NoDoc]

\* The user leaves a group.
DeleteUserLeaves(n, g) ==
  /\ todo = << >>
  /\ deleting[n] # NoDoc
  /\ g \in deleting[n].groups
  /\ KnownUsers({n})
  /\ sys.groups[g] # NoDoc
  /\ Do(RemovalOf(g, {n}))
  /\ IF failures' # failures THEN DeleteUserReturns(n)
     ELSE deleting' = [deleting EXCEPT ![n].groups = @ \ {g}]
  /\ torn' = (torn \/ stale)
  /\ UNCHANGED updates

\* The user or the group is not there any more.
DeleteUserFails(n, g) ==
  /\ todo = << >>
  /\ deleting[n] # NoDoc
  /\ g \in deleting[n].groups
  /\ ~KnownUsers({n}) \/ sys.groups[g] = NoDoc
  /\ DeleteUserReturns(n)
  /\ UNCHANGED <<store, sys, todo, load, failures, updates, history>>

\* Errors of the deletes are not looked at until the maps are changed.
DeleteUserEnds(n) ==
  LET accounts == {a \in Names : IsServiceAccount(a) /\ sys.users[a].parent = n}
  IN /\ todo = << >>
     /\ deleting[n] # NoDoc
     /\ deleting[n].groups = {}
     /\ Do(<<Step(<<"umap", n>>, NoDoc, {}, "force"),
             Step(<<"user", n>>, NoDoc,
                  {Put("users", n, NoDoc), Put("umap", n, NoDoc)}, "force")>>
             \o SetToSeq({Step(<<"svc", a>>, NoDoc, {Put("users", a, NoDoc)}, "force") :
                            a \in accounts}))
     /\ torn' = (torn \/ stale \/ deleting[n].doubt \/ IsServiceAccount(n)
                   \/ failures' # failures)
     /\ DeleteUserReturns(n)
     /\ UNCHANGED updates

\* The holder of the lock goes on.
GoOn ==
  /\ todo # << >>
  /\ Do(todo)
  /\ torn' = (torn \/ failures' # failures)
  /\ UNCHANGED <<deleting, updates>>

(***************************************************************************)
(* Loading.                                                                *)
(***************************************************************************)
IdentityPaths(n) == {path \in Paths : path[1] \in {"user", "sts", "svc"} /\ path[2] = n}

\* loadUsers: temporary users, users, service accounts, the later one of a
\* name in place of the earlier.
LoadedUser(n, expired) ==
  LET at(kind) == IF <<kind, n>> \in Paths THEN Doc(<<kind, n>>) ELSE NoDoc
  IN IF n \in expired THEN NoDoc
     ELSE IF at("svc") # NoDoc THEN at("svc")
     ELSE IF at("user") # NoDoc THEN at("user")
     ELSE at("sts")

LoadedMapping(n) ==
  IF n \in Temp /\ Doc(<<"stsmap", n>>) # NoDoc THEN Doc(<<"stsmap", n>>)
  ELSE Doc(<<"umap", n>>)

KindsOf(pc) ==
  CASE pc = "policies" -> {"policy"}
    [] pc = "users"    -> {"user", "sts", "svc"}
    [] pc = "groups"   -> {"group"}
    [] OTHER           -> {"umap", "stsmap", "gmap"}

CanLoad(pc) == \A path \in Paths : path[1] \in KindsOf(pc) => Readable(path)

LoadStart ==
  /\ load.pc = "idle"
  /\ load' = [NotLoading EXCEPT !.pc = "policies"]
  /\ overtaken' = FALSE
  /\ UNCHANGED <<store, sys, todo, deleting, failures, updates, stale, stained, torn>>

\* Mutant of LoadFails: watch ends with the load.
LoadFailsMutant ==
  /\ load.pc \in {"policies", "users", "groups", "mappings"}
  /\ ~CanLoad(load.pc)
  /\ load' = [NotLoading EXCEPT !.pc = "ended"]
  /\ UNCHANGED <<store, sys, todo, deleting, failures, updates, history>>

\* loadAll returns at the first document that it cannot read.
LoadFails ==
  /\ load.pc \in {"policies", "users", "groups", "mappings"}
  /\ ~CanLoad(load.pc)
  /\ load' = NotLoading
  /\ UNCHANGED <<store, sys, todo, deleting, failures, updates, history>>

\* loadPolicyDocs, then setDefaultCannedPolicies for the names not there.
LoadedPolicy(p) ==
  IF Doc(<<"policy", p>>) = NoDoc /\ p \in Canned THEN "canned"
  ELSE Doc(<<"policy", p>>)

LoadPolicyDocs ==
  /\ load.pc = "policies"
  /\ CanLoad("policies")
  /\ load' = [load EXCEPT !.pc = "users",
               !.sys.docs = [p \in Policies |-> LoadedPolicy(p)]]
  /\ UNCHANGED <<store, sys, todo, deleting, failures, updates, history>>

\* The documents of expired temporary users are deleted.
LoadUsers(expired) ==
  LET gone == {path \in Paths : path[2] \in expired /\ path[1] \in {"user", "sts"}}
      mapped == {IF path[1] = "sts" THEN <<"stsmap", path[2]>> ELSE <<"umap", path[2]>> :
                   path \in {q \in gone : store[q] # NoDoc}}
  IN /\ load.pc = "users"
     /\ CanLoad("users")
     /\ \A n \in expired : \E path \in IdentityPaths(n) :
          store[path] # NoDoc /\ store[path].doc.kind = "temp"
     /\ load' = [load EXCEPT !.pc = "groups",
                  !.sys.users = [n \in Names |-> LoadedUser(n, expired)]]
     /\ store' = [path \in Paths |-> IF path \in gone \cup mapped THEN NoDoc
                                     ELSE store[path]]
     /\ stale' = (stale \/ expired # {})
     /\ UNCHANGED <<sys, todo, deleting, failures, updates, overtaken, stained, torn>>

LoadGroups ==
  /\ load.pc = "groups"
  /\ CanLoad("groups")
  /\ load' = [load EXCEPT !.pc = "mappings",
               !.sys.groups = [g \in Groups |-> Doc(<<"group", g>>)]]
  /\ UNCHANGED <<store, sys, todo, deleting, failures, updates, history>>

LoadMappedPolicies ==
  /\ load.pc = "mappings"
  /\ CanLoad("mappings")
  /\ load' = [load EXCEPT !.pc = "swap",
               !.sys.umap = [n \in Names |-> LoadedMapping(n)],
               !.sys.gmap = [g \in Groups |-> Doc(<<"gmap", g>>)]]
  /\ UNCHANGED <<store, sys, todo, deleting, failures, updates, history>>

\* buildUserGroupMemberships adds to the memberships that are there.
MembersOf(groups, n) == {g \in Groups : groups[g] # NoDoc /\ n \in groups[g].members}

\* Mutant of LoadSwap: the memberships are left as they are.
LoadSwapMutant ==
  /\ load.pc = "swap"
  /\ todo = << >>
  /\ sys' = [load.sys EXCEPT !.nil = FALSE, !.memberOf = sys.memberOf]
  /\ load' = NotLoading
  /\ stale' = overtaken
  /\ stained' = (stained \/ overtaken)
  /\ UNCHANGED <<store, todo, deleting, failures, updates, overtaken, torn>>

LoadSwap ==
  /\ load.pc = "swap"
  /\ todo = << >>
  /\ sys' = [load.sys EXCEPT !.nil = FALSE,
               !.memberOf = [n \in Names |-> sys.memberOf[n]
                                               \cup MembersOf(load.sys.groups, n)]]
  /\ load' = NotLoading
  /\ stale' = overtaken
  /\ stained' = (stained \/ overtaken)
  /\ UNCHANGED <<store, todo, deleting, failures, updates, overtaken, torn>>

\* LoadServiceAccount, LoadPolicy, LoadPolicyMapping: one entry; LoadUser: the
\* user and the user's mapping, when there is one.
LoadEntry(path) ==
  LET map == CASE path[1] \in {"user", "sts", "svc"} -> "users"
               [] path[1] = "policy" -> "docs"
               [] OTHER -> path[1]
      mapping == CASE path[1] = "user" -> Doc(<<"umap", path[2]>>)
                   [] path[1] = "sts" -> Doc(<<"stsmap", path[2]>>)
                   [] OTHER -> NoDoc
  IN /\ todo = << >>
     /\ path[1] \notin {"group", "stsmap"}
     /\ store[path] # NoDoc
     /\ Readable(path)
     /\ map = "gmap" => ~sys.nil
     /\ sys' = Applied(sys, {Put(map, path[2], Doc(path))}
                              \cup IF mapping = NoDoc THEN {}
                                   ELSE {Put("umap", path[2], mapping)})
     /\ UNCHANGED <<store, todo, deleting, load, failures, updates, history>>

LoadGroup(g) ==
  /\ todo = << >>
  /\ store[<<"group", g>>] # NoDoc
  /\ Readable(<<"group", g>>)
  /\ sys' = Applied(sys,
       {Put("groups", g, Doc(<<"group", g>>))}
         \cup {Put("memberOf", n, (sys.memberOf[n] \ {g})
                  \cup (IF n \in Doc(<<"group", g>>).members THEN {g} ELSE {})) : n \in Names})
  /\ UNCHANGED <<store, todo, deleting, load, failures, updates, history>>

\* A new process: NewIAMSys, then Init loads everything.
Restart ==
  /\ updates < MaxUpdates
  /\ updates' = updates + 1
  /\ sys' = Empty
  /\ todo' = << >>
  /\ deleting' = [n \in Names |-> NoDoc]
  /\ load' = [NotLoading EXCEPT !.pc = "policies"]
  /\ overtaken' = FALSE
  /\ stale' = TRUE
  /\ stained' = FALSE
  /\ torn' = (torn \/ todo # << >>)
  /\ UNCHANGED <<store, failures>>

-----------------------------------------------------------------------------
LoadStep ==
  \/ LoadStart \/ LoadFails \/ LoadPolicyDocs \/ LoadGroups \/ LoadMappedPolicies
  \/ LoadSwap
  \/ \E expired \in SUBSET Temp : LoadUsers(expired)

OptPolicies == Policies \cup {NoDoc}

Update ==
  \/ \E p \in Policies : SetPolicy(p) \/ DeletePolicy(p)
  \/ \E n \in Names, p \in OptPolicies : PolicyDBSet(n, p, FALSE)
  \/ \E g \in Groups, p \in OptPolicies : PolicyDBSet(g, p, TRUE)
  \/ \E n \in Regular, status \in {"enabled", "disabled"}, p \in OptPolicies :
       SetUser(n, status, p)
  \/ \E n \in Names, status \in {"on", "off"} : SetUserStatus(n, status)
  \/ \E n \in Names : SetUserSecretKey(n) \/ DeleteUser(n)
  \/ \E n \in Temp : SetTempUser(n)
  \/ \E n \in Service : DeleteServiceAccount(n)
                         \/ \E parent \in Names \ {n} : NewServiceAccount(n, parent)
  \/ \E g \in Groups : \/ \E n \in Names : AddUsersToGroup(g, {n})
                                             \/ RemoveUsersFromGroup(g, {n})
                        \/ RemoveUsersFromGroup(g, {})
                        \/ \E status \in {"enabled", "disabled"} : SetGroupStatus(g, status)
  \/ Restart

\* The rest of a change, once it began.
Continue ==
  \/ GoOn
  \/ \E n \in Names :
       \/ DeleteUserEnds(n)
       \/ \E g \in Groups : DeleteUserLeaves(n, g) \/ DeleteUserFails(n, g)

LoadOne == \/ \E path \in Paths : LoadEntry(path)
           \/ \E g \in Groups : LoadGroup(g)

Next == Update \/ Continue \/ LoadStep \/ LoadOne

\* The timer of watch fires again and again, reads return, and the lock is
\* given back.
Fairness == WF_vars(LoadStep) /\ WF_vars(Continue)

Spec == Init /\ [][Next]_vars /\ Fairness

-----------------------------------------------------------------------------
(***************************************************************************)
(* Properties.                                                             *)
(***************************************************************************)
MapsAgree ==
  /\ \A n \in Regular \cup Temp : sys.users[n] = LoadedUser(n, {})
  /\ \A n \in Service : sys.users[n] # NoDoc => LoadedUser(n, {}) # NoDoc
  /\ \A n \in Names : \/ sys.umap[n] = LoadedMapping(n)
                     \/ (n \in Temp /\ sys.umap[n] = NoDoc)
  /\ \A g \in Groups : /\ sys.groups[g] = Doc(<<"group", g>>)
                       /\ sys.gmap[g] = Doc(<<"gmap", g>>)
  /\ \A p \in Policies : \/ sys.docs[p] = LoadedPolicy(p)
                         \/ (p \in Canned /\ sys.docs[p] = NoDoc)

\* Memory is what is stored: while nobody holds the lock, and unless a change
\* overtook the last load, a write failed, or nothing was loaded yet, the maps
\* hold what loadAll would read; policies that come with the program may be
\* missing until then, a service account may be known as a user or be gone
\* that is still stored, and DeletePolicy forgets the policy of a temporary
\* user but deletes it at another path than the one PolicyDBSet stored it at
\* (IAMSys's methods against loadAll).
MapsMatchStore == (todo = << >> /\ ~stale) => MapsAgree

\* Whoever is a member of a group acts under its policy: GetUser lets in a
\* user that SetUserStatus turned off never, one that SetUser disabled always,
\* and policyDBGet the other way round; between them, a disabled user has no
\* policies, and another has the user's own and those of exactly the enabled
\* groups that list the user, also after loads that raced with changes; only
\* one that such a load brought back stays a member until the next restart.
PoliciesFollowGroups ==
  \A n \in Names :
    LET lists(g) == sys.groups[g] # NoDoc /\ sys.groups[g].status = "enabled"
                      /\ n \in sys.groups[g].members
        due == ({sys.umap[n]} \cup {sys.gmap[g] : g \in {h \in Groups : lists(h)}}) \ {NoDoc}
    IN /\ (sys.users[n] # NoDoc /\ sys.users[n].kind = "user") =>
            IF sys.users[n].status \in {"off", "disabled"} THEN EffectivePolicies(n) = {}
            ELSE due \subseteq EffectivePolicies(n)
       /\ MembersOf(sys.groups, n) \subseteq sys.memberOf[n]
       /\ ~stained => sys.memberOf[n] = MembersOf(sys.groups, n)

\* What is left fits together: unless a change failed, broke off, was made on
\* maps that had lost something to a load or took a service account for a
\* user, users that were deleted are in no
\* group and have no policy, so that a new user of the same name does not
\* inherit any, their service accounts are gone, and what policies are given
\* out exist (DeleteUser, DeletePolicy, RemoveUsersFromGroup).
NoOrphans ==
  (todo = << >> /\ ~stale /\ ~torn) =>
    /\ \A n \in Regular : sys.users[n] = NoDoc =>
         sys.umap[n] = NoDoc /\ MembersOf(sys.groups, n) = {}
    /\ \A g \in Groups : sys.groups[g] = NoDoc => sys.gmap[g] = NoDoc
    /\ \A n \in Names \ Temp : sys.umap[n] # NoDoc => sys.docs[sys.umap[n]] # NoDoc
    /\ \A g \in Groups : sys.gmap[g] # NoDoc => sys.docs[sys.gmap[g]] # NoDoc
    /\ \A n \in Service :
         (IsServiceAccount(n) /\ sys.users[n].parent \in Regular)
            => sys.users[sys.users[n].parent] # NoDoc

\* A refresh makes good what loads and failures lost: once changes end, memory
\* agrees with the store again and again, or some document cannot be read
\* (watch, loadAll).
RefreshHeals ==
  \/ []<>(\E path \in Paths : ~Readable(path))
  \/ []<>MapsAgree
=============================================================================

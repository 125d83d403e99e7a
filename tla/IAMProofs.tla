------------------------------ MODULE IAMProofs ------------------------------
(***************************************************************************)
(* Proofs about users, groups and policies: MapsMatchStore,                *)
(* PoliciesFollowGroups and NoOrphans, for any finite number of users and  *)
(* groups, any policies, and any number of changes, failures and restarts. *)
(***************************************************************************)
EXTENDS IAM, FiniteSetTheorems, TLAPS

-----------------------------------------------------------------------------
(* Types *)

TempCred == Cred("temp", "on", NoDoc)

\* The credentials that a name can have.
CredsFor(n) ==
  {c \in Creds : /\ n \in Temp => c = TempCred
                 /\ n \in Regular => c.kind = "user"
                 /\ n \in Service => c.kind # "temp"}

Files == [doc : Documents, size : Nat] \cup {NoDoc}

PolicyDocs == {"custom", "canned", NoDoc}

SysTypes ==
  [users : [Names -> Creds \cup {NoDoc}], groups : [Groups -> GroupDocs \cup {NoDoc}],
   docs : [Policies -> PolicyDocs], umap : [Names -> OptPolicies],
   gmap : [Groups -> OptPolicies], memberOf : [Names -> SUBSET Groups], nil : BOOLEAN]

UsersFit(mem) == \A n \in Names : mem.users[n] \in CredsFor(n) \cup {NoDoc}

\* Every document is of the kind its path says; nobody writes the mappings of
\* temporary users.
DocsFit ==
  /\ \A n \in Names : /\ Doc(<<"user", n>>) \in CredsFor(n) \cup {NoDoc}
                      /\ Doc(<<"umap", n>>) \in OptPolicies
  /\ \A n \in Temp : Doc(<<"sts", n>>) \in {TempCred, NoDoc} /\ Doc(<<"stsmap", n>>) = NoDoc
  /\ \A n \in Service : Doc(<<"svc", n>>) \in CredsFor(n) \cup {NoDoc}
  /\ \A g \in Groups : /\ Doc(<<"group", g>>) \in GroupDocs \cup {NoDoc}
                       /\ Doc(<<"gmap", g>>) \in OptPolicies
  /\ \A p \in Policies : Doc(<<"policy", p>>) \in {"custom", NoDoc}

LoadPcs == {"idle", "policies", "users", "groups", "mappings", "swap"}

Deletions == [groups : SUBSET Groups, doubt : BOOLEAN]

DeletingFits ==
  /\ deleting \in [Names -> Deletions \cup {NoDoc}]
  /\ \A n \in Temp : deleting[n] = NoDoc

IAMTypes ==
  /\ store \in [Paths -> Files]
  /\ sys \in SysTypes
  /\ load \in [pc : LoadPcs, sys : SysTypes]
  /\ DeletingFits
  /\ overtaken \in BOOLEAN /\ stale \in BOOLEAN /\ stained \in BOOLEAN

-----------------------------------------------------------------------------
(* The inductive invariant *)

\* The steps that are still to do once the first step of a change is done.
MapSteps ==
  {policyDBSet("umap", n, p, fail) : n \in Names, p \in OptPolicies, fail \in {"abort", "skip"}}
    \cup {policyDBSet("stsmap", n, NoDoc, "skip") : n \in Temp}
    \cup {policyDBSet("gmap", g, p, fail) :
            g \in Groups, p \in OptPolicies, fail \in {"abort", "skip"}}

AccountGoes(a, fail) == Step(<<"svc", a>>, NoDoc, {Put("users", a, NoDoc)}, fail)

AccountSteps == {AccountGoes(a, fail) : a \in Service, fail \in {"abort", "force"}}

GroupGoes(g) ==
  Step(<<"group", g>>, NoDoc, {Put("groups", g, NoDoc), Put("gmap", g, NoDoc)}, "abort")

UserGoes(n) ==
  Step(<<"user", n>>, NoDoc, {Put("users", n, NoDoc), Put("umap", n, NoDoc)}, "force")

TodoFits ==
  \/ todo \in Seq(MapSteps \cup AccountSteps)
  \/ \E g \in Groups :
       /\ todo = <<GroupGoes(g)>>
       /\ stale \/ Doc(<<"gmap", g>>) = NoDoc
       /\ sys.groups[g] # NoDoc => sys.groups[g].members = {}
  \/ \E n \in Names \ Temp : \E rest \in Seq(AccountSteps) :
       /\ todo = <<UserGoes(n)>> \o rest
       /\ stale \/ Doc(<<"umap", n>>) = NoDoc

\* What the next step takes out of memory need not be in the store any more.
Leaving(map, key) == todo # << >> /\ Put(map, key, NoDoc) \in Head(todo).changes

UsersAgree ==
  /\ \A n \in Regular \cup Temp : sys.users[n] = LoadedUser(n, {})
  /\ \A n \in Service : sys.users[n] # NoDoc => LoadedUser(n, {}) # NoDoc

GroupsAgree == \A g \in Groups : sys.groups[g] = Doc(<<"group", g>>)

PoliciesAgree ==
  \A p \in Policies : \/ sys.docs[p] = LoadedPolicy(p)
                      \/ p \in Canned /\ sys.docs[p] = NoDoc

MappingsAgree ==
  /\ \A n \in Names : \/ sys.umap[n] = Doc(<<"umap", n>>)
                      \/ n \in Temp /\ sys.umap[n] = NoDoc
                      \/ Leaving("umap", n)
  /\ \A g \in Groups : sys.gmap[g] = Doc(<<"gmap", g>>) \/ Leaving("gmap", g)

SysAgrees == ~stale => UsersAgree /\ GroupsAgree /\ PoliciesAgree /\ MappingsAgree

\* What loadAll has read so far is what is stored, unless something was written
\* since it began.
LoadAgrees ==
  ~overtaken =>
    /\ load.pc \in {"users", "groups", "mappings", "swap"} =>
         \A p \in Policies : load.sys.docs[p] = LoadedPolicy(p)
    /\ load.pc \in {"groups", "mappings", "swap"} =>
         \A n \in Names : load.sys.users[n] = LoadedUser(n, {})
    /\ load.pc \in {"mappings", "swap"} =>
         \A g \in Groups : load.sys.groups[g] = Doc(<<"group", g>>)
    /\ load.pc = "swap" =>
         /\ \A n \in Names : load.sys.umap[n] = Doc(<<"umap", n>>)
         /\ \A g \in Groups : load.sys.gmap[g] = Doc(<<"gmap", g>>)

\* Memberships follow the groups, and groups that are in memory the documents.
GroupsFit ==
  /\ \A n \in Names : MembersOf(sys.groups, n) \subseteq sys.memberOf[n]
  /\ ~stained =>
       /\ \A n \in Names : sys.memberOf[n] = MembersOf(sys.groups, n)
       /\ \A g \in Groups : sys.groups[g] \in {NoDoc, Doc(<<"group", g>>)}

IAMInv ==
  /\ IAMTypes /\ DocsFit /\ UsersFit(sys) /\ UsersFit(load.sys)
  /\ TodoFits /\ SysAgrees /\ LoadAgrees /\ GroupsFit

-----------------------------------------------------------------------------
(* Memory and store *)

Touches(c, map, key) == c[1] = map /\ c[2] = key

\* The value of a map at a key after changes.
ValueAt(mem, changes, map, key) ==
  IF \E c \in changes : Touches(c, map, key)
  THEN (CHOOSE c \in changes : Touches(c, map, key))[3]
  ELSE mem[map][key]

\* Memory after changes, map by map.
LEMMA AppliedIs ==
  ASSUME NEW mem \in SysTypes, NEW changes
  PROVE  LET a == Applied(mem, changes) IN
         /\ a = [users    |-> [n \in Names |-> ValueAt(mem, changes, "users", n)],
                 groups   |-> [g \in Groups |-> ValueAt(mem, changes, "groups", g)],
                 docs     |-> [p \in Policies |-> ValueAt(mem, changes, "docs", p)],
                 umap     |-> [n \in Names |-> ValueAt(mem, changes, "umap", n)],
                 gmap     |-> [g \in Groups |-> ValueAt(mem, changes, "gmap", g)],
                 memberOf |-> [n \in Names |-> ValueAt(mem, changes, "memberOf", n)],
                 nil      |-> mem.nil]
  <1> DEFINE a == Applied(mem, changes)
             b == [map \in DOMAIN mem |->
                     IF map = "nil" THEN mem.nil
                     ELSE [key \in DOMAIN mem[map] |-> ValueAt(mem, changes, map, key)]]
  <1>1. a = b
    BY DEF Applied, ValueAt, Touches
  <1>2. DOMAIN mem = {"users", "groups", "docs", "umap", "gmap", "memberOf", "nil"}
    BY DEF SysTypes
  <1>3. /\ DOMAIN mem["users"] = Names /\ DOMAIN mem["groups"] = Groups
        /\ DOMAIN mem["docs"] = Policies /\ DOMAIN mem["umap"] = Names
        /\ DOMAIN mem["gmap"] = Groups /\ DOMAIN mem["memberOf"] = Names
    BY DEF SysTypes
  <1>4. b = [users    |-> [n \in Names |-> ValueAt(mem, changes, "users", n)],
             groups   |-> [g \in Groups |-> ValueAt(mem, changes, "groups", g)],
             docs     |-> [p \in Policies |-> ValueAt(mem, changes, "docs", p)],
             umap     |-> [n \in Names |-> ValueAt(mem, changes, "umap", n)],
             gmap     |-> [g \in Groups |-> ValueAt(mem, changes, "gmap", g)],
             memberOf |-> [n \in Names |-> ValueAt(mem, changes, "memberOf", n)],
             nil      |-> mem.nil]
    BY <1>2, <1>3
  <1>5. QED BY <1>1, <1>4

\* A map that no change is about stays; a key that a single value is put at
\* gets it.
LEMMA ValueLeft ==
  ASSUME NEW mem, NEW changes, NEW map, NEW key,
         \A c \in changes : ~Touches(c, map, key)
  PROVE  ValueAt(mem, changes, map, key) = mem[map][key]
  BY DEF ValueAt

LEMMA ValuePut ==
  ASSUME NEW mem, NEW changes, NEW map, NEW key, NEW value,
         Put(map, key, value) \in changes,
         \A c \in changes : Touches(c, map, key) => c[3] = value
  PROVE  ValueAt(mem, changes, map, key) = value
  <1>1. \E c \in changes : Touches(c, map, key)
    BY DEF Put, Touches
  <1>2. QED BY <1>1 DEF ValueAt

\* The maps after changes, when the values are known.
LEMMA AppliedMaps ==
  ASSUME NEW mem \in SysTypes, NEW changes,
         NEW users \in [Names -> Creds \cup {NoDoc}],
         NEW groups \in [Groups -> GroupDocs \cup {NoDoc}],
         NEW docs \in [Policies -> PolicyDocs],
         NEW umap \in [Names -> OptPolicies], NEW gmap \in [Groups -> OptPolicies],
         NEW memberOf \in [Names -> SUBSET Groups],
         \A n \in Names : /\ ValueAt(mem, changes, "users", n) = users[n]
                          /\ ValueAt(mem, changes, "umap", n) = umap[n]
                          /\ ValueAt(mem, changes, "memberOf", n) = memberOf[n],
         \A g \in Groups : /\ ValueAt(mem, changes, "groups", g) = groups[g]
                           /\ ValueAt(mem, changes, "gmap", g) = gmap[g],
         \A p \in Policies : ValueAt(mem, changes, "docs", p) = docs[p]
  PROVE  /\ Applied(mem, changes) \in SysTypes
         /\ Applied(mem, changes) =
              [users |-> users, groups |-> groups, docs |-> docs, umap |-> umap,
               gmap |-> gmap, memberOf |-> memberOf, nil |-> mem.nil]
  <1>1. /\ [n \in Names |-> ValueAt(mem, changes, "users", n)] = users
        /\ [g \in Groups |-> ValueAt(mem, changes, "groups", g)] = groups
        /\ [p \in Policies |-> ValueAt(mem, changes, "docs", p)] = docs
        /\ [n \in Names |-> ValueAt(mem, changes, "umap", n)] = umap
        /\ [g \in Groups |-> ValueAt(mem, changes, "gmap", g)] = gmap
        /\ [n \in Names |-> ValueAt(mem, changes, "memberOf", n)] = memberOf
    OBVIOUS
  <1>2. mem.nil \in BOOLEAN
    BY DEF SysTypes
  <1>3. Applied(mem, changes) =
          [users |-> users, groups |-> groups, docs |-> docs, umap |-> umap,
           gmap |-> gmap, memberOf |-> memberOf, nil |-> mem.nil]
    BY <1>1, AppliedIs
  <1>4. QED BY <1>2, <1>3 DEF SysTypes

\* One value is put into a map of users, of groups or of policies.
LEMMA AppliedUser ==
  ASSUME NEW mem \in SysTypes, NEW key \in Names, NEW v \in Creds \cup {NoDoc},
         NEW a, a = Applied(mem, {Put("users", key, v)})
  PROVE  /\ a \in SysTypes /\ a.users = [mem.users EXCEPT ![key] = v] /\ a.nil = mem.nil
         /\ a.groups = mem.groups /\ a.docs = mem.docs /\ a.umap = mem.umap
         /\ a.gmap = mem.gmap /\ a.memberOf = mem.memberOf
  <1> DEFINE changes == {Put("users", key, v)}
             users == [mem.users EXCEPT ![key] = v]
  <1>1. \A c \in changes : c[1] = "users" /\ c[2] = key /\ c[3] = v
    BY DEF Put
  <1>2. \A x : ValueAt(mem, changes, "users", x) = IF x = key THEN v ELSE mem.users[x]
    BY <1>1, ValuePut, ValueLeft DEF Touches
  <1>3. \A map, x : map # "users" => ValueAt(mem, changes, map, x) = mem[map][x]
    BY <1>1, ValueLeft DEF Touches
  <1> HIDE DEF changes
  <1>4. /\ users \in [Names -> Creds \cup {NoDoc}]
        /\ \A x \in Names : users[x] = IF x = key THEN v ELSE mem.users[x]
    BY DEF SysTypes
  <1> HIDE DEF users
  <1>5. /\ Applied(mem, changes) \in SysTypes
        /\ Applied(mem, changes) =
             [users |-> users, groups |-> mem.groups, docs |-> mem.docs,
              umap |-> mem.umap, gmap |-> mem.gmap, memberOf |-> mem.memberOf, nil |-> mem.nil]
    BY <1>2, <1>3, <1>4, AppliedMaps DEF SysTypes
  <1>6. QED BY <1>5 DEF changes, users

LEMMA AppliedPolicy ==
  ASSUME NEW mem \in SysTypes, NEW key \in Policies, NEW v \in PolicyDocs,
         NEW a, a = Applied(mem, {Put("docs", key, v)})
  PROVE  /\ a \in SysTypes /\ a.docs = [mem.docs EXCEPT ![key] = v] /\ a.nil = mem.nil
         /\ a.users = mem.users /\ a.groups = mem.groups /\ a.umap = mem.umap
         /\ a.gmap = mem.gmap /\ a.memberOf = mem.memberOf
  <1> DEFINE changes == {Put("docs", key, v)}
             docs == [mem.docs EXCEPT ![key] = v]
  <1>1. \A c \in changes : c[1] = "docs" /\ c[2] = key /\ c[3] = v
    BY DEF Put
  <1>2. \A x : ValueAt(mem, changes, "docs", x) = IF x = key THEN v ELSE mem.docs[x]
    BY <1>1, ValuePut, ValueLeft DEF Touches
  <1>3. \A map, x : map # "docs" => ValueAt(mem, changes, map, x) = mem[map][x]
    BY <1>1, ValueLeft DEF Touches
  <1> HIDE DEF changes
  <1>4. /\ docs \in [Policies -> PolicyDocs]
        /\ \A x \in Policies : docs[x] = IF x = key THEN v ELSE mem.docs[x]
    BY DEF SysTypes
  <1> HIDE DEF docs
  <1>5. /\ Applied(mem, changes) \in SysTypes
        /\ Applied(mem, changes) =
             [users |-> mem.users, groups |-> mem.groups, docs |-> docs,
              umap |-> mem.umap, gmap |-> mem.gmap, memberOf |-> mem.memberOf, nil |-> mem.nil]
    BY <1>2, <1>3, <1>4, AppliedMaps DEF SysTypes
  <1>6. QED BY <1>5 DEF changes, docs

LEMMA AppliedUserMap ==
  ASSUME NEW mem \in SysTypes, NEW key \in Names, NEW v \in OptPolicies,
         NEW a, a = Applied(mem, {Put("umap", key, v)})
  PROVE  /\ a \in SysTypes /\ a.umap = [mem.umap EXCEPT ![key] = v] /\ a.nil = mem.nil
         /\ a.users = mem.users /\ a.groups = mem.groups /\ a.docs = mem.docs
         /\ a.gmap = mem.gmap /\ a.memberOf = mem.memberOf
  <1> DEFINE changes == {Put("umap", key, v)}
             umap == [mem.umap EXCEPT ![key] = v]
  <1>1. \A c \in changes : c[1] = "umap" /\ c[2] = key /\ c[3] = v
    BY DEF Put
  <1>2. \A x : ValueAt(mem, changes, "umap", x) = IF x = key THEN v ELSE mem.umap[x]
    BY <1>1, ValuePut, ValueLeft DEF Touches
  <1>3. \A map, x : map # "umap" => ValueAt(mem, changes, map, x) = mem[map][x]
    BY <1>1, ValueLeft DEF Touches
  <1> HIDE DEF changes
  <1>4. /\ umap \in [Names -> OptPolicies]
        /\ \A x \in Names : umap[x] = IF x = key THEN v ELSE mem.umap[x]
    BY DEF SysTypes
  <1> HIDE DEF umap
  <1>5. /\ Applied(mem, changes) \in SysTypes
        /\ Applied(mem, changes) =
             [users |-> mem.users, groups |-> mem.groups, docs |-> mem.docs,
              umap |-> umap, gmap |-> mem.gmap, memberOf |-> mem.memberOf, nil |-> mem.nil]
    BY <1>2, <1>3, <1>4, AppliedMaps DEF SysTypes
  <1>6. QED BY <1>5 DEF changes, umap

LEMMA AppliedGroupMap ==
  ASSUME NEW mem \in SysTypes, NEW key \in Groups, NEW v \in OptPolicies,
         NEW a, a = Applied(mem, {Put("gmap", key, v)})
  PROVE  /\ a \in SysTypes /\ a.gmap = [mem.gmap EXCEPT ![key] = v] /\ a.nil = mem.nil
         /\ a.users = mem.users /\ a.groups = mem.groups /\ a.docs = mem.docs
         /\ a.umap = mem.umap /\ a.memberOf = mem.memberOf
  <1> DEFINE changes == {Put("gmap", key, v)}
             gmap == [mem.gmap EXCEPT ![key] = v]
  <1>1. \A c \in changes : c[1] = "gmap" /\ c[2] = key /\ c[3] = v
    BY DEF Put
  <1>2. \A x : ValueAt(mem, changes, "gmap", x) = IF x = key THEN v ELSE mem.gmap[x]
    BY <1>1, ValuePut, ValueLeft DEF Touches
  <1>3. \A map, x : map # "gmap" => ValueAt(mem, changes, map, x) = mem[map][x]
    BY <1>1, ValueLeft DEF Touches
  <1> HIDE DEF changes
  <1>4. /\ gmap \in [Groups -> OptPolicies]
        /\ \A x \in Groups : gmap[x] = IF x = key THEN v ELSE mem.gmap[x]
    BY DEF SysTypes
  <1> HIDE DEF gmap
  <1>5. /\ Applied(mem, changes) \in SysTypes
        /\ Applied(mem, changes) =
             [users |-> mem.users, groups |-> mem.groups, docs |-> mem.docs,
              umap |-> mem.umap, gmap |-> gmap, memberOf |-> mem.memberOf, nil |-> mem.nil]
    BY <1>2, <1>3, <1>4, AppliedMaps DEF SysTypes
  <1>6. QED BY <1>5 DEF changes, gmap

\* A user and the user's mapping.
LEMMA AppliedUserAndMap ==
  ASSUME NEW mem \in SysTypes, NEW n \in Names, NEW v \in Creds \cup {NoDoc},
         NEW w \in OptPolicies, NEW a, a = Applied(mem, {Put("users", n, v), Put("umap", n, w)})
  PROVE  /\ a \in SysTypes /\ a.nil = mem.nil
         /\ a.users = [mem.users EXCEPT ![n] = v] /\ a.umap = [mem.umap EXCEPT ![n] = w]
         /\ a.groups = mem.groups /\ a.docs = mem.docs /\ a.gmap = mem.gmap
         /\ a.memberOf = mem.memberOf
  <1> DEFINE changes == {Put("users", n, v), Put("umap", n, w)}
             users == [mem.users EXCEPT ![n] = v]
             umap == [mem.umap EXCEPT ![n] = w]
  <1>1. \A c \in changes : /\ c[2] = n
                           /\ (c[1] = "users" /\ c[3] = v) \/ (c[1] = "umap" /\ c[3] = w)
    BY DEF Put
  <1>2. /\ \A x : ValueAt(mem, changes, "users", x) = IF x = n THEN v ELSE mem.users[x]
        /\ \A x : ValueAt(mem, changes, "umap", x) = IF x = n THEN w ELSE mem.umap[x]
    BY <1>1, ValuePut, ValueLeft DEF Touches
  <1>3. \A map, x : map \notin {"users", "umap"} => ValueAt(mem, changes, map, x) = mem[map][x]
    BY <1>1, ValueLeft DEF Touches
  <1> HIDE DEF changes
  <1>4. /\ users \in [Names -> Creds \cup {NoDoc}] /\ umap \in [Names -> OptPolicies]
        /\ \A x \in Names : /\ users[x] = IF x = n THEN v ELSE mem.users[x]
                            /\ umap[x] = IF x = n THEN w ELSE mem.umap[x]
    BY DEF SysTypes
  <1> HIDE DEF users, umap
  <1>5. /\ Applied(mem, changes) \in SysTypes
        /\ Applied(mem, changes) =
             [users |-> users, groups |-> mem.groups, docs |-> mem.docs, umap |-> umap,
              gmap |-> mem.gmap, memberOf |-> mem.memberOf, nil |-> mem.nil]
    BY <1>2, <1>3, <1>4, AppliedMaps, SMTT(60) DEF SysTypes
  <1>6. QED BY <1>5 DEF changes, users, umap

\* A group and its mapping.
LEMMA AppliedGroupAndMap ==
  ASSUME NEW mem \in SysTypes, NEW g \in Groups, NEW v \in GroupDocs \cup {NoDoc},
         NEW w \in OptPolicies, NEW a, a = Applied(mem, {Put("groups", g, v), Put("gmap", g, w)})
  PROVE  /\ a \in SysTypes /\ a.nil = mem.nil
         /\ a.groups = [mem.groups EXCEPT ![g] = v] /\ a.gmap = [mem.gmap EXCEPT ![g] = w]
         /\ a.users = mem.users /\ a.docs = mem.docs /\ a.umap = mem.umap
         /\ a.memberOf = mem.memberOf
  <1> DEFINE changes == {Put("groups", g, v), Put("gmap", g, w)}
             groups == [mem.groups EXCEPT ![g] = v]
             gmap == [mem.gmap EXCEPT ![g] = w]
  <1>1. \A c \in changes : /\ c[2] = g
                           /\ (c[1] = "groups" /\ c[3] = v) \/ (c[1] = "gmap" /\ c[3] = w)
    BY DEF Put
  <1>2. /\ \A x : ValueAt(mem, changes, "groups", x) = IF x = g THEN v ELSE mem.groups[x]
        /\ \A x : ValueAt(mem, changes, "gmap", x) = IF x = g THEN w ELSE mem.gmap[x]
    BY <1>1, ValuePut, ValueLeft DEF Touches
  <1>3. \A map, x : map \notin {"groups", "gmap"} => ValueAt(mem, changes, map, x) = mem[map][x]
    BY <1>1, ValueLeft DEF Touches
  <1> HIDE DEF changes
  <1>4. /\ groups \in [Groups -> GroupDocs \cup {NoDoc}] /\ gmap \in [Groups -> OptPolicies]
        /\ \A x \in Groups : /\ groups[x] = IF x = g THEN v ELSE mem.groups[x]
                             /\ gmap[x] = IF x = g THEN w ELSE mem.gmap[x]
    BY DEF SysTypes
  <1> HIDE DEF groups, gmap
  <1>5. /\ Applied(mem, changes) \in SysTypes
        /\ Applied(mem, changes) =
             [users |-> mem.users, groups |-> groups, docs |-> mem.docs, umap |-> mem.umap,
              gmap |-> gmap, memberOf |-> mem.memberOf, nil |-> mem.nil]
    BY <1>2, <1>3, <1>4, AppliedMaps DEF SysTypes
  <1>6. QED BY <1>5 DEF changes, groups, gmap

\* A group and the memberships of some names.
LEMMA AppliedMembers ==
  ASSUME NEW mem \in SysTypes, NEW g \in Groups, NEW v \in GroupDocs, NEW names \in SUBSET Names,
         NEW to \in [Names -> SUBSET Groups], NEW a,
         a = Applied(mem, {Put("groups", g, v)} \cup {Put("memberOf", n, to[n]) : n \in names})
  PROVE  /\ a \in SysTypes /\ a.nil = mem.nil
         /\ a.groups = [mem.groups EXCEPT ![g] = v]
         /\ a.memberOf = [n \in Names |-> IF n \in names THEN to[n] ELSE mem.memberOf[n]]
         /\ a.users = mem.users /\ a.docs = mem.docs /\ a.umap = mem.umap /\ a.gmap = mem.gmap
  <1> DEFINE changes == {Put("groups", g, v)} \cup {Put("memberOf", n, to[n]) : n \in names}
             groups == [mem.groups EXCEPT ![g] = v]
             memberOf == [n \in Names |-> IF n \in names THEN to[n] ELSE mem.memberOf[n]]
  <1>1. \A c \in changes : \/ c[1] = "groups" /\ c[2] = g /\ c[3] = v
                           \/ c[1] = "memberOf" /\ c[2] \in names /\ c[3] = to[c[2]]
    BY DEF Put
  <1>2. /\ Put("groups", g, v) \in changes
        /\ \A n \in names : Put("memberOf", n, to[n]) \in changes
    OBVIOUS
  <1> HIDE DEF changes
  <1>3. /\ \A x : ValueAt(mem, changes, "groups", x) = IF x = g THEN v ELSE mem.groups[x]
        /\ \A x : ValueAt(mem, changes, "memberOf", x) = IF x \in names THEN to[x]
                                                         ELSE mem.memberOf[x]
    BY <1>1, <1>2, ValuePut, ValueLeft DEF Touches
  <1>4. \A map, x : map \notin {"groups", "memberOf"} =>
                      ValueAt(mem, changes, map, x) = mem[map][x]
    BY <1>1, ValueLeft DEF Touches
  <1>5. /\ groups \in [Groups -> GroupDocs \cup {NoDoc}] /\ memberOf \in [Names -> SUBSET Groups]
        /\ \A x \in Groups : groups[x] = IF x = g THEN v ELSE mem.groups[x]
        /\ \A x \in Names : memberOf[x] = IF x \in names THEN to[x] ELSE mem.memberOf[x]
    BY DEF SysTypes
  <1> HIDE DEF groups, memberOf
  <1>6. /\ Applied(mem, changes) \in SysTypes
        /\ Applied(mem, changes) =
             [users |-> mem.users, groups |-> groups, docs |-> mem.docs, umap |-> mem.umap,
              gmap |-> mem.gmap, memberOf |-> memberOf, nil |-> mem.nil]
    BY <1>3, <1>4, <1>5, AppliedMaps DEF SysTypes
  <1>7. QED BY <1>6 DEF changes, groups, memberOf

\* Nothing changes.
LEMMA AppliedNone ==
  ASSUME NEW mem \in SysTypes
  PROVE  Applied(mem, {}) = mem
  <1>1. \A map, x : ValueAt(mem, {}, map, x) = mem[map][x]
    BY DEF ValueAt
  <1>2. Applied(mem, {}) =
          [users |-> mem.users, groups |-> mem.groups, docs |-> mem.docs, umap |-> mem.umap,
           gmap |-> mem.gmap, memberOf |-> mem.memberOf, nil |-> mem.nil]
    BY <1>1, AppliedMaps DEF SysTypes
  <1>3. QED BY <1>2 DEF SysTypes

\* What each path holds, when a document of the kind of the path is written or
\* deleted.
DocsAt(path) ==
  CASE path[1] \in {"user", "sts", "svc"} -> Creds
    [] path[1] = "group" -> GroupDocs
    [] path[1] = "policy" -> {"custom"}
    [] OTHER -> Policies

\* The length of a document is a number.
LEMMA SizeType ==
  ASSUME NEW path \in Paths, NEW doc \in DocsAt(path)
  PROVE  Size(path, doc) \in Nat /\ doc \in Documents
  <1>1. CASE path[1] = "user"
    BY <1>1 DEF Size, DocsAt, Documents
  <1>2. CASE path[1] = "group"
    <2>1. doc \in GroupDocs
      BY <1>2 DEF DocsAt
    <2>2. doc.members \subseteq Names
      BY <2>1 DEF GroupDocs
    <2>3. Cardinality(doc.members) \in Nat
      BY <2>2, FiniteAssumption, FS_Subset, FS_CardinalityType
    <2>4. Size(path, doc) = 2 * Cardinality(doc.members)
                              + (IF doc.status = "disabled" THEN 1 ELSE 0)
      BY <1>2 DEF Size
    <2>5. QED BY <2>1, <2>3, <2>4 DEF Documents
  <1>3. CASE path[1] \notin {"user", "group"}
    BY <1>3 DEF Size, DocsAt, Documents
  <1>4. QED BY <1>1, <1>2, <1>3

\* A document is stored at its path, and the others stay.
LEMMA WriteIs ==
  ASSUME store \in [Paths -> Files], NEW path \in Paths, NEW doc \in DocsAt(path) \cup {NoDoc},
         store' = Write(path, doc)
  PROVE  /\ store' \in [Paths -> Files] /\ Doc(path)' = doc
         /\ \A q \in Paths \ {path} : store'[q] = store[q] /\ Doc(q)' = Doc(q)
  <1> DEFINE n == Size(path, doc)
             old == store[path]
             file == [doc |-> doc, size |-> IF old # NoDoc /\ old.size > n THEN old.size ELSE n]
  <1>1. CASE doc = NoDoc
    <2>1. store' = [store EXCEPT ![path] = NoDoc]
      BY <1>1 DEF Write
    <2>2. QED BY <1>1, <2>1 DEF Files, Doc
  <1>2. CASE doc # NoDoc
    <2>1. store' = [store EXCEPT ![path] = file]
      BY <1>2 DEF Write
    <2>2. n \in Nat /\ doc \in Documents
      BY <1>2, SizeType
    <2>3. old \in Files OBVIOUS
    <2> HIDE DEF n, old
    <2>4. file \in [doc : Documents, size : Nat] /\ file.doc = doc
      BY <2>2, <2>3 DEF Files
    <2> HIDE DEF file
    <2>5. file \in Files /\ file # NoDoc
      BY <2>4, NoDocAssumption DEF Files
    <2>6. QED BY <2>1, <2>4, <2>5 DEF Doc
  <1>3. QED BY <1>1, <1>2

-----------------------------------------------------------------------------
(* Paths and what loadAll makes of them *)

LEMMA PathsAre ==
  /\ \A n \in Names : <<"user", n>> \in Paths /\ <<"umap", n>> \in Paths
  /\ \A n : (<<"sts", n>> \in Paths <=> n \in Temp) /\ (<<"stsmap", n>> \in Paths <=> n \in Temp)
  /\ \A n : (<<"svc", n>> \in Paths <=> n \in Service)
  /\ \A g \in Groups : <<"group", g>> \in Paths /\ <<"gmap", g>> \in Paths
  /\ \A p \in Policies : <<"policy", p>> \in Paths
  BY DEF Paths

\* A name has one path, a temporary user or a service account two.
UsersFromPaths ==
  /\ \A n \in Regular : LoadedUser(n, {}) = Doc(<<"user", n>>)
  /\ \A n \in Temp : LoadedUser(n, {}) = IF Doc(<<"user", n>>) # NoDoc THEN Doc(<<"user", n>>)
                                         ELSE Doc(<<"sts", n>>)
  /\ \A n \in Service : LoadedUser(n, {}) = IF Doc(<<"svc", n>>) # NoDoc THEN Doc(<<"svc", n>>)
                                            ELSE Doc(<<"user", n>>)

LEMMA LoadedUserIs == UsersFromPaths
  <1> DEFINE at(kind, n) == IF <<kind, n>> \in Paths THEN Doc(<<kind, n>>) ELSE NoDoc
  <1>1. \A n : LoadedUser(n, {}) = IF at("svc", n) # NoDoc THEN at("svc", n)
                                   ELSE IF at("user", n) # NoDoc THEN at("user", n)
                                   ELSE at("sts", n)
    BY DEF LoadedUser
  <1>2. /\ \A n \in Names : at("user", n) = Doc(<<"user", n>>)
        /\ \A n : at("sts", n) = IF n \in Temp THEN Doc(<<"sts", n>>) ELSE NoDoc
        /\ \A n : at("svc", n) = IF n \in Service THEN Doc(<<"svc", n>>) ELSE NoDoc
    BY PathsAre
  <1> HIDE DEF at
  <1>3. QED BY <1>1, <1>2, NamesAssumption DEF Names, UsersFromPaths

LEMMA LoadedUserIsNext == UsersFromPaths'
  BY LoadedUserIs, PTL

\* A user whose documents stay is loaded as before.
LEMMA LoadedUserKept ==
  ASSUME NEW n \in Names, Doc(<<"user", n>>)' = Doc(<<"user", n>>),
         n \in Temp => Doc(<<"sts", n>>)' = Doc(<<"sts", n>>),
         n \in Service => Doc(<<"svc", n>>)' = Doc(<<"svc", n>>)
  PROVE  LoadedUser(n, {})' = LoadedUser(n, {})
  <1>1. CASE n \in Regular
    BY <1>1, LoadedUserIs, LoadedUserIsNext DEF UsersFromPaths
  <1>2. CASE n \in Temp
    BY <1>2, LoadedUserIs, LoadedUserIsNext DEF UsersFromPaths
  <1>3. CASE n \in Service
    BY <1>3, LoadedUserIs, LoadedUserIsNext DEF UsersFromPaths
  <1>4. QED BY <1>1, <1>2, <1>3 DEF Names

\* The agreement of memory and store, but for the mappings of some.
AgreeBut(names, groups) ==
  /\ UsersAgree /\ GroupsAgree /\ PoliciesAgree
  /\ \A n \in Names \ names : \/ sys.umap[n] = Doc(<<"umap", n>>)
                              \/ n \in Temp /\ sys.umap[n] = NoDoc
  /\ \A g \in Groups \ groups : sys.gmap[g] = Doc(<<"gmap", g>>)

Shape == /\ store \in [Paths -> Files] /\ sys \in SysTypes
         /\ DocsFit /\ UsersFit(sys) /\ GroupsFit

-----------------------------------------------------------------------------
(* The steps of changes *)

SavesUser(s) ==
  \E n \in Names : \E cred \in CredsFor(n) :
    \/ s = SaveUser("user", n, cred)
    \/ n \in Temp /\ s = SaveUser("sts", n, cred)
    \/ n \in Service /\ s = SaveUser("svc", n, cred)

SavesPolicy(s) ==
  \E p \in Policies, doc \in {"custom", NoDoc}, fail \in {"abort", "force"} :
    s = Step(<<"policy", p>>, doc, {Put("docs", p, doc)}, fail)

\* A group is saved with the memberships that go with it.
SavesGroup(s) ==
  \E g \in Groups, doc \in GroupDocs, names \in SUBSET Names, to \in [Names -> SUBSET Groups] :
    LET now(n) == IF n \in names THEN to[n] ELSE sys.memberOf[n]
    IN /\ s = Step(<<"group", g>>, doc,
                   {Put("groups", g, doc)} \cup {Put("memberOf", n, to[n]) : n \in names}, "abort")
       /\ \A n \in names : to[n] \ {g} = sys.memberOf[n] \ {g}
       /\ \A n \in doc.members : g \in now(n)
       /\ ~stained => \A n \in Names : g \in now(n) => n \in doc.members

\* What a user's document becomes.
LEMMA SavesUserDone ==
  ASSUME Shape, NEW s, SavesUser(s), stained' = stained,
         store' = Write(s.path, s.doc), sys' = Applied(sys, s.changes)
  PROVE  Shape' /\ (AgreeBut({}, {}) => AgreeBut({}, {})')
  <1>1. PICK n \in Names, cred \in Creds, kind \in {"user", "sts", "svc"} :
          /\ s = SaveUser(kind, n, cred) /\ cred \in CredsFor(n)
          /\ kind = "sts" => n \in Temp
          /\ kind = "svc" => n \in Service
    BY DEF SavesUser, CredsFor
  <1>2. s.path = <<kind, n>> /\ s.doc = cred /\ s.changes = {Put("users", n, cred)}
    BY <1>1 DEF SaveUser, Step
  <1>3. <<kind, n>> \in Paths /\ cred \in Creds /\ cred # NoDoc
    BY <1>1, PathsAre, NoDocAssumption DEF CredsFor, Documents
  <1>4. cred \in DocsAt(<<kind, n>>)
    BY <1>3 DEF DocsAt
  <1>5. /\ store' \in [Paths -> Files] /\ Doc(<<kind, n>>)' = cred
        /\ \A q \in Paths \ {<<kind, n>>} : Doc(q)' = Doc(q)
    BY <1>2, <1>3, <1>4, WriteIs DEF Shape
  <1>6. /\ sys' \in SysTypes /\ sys'.users = [sys.users EXCEPT ![n] = cred]
        /\ sys'.groups = sys.groups /\ sys'.docs = sys.docs /\ sys'.umap = sys.umap
        /\ sys'.gmap = sys.gmap /\ sys'.memberOf = sys.memberOf
    BY <1>2, <1>3, AppliedUser DEF Shape
  <1>7. /\ \A x \in Names : Doc(<<"umap", x>>)' = Doc(<<"umap", x>>)
        /\ \A x \in Temp : Doc(<<"stsmap", x>>)' = Doc(<<"stsmap", x>>)
        /\ \A x \in Groups : /\ Doc(<<"group", x>>)' = Doc(<<"group", x>>)
                             /\ Doc(<<"gmap", x>>)' = Doc(<<"gmap", x>>)
        /\ \A x \in Policies : Doc(<<"policy", x>>)' = Doc(<<"policy", x>>)
    BY <1>5, PathsAre
  <1>8. /\ \A x \in Names : Doc(<<"user", x>>)' = IF kind = "user" /\ x = n THEN cred
                                                  ELSE Doc(<<"user", x>>)
        /\ \A x \in Temp : Doc(<<"sts", x>>)' = IF kind = "sts" /\ x = n THEN cred
                                                ELSE Doc(<<"sts", x>>)
        /\ \A x \in Service : Doc(<<"svc", x>>)' = IF kind = "svc" /\ x = n THEN cred
                                                   ELSE Doc(<<"svc", x>>)
    BY <1>5, PathsAre
  <1>9. \A x \in Names : sys'.users[x] = IF x = n THEN cred ELSE sys.users[x]
    BY <1>6 DEF Shape, SysTypes
  <1>10. UsersFit(sys)' /\ DocsFit'
    <2>1. UsersFit(sys)'
      BY <1>1, <1>9 DEF Shape, UsersFit
    <2>2. n \in Temp => cred = TempCred
      BY <1>1 DEF CredsFor
    <2>3. \A x \in Temp : Doc(<<"sts", x>>)' \in {TempCred, NoDoc}
      BY <1>8, <2>2 DEF Shape, DocsFit
    <2>4. /\ \A x \in Names : Doc(<<"user", x>>)' \in CredsFor(x) \cup {NoDoc}
          /\ \A x \in Service : Doc(<<"svc", x>>)' \in CredsFor(x) \cup {NoDoc}
      BY <1>1, <1>8 DEF Shape, DocsFit
    <2>5. QED BY <1>7, <2>1, <2>3, <2>4 DEF Shape, DocsFit
  <1>11. GroupsFit'
    BY <1>6, <1>7 DEF Shape, GroupsFit
  <1>12. ASSUME AgreeBut({}, {}) PROVE AgreeBut({}, {})'
    <2>1. \A x \in Names \ {n} : LoadedUser(x, {})' = LoadedUser(x, {})
      BY <1>8, LoadedUserKept
    <2>2. ASSUME n \in Regular PROVE UsersAgree'
      <3>1. kind = "user" /\ LoadedUser(n, {})' = cred
        BY <1>1, <1>8, <2>2, LoadedUserIsNext, NamesAssumption DEF UsersFromPaths
      <3>2. QED BY <1>9, <1>12, <2>1, <2>2, <3>1, NamesAssumption DEF UsersAgree, AgreeBut, Names
    <2>3. ASSUME n \in Temp PROVE UsersAgree'
      <3>1. /\ cred = TempCred /\ Doc(<<"user", n>>)' \in {TempCred, NoDoc}
            /\ Doc(<<"sts", n>>)' \in {TempCred, NoDoc}
        BY <1>1, <1>10, <2>3 DEF DocsFit, CredsFor
      <3>2. Doc(<<"user", n>>)' = cred \/ Doc(<<"sts", n>>)' = cred
        BY <1>1, <1>8, <2>3, NamesAssumption
      <3>3. LoadedUser(n, {})' = cred
        BY <1>3, <2>3, <3>1, <3>2, LoadedUserIsNext DEF UsersFromPaths
      <3>4. QED BY <1>9, <1>12, <2>1, <2>3, <3>3, NamesAssumption DEF UsersAgree, AgreeBut, Names
    <2>4. ASSUME n \in Service PROVE UsersAgree'
      <3>1. Doc(<<"user", n>>)' = cred \/ Doc(<<"svc", n>>)' = cred
        BY <1>1, <1>8, <2>4, NamesAssumption
      <3>2. LoadedUser(n, {})' # NoDoc
        BY <1>3, <2>4, <3>1, LoadedUserIsNext DEF UsersFromPaths
      <3>3. QED BY <1>9, <1>12, <2>1, <2>4, <3>2, NamesAssumption DEF UsersAgree, AgreeBut, Names
    <2>5. UsersAgree'
      BY <2>2, <2>3, <2>4 DEF Names, AgreeBut
    <2>6. QED BY <1>6, <1>7, <1>12, <2>5 DEF AgreeBut, GroupsAgree, PoliciesAgree, LoadedPolicy
  <1>13. QED BY <1>5, <1>6, <1>10, <1>11, <1>12 DEF Shape

\* A service account goes.
LEMMA AccountGoesDone ==
  ASSUME Shape, NEW s \in AccountSteps, stained' = stained,
         store' = Write(s.path, s.doc), sys' = Applied(sys, s.changes)
  PROVE  Shape' /\ (AgreeBut({}, {}) => AgreeBut({}, {})')
  <1>1. PICK a \in Service, fail \in {"abort", "force"} : s = AccountGoes(a, fail)
    BY DEF AccountSteps
  <1>2. /\ s.path = <<"svc", a>> /\ s.doc = NoDoc /\ s.changes = {Put("users", a, NoDoc)}
        /\ <<"svc", a>> \in Paths /\ a \in Names
    BY <1>1, PathsAre DEF AccountGoes, Step, Names
  <1>3. /\ store' \in [Paths -> Files] /\ Doc(<<"svc", a>>)' = NoDoc
        /\ \A q \in Paths \ {<<"svc", a>>} : Doc(q)' = Doc(q)
    BY <1>2, WriteIs DEF Shape
  <1>4. /\ sys' \in SysTypes /\ sys'.users = [sys.users EXCEPT ![a] = NoDoc]
        /\ sys'.groups = sys.groups /\ sys'.docs = sys.docs /\ sys'.umap = sys.umap
        /\ sys'.gmap = sys.gmap /\ sys'.memberOf = sys.memberOf
    BY <1>2, AppliedUser, SMTT(60) DEF Shape
  <1>5. /\ \A x \in Names : /\ Doc(<<"umap", x>>)' = Doc(<<"umap", x>>)
                            /\ Doc(<<"user", x>>)' = Doc(<<"user", x>>)
        /\ \A x \in Temp : /\ Doc(<<"stsmap", x>>)' = Doc(<<"stsmap", x>>)
                           /\ Doc(<<"sts", x>>)' = Doc(<<"sts", x>>)
        /\ \A x \in Groups : /\ Doc(<<"group", x>>)' = Doc(<<"group", x>>)
                             /\ Doc(<<"gmap", x>>)' = Doc(<<"gmap", x>>)
        /\ \A x \in Policies : Doc(<<"policy", x>>)' = Doc(<<"policy", x>>)
    BY <1>3, PathsAre
  <1>6. \A x \in Service : Doc(<<"svc", x>>)' = IF x = a THEN NoDoc ELSE Doc(<<"svc", x>>)
    BY <1>3, PathsAre
  <1>7. \A x \in Names : sys'.users[x] = IF x = a THEN NoDoc ELSE sys.users[x]
    BY <1>4 DEF Shape, SysTypes
  <1>8. UsersFit(sys)' /\ DocsFit' /\ GroupsFit'
    <2>1. UsersFit(sys)'
      BY <1>7 DEF Shape, UsersFit
    <2>2. DocsFit'
      BY <1>5, <1>6 DEF Shape, DocsFit
    <2>3. GroupsFit'
      BY <1>4, <1>5 DEF Shape, GroupsFit
    <2>4. QED BY <2>1, <2>2, <2>3
  <1>9. ASSUME AgreeBut({}, {}) PROVE AgreeBut({}, {})'
    <2>1. \A x \in Names \ {a} : LoadedUser(x, {})' = LoadedUser(x, {})
      BY <1>5, <1>6, LoadedUserKept
    <2>2. UsersAgree'
      BY <1>7, <1>9, <2>1, NamesAssumption DEF AgreeBut, UsersAgree, Names
    <2>3. QED BY <1>4, <1>5, <1>9, <2>2 DEF AgreeBut, GroupsAgree, PoliciesAgree, LoadedPolicy
  <1>10. QED BY <1>3, <1>4, <1>8, <1>9 DEF Shape

\* The keys that a step takes out of a map.
Leaves(s, map) == {key \in Names \cup Groups : Put(map, key, NoDoc) \in s.changes}

\* Fewer exceptions say more.
LEMMA AgreeButMore ==
  ASSUME NEW N1, NEW G1, NEW N2, NEW G2, N1 \subseteq N2, G1 \subseteq G2, AgreeBut(N1, G1)
  PROVE  AgreeBut(N2, G2)
  BY DEF AgreeBut

\* A mapping is given or taken away, of a user or of a group.
LEMMA MapStepDone ==
  ASSUME Shape, NEW s \in MapSteps, stained' = stained,
         store' = Write(s.path, s.doc), sys' = Applied(sys, s.changes)
  PROVE  Shape' /\ (AgreeBut(Leaves(s, "umap"), Leaves(s, "gmap")) => AgreeBut({}, {})')
  <1>1. PICK kind \in {"umap", "stsmap", "gmap"}, key \in Names \cup Groups, p \in OptPolicies,
               fail \in {"abort", "skip"} :
          /\ s = policyDBSet(kind, key, p, fail)
          /\ kind = "umap" => key \in Names
          /\ kind = "stsmap" => key \in Temp /\ p = NoDoc
          /\ kind = "gmap" => key \in Groups
    BY DEF MapSteps, OptPolicies, Names
  <1>2. /\ s.path = <<kind, key>> /\ s.doc = p /\ s.changes = {Put(MapKind(kind), key, p)}
        /\ <<kind, key>> \in Paths /\ (kind # "gmap" => key \in Names)
    BY <1>1, PathsAre DEF policyDBSet, Step, Names
  <1>3. p \in DocsAt(<<kind, key>>) \cup {NoDoc}
    BY DEF DocsAt, OptPolicies
  <1>4. /\ store' \in [Paths -> Files] /\ Doc(<<kind, key>>)' = p
        /\ \A q \in Paths \ {<<kind, key>>} : Doc(q)' = Doc(q)
    BY <1>2, <1>3, WriteIs DEF Shape
  <1>5. /\ \A x \in Names : Doc(<<"user", x>>)' = Doc(<<"user", x>>)
        /\ \A x \in Temp : Doc(<<"sts", x>>)' = Doc(<<"sts", x>>)
        /\ \A x \in Service : Doc(<<"svc", x>>)' = Doc(<<"svc", x>>)
        /\ \A x \in Groups : Doc(<<"group", x>>)' = Doc(<<"group", x>>)
        /\ \A x \in Policies : Doc(<<"policy", x>>)' = Doc(<<"policy", x>>)
    BY <1>4, PathsAre
  <1>6. /\ \A x \in Names : Doc(<<"umap", x>>)' = IF kind = "umap" /\ x = key THEN p
                                                  ELSE Doc(<<"umap", x>>)
        /\ \A x \in Temp : Doc(<<"stsmap", x>>)' = IF kind = "stsmap" /\ x = key THEN p
                                                   ELSE Doc(<<"stsmap", x>>)
        /\ \A x \in Groups : Doc(<<"gmap", x>>)' = IF kind = "gmap" /\ x = key THEN p
                                                   ELSE Doc(<<"gmap", x>>)
    BY <1>4, PathsAre
  <1>7. /\ sys' \in SysTypes /\ sys'.users = sys.users /\ sys'.groups = sys.groups
        /\ sys'.docs = sys.docs /\ sys'.memberOf = sys.memberOf
        /\ sys'.umap = IF kind = "gmap" THEN sys.umap ELSE [sys.umap EXCEPT ![key] = p]
        /\ sys'.gmap = IF kind = "gmap" THEN [sys.gmap EXCEPT ![key] = p] ELSE sys.gmap
    <2>1. CASE kind = "gmap"
      BY <1>1, <1>2, <2>1, AppliedGroupMap DEF Shape, MapKind
    <2>2. CASE kind # "gmap"
      BY <1>1, <1>2, <2>2, AppliedUserMap DEF Shape, MapKind
    <2>3. QED BY <2>1, <2>2
  <1>8. UsersFit(sys)' /\ DocsFit' /\ GroupsFit'
    <2>1. UsersFit(sys)'
      BY <1>7 DEF Shape, UsersFit
    <2>2. DocsFit'
      BY <1>1, <1>5, <1>6 DEF Shape, DocsFit
    <2>3. GroupsFit'
      BY <1>5, <1>7 DEF Shape, GroupsFit
    <2>4. QED BY <2>1, <2>2, <2>3
  <1>9. ASSUME AgreeBut(Leaves(s, "umap"), Leaves(s, "gmap")) PROVE AgreeBut({}, {})'
    <2>1. /\ Leaves(s, "umap") \subseteq (IF kind = "gmap" THEN {} ELSE {key})
          /\ Leaves(s, "gmap") \subseteq (IF kind = "gmap" THEN {key} ELSE {})
      BY <1>1, <1>2 DEF Leaves, Put, MapKind
    <2>2. \A x \in Names : LoadedUser(x, {})' = LoadedUser(x, {})
      BY <1>5, LoadedUserKept
    <2>3. UsersAgree' /\ GroupsAgree' /\ PoliciesAgree'
      BY <1>5, <1>7, <1>9, <2>2
      DEF AgreeBut, UsersAgree, GroupsAgree, PoliciesAgree, LoadedPolicy, Names
    <2>4. CASE kind = "gmap"
      <3>1. \A x \in Names : \/ sys'.umap[x] = Doc(<<"umap", x>>)'
                             \/ x \in Temp /\ sys'.umap[x] = NoDoc
        BY <1>6, <1>7, <1>9, <2>1, <2>4 DEF AgreeBut
      <3>2. \A x \in Groups : sys'.gmap[x] = Doc(<<"gmap", x>>)'
        <4>1. \A x \in Groups : sys'.gmap[x] = IF x = key THEN p ELSE sys.gmap[x]
          BY <1>7, <2>4 DEF Shape, SysTypes
        <4>2. QED BY <1>1, <1>6, <1>9, <2>1, <2>4, <4>1 DEF AgreeBut
      <3>3. QED BY <2>3, <3>1, <3>2 DEF AgreeBut
    <2>5. CASE kind # "gmap"
      <3>1. \A x \in Names : \/ sys'.umap[x] = Doc(<<"umap", x>>)'
                             \/ x \in Temp /\ sys'.umap[x] = NoDoc
        <4>1. \A x \in Names : sys'.umap[x] = IF x = key THEN p ELSE sys.umap[x]
          BY <1>7, <2>5 DEF Shape, SysTypes
        <4>2. QED BY <1>1, <1>6, <1>9, <2>1, <2>5, <4>1 DEF AgreeBut
      <3>2. \A x \in Groups : sys'.gmap[x] = Doc(<<"gmap", x>>)'
        BY <1>6, <1>7, <1>9, <2>1, <2>5 DEF AgreeBut
      <3>3. QED BY <2>3, <3>1, <3>2 DEF AgreeBut
    <2>6. QED BY <2>4, <2>5
  <1>10. QED BY <1>4, <1>7, <1>8, <1>9 DEF Shape

\* A policy is set or deleted.
LEMMA SavesPolicyDone ==
  ASSUME Shape, NEW s, SavesPolicy(s), stained' = stained,
         store' = Write(s.path, s.doc), sys' = Applied(sys, s.changes)
  PROVE  Shape' /\ (AgreeBut({}, {}) => AgreeBut({}, {})')
  <1>1. PICK p \in Policies, doc \in {"custom", NoDoc}, fail \in {"abort", "force"} :
          s = Step(<<"policy", p>>, doc, {Put("docs", p, doc)}, fail)
    BY DEF SavesPolicy
  <1>2. /\ s.path = <<"policy", p>> /\ s.doc = doc /\ s.changes = {Put("docs", p, doc)}
        /\ <<"policy", p>> \in Paths
    BY <1>1, PathsAre DEF Step
  <1>3. doc \in DocsAt(<<"policy", p>>) \cup {NoDoc}
    BY DEF DocsAt
  <1>4. /\ store' \in [Paths -> Files] /\ Doc(<<"policy", p>>)' = doc
        /\ \A q \in Paths \ {<<"policy", p>>} : Doc(q)' = Doc(q)
    BY <1>2, <1>3, WriteIs DEF Shape
  <1>5. /\ sys' \in SysTypes /\ sys'.docs = [sys.docs EXCEPT ![p] = doc]
        /\ sys'.users = sys.users /\ sys'.groups = sys.groups /\ sys'.umap = sys.umap
        /\ sys'.gmap = sys.gmap /\ sys'.memberOf = sys.memberOf
    <2>1. sys \in SysTypes
      BY DEF Shape
    <2>2. sys' = Applied(sys, {Put("docs", p, doc)}) /\ doc \in PolicyDocs
      BY <1>2 DEF PolicyDocs
    <2>3. QED BY <2>1, <2>2, AppliedPolicy
  <1>6. /\ \A x \in Names : /\ Doc(<<"umap", x>>)' = Doc(<<"umap", x>>)
                            /\ Doc(<<"user", x>>)' = Doc(<<"user", x>>)
        /\ \A x \in Temp : /\ Doc(<<"stsmap", x>>)' = Doc(<<"stsmap", x>>)
                           /\ Doc(<<"sts", x>>)' = Doc(<<"sts", x>>)
        /\ \A x \in Service : Doc(<<"svc", x>>)' = Doc(<<"svc", x>>)
        /\ \A x \in Groups : /\ Doc(<<"group", x>>)' = Doc(<<"group", x>>)
                             /\ Doc(<<"gmap", x>>)' = Doc(<<"gmap", x>>)
    BY <1>4, PathsAre
  <1>7. \A x \in Policies : Doc(<<"policy", x>>)' = IF x = p THEN doc ELSE Doc(<<"policy", x>>)
    BY <1>4, PathsAre
  <1>8. \A x \in Policies : sys'.docs[x] = IF x = p THEN doc ELSE sys.docs[x]
    BY <1>5 DEF Shape, SysTypes
  <1>9. UsersFit(sys)' /\ DocsFit' /\ GroupsFit'
    <2>1. UsersFit(sys)'
      BY <1>5 DEF Shape, UsersFit
    <2>2. DocsFit'
      BY <1>6, <1>7 DEF Shape, DocsFit
    <2>3. GroupsFit'
      BY <1>5, <1>6 DEF Shape, GroupsFit
    <2>4. QED BY <2>1, <2>2, <2>3
  <1>10. ASSUME AgreeBut({}, {}) PROVE AgreeBut({}, {})'
    <2>1. \A x \in Names : LoadedUser(x, {})' = LoadedUser(x, {})
      BY <1>6, LoadedUserKept
    <2>2. UsersAgree'
      BY <1>5, <1>10, <2>1 DEF AgreeBut, UsersAgree, Names
    <2>3. GroupsAgree'
      BY <1>5, <1>6, <1>10 DEF AgreeBut, GroupsAgree
    <2>4. PoliciesAgree'
      BY <1>7, <1>8, <1>10 DEF AgreeBut, PoliciesAgree, LoadedPolicy
    <2>5. QED BY <1>5, <1>6, <1>10, <2>2, <2>3, <2>4 DEF AgreeBut
  <1>11. QED BY <1>4, <1>5, <1>9, <1>10 DEF Shape

\* A group is written.
LEMMA SavesGroupDone ==
  ASSUME Shape, NEW s, SavesGroup(s), stained' = stained,
         store' = Write(s.path, s.doc), sys' = Applied(sys, s.changes)
  PROVE  Shape' /\ (AgreeBut({}, {}) => AgreeBut({}, {})')
  <1>1. PICK g \in Groups, doc \in GroupDocs, names \in SUBSET Names, to \in [Names -> SUBSET Groups] :
          LET now(n) == IF n \in names THEN to[n] ELSE sys.memberOf[n]
          IN /\ s = Step(<<"group", g>>, doc,
                   {Put("groups", g, doc)} \cup {Put("memberOf", n, to[n]) : n \in names}, "abort")
             /\ \A n \in names : to[n] \ {g} = sys.memberOf[n] \ {g}
             /\ \A n \in doc.members : g \in now(n)
             /\ ~stained => \A n \in Names : g \in now(n) => n \in doc.members
    BY DEF SavesGroup
  <1>2. /\ s.path = <<"group", g>> /\ s.doc = doc
        /\ s.changes = {Put("groups", g, doc)} \cup {Put("memberOf", n, to[n]) : n \in names}
        /\ <<"group", g>> \in Paths
    BY <1>1, PathsAre DEF Step
  <1>3. doc \in DocsAt(<<"group", g>>) \cup {NoDoc}
    BY DEF DocsAt
  <1>4. /\ store' \in [Paths -> Files] /\ Doc(<<"group", g>>)' = doc
        /\ \A q \in Paths \ {<<"group", g>>} : Doc(q)' = Doc(q)
    BY <1>2, <1>3, WriteIs DEF Shape
  <1>5. /\ sys' \in SysTypes /\ sys'.groups = [sys.groups EXCEPT ![g] = doc]
        /\ sys'.memberOf = [n \in Names |-> IF n \in names THEN to[n] ELSE sys.memberOf[n]]
        /\ sys'.users = sys.users /\ sys'.docs = sys.docs /\ sys'.umap = sys.umap
        /\ sys'.gmap = sys.gmap
    BY <1>2, AppliedMembers DEF Shape
  <1>6. /\ \A x \in Names : /\ Doc(<<"umap", x>>)' = Doc(<<"umap", x>>)
                            /\ Doc(<<"user", x>>)' = Doc(<<"user", x>>)
        /\ \A x \in Temp : /\ Doc(<<"stsmap", x>>)' = Doc(<<"stsmap", x>>)
                           /\ Doc(<<"sts", x>>)' = Doc(<<"sts", x>>)
        /\ \A x \in Service : Doc(<<"svc", x>>)' = Doc(<<"svc", x>>)
        /\ \A x \in Groups : Doc(<<"gmap", x>>)' = Doc(<<"gmap", x>>)
        /\ \A x \in Policies : Doc(<<"policy", x>>)' = Doc(<<"policy", x>>)
    BY <1>4, PathsAre
  <1>7. /\ \A x \in Groups : Doc(<<"group", x>>)' = IF x = g THEN doc ELSE Doc(<<"group", x>>)
        /\ \A x \in Groups : sys'.groups[x] = IF x = g THEN doc ELSE sys.groups[x]
    BY <1>4, <1>5, PathsAre DEF Shape, SysTypes
  <1>8. \A n \in Names : sys'.memberOf[n] = IF n \in names THEN to[n] ELSE sys.memberOf[n]
    BY <1>5
  <1>9. GroupsFit'
    <2>1. doc # NoDoc /\ doc.members \subseteq Names
      BY NoDocAssumption DEF Documents, GroupDocs
    <2>2. ASSUME NEW n \in Names
          PROVE  MembersOf(sys.groups, n)' =
                   (MembersOf(sys.groups, n) \ {g}) \cup (IF n \in doc.members THEN {g} ELSE {})
      BY <1>7, <2>1 DEF MembersOf
    <2>3. \A n \in Names : sys'.memberOf[n] \ {g} = sys.memberOf[n] \ {g}
      BY <1>1, <1>8
    <2>4. ASSUME NEW n \in Names PROVE MembersOf(sys.groups, n)' \subseteq sys'.memberOf[n]
      <3>1. MembersOf(sys.groups, n) \subseteq sys.memberOf[n]
        BY DEF Shape, GroupsFit
      <3>2. n \in doc.members => g \in sys'.memberOf[n]
        BY <1>1, <1>8
      <3>3. QED BY <2>2, <2>3, <3>1, <3>2
    <2>5. ASSUME ~stained', NEW n \in Names PROVE sys'.memberOf[n] = MembersOf(sys.groups, n)'
      <3>1. sys.memberOf[n] = MembersOf(sys.groups, n)
        BY <2>5 DEF Shape, GroupsFit
      <3>2. g \in sys'.memberOf[n] => n \in doc.members
        BY <1>1, <1>8, <2>5
      <3>3. \A h : h # g => (h \in sys'.memberOf[n] <=> h \in MembersOf(sys.groups, n)')
        BY <2>2, <2>3, <3>1
      <3>4. g \in sys'.memberOf[n] <=> g \in MembersOf(sys.groups, n)'
        BY <2>2, <2>4, <3>2
      <3>5. \A h : h \in sys'.memberOf[n] <=> h \in MembersOf(sys.groups, n)'
        BY <3>3, <3>4
      <3>6. QED BY <3>5
    <2>6. ~stained' => \A x \in Groups : sys'.groups[x] \in {NoDoc, Doc(<<"group", x>>)'}
      BY <1>7 DEF Shape, GroupsFit
    <2>7. QED BY <2>4, <2>5, <2>6 DEF GroupsFit
  <1>10. UsersFit(sys)' /\ DocsFit'
    <2>1. UsersFit(sys)'
      BY <1>5 DEF Shape, UsersFit
    <2>2. DocsFit'
      BY <1>6, <1>7 DEF Shape, DocsFit
    <2>3. QED BY <2>1, <2>2
  <1>11. ASSUME AgreeBut({}, {}) PROVE AgreeBut({}, {})'
    <2>1. \A x \in Names : LoadedUser(x, {})' = LoadedUser(x, {})
      BY <1>6, LoadedUserKept
    <2>2. UsersAgree' /\ PoliciesAgree'
      BY <1>5, <1>6, <1>11, <2>1 DEF AgreeBut, UsersAgree, PoliciesAgree, LoadedPolicy, Names
    <2>3. GroupsAgree'
      BY <1>7, <1>11 DEF AgreeBut, GroupsAgree
    <2>4. QED BY <1>5, <1>6, <1>11, <2>2, <2>3 DEF AgreeBut
  <1>12. QED BY <1>4, <1>5, <1>9, <1>10, <1>11 DEF Shape

\* The stored mapping goes before the group or the user does.
LEMMA ForgetsDone ==
  ASSUME Shape, stained' = stained, NEW s, NEW kind \in {"umap", "gmap"}, NEW key,
         kind = "umap" => key \in Names, kind = "gmap" => key \in Groups,
         s.path = <<kind, key>>, s.doc = NoDoc, s.changes = {},
         store' = Write(s.path, s.doc), sys' = Applied(sys, s.changes)
  PROVE  /\ Shape' /\ sys' = sys /\ Doc(<<kind, key>>)' = NoDoc
         /\ AgreeBut({}, {}) =>
              AgreeBut(IF kind = "umap" THEN {key} ELSE {}, IF kind = "gmap" THEN {key} ELSE {})'
  <1>1. <<kind, key>> \in Paths
    BY PathsAre
  <1>2. /\ store' \in [Paths -> Files] /\ Doc(<<kind, key>>)' = NoDoc
        /\ \A q \in Paths \ {<<kind, key>>} : Doc(q)' = Doc(q)
    BY <1>1, WriteIs DEF Shape
  <1>3. sys' = sys
    BY AppliedNone DEF Shape
  <1>4. /\ \A x \in Names : Doc(<<"user", x>>)' = Doc(<<"user", x>>)
        /\ \A x \in Temp : /\ Doc(<<"stsmap", x>>)' = Doc(<<"stsmap", x>>)
                           /\ Doc(<<"sts", x>>)' = Doc(<<"sts", x>>)
        /\ \A x \in Service : Doc(<<"svc", x>>)' = Doc(<<"svc", x>>)
        /\ \A x \in Groups : Doc(<<"group", x>>)' = Doc(<<"group", x>>)
        /\ \A x \in Policies : Doc(<<"policy", x>>)' = Doc(<<"policy", x>>)
    BY <1>2, PathsAre
  <1>5. /\ \A x \in Names : Doc(<<"umap", x>>)' = IF kind = "umap" /\ x = key THEN NoDoc
                                                  ELSE Doc(<<"umap", x>>)
        /\ \A x \in Groups : Doc(<<"gmap", x>>)' = IF kind = "gmap" /\ x = key THEN NoDoc
                                                   ELSE Doc(<<"gmap", x>>)
    BY <1>2, PathsAre
  <1>6. UsersFit(sys)' /\ DocsFit' /\ GroupsFit'
    <2>1. UsersFit(sys)'
      BY <1>3 DEF Shape, UsersFit
    <2>2. DocsFit'
      BY <1>4, <1>5 DEF Shape, DocsFit, OptPolicies
    <2>3. GroupsFit'
      BY <1>3, <1>4 DEF Shape, GroupsFit
    <2>4. QED BY <2>1, <2>2, <2>3
  <1>7. ASSUME AgreeBut({}, {})
        PROVE  AgreeBut(IF kind = "umap" THEN {key} ELSE {}, IF kind = "gmap" THEN {key} ELSE {})'
    <2>1. \A x \in Names : LoadedUser(x, {})' = LoadedUser(x, {})
      BY <1>4, LoadedUserKept
    <2>2. UsersAgree' /\ PoliciesAgree' /\ GroupsAgree'
      BY <1>3, <1>4, <1>7, <2>1
      DEF AgreeBut, UsersAgree, PoliciesAgree, GroupsAgree, LoadedPolicy, Names
    <2>3. QED BY <1>3, <1>5, <1>7, <2>2 DEF AgreeBut
  <1>8. QED BY <1>2, <1>3, <1>6, <1>7 DEF Shape

\* An empty group goes, with its mapping.
LEMMA GroupGoesDone ==
  ASSUME Shape, stained' = stained, NEW g \in Groups, NEW s, s = GroupGoes(g),
         sys.groups[g] # NoDoc => sys.groups[g].members = {},
         store' = Write(s.path, s.doc), sys' = Applied(sys, s.changes)
  PROVE  /\ Shape'
         /\ AgreeBut({}, {g}) /\ Doc(<<"gmap", g>>) = NoDoc => AgreeBut({}, {})'
  <1>1. /\ s.path = <<"group", g>> /\ s.doc = NoDoc
        /\ s.changes = {Put("groups", g, NoDoc), Put("gmap", g, NoDoc)}
        /\ <<"group", g>> \in Paths
    BY PathsAre DEF GroupGoes, Step
  <1>2. /\ store' \in [Paths -> Files] /\ Doc(<<"group", g>>)' = NoDoc
        /\ \A q \in Paths \ {<<"group", g>>} : Doc(q)' = Doc(q)
    BY <1>1, WriteIs DEF Shape
  <1>3. /\ sys' \in SysTypes /\ sys'.groups = [sys.groups EXCEPT ![g] = NoDoc]
        /\ sys'.gmap = [sys.gmap EXCEPT ![g] = NoDoc] /\ sys'.memberOf = sys.memberOf
        /\ sys'.users = sys.users /\ sys'.docs = sys.docs /\ sys'.umap = sys.umap
    BY <1>1, AppliedGroupAndMap DEF Shape, OptPolicies
  <1>4. /\ \A x \in Names : /\ Doc(<<"umap", x>>)' = Doc(<<"umap", x>>)
                            /\ Doc(<<"user", x>>)' = Doc(<<"user", x>>)
        /\ \A x \in Temp : /\ Doc(<<"stsmap", x>>)' = Doc(<<"stsmap", x>>)
                           /\ Doc(<<"sts", x>>)' = Doc(<<"sts", x>>)
        /\ \A x \in Service : Doc(<<"svc", x>>)' = Doc(<<"svc", x>>)
        /\ \A x \in Groups : Doc(<<"gmap", x>>)' = Doc(<<"gmap", x>>)
        /\ \A x \in Policies : Doc(<<"policy", x>>)' = Doc(<<"policy", x>>)
    BY <1>2, PathsAre
  <1>5. \A x \in Groups : /\ Doc(<<"group", x>>)' = IF x = g THEN NoDoc ELSE Doc(<<"group", x>>)
                          /\ sys'.groups[x] = IF x = g THEN NoDoc ELSE sys.groups[x]
                          /\ sys'.gmap[x] = IF x = g THEN NoDoc ELSE sys.gmap[x]
    BY <1>2, <1>3, PathsAre, ZenonT(60) DEF Shape, SysTypes
  <1>6. GroupsFit'
    <2>1. \A n \in Names : MembersOf(sys.groups, n)' = MembersOf(sys.groups, n)
      BY <1>5 DEF MembersOf
    <2>2. QED BY <1>3, <1>5, <2>1 DEF Shape, GroupsFit
  <1>7. UsersFit(sys)' /\ DocsFit'
    <2>1. UsersFit(sys)'
      BY <1>3 DEF Shape, UsersFit
    <2>2. DocsFit'
      BY <1>4, <1>5 DEF Shape, DocsFit
    <2>3. QED BY <2>1, <2>2
  <1>8. ASSUME AgreeBut({}, {g}), Doc(<<"gmap", g>>) = NoDoc PROVE AgreeBut({}, {})'
    <2>1. \A x \in Names : LoadedUser(x, {})' = LoadedUser(x, {})
      BY <1>4, LoadedUserKept
    <2>2. UsersAgree' /\ PoliciesAgree'
      BY <1>3, <1>4, <1>8, <2>1 DEF AgreeBut, UsersAgree, PoliciesAgree, LoadedPolicy, Names
    <2>3. GroupsAgree'
      BY <1>5, <1>8 DEF AgreeBut, GroupsAgree
    <2>4. \A x \in Names : \/ sys'.umap[x] = Doc(<<"umap", x>>)'
                           \/ x \in Temp /\ sys'.umap[x] = NoDoc
      BY <1>3, <1>4, <1>8 DEF AgreeBut
    <2>5. \A x \in Groups : sys'.gmap[x] = Doc(<<"gmap", x>>)'
      <3>1. \A x \in Groups \ {g} : sys.gmap[x] = Doc(<<"gmap", x>>)
        BY <1>8 DEF AgreeBut
      <3>2. QED BY <1>4, <1>5, <1>8, <3>1, ZenonT(60)
    <2>6. QED BY <2>2, <2>3, <2>4, <2>5 DEF AgreeBut
  <1>9. QED BY <1>2, <1>3, <1>6, <1>7, <1>8 DEF Shape

\* A user goes, with the user's mapping.
LEMMA UserGoesDone ==
  ASSUME Shape, stained' = stained, NEW n \in Names \ Temp, NEW s, s = UserGoes(n),
         store' = Write(s.path, s.doc), sys' = Applied(sys, s.changes)
  PROVE  /\ Shape'
         /\ AgreeBut({n}, {}) /\ Doc(<<"umap", n>>) = NoDoc => AgreeBut({}, {})'
  <1>1. /\ s.path = <<"user", n>> /\ s.doc = NoDoc
        /\ s.changes = {Put("users", n, NoDoc), Put("umap", n, NoDoc)}
        /\ <<"user", n>> \in Paths
    BY PathsAre DEF UserGoes, Step
  <1>2. /\ store' \in [Paths -> Files] /\ Doc(<<"user", n>>)' = NoDoc
        /\ \A q \in Paths \ {<<"user", n>>} : Doc(q)' = Doc(q)
    BY <1>1, WriteIs DEF Shape
  <1>3. /\ sys' \in SysTypes /\ sys'.users = [sys.users EXCEPT ![n] = NoDoc]
        /\ sys'.umap = [sys.umap EXCEPT ![n] = NoDoc] /\ sys'.memberOf = sys.memberOf
        /\ sys'.groups = sys.groups /\ sys'.docs = sys.docs /\ sys'.gmap = sys.gmap
    BY <1>1, AppliedUserAndMap DEF Shape, OptPolicies
  <1>4. /\ \A x \in Names : Doc(<<"umap", x>>)' = Doc(<<"umap", x>>)
        /\ \A x \in Temp : /\ Doc(<<"stsmap", x>>)' = Doc(<<"stsmap", x>>)
                           /\ Doc(<<"sts", x>>)' = Doc(<<"sts", x>>)
        /\ \A x \in Service : Doc(<<"svc", x>>)' = Doc(<<"svc", x>>)
        /\ \A x \in Groups : /\ Doc(<<"group", x>>)' = Doc(<<"group", x>>)
                             /\ Doc(<<"gmap", x>>)' = Doc(<<"gmap", x>>)
        /\ \A x \in Policies : Doc(<<"policy", x>>)' = Doc(<<"policy", x>>)
    BY <1>2, PathsAre
  <1>5. \A x \in Names : /\ Doc(<<"user", x>>)' = IF x = n THEN NoDoc ELSE Doc(<<"user", x>>)
                         /\ sys'.users[x] = IF x = n THEN NoDoc ELSE sys.users[x]
                         /\ sys'.umap[x] = IF x = n THEN NoDoc ELSE sys.umap[x]
    BY <1>2, <1>3, PathsAre, ZenonT(60) DEF Shape, SysTypes
  <1>6. UsersFit(sys)' /\ DocsFit' /\ GroupsFit'
    <2>1. UsersFit(sys)'
      BY <1>5 DEF Shape, UsersFit
    <2>2. DocsFit'
      BY <1>4, <1>5 DEF Shape, DocsFit
    <2>3. GroupsFit'
      BY <1>3, <1>4 DEF Shape, GroupsFit
    <2>4. QED BY <2>1, <2>2, <2>3
  <1>7. ASSUME AgreeBut({n}, {}), Doc(<<"umap", n>>) = NoDoc PROVE AgreeBut({}, {})'
    <2>1. \A x \in Names \ {n} : LoadedUser(x, {})' = LoadedUser(x, {})
      BY <1>4, <1>5, LoadedUserKept
    <2>2. n \in Regular => LoadedUser(n, {})' = NoDoc
      BY <1>5, LoadedUserIsNext DEF UsersFromPaths
    <2>3. UsersAgree'
      BY <1>5, <1>7, <2>1, <2>2, NamesAssumption, ZenonT(60) DEF AgreeBut, UsersAgree, Names
    <2>4. PoliciesAgree' /\ GroupsAgree'
      BY <1>3, <1>4, <1>7, ZenonT(60) DEF AgreeBut, PoliciesAgree, GroupsAgree, LoadedPolicy
    <2>5. \A x \in Names : \/ sys'.umap[x] = Doc(<<"umap", x>>)'
                           \/ x \in Temp /\ sys'.umap[x] = NoDoc
      BY <1>4, <1>5, <1>7 DEF AgreeBut
    <2>6. \A x \in Groups : sys'.gmap[x] = Doc(<<"gmap", x>>)'
      <3>1. \A x \in Groups : sys.gmap[x] = Doc(<<"gmap", x>>)
        BY <1>7 DEF AgreeBut
      <3>2. QED BY <1>3, <1>4, <3>1
    <2>7. QED BY <2>3, <2>4, <2>5, <2>6 DEF AgreeBut
  <1>8. QED BY <1>2, <1>3, <1>6, <1>7 DEF Shape

-----------------------------------------------------------------------------
(* A step is written, fails, or panics *)

\* The steps that leave memory and store in agreement.
Fine(s) ==
  \/ SavesUser(s) \/ SavesPolicy(s) \/ SavesGroup(s)
  \/ s \in AccountSteps \/ s \in MapSteps
  \/ \E g \in Groups : /\ s = GroupGoes(g)
                       /\ stale \/ Doc(<<"gmap", g>>) = NoDoc
                       /\ sys.groups[g] # NoDoc => sys.groups[g].members = {}
  \/ \E n \in Names \ Temp : /\ s = UserGoes(n)
                             /\ stale \/ Doc(<<"umap", n>>) = NoDoc

\* Which mappings a step takes out of memory.
LEMMA LeavesOf ==
  /\ \A s : SavesUser(s) \/ SavesPolicy(s) \/ SavesGroup(s) \/ s \in AccountSteps =>
              Leaves(s, "umap") = {} /\ Leaves(s, "gmap") = {}
  /\ \A g \in Groups : Leaves(GroupGoes(g), "umap") = {} /\ Leaves(GroupGoes(g), "gmap") = {g}
  /\ \A n \in Names : Leaves(UserGoes(n), "umap") = {n} /\ Leaves(UserGoes(n), "gmap") = {}
  <1>1. ASSUME NEW s, SavesUser(s) PROVE Leaves(s, "umap") = {} /\ Leaves(s, "gmap") = {}
    <2>1. PICK n, cred : s.changes = {Put("users", n, cred)}
      BY <1>1 DEF SavesUser, SaveUser, Step
    <2>2. QED BY <2>1 DEF Leaves, Put
  <1>2. ASSUME NEW s, SavesPolicy(s) PROVE Leaves(s, "umap") = {} /\ Leaves(s, "gmap") = {}
    <2>1. PICK p, doc : s.changes = {Put("docs", p, doc)}
      BY <1>2 DEF SavesPolicy, Step
    <2>2. QED BY <2>1 DEF Leaves, Put
  <1>3. ASSUME NEW s, SavesGroup(s) PROVE Leaves(s, "umap") = {} /\ Leaves(s, "gmap") = {}
    <2>1. PICK g, doc, names, to :
            s.changes = {Put("groups", g, doc)} \cup {Put("memberOf", n, to[n]) : n \in names}
      BY <1>3 DEF SavesGroup, Step
    <2>2. \A c \in s.changes : c[1] \in {"groups", "memberOf"}
      BY <2>1 DEF Put
    <2>3. QED BY <2>2 DEF Leaves, Put
  <1>4. ASSUME NEW s \in AccountSteps PROVE Leaves(s, "umap") = {} /\ Leaves(s, "gmap") = {}
    <2>1. PICK n : s.changes = {Put("users", n, NoDoc)}
      BY DEF AccountSteps, AccountGoes, Step
    <2>2. QED BY <2>1 DEF Leaves, Put
  <1>5. ASSUME NEW g \in Groups
        PROVE  Leaves(GroupGoes(g), "umap") = {} /\ Leaves(GroupGoes(g), "gmap") = {g}
    <2>1. GroupGoes(g).changes = {Put("groups", g, NoDoc), Put("gmap", g, NoDoc)}
      BY DEF GroupGoes, Step
    <2>2. QED BY <2>1 DEF Leaves, Put
  <1>6. ASSUME NEW n \in Names
        PROVE  Leaves(UserGoes(n), "umap") = {n} /\ Leaves(UserGoes(n), "gmap") = {}
    <2>1. UserGoes(n).changes = {Put("users", n, NoDoc), Put("umap", n, NoDoc)}
      BY DEF UserGoes, Step
    <2>2. QED BY <2>1 DEF Leaves, Put
  <1>7. QED BY <1>1, <1>2, <1>3, <1>4, <1>5, <1>6

\* A step that is written.
LEMMA FineWritten ==
  ASSUME Shape, stained' = stained, NEW s, Fine(s),
         ~stale => AgreeBut(Leaves(s, "umap"), Leaves(s, "gmap")),
         store' = Write(s.path, s.doc), sys' = Applied(sys, s.changes)
  PROVE  Shape' /\ (~stale => AgreeBut({}, {})')
  <1>1. CASE SavesUser(s)
    BY <1>1, SavesUserDone, LeavesOf
  <1>2. CASE SavesPolicy(s)
    BY <1>2, SavesPolicyDone, LeavesOf
  <1>3. CASE SavesGroup(s)
    BY <1>3, SavesGroupDone, LeavesOf
  <1>4. CASE s \in AccountSteps
    BY <1>4, AccountGoesDone, LeavesOf
  <1>5. CASE s \in MapSteps
    BY <1>5, MapStepDone
  <1>6. ASSUME NEW g \in Groups, s = GroupGoes(g), stale \/ Doc(<<"gmap", g>>) = NoDoc,
               sys.groups[g] # NoDoc => sys.groups[g].members = {}
        PROVE  Shape' /\ (~stale => AgreeBut({}, {})')
    BY <1>6, GroupGoesDone, LeavesOf
  <1>7. ASSUME NEW n \in Names \ Temp, s = UserGoes(n), stale \/ Doc(<<"umap", n>>) = NoDoc
        PROVE  Shape' /\ (~stale => AgreeBut({}, {})')
    BY <1>7, UserGoesDone, LeavesOf
  <1>8. QED BY <1>1, <1>2, <1>3, <1>4, <1>5, <1>6, <1>7 DEF Fine

\* Memory changes and the store does not: users, policies and mappings go.
LEMMA MemoryAlone ==
  ASSUME Shape, stained' = stained, store' = store, sys' \in SysTypes,
         sys'.groups = sys.groups, sys'.memberOf = sys.memberOf,
         \A n \in Names : sys'.users[n] \in {sys.users[n], NoDoc}
  PROVE  Shape'
  <1>1. \A path : Doc(path)' = Doc(path)
    BY DEF Doc
  <1>2. DocsFit'
    BY <1>1 DEF Shape, DocsFit
  <1>3. UsersFit(sys)'
    BY DEF Shape, UsersFit
  <1>4. GroupsFit'
    BY <1>1 DEF Shape, GroupsFit
  <1>5. QED BY <1>2, <1>3, <1>4 DEF Shape

\* A step whose write fails and that changes memory all the same.
LEMMA FineForced ==
  ASSUME Shape, stained' = stained, NEW s, Fine(s), s.fail = "force",
         store' = store, sys' = Applied(sys, s.changes)
  PROVE  Shape'
  <1>0. sys \in SysTypes /\ sys.users \in [Names -> Creds \cup {NoDoc}]
    BY DEF Shape, SysTypes
  <1>1. CASE SavesUser(s)
    BY <1>1 DEF SavesUser, SaveUser, Step
  <1>2. CASE SavesPolicy(s)
    <2>1. PICK p \in Policies, doc \in PolicyDocs : s.changes = {Put("docs", p, doc)}
      BY <1>2 DEF SavesPolicy, Step, PolicyDocs
    <2>2. /\ sys' \in SysTypes /\ sys'.users = sys.users
          /\ sys'.docs = [sys.docs EXCEPT ![p] = doc]
          /\ sys'.groups = sys.groups /\ sys'.memberOf = sys.memberOf
      BY <1>0, <2>1, AppliedPolicy
    <2>3. QED BY <2>1, <2>2, MemoryAlone
  <1>3. CASE SavesGroup(s)
    BY <1>3 DEF SavesGroup, Step
  <1>4. CASE s \in AccountSteps
    <2>1. PICK a \in Names : s.changes = {Put("users", a, NoDoc)}
      BY <1>4 DEF AccountSteps, AccountGoes, Step, Names
    <2>2. /\ sys' \in SysTypes /\ sys'.users = [sys.users EXCEPT ![a] = NoDoc]
          /\ sys'.groups = sys.groups /\ sys'.memberOf = sys.memberOf
      BY <1>0, <2>1, AppliedUser
    <2>3. \A n \in Names : sys'.users[n] \in {sys.users[n], NoDoc}
      BY <1>0, <2>2
    <2>4. QED BY <2>2, <2>3, MemoryAlone
  <1>5. CASE s \in MapSteps
    BY <1>5 DEF MapSteps, policyDBSet, Step
  <1>6. ASSUME NEW g \in Groups, s = GroupGoes(g) PROVE FALSE
    BY <1>6 DEF GroupGoes, Step
  <1>7. ASSUME NEW n \in Names \ Temp, s = UserGoes(n) PROVE Shape'
    <2>1. s.changes = {Put("users", n, NoDoc), Put("umap", n, NoDoc)}
      BY <1>7 DEF UserGoes, Step
    <2>2. /\ sys' \in SysTypes /\ sys'.users = [sys.users EXCEPT ![n] = NoDoc]
          /\ sys'.umap = [sys.umap EXCEPT ![n] = NoDoc]
          /\ sys'.groups = sys.groups /\ sys'.memberOf = sys.memberOf
      <3>1. NoDoc \in Creds \cup {NoDoc} /\ NoDoc \in OptPolicies /\ n \in Names
        BY DEF OptPolicies
      <3>2. sys' = Applied(sys, {Put("users", n, NoDoc), Put("umap", n, NoDoc)})
        BY <2>1
      <3>3. QED BY <1>0, <3>1, <3>2, AppliedUserAndMap
    <2>3. \A m \in Names : sys'.users[m] \in {sys.users[m], NoDoc}
      BY <1>0, <2>2
    <2>4. QED BY <2>2, <2>3, MemoryAlone
  <1>8. QED BY <1>1, <1>2, <1>3, <1>4, <1>5, <1>6, <1>7 DEF Fine

\* A step that panics has stored the mapping of a group and changed nothing in
\* memory.
LEMMA FinePanics ==
  ASSUME Shape, stained' = stained, NEW s, Fine(s), Panics(s),
         store' = Write(s.path, s.doc), sys' = sys
  PROVE  Shape'
  <1>1. PICK c \in s.changes : c[1] = "gmap" /\ c[3] # NoDoc
    BY DEF Panics
  <1>2. ~SavesUser(s)
    <2>1. SavesUser(s) => \E n, cred : s.changes = {Put("users", n, cred)}
      BY DEF SavesUser, SaveUser, Step
    <2>2. QED BY <1>1, <2>1 DEF Put
  <1>3. ~SavesPolicy(s)
    <2>1. SavesPolicy(s) => \E p, doc : s.changes = {Put("docs", p, doc)}
      BY DEF SavesPolicy, Step
    <2>2. QED BY <1>1, <2>1 DEF Put
  <1>4. ~SavesGroup(s)
    <2>1. SavesGroup(s) => \E g, doc, names, to :
            s.changes = {Put("groups", g, doc)} \cup {Put("memberOf", n, to[n]) : n \in names}
      BY DEF SavesGroup, Step
    <2>2. QED BY <1>1, <2>1 DEF Put
  <1>5. s \notin AccountSteps
    <2>1. s \in AccountSteps => \E n : s.changes = {Put("users", n, NoDoc)}
      BY DEF AccountSteps, AccountGoes, Step
    <2>2. QED BY <1>1, <2>1 DEF Put
  <1>6. \A g : s # GroupGoes(g)
    <2>1. \A g : GroupGoes(g).changes = {Put("groups", g, NoDoc), Put("gmap", g, NoDoc)}
      BY DEF GroupGoes, Step
    <2>2. QED BY <1>1, <2>1 DEF Put
  <1>7. \A n : s # UserGoes(n)
    <2>1. \A n : UserGoes(n).changes = {Put("users", n, NoDoc), Put("umap", n, NoDoc)}
      BY DEF UserGoes, Step
    <2>2. QED BY <1>1, <2>1 DEF Put
  <1>8. s \in MapSteps
    BY <1>2, <1>3, <1>4, <1>5, <1>6, <1>7 DEF Fine
  <1>9. PICK g \in Groups, p \in OptPolicies : s.path = <<"gmap", g>> /\ s.doc = p
    <2>1. PICK kind \in {"umap", "stsmap", "gmap"}, key \in Names \cup Groups, p \in OptPolicies,
               fail \in {"abort", "skip"} :
            /\ s = policyDBSet(kind, key, p, fail)
            /\ kind = "umap" => key \in Names
            /\ kind = "stsmap" => key \in Temp /\ p = NoDoc
            /\ kind = "gmap" => key \in Groups
      BY <1>8 DEF MapSteps, OptPolicies, Names
    <2>2. s.path = <<kind, key>> /\ s.doc = p /\ s.changes = {Put(MapKind(kind), key, p)}
      BY <2>1 DEF policyDBSet, Step
    <2>3. kind = "gmap"
      BY <1>1, <2>1, <2>2 DEF Put, MapKind
    <2>4. QED BY <2>1, <2>2, <2>3
  <1>10. <<"gmap", g>> \in Paths /\ p \in DocsAt(<<"gmap", g>>) \cup {NoDoc}
    BY PathsAre DEF DocsAt, OptPolicies
  <1>11. /\ store' \in [Paths -> Files] /\ Doc(<<"gmap", g>>)' = p
         /\ \A q \in Paths \ {<<"gmap", g>>} : Doc(q)' = Doc(q)
    BY <1>9, <1>10, WriteIs DEF Shape
  <1>12. /\ \A x \in Names : /\ Doc(<<"umap", x>>)' = Doc(<<"umap", x>>)
                             /\ Doc(<<"user", x>>)' = Doc(<<"user", x>>)
         /\ \A x \in Temp : /\ Doc(<<"stsmap", x>>)' = Doc(<<"stsmap", x>>)
                            /\ Doc(<<"sts", x>>)' = Doc(<<"sts", x>>)
         /\ \A x \in Service : Doc(<<"svc", x>>)' = Doc(<<"svc", x>>)
         /\ \A x \in Groups : Doc(<<"group", x>>)' = Doc(<<"group", x>>)
         /\ \A x \in Policies : Doc(<<"policy", x>>)' = Doc(<<"policy", x>>)
    BY <1>11, PathsAre
  <1>13. \A x \in Groups : Doc(<<"gmap", x>>)' \in OptPolicies
    <2>1. \A x \in Groups \ {g} : Doc(<<"gmap", x>>)' = Doc(<<"gmap", x>>)
      BY <1>11, PathsAre
    <2>2. QED BY <1>11, <2>1 DEF Shape, DocsFit
  <1>14. DocsFit'
    BY <1>12, <1>13 DEF Shape, DocsFit
  <1>15. UsersFit(sys)' /\ GroupsFit'
    BY <1>12 DEF Shape, UsersFit, GroupsFit
  <1>16. QED BY <1>11, <1>14, <1>15 DEF Shape

\* What loadAll has read stays right when somebody else makes a step.
LEMMA DoLoads ==
  ASSUME NEW steps, Do(steps), LoadAgrees
  PROVE  LoadAgrees' /\ load' = load /\ stained' = stained
         /\ (overtaken \in BOOLEAN => overtaken' \in BOOLEAN)
         /\ (stale \in BOOLEAN => stale' \in BOOLEAN)
  <1>1. load' = load /\ stained' = stained
    BY DEF Do
  <1>2. CASE store' = store /\ overtaken' = overtaken
    <2>1. /\ \A path : Doc(path)' = Doc(path)
          /\ \A p : LoadedPolicy(p)' = LoadedPolicy(p)
          /\ \A n : LoadedUser(n, {})' = LoadedUser(n, {})
      BY <1>2 DEF Doc, LoadedPolicy, LoadedUser
    <2>2. QED BY <1>1, <1>2, <2>1 DEF LoadAgrees, Do
  <1>3. CASE overtaken' = (overtaken \/ load.pc # "idle")
    <2>1. ~overtaken' => load'.pc = "idle"
      BY <1>1, <1>3
    <2>2. QED BY <1>1, <1>3, <2>1 DEF LoadAgrees, Do
  <1>4. QED BY <1>2, <1>3 DEF Do

-----------------------------------------------------------------------------
(* Changes *)

LaterSteps == MapSteps \cup AccountSteps

\* Nobody holds the lock, or what is left to do takes mappings away.
LEMMA AgreeNow ==
  ASSUME IAMInv, ~stale
  PROVE  /\ todo = << >> => AgreeBut({}, {})
         /\ todo # << >> => AgreeBut(Leaves(Head(todo), "umap"), Leaves(Head(todo), "gmap"))
  <1>1. UsersAgree /\ GroupsAgree /\ PoliciesAgree /\ MappingsAgree
    BY DEF IAMInv, SysAgrees
  <1>2. CASE todo = << >>
    BY <1>1, <1>2 DEF AgreeBut, MappingsAgree, Leaving
  <1>3. CASE todo # << >>
    <2>1. /\ \A n \in Names : Leaving("umap", n) <=> n \in Leaves(Head(todo), "umap")
          /\ \A g \in Groups : Leaving("gmap", g) <=> g \in Leaves(Head(todo), "gmap")
      BY <1>3 DEF Leaving, Leaves
    <2>2. QED BY <1>1, <1>3, <2>1 DEF AgreeBut, MappingsAgree
  <1>4. QED BY <1>2, <1>3

\* In agreement.
LEMMA Settled ==
  ASSUME IAMInv, Shape', LoadAgrees', load' = load, stale' \in BOOLEAN,
         overtaken' \in BOOLEAN, stained' = stained, DeletingFits',
         todo' \in Seq(LaterSteps), ~stale' => AgreeBut({}, {})'
  PROVE  IAMInv'
  <1>1. IAMTypes'
    BY DEF IAMInv, IAMTypes, Shape
  <1>2. UsersFit(load.sys)'
    BY DEF IAMInv, UsersFit
  <1>3. TodoFits'
    BY DEF TodoFits, LaterSteps
  <1>4. SysAgrees'
    BY DEF SysAgrees, AgreeBut, MappingsAgree
  <1>5. QED BY <1>1, <1>2, <1>3, <1>4 DEF IAMInv, Shape

\* The first of some steps is made, whatever becomes of it.
LEMMA DoFine ==
  ASSUME IAMInv, DeletingFits', NEW steps, Do(steps), Fine(Head(steps)),
         Tail(steps) \in Seq(LaterSteps),
         ~stale => AgreeBut(Leaves(Head(steps), "umap"), Leaves(Head(steps), "gmap"))
  PROVE  IAMInv'
  <1> DEFINE s == Head(steps)
  <1>1. Shape
    BY DEF IAMInv, IAMTypes, Shape
  <1>2. /\ LoadAgrees' /\ load' = load /\ stained' = stained
        /\ overtaken' \in BOOLEAN /\ stale' \in BOOLEAN
    BY DoLoads DEF IAMInv, IAMTypes
  <1>3. << >> \in Seq(LaterSteps) OBVIOUS
  <1>4. CASE /\ store' = Write(s.path, s.doc) /\ ~Panics(s)
             /\ sys' = Applied(sys, s.changes) /\ todo' = Tail(steps) /\ stale' = stale
    <2>1. Shape' /\ (~stale => AgreeBut({}, {})')
      BY <1>1, <1>2, <1>4, FineWritten
    <2>2. QED BY <1>2, <1>4, <2>1, Settled
  <1>5. CASE /\ store' = Write(s.path, s.doc) /\ Panics(s)
             /\ sys' = sys /\ todo' = << >> /\ stale' = TRUE
    <2>1. Shape'
      BY <1>1, <1>2, <1>5, FinePanics
    <2>2. QED BY <1>2, <1>3, <1>5, <2>1, Settled
  <1>6. CASE /\ store' = store /\ stale' = TRUE
             /\ sys' = IF s.fail = "force" THEN Applied(sys, s.changes) ELSE sys
             /\ todo' = IF s.fail = "abort" THEN << >> ELSE Tail(steps)
    <2>1. CASE s.fail = "force"
      BY <1>1, <1>2, <1>3, <1>6, <2>1, FineForced, Settled
    <2>2. CASE s.fail # "force"
      <3>1. sys' = sys
        BY <1>6, <2>2
      <3>2. Shape'
        BY <1>1, <1>2, <1>6, <3>1, MemoryAlone DEF Shape
      <3>3. QED BY <1>2, <1>3, <1>6, <3>2, Settled
    <2>3. QED BY <2>1, <2>2
  <1>7. QED BY <1>4, <1>5, <1>6 DEF Do

\* The first and the later steps.
LEMMA FirstAndLater ==
  ASSUME NEW s, NEW rest \in Seq(LaterSteps)
  PROVE  Head(<<s>> \o rest) = s /\ Tail(<<s>> \o rest) = rest
  OBVIOUS

LEMMA OneStep ==
  ASSUME NEW s
  PROVE  Head(<<s>>) = s /\ Tail(<<s>>) \in Seq(LaterSteps)
  OBVIOUS

\* A change begins with a step that needs nothing of the ones before it.
LEMMA LockedFine ==
  ASSUME IAMInv, todo = << >>, DeletingFits', NEW steps, Do(steps), Fine(Head(steps)),
         Tail(steps) \in Seq(LaterSteps)
  PROVE  IAMInv'
  <1>1. ~stale => AgreeBut(Leaves(Head(steps), "umap"), Leaves(Head(steps), "gmap"))
    BY AgreeNow, AgreeButMore
  <1>2. QED BY <1>1, DoFine

\* What a step of a change has to keep.
LEMMA Kept ==
  ASSUME IAMInv, Shape', LoadAgrees', load' = load, stale' \in BOOLEAN,
         overtaken' \in BOOLEAN, stained' = stained, DeletingFits', TodoFits', SysAgrees'
  PROVE  IAMInv'
  <1>1. IAMTypes'
    BY DEF IAMInv, IAMTypes, Shape
  <1>2. UsersFit(load.sys)'
    BY DEF IAMInv, UsersFit
  <1>3. QED BY <1>1, <1>2 DEF IAMInv, Shape

\* The mapping of a group is deleted before the group is.
LEMMA GroupRemoved ==
  ASSUME IAMInv, todo = << >>, DeletingFits', NEW g \in Groups,
         sys.groups[g] # NoDoc => sys.groups[g].members = {},
         NEW s, s = Step(<<"gmap", g>>, NoDoc, {}, "abort"), Do(<<s, GroupGoes(g)>>)
  PROVE  IAMInv'
  <1>1. Shape
    BY DEF IAMInv, IAMTypes, Shape
  <1>2. /\ LoadAgrees' /\ load' = load /\ stained' = stained
        /\ overtaken' \in BOOLEAN /\ stale' \in BOOLEAN
    BY DoLoads DEF IAMInv, IAMTypes
  <1>3. /\ s.path = <<"gmap", g>> /\ s.doc = NoDoc /\ s.changes = {} /\ s.fail = "abort"
        /\ Head(<<s, GroupGoes(g)>>) = s /\ Tail(<<s, GroupGoes(g)>>) = <<GroupGoes(g)>>
    BY DEF Step
  <1>4. ~Panics(s)
    BY <1>3 DEF Panics
  <1>5. CASE /\ store' = Write(s.path, s.doc) /\ sys' = Applied(sys, s.changes)
             /\ todo' = <<GroupGoes(g)>> /\ stale' = stale
    <2>1. /\ Shape' /\ sys' = sys /\ Doc(<<"gmap", g>>)' = NoDoc
          /\ AgreeBut({}, {}) => AgreeBut({}, {g})'
      BY <1>1, <1>2, <1>3, <1>5, ForgetsDone
    <2>2. TodoFits'
      BY <1>5, <2>1 DEF TodoFits
    <2>3. ASSUME ~stale' PROVE UsersAgree' /\ GroupsAgree' /\ PoliciesAgree' /\ MappingsAgree'
      <3>1. AgreeBut({}, {g})'
        BY <1>5, <2>1, <2>3, AgreeNow
      <3>2. Leaving("gmap", g)'
        BY <1>5 DEF Leaving, GroupGoes, Step
      <3>3. QED BY <3>1, <3>2 DEF AgreeBut, MappingsAgree
    <2>4. QED BY <1>2, <2>1, <2>2, <2>3, Kept DEF SysAgrees
  <1>6. CASE store' = store /\ sys' = sys /\ todo' = << >> /\ stale' = TRUE
    <2>1. Shape'
      BY <1>1, <1>2, <1>6, MemoryAlone DEF Shape
    <2>2. << >> \in Seq(LaterSteps) OBVIOUS
    <2>3. QED BY <1>2, <1>6, <2>1, <2>2, Settled
  <1>7. QED BY <1>3, <1>4, <1>5, <1>6 DEF Do

\* The mapping of a user is deleted before the user is.
LEMMA UserRemoved ==
  ASSUME IAMInv, todo = << >>, DeletingFits', NEW n \in Names \ Temp, NEW rest \in Seq(AccountSteps),
         NEW s, s = Step(<<"umap", n>>, NoDoc, {}, "force"),
         Do(<<s, UserGoes(n)>> \o rest)
  PROVE  IAMInv'
  <1>1. Shape
    BY DEF IAMInv, IAMTypes, Shape
  <1>2. /\ LoadAgrees' /\ load' = load /\ stained' = stained
        /\ overtaken' \in BOOLEAN /\ stale' \in BOOLEAN
    BY DoLoads DEF IAMInv, IAMTypes
  <1> DEFINE later == <<UserGoes(n)>> \o rest
  <1>3. s.path = <<"umap", n>> /\ s.doc = NoDoc /\ s.changes = {} /\ s.fail = "force"
    BY DEF Step
  <1>4. /\ Head(<<s, UserGoes(n)>> \o rest) = s /\ Tail(<<s, UserGoes(n)>> \o rest) = later
        /\ later # << >> /\ Head(later) = UserGoes(n)
    OBVIOUS
  <1> HIDE DEF later
  <1>5. ~Panics(s)
    BY <1>3 DEF Panics
  <1>6. CASE /\ store' = Write(s.path, s.doc) /\ sys' = Applied(sys, s.changes)
             /\ todo' = later /\ stale' = stale
    <2>1. /\ Shape' /\ sys' = sys /\ Doc(<<"umap", n>>)' = NoDoc
          /\ AgreeBut({}, {}) => AgreeBut({n}, {})'
      BY <1>1, <1>2, <1>3, <1>6, ForgetsDone
    <2>2. TodoFits'
      BY <1>6, <2>1 DEF TodoFits, later
    <2>3. ASSUME ~stale' PROVE UsersAgree' /\ GroupsAgree' /\ PoliciesAgree' /\ MappingsAgree'
      <3>1. AgreeBut({n}, {})'
        BY <1>6, <2>1, <2>3, AgreeNow
      <3>2. Leaving("umap", n)'
        BY <1>4, <1>6 DEF Leaving, UserGoes, Step
      <3>3. QED BY <3>1, <3>2 DEF AgreeBut, MappingsAgree
    <2>4. QED BY <1>2, <2>1, <2>2, <2>3, Kept DEF SysAgrees
  <1>7. CASE store' = store /\ sys' = Applied(sys, s.changes) /\ todo' = later /\ stale' = TRUE
    <2>1. sys' = sys
      BY <1>1, <1>3, <1>7, AppliedNone DEF Shape
    <2>2. Shape'
      BY <1>1, <1>2, <1>7, <2>1, MemoryAlone DEF Shape
    <2>3. TodoFits'
      BY <1>7 DEF TodoFits, later
    <2>4. QED BY <1>2, <1>7, <2>2, <2>3, Kept DEF SysAgrees
  <1>8. QED BY <1>3, <1>4, <1>5, <1>6, <1>7 DEF Do

\* A sequence of the elements of a finite set.
LEMMA SetToSeqIs ==
  ASSUME NEW S, IsFiniteSet(S), NEW T, S \subseteq T
  PROVE  SetToSeq(S) \in Seq(T)
  <1>1. Cardinality(S) \in Nat /\ Bijection(1 .. Cardinality(S), S) # {}
    BY FS_CardinalityType DEF ExistsBijection
  <1>2. PICK f \in [1 .. Cardinality(S) -> S] : IsInjective(f)
    BY <1>1 DEF Bijection, Injection
  <1>3. SetToSeq(S) \in [1 .. Cardinality(S) -> S]
    BY <1>2 DEF SetToSeq
  <1>4. SetToSeq(S) \in [1 .. Cardinality(S) -> T]
    BY <1>3
  <1>5. QED BY <1>1, <1>4

-----------------------------------------------------------------------------
(* The actions that change something *)

\* A change under the lock that begins with a step that is fine.
LEMMA LockedStep ==
  ASSUME IAMInv, NEW odd, NEW steps, LockedUnless(odd, steps), Fine(Head(steps)),
         Tail(steps) \in Seq(LaterSteps)
  PROVE  IAMInv'
  <1>1. DeletingFits'
    BY DEF IAMInv, IAMTypes, DeletingFits, LockedUnless
  <1>2. QED BY <1>1, LockedFine DEF LockedUnless, Change

LEMMA SetPolicyKeeps ==
  ASSUME IAMInv, NEW p \in Policies, SetPolicy(p)
  PROVE  IAMInv'
  <1> DEFINE s == Step(<<"policy", p>>, "custom", {Put("docs", p, "custom")}, "abort")
  <1>1. Fine(s)
    BY DEF Fine, SavesPolicy
  <1>2. LockedUnless(FALSE, <<s>>)
    BY DEF SetPolicy, Locked
  <1> HIDE DEF s
  <1>3. QED BY <1>1, <1>2, OneStep, LockedStep

\* Temporary users have the credentials of temporary users.
LEMMA KindsFit ==
  ASSUME IAMInv, NEW n \in Names
  PROVE  /\ IsTemp(n) => n \in Temp
         /\ IsServiceAccount(n) => n \in Service
         /\ sys.users[n] # NoDoc => /\ sys.users[n] \in CredsFor(n)
                                    /\ n \in Temp => IsTemp(n)
  <1>1. sys.users[n] \in CredsFor(n) \cup {NoDoc}
    BY DEF IAMInv, UsersFit
  <1>2. QED BY <1>1, NamesAssumption DEF CredsFor, IsTemp, IsServiceAccount, Names, TempCred, Cred

LEMMA DeletePolicyKeeps ==
  ASSUME IAMInv, NEW p \in Policies, DeletePolicy(p)
  PROVE  IAMInv'
  <1> DEFINE users == {n \in Names : sys.umap[n] = p}
             strays == {g \in Groups : sys.gmap[g] = p /\ sys.groups[g] = NoDoc}
             groups == {g \in Groups : sys.gmap[g] = p} \ strays
             unmap(n) == policyDBSet(IF IsTemp(n) THEN "stsmap" ELSE "umap", n, NoDoc, "skip")
             s == Step(<<"policy", p>>, NoDoc, {Put("docs", p, NoDoc)}, "force")
             lost == \E n \in users : sys.users[n] = NoDoc
             U == {unmap(n) : n \in users}
             G == {policyDBSet("gmap", g, NoDoc, "skip") : g \in groups}
  <1>1. LockedUnless(lost \/ strays # {},
                     IF lost THEN <<s>> ELSE <<s>> \o SetToSeq(U) \o SetToSeq(G))
    BY DEF DeletePolicy
  <1>2. U \subseteq LaterSteps
    BY KindsFit DEF LaterSteps, MapSteps, OptPolicies
  <1>3. G \subseteq LaterSteps
    BY DEF LaterSteps, MapSteps, OptPolicies
  <1>4. IsFiniteSet(U)
    <2>1. IsFiniteSet(users)
      BY FiniteAssumption, FS_Subset
    <2>2. [n \in users |-> unmap(n)] \in Surjection(users, U)
      BY DEF Surjection
    <2>3. QED BY <2>1, <2>2, FS_Surjection
  <1>5. IsFiniteSet(G)
    <2>1. IsFiniteSet(groups)
      BY FiniteAssumption, FS_Subset
    <2>2. [g \in groups |-> policyDBSet("gmap", g, NoDoc, "skip")] \in Surjection(groups, G)
      BY DEF Surjection
    <2>3. QED BY <2>1, <2>2, FS_Surjection
  <1>6. Fine(s)
    BY DEF Fine, SavesPolicy
  <1> HIDE DEF U, G, s, lost, strays
  <1>7. SetToSeq(U) \in Seq(LaterSteps) /\ SetToSeq(G) \in Seq(LaterSteps)
    BY <1>2, <1>3, <1>4, <1>5, SetToSeqIs
  <1>8. /\ SetToSeq(U) \o SetToSeq(G) \in Seq(LaterSteps)
        /\ <<s>> \o SetToSeq(U) \o SetToSeq(G) = <<s>> \o (SetToSeq(U) \o SetToSeq(G))
    BY <1>7
  <1>9. QED BY <1>1, <1>6, <1>8, FirstAndLater, OneStep, LockedStep, ZenonT(60)

LEMMA PolicyDBSetKeeps ==
  ASSUME IAMInv, NEW name, NEW policy \in OptPolicies, NEW isGroup \in BOOLEAN,
         name \in (IF isGroup THEN Groups ELSE Names), PolicyDBSet(name, policy, isGroup)
  PROVE  IAMInv'
  <1> DEFINE s == policyDBSet(IF isGroup THEN "gmap" ELSE "umap", name, policy, "abort")
  <1>1. s \in MapSteps
    BY DEF MapSteps
  <1>2. LockedUnless(FALSE, <<s>>)
    BY DEF PolicyDBSet, Locked
  <1> HIDE DEF s
  <1>3. QED BY <1>1, <1>2, OneStep, LockedStep DEF Fine

\* A change that writes one user.
LEMMA SaveUserKeeps ==
  ASSUME IAMInv, NEW odd, NEW n \in Names, NEW cred \in CredsFor(n), NEW kind \in {"user", "sts", "svc"},
         kind = "sts" => n \in Temp, kind = "svc" => n \in Service,
         NEW rest \in Seq(LaterSteps), LockedUnless(odd, <<SaveUser(kind, n, cred)>> \o rest)
  PROVE  IAMInv'
  <1>1. Fine(SaveUser(kind, n, cred))
    BY DEF Fine, SavesUser
  <1>2. QED BY <1>1, FirstAndLater, LockedStep

LEMMA OneUserKeeps ==
  ASSUME IAMInv, NEW odd, NEW n \in Names, NEW cred \in CredsFor(n), NEW kind \in {"user", "sts", "svc"},
         kind = "sts" => n \in Temp, kind = "svc" => n \in Service,
         LockedUnless(odd, <<SaveUser(kind, n, cred)>>)
  PROVE  IAMInv'
  <1>1. Fine(SaveUser(kind, n, cred))
    BY DEF Fine, SavesUser
  <1>2. QED BY <1>1, OneStep, LockedStep

LEMMA SetUserKeeps ==
  ASSUME IAMInv, NEW n \in Regular, NEW status \in {"enabled", "disabled"},
         NEW policy \in OptPolicies, SetUser(n, status, policy)
  PROVE  IAMInv'
  <1> DEFINE cred == Cred("user", status, NoDoc)
             rest == IF policy # NoDoc /\ sys.docs[policy] # NoDoc
                     THEN <<policyDBSet("umap", n, policy, "abort")>> ELSE << >>
  <1>1. n \in Names /\ cred \in CredsFor(n)
    BY NamesAssumption DEF Names, CredsFor, Cred, Creds
  <1>2. rest \in Seq(LaterSteps)
    <2>1. policyDBSet("umap", n, policy, "abort") \in LaterSteps
      BY <1>1 DEF LaterSteps, MapSteps
    <2>2. QED BY <2>1
  <1>3. LockedUnless(FALSE, <<SaveUser("user", n, cred)>> \o rest)
    BY DEF SetUser, Locked
  <1> HIDE DEF cred, rest
  <1>4. QED BY <1>1, <1>2, <1>3, SaveUserKeeps

LEMMA SetUserStatusKeeps ==
  ASSUME IAMInv, NEW n \in Names, NEW status \in {"on", "off"}, SetUserStatus(n, status)
  PROVE  IAMInv'
  <1> DEFINE cred == Cred("user", status, NoDoc)
  <1>1. n \notin Temp
    BY KindsFit DEF SetUserStatus
  <1>2. cred \in CredsFor(n)
    BY <1>1 DEF CredsFor, Cred, Creds
  <1>3. LockedUnless(IsServiceAccount(n), <<SaveUser("user", n, cred)>>)
    BY DEF SetUserStatus
  <1> HIDE DEF cred
  <1>4. QED BY <1>2, <1>3, OneUserKeeps

LEMMA SetUserSecretKeyKeeps ==
  ASSUME IAMInv, NEW n \in Names, SetUserSecretKey(n)
  PROVE  IAMInv'
  <1>1. sys.users[n] \in CredsFor(n)
    BY KindsFit DEF SetUserSecretKey
  <1>2. LockedUnless(IsServiceAccount(n), <<SaveUser("user", n, sys.users[n])>>)
    BY DEF SetUserSecretKey
  <1>3. QED BY <1>1, <1>2, OneUserKeeps

LEMMA SetTempUserKeeps ==
  ASSUME IAMInv, NEW n \in Temp, SetTempUser(n)
  PROVE  IAMInv'
  <1>1. n \in Names /\ TempCred \in CredsFor(n)
    BY NamesAssumption DEF Names, CredsFor, TempCred, Cred, Creds
  <1>2. LockedUnless(FALSE, <<SaveUser("sts", n, TempCred)>>)
    BY DEF SetTempUser, Locked, TempCred
  <1>3. QED BY <1>1, <1>2, OneUserKeeps

LEMMA NewServiceAccountKeeps ==
  ASSUME IAMInv, NEW n \in Service, NEW parent \in Names, NewServiceAccount(n, parent)
  PROVE  IAMInv'
  <1> DEFINE cred == Cred("svc", "on", parent)
  <1>1. n \in Names /\ cred \in CredsFor(n)
    BY NamesAssumption DEF Names, CredsFor, Cred, Creds
  <1>2. LockedUnless(FALSE, <<SaveUser("svc", n, cred)>>)
    BY DEF NewServiceAccount, Locked
  <1> HIDE DEF cred
  <1>3. QED BY <1>1, <1>2, OneUserKeeps

LEMMA DeleteServiceAccountKeeps ==
  ASSUME IAMInv, NEW n \in Service, DeleteServiceAccount(n)
  PROVE  IAMInv'
  <1>1. Fine(AccountGoes(n, "abort"))
    BY DEF Fine, AccountSteps
  <1>2. LockedUnless(FALSE, <<AccountGoes(n, "abort")>>)
    BY DEF DeleteServiceAccount, Locked, AccountGoes
  <1>3. QED BY <1>1, <1>2, OneStep, LockedStep

\* A group that is known.
LEMMA GroupKnown ==
  ASSUME IAMInv, NEW g \in Groups
  PROVE  /\ sys.groups[g] # NoDoc => sys.groups[g] \in GroupDocs
         /\ sys.memberOf \in [Names -> SUBSET Groups]
         /\ sys.groups[g] # NoDoc =>
              /\ \A n \in sys.groups[g].members : n \in Names /\ g \in sys.memberOf[n]
              /\ ~stained => \A n \in Names : g \in sys.memberOf[n] => n \in sys.groups[g].members
         /\ (sys.groups[g] = NoDoc /\ ~stained) => \A n \in Names : g \notin sys.memberOf[n]
  <1>1. /\ sys.groups[g] \in GroupDocs \cup {NoDoc}
        /\ sys.memberOf \in [Names -> SUBSET Groups]
    BY DEF IAMInv, IAMTypes, SysTypes
  <1>2. sys.groups[g] # NoDoc => sys.groups[g].members \subseteq Names
    BY <1>1 DEF GroupDocs
  <1>3. /\ \A n \in Names : MembersOf(sys.groups, n) \subseteq sys.memberOf[n]
        /\ ~stained => \A n \in Names : sys.memberOf[n] = MembersOf(sys.groups, n)
    BY DEF IAMInv, GroupsFit
  <1>4. QED BY <1>1, <1>2, <1>3 DEF MembersOf

\* When a step saves a group with the memberships that go with it.
LEMMA GroupSaved ==
  ASSUME NEW s, NEW g \in Groups, NEW doc \in GroupDocs, NEW names \in SUBSET Names,
         NEW to \in [Names -> SUBSET Groups],
         s = Step(<<"group", g>>, doc,
                  {Put("groups", g, doc)} \cup {Put("memberOf", n, to[n]) : n \in names}, "abort"),
         \A n \in names : to[n] \ {g} = sys.memberOf[n] \ {g},
         \A n \in doc.members : g \in IF n \in names THEN to[n] ELSE sys.memberOf[n],
         ~stained => \A n \in Names : (g \in IF n \in names THEN to[n] ELSE sys.memberOf[n])
                                        => n \in doc.members
  PROVE  SavesGroup(s)
  BY DEF SavesGroup

LEMMA AddUsersToGroupKeeps ==
  ASSUME IAMInv, NEW g \in Groups, NEW n \in Names, AddUsersToGroup(g, {n})
  PROVE  IAMInv'
  <1> DEFINE old == IF sys.groups[g] = NoDoc THEN Group({}, "enabled") ELSE sys.groups[g]
             gi == [old EXCEPT !.members = @ \cup {n}]
             s == Step(<<"group", g>>, gi,
                       {Put("groups", g, gi)}
                         \cup {Put("memberOf", m, sys.memberOf[m] \cup {g}) : m \in {n}}, "abort")
             to == [m \in Names |-> sys.memberOf[m] \cup {g}]
  <1>1. /\ todo = << >> /\ Do(<<s>>)
        /\ deleting' = [m \in Names |-> IF m \in {n} /\ deleting[m] # NoDoc
                                        THEN [deleting[m] EXCEPT !.doubt = TRUE] ELSE deleting[m]]
    BY DEF AddUsersToGroup, Change
  <1>2. old \in GroupDocs
    BY GroupKnown DEF Group, GroupDocs
  <1>3. /\ \A m \in old.members : m \in Names /\ g \in sys.memberOf[m]
        /\ ~stained => \A m \in Names : g \in sys.memberOf[m] => m \in old.members
    BY GroupKnown DEF Group
  <1> HIDE DEF old
  <1>4. gi \in GroupDocs /\ gi.members = old.members \cup {n}
    BY <1>2 DEF GroupDocs
  <1>5. to \in [Names -> SUBSET Groups] /\ \A m \in Names : to[m] = sys.memberOf[m] \cup {g}
    BY GroupKnown
  <1> HIDE DEF gi, to
  <1>6. {Put("memberOf", m, sys.memberOf[m] \cup {g}) : m \in {n}} =
          {Put("memberOf", m, to[m]) : m \in {n}}
    BY <1>5
  <1>7. s = Step(<<"group", g>>, gi,
                 {Put("groups", g, gi)} \cup {Put("memberOf", m, to[m]) : m \in {n}}, "abort")
    BY <1>6
  <1> HIDE DEF s
  <1>8. SavesGroup(s)
    <2> DEFINE now(m) == IF m \in {n} THEN to[m] ELSE sys.memberOf[m]
    <2>1. \A m \in {n} : to[m] \ {g} = sys.memberOf[m] \ {g}
      BY <1>5
    <2>2. \A m \in gi.members : g \in now(m)
      BY <1>3, <1>4, <1>5
    <2>3. ~stained => \A m \in Names : g \in now(m) => m \in gi.members
      BY <1>3, <1>4
    <2>4. gi \in GroupDocs /\ {n} \in SUBSET Names /\ to \in [Names -> SUBSET Groups]
      BY <1>4, <1>5
    <2>5. QED BY <1>7, <2>1, <2>2, <2>3, <2>4, GroupSaved
  <1>9. DeletingFits'
    <2>1. DeletingFits
      BY DEF IAMInv, IAMTypes
    <2>2. \A m \in Names : deleting[m] # NoDoc => [deleting[m] EXCEPT !.doubt = TRUE] \in Deletions
      BY <2>1 DEF DeletingFits, Deletions
    <2>3. deleting' \in [Names -> Deletions \cup {NoDoc}]
      BY <1>1, <2>1, <2>2 DEF DeletingFits
    <2>4. \A m \in Temp : deleting'[m] = NoDoc
      BY <1>1, <2>1 DEF DeletingFits, Names
    <2>5. QED BY <2>3, <2>4 DEF DeletingFits
  <1>10. QED BY <1>1, <1>8, <1>9, OneStep, LockedFine DEF Fine

\* A member leaves a group, or an empty group goes.
LEMMA RemovalKeeps ==
  ASSUME IAMInv, NEW g \in Groups, NEW members, members = {} \/ \E n \in Names : members = {n},
         sys.groups[g] # NoDoc, members = {} => sys.groups[g].members = {},
         todo = << >>, Do(RemovalOf(g, members)), DeletingFits'
  PROVE  IAMInv'
  <1>1. CASE members = {}
    <2> DEFINE s == Step(<<"gmap", g>>, NoDoc, {}, "abort")
    <2>1. RemovalOf(g, members) = <<s, GroupGoes(g)>>
      BY <1>1 DEF RemovalOf, GroupGoes
    <2>2. QED BY <1>1, <2>1, GroupRemoved
  <1>2. ASSUME NEW n \in Names, members = {n} PROVE IAMInv'
    <2> DEFINE gi == [sys.groups[g] EXCEPT !.members = @ \ {n}]
               to == [m \in Names |-> sys.memberOf[m] \ {g}]
               s == Step(<<"group", g>>, gi,
                         {Put("groups", g, gi)}
                           \cup {Put("memberOf", m, sys.memberOf[m] \ {g}) : m \in {n}}, "abort")
    <2>1. RemovalOf(g, members) = <<s>>
      BY <1>2 DEF RemovalOf
    <2>2. gi \in GroupDocs /\ gi.members = sys.groups[g].members \ {n}
      BY GroupKnown DEF GroupDocs
    <2>3. to \in [Names -> SUBSET Groups] /\ \A m \in Names : to[m] = sys.memberOf[m] \ {g}
      BY GroupKnown
    <2> HIDE DEF gi, to
    <2>4. {Put("memberOf", m, sys.memberOf[m] \ {g}) : m \in {n}} =
            {Put("memberOf", m, to[m]) : m \in {n}}
      BY <2>3
    <2>5. s = Step(<<"group", g>>, gi,
                   {Put("groups", g, gi)} \cup {Put("memberOf", m, to[m]) : m \in {n}}, "abort")
      BY <2>4
    <2> HIDE DEF s
    <2>6. SavesGroup(s)
      <3> DEFINE now(m) == IF m \in {n} THEN to[m] ELSE sys.memberOf[m]
      <3>1. \A m \in {n} : to[m] \ {g} = sys.memberOf[m] \ {g}
        BY <2>3
      <3>2. \A m \in gi.members : g \in now(m)
        BY <2>2, GroupKnown
      <3>3. ~stained => \A m \in Names : g \in now(m) => m \in gi.members
        BY <2>2, <2>3, GroupKnown
      <3>4. {n} \in SUBSET Names OBVIOUS
      <3>5. QED BY <2>2, <2>3, <2>5, <3>1, <3>2, <3>3, <3>4 DEF SavesGroup
    <2>7. QED BY <2>1, <2>6, OneStep, LockedFine DEF Fine
  <1>3. QED BY <1>1, <1>2

LEMMA RemoveUsersFromGroupKeeps ==
  ASSUME IAMInv, NEW g \in Groups, NEW members, members = {} \/ \E n \in Names : members = {n},
         RemoveUsersFromGroup(g, members)
  PROVE  IAMInv'
  <1>1. DeletingFits'
    BY DEF IAMInv, IAMTypes, DeletingFits, RemoveUsersFromGroup, Locked, LockedUnless
  <1>2. QED BY <1>1, RemovalKeeps DEF RemoveUsersFromGroup, Locked, LockedUnless, Change

LEMMA SetGroupStatusKeeps ==
  ASSUME IAMInv, NEW g \in Groups, NEW status \in {"enabled", "disabled"},
         SetGroupStatus(g, status)
  PROVE  IAMInv'
  <1> DEFINE gi == [sys.groups[g] EXCEPT !.status = status]
             s == Step(<<"group", g>>, gi, {Put("groups", g, gi)}, "abort")
  <1>1. sys.groups[g] # NoDoc /\ LockedUnless(FALSE, <<s>>)
    BY DEF SetGroupStatus, Locked
  <1>2. gi \in GroupDocs /\ gi.members = sys.groups[g].members
    BY <1>1, GroupKnown DEF GroupDocs
  <1> HIDE DEF gi
  <1>3. s = Step(<<"group", g>>, gi,
                 {Put("groups", g, gi)} \cup {Put("memberOf", m, sys.memberOf[m]) : m \in {}}, "abort")
    OBVIOUS
  <1> HIDE DEF s
  <1>4. SavesGroup(s)
    <2>1. /\ {} \in SUBSET Names /\ sys.memberOf \in [Names -> SUBSET Groups]
          /\ \A m \in gi.members : g \in sys.memberOf[m]
          /\ ~stained => \A m \in Names : g \in sys.memberOf[m] => m \in gi.members
      BY <1>1, <1>2, GroupKnown
    <2>2. QED BY <1>2, <1>3, <2>1, ZenonT(60) DEF SavesGroup
  <1>5. QED BY <1>1, <1>4, OneStep, LockedStep DEF Fine

\* DeleteUser only notes what it has to do.
LEMMA DeletingStays ==
  ASSUME IAMInv, UNCHANGED <<store, sys, todo, load, overtaken, stale, stained>>, DeletingFits'
  PROVE  IAMInv'
  <1>1. IAMTypes' /\ UsersFit(sys)' /\ UsersFit(load.sys)'
    BY DEF IAMInv, IAMTypes, UsersFit
  <1>2. \A path : Doc(path)' = Doc(path)
    BY DEF Doc
  <1>3. /\ \A n : LoadedUser(n, {})' = LoadedUser(n, {})
        /\ \A p : LoadedPolicy(p)' = LoadedPolicy(p)
    BY DEF LoadedUser, LoadedPolicy, Doc
  <1>4. DocsFit' /\ GroupsFit'
    BY <1>2 DEF IAMInv, DocsFit, GroupsFit
  <1>5. TodoFits'
    BY <1>2 DEF IAMInv, TodoFits
  <1>6. LoadAgrees'
    BY <1>2, <1>3 DEF IAMInv, LoadAgrees
  <1>7. SysAgrees'
    <2>1. UsersAgree' = UsersAgree
      BY <1>3 DEF UsersAgree
    <2>2. GroupsAgree' = GroupsAgree
      BY <1>2 DEF GroupsAgree
    <2>3. PoliciesAgree' = PoliciesAgree
      BY <1>3 DEF PoliciesAgree
    <2>4. MappingsAgree' = MappingsAgree
      BY <1>2 DEF MappingsAgree, Leaving
    <2>5. QED BY <2>1, <2>2, <2>3, <2>4 DEF IAMInv, SysAgrees
  <1>8. QED BY <1>1, <1>4, <1>5, <1>6, <1>7 DEF IAMInv

LEMMA DeleteUserKeeps ==
  ASSUME IAMInv, NEW n \in Names, DeleteUser(n)
  PROVE  IAMInv'
  <1>1. n \notin Temp
    BY KindsFit DEF DeleteUser
  <1>2. [groups |-> sys.memberOf[n], doubt |-> stale] \in Deletions
    BY DEF IAMInv, IAMTypes, SysTypes, Deletions
  <1>3. DeletingFits'
    BY <1>1, <1>2 DEF IAMInv, IAMTypes, DeletingFits, DeleteUser
  <1>4. QED BY <1>3, DeletingStays DEF DeleteUser, history

\* DeleteUser returns.
LEMMA ReturnsFits ==
  ASSUME IAMInv, NEW n \in Names, DeleteUserReturns(n)
  PROVE  DeletingFits'
  BY DEF IAMInv, IAMTypes, DeletingFits, DeleteUserReturns

LEMMA DeleteUserLeavesKeeps ==
  ASSUME IAMInv, NEW n \in Names, NEW g \in Groups, DeleteUserLeaves(n, g)
  PROVE  IAMInv'
  <1>1. DeletingFits
    BY DEF IAMInv, IAMTypes
  <1>2. DeletingFits'
    <2>1. CASE DeleteUserReturns(n)
      BY <2>1, ReturnsFits
    <2>2. CASE deleting' = [deleting EXCEPT ![n].groups = @ \ {g}]
      <3>1. deleting[n] \in Deletions
        BY <1>1 DEF DeletingFits, DeleteUserLeaves
      <3>2. [deleting[n] EXCEPT !.groups = @ \ {g}] \in Deletions
        BY <3>1 DEF Deletions
      <3>3. n \notin Temp
        BY <1>1 DEF DeletingFits, DeleteUserLeaves
      <3>4. deleting' = [deleting EXCEPT ![n] = [deleting[n] EXCEPT !.groups = @ \ {g}]]
        BY <2>2
      <3>5. QED BY <1>1, <3>2, <3>3, <3>4 DEF DeletingFits
    <2>3. QED BY <2>1, <2>2 DEF DeleteUserLeaves
  <1>3. QED BY <1>2, RemovalKeeps DEF DeleteUserLeaves

LEMMA DeleteUserFailsKeeps ==
  ASSUME IAMInv, NEW n \in Names, NEW g \in Groups, DeleteUserFails(n, g)
  PROVE  IAMInv'
  BY ReturnsFits, DeletingStays DEF DeleteUserFails, history

LEMMA DeleteUserEndsKeeps ==
  ASSUME IAMInv, NEW n \in Names, DeleteUserEnds(n)
  PROVE  IAMInv'
  <1> DEFINE accounts == {a \in Names : IsServiceAccount(a) /\ sys.users[a].parent = n}
             A == {Step(<<"svc", a>>, NoDoc, {Put("users", a, NoDoc)}, "force") : a \in accounts}
             s == Step(<<"umap", n>>, NoDoc, {}, "force")
  <1>1. /\ todo = << >> /\ deleting[n] # NoDoc /\ DeleteUserReturns(n)
        /\ Do(<<s, UserGoes(n)>> \o SetToSeq(A))
    BY DEF DeleteUserEnds, UserGoes
  <1>2. n \notin Temp
    BY <1>1 DEF IAMInv, IAMTypes, DeletingFits
  <1>3. accounts \subseteq Service
    BY KindsFit
  <1>4. A \subseteq AccountSteps
    <2>1. \A a \in accounts :
            Step(<<"svc", a>>, NoDoc, {Put("users", a, NoDoc)}, "force") = AccountGoes(a, "force")
      BY DEF AccountGoes
    <2>2. \A a \in Service : AccountGoes(a, "force") \in AccountSteps
      BY DEF AccountSteps
    <2> HIDE DEF accounts
    <2>3. QED BY <1>3, <2>1, <2>2
  <1>5. IsFiniteSet(A)
    <2>1. IsFiniteSet(accounts)
      BY FiniteAssumption, FS_Subset
    <2>2. [a \in accounts |-> Step(<<"svc", a>>, NoDoc, {Put("users", a, NoDoc)}, "force")]
            \in Surjection(accounts, A)
      BY DEF Surjection
    <2>3. QED BY <2>1, <2>2, FS_Surjection
  <1> HIDE DEF A, s
  <1>6. SetToSeq(A) \in Seq(AccountSteps)
    BY <1>4, <1>5, SetToSeqIs
  <1>7. QED BY <1>1, <1>2, <1>6, ReturnsFits, UserRemoved DEF s

LEMMA GoOnKeeps ==
  ASSUME IAMInv, GoOn
  PROVE  IAMInv'
  <1>1. todo # << >> /\ Do(todo) /\ deleting' = deleting
    BY DEF GoOn
  <1>2. DeletingFits'
    BY <1>1 DEF IAMInv, IAMTypes, DeletingFits
  <1>3. ~stale => AgreeBut(Leaves(Head(todo), "umap"), Leaves(Head(todo), "gmap"))
    BY <1>1, AgreeNow
  <1>4. Fine(Head(todo)) /\ Tail(todo) \in Seq(LaterSteps)
    <2>1. CASE todo \in Seq(LaterSteps)
      <3>1. Head(todo) \in LaterSteps /\ Tail(todo) \in Seq(LaterSteps)
        BY <1>1, <2>1
      <3>2. QED BY <3>1 DEF Fine, LaterSteps
    <2>2. ASSUME NEW g \in Groups, todo = <<GroupGoes(g)>>, stale \/ Doc(<<"gmap", g>>) = NoDoc,
                 sys.groups[g] # NoDoc => sys.groups[g].members = {}
          PROVE  Fine(Head(todo)) /\ Tail(todo) \in Seq(LaterSteps)
      BY <2>2, OneStep DEF Fine
    <2>3. ASSUME NEW n \in Names \ Temp, NEW rest \in Seq(AccountSteps),
                 todo = <<UserGoes(n)>> \o rest, stale \/ Doc(<<"umap", n>>) = NoDoc
          PROVE  Fine(Head(todo)) /\ Tail(todo) \in Seq(LaterSteps)
      <3>1. rest \in Seq(LaterSteps)
        BY DEF LaterSteps
      <3>2. Head(todo) = UserGoes(n) /\ Tail(todo) = rest
        BY <2>3, <3>1, FirstAndLater
      <3>3. QED BY <2>3, <3>1, <3>2 DEF Fine
    <2>4. QED BY <2>1, <2>2, <2>3 DEF IAMInv, TodoFits, LaterSteps
  <1>5. QED BY <1>1, <1>2, <1>3, <1>4, DoFine

-----------------------------------------------------------------------------
(* Loading *)

\* Only what loadAll has read changes.
LEMMA LoadOnly ==
  ASSUME IAMInv, UNCHANGED <<store, sys, todo, deleting, stale, stained>>,
         overtaken' \in BOOLEAN, load' \in [pc : LoadPcs, sys : SysTypes],
         UsersFit(load.sys)', LoadAgrees'
  PROVE  IAMInv'
  <1>1. IAMTypes' /\ UsersFit(sys)'
    BY DEF IAMInv, IAMTypes, UsersFit, DeletingFits
  <1>2. \A path : Doc(path)' = Doc(path)
    BY DEF Doc
  <1>3. /\ \A n : LoadedUser(n, {})' = LoadedUser(n, {})
        /\ \A p : LoadedPolicy(p)' = LoadedPolicy(p)
    BY DEF LoadedUser, LoadedPolicy, Doc
  <1>4. DocsFit' /\ GroupsFit'
    BY <1>2 DEF IAMInv, DocsFit, GroupsFit
  <1>5. TodoFits'
    BY <1>2 DEF IAMInv, TodoFits
  <1>6. SysAgrees'
    <2>1. UsersAgree' = UsersAgree
      BY <1>3 DEF UsersAgree
    <2>2. GroupsAgree' = GroupsAgree
      BY <1>2 DEF GroupsAgree
    <2>3. PoliciesAgree' = PoliciesAgree
      BY <1>3 DEF PoliciesAgree
    <2>4. MappingsAgree' = MappingsAgree
      BY <1>2 DEF MappingsAgree, Leaving
    <2>5. QED BY <2>1, <2>2, <2>3, <2>4 DEF IAMInv, SysAgrees
  <1>7. QED BY <1>1, <1>4, <1>5, <1>6 DEF IAMInv

\* Nothing is in memory.
LEMMA EmptyIs ==
  /\ Empty \in SysTypes /\ UsersFit(Empty)
  /\ \A g \in Groups : Empty.groups[g] = NoDoc
  /\ \A n \in Names : Empty.memberOf[n] = {}
  <1>1. Empty \in SysTypes
    BY DEF Empty, SysTypes, PolicyDocs, OptPolicies
  <1>2. QED BY <1>1 DEF Empty, UsersFit

LEMMA NotLoadingIs ==
  /\ NotLoading \in [pc : LoadPcs, sys : SysTypes] /\ NotLoading.pc = "idle"
  /\ NotLoading.sys = Empty
  BY EmptyIs DEF NotLoading, LoadPcs

LEMMA LoadStartsFits ==
  ASSUME load' = [NotLoading EXCEPT !.pc = "policies"]
  PROVE  /\ load' \in [pc : LoadPcs, sys : SysTypes] /\ UsersFit(load.sys)' /\ LoadAgrees'
  <1>1. /\ load' \in [pc : LoadPcs, sys : SysTypes] /\ load'.pc = "policies" /\ load'.sys = Empty
    BY NotLoadingIs DEF LoadPcs
  <1>2. UsersFit(load.sys)'
    BY <1>1, EmptyIs DEF UsersFit
  <1>3. LoadAgrees'
    BY <1>1 DEF LoadAgrees
  <1>4. QED BY <1>1, <1>2, <1>3

LEMMA LoadStartKeeps ==
  ASSUME IAMInv, LoadStart
  PROVE  IAMInv'
  BY LoadStartsFits, LoadOnly DEF LoadStart

LEMMA LoadFailsKeeps ==
  ASSUME IAMInv, LoadFails
  PROVE  IAMInv'
  <1>1. load' = NotLoading /\ overtaken' = overtaken
    BY DEF LoadFails, history
  <1>2. UsersFit(load.sys)'
    BY <1>1, NotLoadingIs, EmptyIs DEF UsersFit
  <1>3. LoadAgrees'
    BY <1>1, NotLoadingIs DEF LoadAgrees
  <1>4. QED BY <1>1, <1>2, <1>3, NotLoadingIs, LoadOnly DEF LoadFails, history, IAMInv, IAMTypes

LEMMA LoadPolicyDocsKeeps ==
  ASSUME IAMInv, LoadPolicyDocs
  PROVE  IAMInv'
  <1> DEFINE docs == [p \in Policies |-> LoadedPolicy(p)]
  <1>1. docs \in [Policies -> PolicyDocs]
    BY DEF IAMInv, DocsFit, LoadedPolicy, PolicyDocs
  <1> HIDE DEF docs
  <1>2. load \in [pc : LoadPcs, sys : SysTypes]
    BY DEF IAMInv, IAMTypes
  <1>3. load' = [load EXCEPT !.pc = "users", !.sys.docs = docs] /\ overtaken' = overtaken
    BY DEF LoadPolicyDocs, docs, history
  <1>4. [load.sys EXCEPT !.docs = docs] \in SysTypes
    BY <1>1, <1>2 DEF SysTypes
  <1>5. /\ load' \in [pc : LoadPcs, sys : SysTypes] /\ load'.pc = "users"
        /\ load'.sys = [load.sys EXCEPT !.docs = docs]
    BY <1>2, <1>3, <1>4 DEF LoadPcs
  <1>6. load'.sys.docs = docs /\ load'.sys.users = load.sys.users
    BY <1>2, <1>5 DEF SysTypes
  <1>7. UsersFit(load.sys)'
    BY <1>6 DEF IAMInv, UsersFit
  <1>8. LoadAgrees'
    <2>1. \A p : LoadedPolicy(p)' = LoadedPolicy(p)
      BY DEF LoadedPolicy, Doc, LoadPolicyDocs
    <2>2. QED BY <1>5, <1>6, <2>1 DEF LoadAgrees, docs
  <1>9. QED BY <1>3, <1>5, <1>7, <1>8, LoadOnly DEF LoadPolicyDocs, history, IAMInv, IAMTypes

LEMMA LoadGroupsKeeps ==
  ASSUME IAMInv, LoadGroups
  PROVE  IAMInv'
  <1> DEFINE groups == [g \in Groups |-> Doc(<<"group", g>>)]
  <1>1. groups \in [Groups -> GroupDocs \cup {NoDoc}]
    BY DEF IAMInv, DocsFit
  <1>2. \A g \in Groups : groups[g] = Doc(<<"group", g>>) OBVIOUS
  <1> HIDE DEF groups
  <1>3. load \in [pc : LoadPcs, sys : SysTypes]
    BY DEF IAMInv, IAMTypes
  <1>4. /\ load' = [load EXCEPT !.pc = "mappings", !.sys.groups = groups]
        /\ overtaken' = overtaken /\ load.pc = "groups"
    BY DEF LoadGroups, groups, history
  <1>5. [load.sys EXCEPT !.groups = groups] \in SysTypes
    BY <1>1, <1>3 DEF SysTypes
  <1>6. /\ load' \in [pc : LoadPcs, sys : SysTypes] /\ load'.pc = "mappings"
        /\ load'.sys = [load.sys EXCEPT !.groups = groups]
    BY <1>3, <1>4, <1>5 DEF LoadPcs
  <1>7. /\ load'.sys.groups = groups /\ load'.sys.users = load.sys.users
        /\ load'.sys.docs = load.sys.docs
    BY <1>3, <1>6 DEF SysTypes
  <1>8. UsersFit(load.sys)'
    BY <1>7 DEF IAMInv, UsersFit
  <1>9. LoadAgrees'
    <2>1. /\ \A p : LoadedPolicy(p)' = LoadedPolicy(p)
          /\ \A n : LoadedUser(n, {})' = LoadedUser(n, {})
          /\ \A path : Doc(path)' = Doc(path)
      BY DEF LoadedPolicy, LoadedUser, Doc, LoadGroups
    <2>2. QED BY <1>2, <1>4, <1>6, <1>7, <2>1 DEF IAMInv, LoadAgrees
  <1>10. QED BY <1>4, <1>6, <1>8, <1>9, LoadOnly DEF LoadGroups, history, IAMInv, IAMTypes

LEMMA LoadMappedPoliciesKeeps ==
  ASSUME IAMInv, LoadMappedPolicies
  PROVE  IAMInv'
  <1> DEFINE umap == [n \in Names |-> LoadedMapping(n)]
             gmap == [g \in Groups |-> Doc(<<"gmap", g>>)]
  <1>1. \A n \in Names : umap[n] = Doc(<<"umap", n>>)
    BY DEF IAMInv, DocsFit, LoadedMapping
  <1>2. umap \in [Names -> OptPolicies]
    BY <1>1 DEF IAMInv, DocsFit
  <1>3. gmap \in [Groups -> OptPolicies] /\ \A g \in Groups : gmap[g] = Doc(<<"gmap", g>>)
    BY DEF IAMInv, DocsFit
  <1> HIDE DEF umap, gmap
  <1>4. load \in [pc : LoadPcs, sys : SysTypes]
    BY DEF IAMInv, IAMTypes
  <1>5. /\ load' = [load EXCEPT !.pc = "swap", !.sys.umap = umap, !.sys.gmap = gmap]
        /\ overtaken' = overtaken /\ load.pc = "mappings"
    BY DEF LoadMappedPolicies, umap, gmap, history
  <1>6. [load.sys EXCEPT !.umap = umap, !.gmap = gmap] \in SysTypes
    BY <1>2, <1>3, <1>4 DEF SysTypes
  <1>7. /\ load' \in [pc : LoadPcs, sys : SysTypes] /\ load'.pc = "swap"
        /\ load'.sys = [load.sys EXCEPT !.umap = umap, !.gmap = gmap]
    BY <1>4, <1>5, <1>6 DEF LoadPcs
  <1>8. /\ load'.sys.groups = load.sys.groups /\ load'.sys.users = load.sys.users
        /\ load'.sys.docs = load.sys.docs /\ load'.sys.umap = umap /\ load'.sys.gmap = gmap
    BY <1>4, <1>7 DEF SysTypes
  <1>9. UsersFit(load.sys)'
    BY <1>8 DEF IAMInv, UsersFit
  <1>10. LoadAgrees'
    <2>1. /\ \A p : LoadedPolicy(p)' = LoadedPolicy(p)
          /\ \A n : LoadedUser(n, {})' = LoadedUser(n, {})
          /\ \A path : Doc(path)' = Doc(path)
      BY DEF LoadedPolicy, LoadedUser, Doc, LoadMappedPolicies
    <2>2. QED BY <1>1, <1>3, <1>5, <1>7, <1>8, <2>1 DEF IAMInv, LoadAgrees
  <1>11. QED BY <1>5, <1>7, <1>9, <1>10, LoadOnly DEF LoadMappedPolicies, history, IAMInv, IAMTypes

LEMMA LoadUsersKeeps ==
  ASSUME IAMInv, NEW expired \in SUBSET Temp, LoadUsers(expired)
  PROVE  IAMInv'
  <1> DEFINE gone == {path \in Paths : path[2] \in expired /\ path[1] \in {"user", "sts"}}
             mapped == {IF path[1] = "sts" THEN <<"stsmap", path[2]>> ELSE <<"umap", path[2]>> :
                          path \in {q \in gone : store[q] # NoDoc}}
             users == [n \in Names |-> LoadedUser(n, expired)]
             dropped == gone \cup mapped
  <1>1. /\ store' = [path \in Paths |-> IF path \in dropped THEN NoDoc ELSE store[path]]
        /\ load' = [load EXCEPT !.pc = "groups", !.sys.users = users]
        /\ stale' = (stale \/ expired # {}) /\ load.pc = "users"
        /\ UNCHANGED <<sys, todo, deleting, overtaken, stained>>
    BY DEF LoadUsers
  <1>2. /\ \A n \in Names : <<"user", n>> \in dropped <=> n \in expired
        /\ \A n \in Temp : <<"sts", n>> \in dropped <=> n \in expired
        /\ \A n : /\ <<"svc", n>> \notin dropped /\ <<"group", n>> \notin dropped
                  /\ <<"gmap", n>> \notin dropped /\ <<"policy", n>> \notin dropped
        /\ expired = {} => dropped = {}
    <2>1. \A path \in mapped : path[1] \in {"stsmap", "umap"} OBVIOUS
    <2>2. expired = {} => mapped = {} OBVIOUS
    <2> HIDE DEF mapped
    <2>3. QED BY <2>1, <2>2, PathsAre DEF Names
  <1> HIDE DEF dropped
  <1>3. store \in [Paths -> Files] /\ DocsFit /\ load \in [pc : LoadPcs, sys : SysTypes]
    BY DEF IAMInv, IAMTypes
  <1>4. /\ store' \in [Paths -> Files]
        /\ \A path \in Paths : Doc(path)' = IF path \in dropped THEN NoDoc ELSE Doc(path)
    BY <1>1, <1>3 DEF Doc, Files
  <1>5. /\ \A n \in Names : /\ Doc(<<"user", n>>)' = IF n \in expired THEN NoDoc ELSE Doc(<<"user", n>>)
                            /\ Doc(<<"umap", n>>)' \in {NoDoc, Doc(<<"umap", n>>)}
        /\ \A n \in Temp : /\ Doc(<<"sts", n>>)' = IF n \in expired THEN NoDoc ELSE Doc(<<"sts", n>>)
                           /\ Doc(<<"stsmap", n>>)' \in {NoDoc, Doc(<<"stsmap", n>>)}
    BY <1>2, <1>4, PathsAre
  <1>6. /\ \A n \in Service : Doc(<<"svc", n>>)' = Doc(<<"svc", n>>)
        /\ \A g \in Groups : /\ Doc(<<"group", g>>)' = Doc(<<"group", g>>)
                             /\ Doc(<<"gmap", g>>)' = Doc(<<"gmap", g>>)
        /\ \A p \in Policies : Doc(<<"policy", p>>)' = Doc(<<"policy", p>>)
    BY <1>2, <1>4, PathsAre
  <1>7. DocsFit'
    BY <1>3, <1>5, <1>6 DEF DocsFit, OptPolicies
  <1>8. /\ \A n \in Names \ expired : LoadedUser(n, {})' = LoadedUser(n, {})
        /\ \A n \in Names \ expired : LoadedUser(n, expired) = LoadedUser(n, {})
        /\ \A n \in expired : LoadedUser(n, {})' = NoDoc /\ LoadedUser(n, expired) = NoDoc
    <2>1. \A n \in Names \ expired : LoadedUser(n, {})' = LoadedUser(n, {})
      BY <1>5, <1>6, LoadedUserKept
    <2>2. \A n \in Names \ expired : LoadedUser(n, expired) = LoadedUser(n, {})
      BY DEF LoadedUser
    <2>3. \A n \in expired : LoadedUser(n, expired) = NoDoc
      BY DEF LoadedUser
    <2>4. \A n \in expired : LoadedUser(n, {})' = NoDoc
      BY <1>5, LoadedUserIsNext DEF UsersFromPaths, Names
    <2>5. QED BY <2>1, <2>2, <2>3, <2>4
  <1>9. \A n \in Names : users[n] \in CredsFor(n) \cup {NoDoc} /\ users[n] = LoadedUser(n, {})'
    <2>1. \A n \in Names : LoadedUser(n, {}) \in CredsFor(n) \cup {NoDoc}
      <3>1. \A n \in Temp : TempCred \in CredsFor(n)
        BY NamesAssumption DEF CredsFor, TempCred, Cred, Creds
      <3>2. QED BY <1>3, <3>1, LoadedUserIs, ZenonT(60) DEF DocsFit, UsersFromPaths, Names
    <2>2. \A n \in Names : users[n] = LoadedUser(n, {})'
      BY <1>8 DEF Names
    <2>3. QED BY <1>8, <2>1, <2>2
  <1>10. users \in [Names -> Creds \cup {NoDoc}]
    BY <1>9 DEF CredsFor
  <1> HIDE DEF users
  <1>11. [load.sys EXCEPT !.users = users] \in SysTypes
    BY <1>3, <1>10 DEF SysTypes
  <1>12. /\ load' \in [pc : LoadPcs, sys : SysTypes] /\ load'.pc = "groups"
         /\ load'.sys = [load.sys EXCEPT !.users = users]
    BY <1>1, <1>3, <1>11 DEF LoadPcs
  <1>13. load'.sys.users = users /\ load'.sys.docs = load.sys.docs
    BY <1>3, <1>12 DEF SysTypes
  <1>14. IAMTypes' /\ UsersFit(sys)' /\ UsersFit(load.sys)'
    <2>1. IAMTypes'
      BY <1>1, <1>4, <1>12 DEF IAMInv, IAMTypes, DeletingFits
    <2>2. UsersFit(sys)'
      BY <1>1 DEF IAMInv, UsersFit
    <2>3. UsersFit(load.sys)'
      BY <1>9, <1>13 DEF UsersFit
    <2>4. QED BY <2>1, <2>2, <2>3
  <1>15. LoadAgrees'
    <2>1. \A p \in Policies : LoadedPolicy(p)' = LoadedPolicy(p)
      BY <1>6 DEF LoadedPolicy
    <2>2. QED BY <1>1, <1>9, <1>12, <1>13, <2>1 DEF IAMInv, LoadAgrees
  <1>16. GroupsFit'
    BY <1>1, <1>6 DEF IAMInv, GroupsFit
  <1>17. TodoFits'
    <2>1. CASE todo \in Seq(MapSteps \cup AccountSteps)
      BY <1>1, <2>1 DEF TodoFits
    <2>2. ASSUME NEW g \in Groups, todo = <<GroupGoes(g)>>, stale \/ Doc(<<"gmap", g>>) = NoDoc,
                 sys.groups[g] # NoDoc => sys.groups[g].members = {}
          PROVE  TodoFits'
      BY <1>1, <1>6, <2>2 DEF TodoFits
    <2>3. ASSUME NEW n \in Names \ Temp, NEW rest \in Seq(AccountSteps),
                 todo = <<UserGoes(n)>> \o rest, stale \/ Doc(<<"umap", n>>) = NoDoc
          PROVE  TodoFits'
      <3>1. stale' \/ Doc(<<"umap", n>>)' = NoDoc
        BY <1>1, <1>5, <2>3
      <3>2. QED BY <1>1, <2>3, <3>1 DEF TodoFits
    <2>4. QED BY <2>1, <2>2, <2>3 DEF IAMInv, TodoFits
  <1>18. SysAgrees'
    <2>1. SUFFICES ASSUME ~stale' PROVE UsersAgree' /\ GroupsAgree' /\ PoliciesAgree' /\ MappingsAgree'
      BY DEF SysAgrees
    <2>2. ~stale /\ expired = {}
      BY <1>1, <2>1
    <2>3. UsersAgree /\ GroupsAgree /\ PoliciesAgree /\ MappingsAgree
      BY <2>2 DEF IAMInv, SysAgrees
    <2>4. \A path \in Paths : Doc(path)' = Doc(path)
      BY <1>2, <1>4, <2>2
    <2>5. UsersAgree'
      BY <1>1, <1>8, <2>2, <2>3 DEF UsersAgree, Names
    <2>6. GroupsAgree'
      BY <1>1, <1>6, <2>3 DEF GroupsAgree
    <2>7. PoliciesAgree'
      BY <1>1, <1>6, <2>3 DEF PoliciesAgree, LoadedPolicy
    <2>8. \A n \in Names : Doc(<<"umap", n>>)' = Doc(<<"umap", n>>)
      BY <2>4, PathsAre
    <2>9. MappingsAgree'
      BY <1>1, <1>6, <2>3, <2>8 DEF MappingsAgree, Leaving
    <2>10. QED BY <2>5, <2>6, <2>7, <2>9
  <1>19. QED BY <1>7, <1>14, <1>15, <1>16, <1>17, <1>18 DEF IAMInv

LEMMA LoadSwapKeeps ==
  ASSUME IAMInv, LoadSwap
  PROVE  IAMInv'
  <1> DEFINE memberOf == [n \in Names |-> sys.memberOf[n] \cup MembersOf(load.sys.groups, n)]
  <1>1. /\ sys \in SysTypes /\ load \in [pc : LoadPcs, sys : SysTypes]
        /\ overtaken \in BOOLEAN /\ stained \in BOOLEAN
    BY DEF IAMInv, IAMTypes
  <1>2. /\ load.pc = "swap" /\ todo = << >>
        /\ sys' = [load.sys EXCEPT !.nil = FALSE, !.memberOf = memberOf]
        /\ load' = NotLoading /\ stale' = overtaken /\ stained' = (stained \/ overtaken)
        /\ UNCHANGED <<store, todo, deleting, overtaken>>
    BY DEF LoadSwap
  <1>3. /\ memberOf \in [Names -> SUBSET Groups]
        /\ \A n \in Names : memberOf[n] = sys.memberOf[n] \cup MembersOf(load.sys.groups, n)
    BY <1>1 DEF SysTypes, MembersOf
  <1> HIDE DEF memberOf
  <1>4. /\ sys' \in SysTypes /\ sys'.memberOf = memberOf
        /\ sys'.users = load.sys.users /\ sys'.groups = load.sys.groups
        /\ sys'.docs = load.sys.docs /\ sys'.umap = load.sys.umap /\ sys'.gmap = load.sys.gmap
    BY <1>1, <1>2, <1>3 DEF SysTypes
  <1>5. \A path : Doc(path)' = Doc(path)
    BY <1>2 DEF Doc
  <1>6. IAMTypes' /\ DocsFit' /\ UsersFit(sys)' /\ UsersFit(load.sys)'
    <2>1. stained' \in BOOLEAN
      BY <1>1, <1>2
    <2>2. IAMTypes'
      BY <1>1, <1>2, <1>4, <2>1, NotLoadingIs DEF IAMInv, IAMTypes, DeletingFits
    <2>3. DocsFit'
      BY <1>5 DEF IAMInv, DocsFit
    <2>4. UsersFit(sys)'
      BY <1>4 DEF IAMInv, UsersFit
    <2>5. UsersFit(load.sys)'
      BY <1>2, NotLoadingIs, EmptyIs DEF UsersFit
    <2>6. QED BY <2>2, <2>3, <2>4, <2>5
  <1>7. TodoFits'
    BY <1>2 DEF TodoFits
  <1>8. LoadAgrees'
    BY <1>2, NotLoadingIs DEF LoadAgrees
  <1>9. SysAgrees'
    <2>1. SUFFICES ASSUME ~stale' PROVE UsersAgree' /\ GroupsAgree' /\ PoliciesAgree' /\ MappingsAgree'
      BY DEF SysAgrees
    <2>2. /\ \A p \in Policies : load.sys.docs[p] = LoadedPolicy(p)
          /\ \A n \in Names : /\ load.sys.users[n] = LoadedUser(n, {})
                              /\ load.sys.umap[n] = Doc(<<"umap", n>>)
          /\ \A g \in Groups : /\ load.sys.groups[g] = Doc(<<"group", g>>)
                               /\ load.sys.gmap[g] = Doc(<<"gmap", g>>)
      BY <1>2, <2>1 DEF IAMInv, LoadAgrees
    <2>3. /\ \A p : LoadedPolicy(p)' = LoadedPolicy(p)
          /\ \A n : LoadedUser(n, {})' = LoadedUser(n, {})
      BY <1>2 DEF LoadedPolicy, LoadedUser, Doc
    <2>4. UsersAgree'
      BY <1>4, <2>2, <2>3 DEF UsersAgree, Names
    <2>5. GroupsAgree' /\ PoliciesAgree'
      BY <1>4, <1>5, <2>2, <2>3 DEF GroupsAgree, PoliciesAgree
    <2>6. MappingsAgree'
      BY <1>4, <1>5, <2>2 DEF MappingsAgree
    <2>7. QED BY <2>4, <2>5, <2>6
  <1>10. GroupsFit'
    <2>1. \A n \in Names : MembersOf(sys.groups, n)' = MembersOf(load.sys.groups, n)
      BY <1>4 DEF MembersOf
    <2>2. \A n \in Names : MembersOf(sys.groups, n)' \subseteq sys'.memberOf[n]
      BY <1>3, <1>4, <2>1
    <2>3. ASSUME ~stained' PROVE \A g \in Groups : sys'.groups[g] = Doc(<<"group", g>>)
      BY <1>2, <1>4, <2>3 DEF IAMInv, LoadAgrees
    <2>4. ASSUME ~stained', NEW n \in Names PROVE sys'.memberOf[n] = MembersOf(sys.groups, n)'
      <3>1. \A g \in Groups : sys.groups[g] \in {NoDoc, load.sys.groups[g]}
        BY <1>2, <1>4, <2>3, <2>4 DEF IAMInv, GroupsFit
      <3>2. sys.memberOf[n] = MembersOf(sys.groups, n)
        BY <1>2, <2>4 DEF IAMInv, GroupsFit
      <3>3. MembersOf(sys.groups, n) \subseteq MembersOf(load.sys.groups, n)
        BY <3>1 DEF MembersOf
      <3>4. sys'.memberOf[n] = sys.memberOf[n] \cup MembersOf(load.sys.groups, n)
        BY <1>3, <1>4
      <3>5. QED BY <2>1, <3>2, <3>3, <3>4
    <2>5. QED BY <1>5, <2>2, <2>3, <2>4 DEF GroupsFit
  <1>11. QED BY <1>6, <1>7, <1>8, <1>9, <1>10 DEF IAMInv

\* Only memory changes, while nobody holds the lock.
LEMMA MemoryOnly ==
  ASSUME IAMInv, todo = << >>, UNCHANGED <<store, todo, deleting, load, overtaken, stale, stained>>,
         sys' \in SysTypes, UsersFit(sys)', GroupsFit', ~stale => AgreeBut({}, {})'
  PROVE  IAMInv'
  <1>1. \A path : Doc(path)' = Doc(path)
    BY DEF Doc
  <1>2. /\ \A p : LoadedPolicy(p)' = LoadedPolicy(p)
        /\ \A n : LoadedUser(n, {})' = LoadedUser(n, {})
    BY DEF LoadedPolicy, LoadedUser, Doc
  <1>3. IAMTypes' /\ UsersFit(load.sys)'
    BY DEF IAMInv, IAMTypes, DeletingFits, UsersFit
  <1>4. DocsFit'
    BY <1>1 DEF IAMInv, DocsFit
  <1>5. TodoFits'
    BY DEF TodoFits
  <1>6. LoadAgrees'
    BY <1>1, <1>2 DEF IAMInv, LoadAgrees
  <1>7. SysAgrees'
    BY DEF SysAgrees, AgreeBut, MappingsAgree
  <1>8. QED BY <1>3, <1>4, <1>5, <1>6, <1>7 DEF IAMInv

LEMMA LoadGroupKeeps ==
  ASSUME IAMInv, NEW g \in Groups, LoadGroup(g)
  PROVE  IAMInv'
  <1> DEFINE doc == Doc(<<"group", g>>)
             to == [n \in Names |-> (sys.memberOf[n] \ {g})
                                      \cup (IF n \in doc.members THEN {g} ELSE {})]
  <1>1. /\ todo = << >> /\ store[<<"group", g>>] # NoDoc
        /\ UNCHANGED <<store, todo, deleting, load, overtaken, stale, stained>>
        /\ sys' = Applied(sys, {Put("groups", g, doc)}
             \cup {Put("memberOf", n, (sys.memberOf[n] \ {g})
                     \cup (IF n \in doc.members THEN {g} ELSE {})) : n \in Names})
    BY DEF LoadGroup, history
  <1>2. sys \in SysTypes /\ store \in [Paths -> Files]
    BY DEF IAMInv, IAMTypes
  <1>3. doc # NoDoc
    <2>1. store[<<"group", g>>] \in [doc : Documents, size : Nat]
      BY <1>1, <1>2, PathsAre DEF Files
    <2>2. QED BY <1>1, <2>1, NoDocAssumption DEF Doc
  <1>4. doc \in GroupDocs
    BY <1>3 DEF IAMInv, DocsFit
  <1>5. \A q : Doc(q)' = Doc(q)
    BY <1>1 DEF Doc
  <1>6. Doc(<<"group", g>>)' = doc
    BY <1>5
  <1> HIDE DEF doc
  <1>7. /\ to \in [Names -> SUBSET Groups]
        /\ \A n \in Names : to[n] = (sys.memberOf[n] \ {g})
                                      \cup (IF n \in doc.members THEN {g} ELSE {})
    BY <1>2 DEF SysTypes
  <1> HIDE DEF to
  <1>8. {Put("memberOf", n, (sys.memberOf[n] \ {g})
            \cup (IF n \in doc.members THEN {g} ELSE {})) : n \in Names}
          = {Put("memberOf", n, to[n]) : n \in Names}
    BY <1>7
  <1>9. sys' = Applied(sys, {Put("groups", g, doc)} \cup {Put("memberOf", n, to[n]) : n \in Names})
    BY <1>1, <1>8
  <1>10. /\ sys' \in SysTypes /\ sys'.groups = [sys.groups EXCEPT ![g] = doc]
         /\ sys'.memberOf = [n \in Names |-> IF n \in Names THEN to[n] ELSE sys.memberOf[n]]
         /\ sys'.users = sys.users /\ sys'.docs = sys.docs /\ sys'.umap = sys.umap
         /\ sys'.gmap = sys.gmap
    <2>1. Names \in SUBSET Names OBVIOUS
    <2>2. QED BY <1>2, <1>4, <1>7, <1>9, <2>1, AppliedMembers
  <1>11. /\ \A x \in Groups : sys'.groups[x] = IF x = g THEN doc ELSE sys.groups[x]
         /\ \A n \in Names : sys'.memberOf[n] = (sys.memberOf[n] \ {g})
                                                  \cup (IF n \in doc.members THEN {g} ELSE {})
    BY <1>2, <1>7, <1>10 DEF SysTypes
  <1>12. UsersFit(sys)'
    BY <1>10 DEF IAMInv, UsersFit
  <1>13. GroupsFit'
    <2>1. \A n \in Names : MembersOf(sys.groups, n)' =
            (MembersOf(sys.groups, n) \ {g}) \cup (IF n \in doc.members THEN {g} ELSE {})
      BY <1>3, <1>11 DEF MembersOf
    <2>2. \A n \in Names : MembersOf(sys.groups, n)' \subseteq sys'.memberOf[n]
      BY <1>11, <2>1 DEF IAMInv, GroupsFit
    <2>3. ASSUME ~stained', NEW n \in Names PROVE sys'.memberOf[n] = MembersOf(sys.groups, n)'
      <3>1. sys.memberOf[n] = MembersOf(sys.groups, n)
        BY <1>1, <2>3 DEF IAMInv, GroupsFit
      <3>2. QED BY <1>11, <2>1, <3>1
    <2>4. ~stained' => \A x \in Groups : sys'.groups[x] \in {NoDoc, Doc(<<"group", x>>)'}
      BY <1>1, <1>5, <1>6, <1>11 DEF IAMInv, GroupsFit
    <2>5. QED BY <2>2, <2>3, <2>4 DEF GroupsFit
  <1>14. ASSUME ~stale PROVE AgreeBut({}, {})'
    <2>1. AgreeBut({}, {})
      BY <1>1, <1>14, AgreeNow
    <2>2. /\ \A p : LoadedPolicy(p)' = LoadedPolicy(p)
          /\ \A n : LoadedUser(n, {})' = LoadedUser(n, {})
      BY <1>1 DEF LoadedPolicy, LoadedUser, Doc
    <2>3. GroupsAgree'
      BY <1>5, <1>6, <1>11, <2>1 DEF AgreeBut, GroupsAgree
    <2>4. UsersAgree'
      BY <1>10, <2>1, <2>2 DEF AgreeBut, UsersAgree
    <2>5. PoliciesAgree'
      BY <1>10, <2>1, <2>2 DEF AgreeBut, PoliciesAgree
    <2>6. QED BY <1>5, <1>10, <2>1, <2>3, <2>4, <2>5 DEF AgreeBut
  <1>15. QED BY <1>1, <1>10, <1>12, <1>13, <1>14, MemoryOnly

\* A path is a kind and a name.
LEMMA PathCases ==
  ASSUME NEW path \in Paths
  PROVE  \/ \E n \in Names : path = <<"user", n>> \/ path = <<"umap", n>>
         \/ \E n \in Temp : path = <<"sts", n>> \/ path = <<"stsmap", n>>
         \/ \E n \in Service : path = <<"svc", n>>
         \/ \E g \in Groups : path = <<"group", g>> \/ path = <<"gmap", g>>
         \/ \E p \in Policies : path = <<"policy", p>>
  BY DEF Paths

UserKinds == {"user", "sts", "svc"}

\* Users are loaded from the store, and some mappings with them.
LEMMA UserReloaded ==
  ASSUME IAMInv, todo = << >>, UNCHANGED <<store, todo, deleting, load, overtaken, stale, stained>>,
         NEW kind \in UserKinds, NEW n \in Names,
         kind = "sts" => n \in Temp, kind = "svc" => n \in Service,
         NEW doc, doc = Doc(<<kind, n>>), doc # NoDoc, sys' \in SysTypes,
         sys'.users = [sys.users EXCEPT ![n] = doc], sys'.groups = sys.groups,
         sys'.docs = sys.docs, sys'.gmap = sys.gmap, sys'.memberOf = sys.memberOf,
         \A m \in Names : sys'.umap[m] = sys.umap[m] \/ sys'.umap[m] = Doc(<<"umap", m>>)
  PROVE  IAMInv'
  <1>1. \A q : Doc(q)' = Doc(q)
    BY DEF Doc
  <1>2. /\ \A p : LoadedPolicy(p)' = LoadedPolicy(p)
        /\ \A m : LoadedUser(m, {})' = LoadedUser(m, {})
    BY DEF LoadedPolicy, LoadedUser, Doc
  <1>3. doc \in CredsFor(n)
    <2>1. n \in Temp => TempCred \in CredsFor(n)
      BY NamesAssumption DEF CredsFor, TempCred, Cred, Creds
    <2>2. QED BY <2>1 DEF IAMInv, DocsFit, UserKinds
  <1>4. \A m \in Names : sys'.users[m] = IF m = n THEN doc ELSE sys.users[m]
    BY DEF IAMInv, IAMTypes, SysTypes
  <1>5. UsersFit(sys)'
    BY <1>3, <1>4 DEF IAMInv, UsersFit
  <1>6. GroupsFit'
    BY <1>1 DEF IAMInv, GroupsFit
  <1>7. /\ n \in Regular \cup Temp => LoadedUser(n, {}) = doc
        /\ n \in Service => LoadedUser(n, {}) # NoDoc
    <2>1. CASE n \in Regular
      BY <2>1, LoadedUserIs, NamesAssumption DEF UsersFromPaths, UserKinds
    <2>2. CASE n \in Temp
      <3>1. doc = TempCred /\ Doc(<<"user", n>>) \in {TempCred, NoDoc}
        BY <1>3, <2>2 DEF IAMInv, DocsFit, CredsFor
      <3>2. kind \in {"user", "sts"}
        BY <2>2, NamesAssumption DEF UserKinds
      <3>3. QED BY <2>2, <3>1, <3>2, LoadedUserIs, NamesAssumption DEF UsersFromPaths
    <2>3. CASE n \in Service
      BY <2>3, LoadedUserIs, NamesAssumption DEF UsersFromPaths, UserKinds
    <2>4. QED BY <2>1, <2>2, <2>3 DEF Names
  <1>8. ASSUME ~stale PROVE AgreeBut({}, {})'
    <2>1. AgreeBut({}, {})
      BY <1>8, AgreeNow
    <2>2. UsersAgree'
      BY <1>2, <1>3, <1>4, <1>7, <2>1, NamesAssumption DEF AgreeBut, UsersAgree, Names
    <2>3. GroupsAgree' /\ PoliciesAgree'
      BY <1>1, <1>2, <2>1 DEF AgreeBut, GroupsAgree, PoliciesAgree
    <2>4. \A x \in Names : \/ sys'.umap[x] = Doc(<<"umap", x>>)'
                           \/ x \in Temp /\ sys'.umap[x] = NoDoc
      BY <1>1, <2>1 DEF AgreeBut
    <2>5. \A g \in Groups : sys'.gmap[g] = Doc(<<"gmap", g>>)'
      BY <1>1, <2>1 DEF AgreeBut
    <2>6. QED BY <2>2, <2>3, <2>4, <2>5 DEF AgreeBut
  <1>9. QED BY <1>5, <1>6, <1>8, MemoryOnly

\* A policy or a mapping is loaded from the store.
LEMMA EntryReloaded ==
  ASSUME IAMInv, todo = << >>, UNCHANGED <<store, todo, deleting, load, overtaken, stale, stained>>,
         sys' \in SysTypes, sys'.users = sys.users, sys'.groups = sys.groups,
         sys'.memberOf = sys.memberOf,
         \A p \in Policies : sys'.docs[p] = sys.docs[p] \/ sys'.docs[p] = LoadedPolicy(p),
         \A m \in Names : sys'.umap[m] = sys.umap[m] \/ sys'.umap[m] = Doc(<<"umap", m>>),
         \A g \in Groups : sys'.gmap[g] = sys.gmap[g] \/ sys'.gmap[g] = Doc(<<"gmap", g>>)
  PROVE  IAMInv'
  <1>1. \A q : Doc(q)' = Doc(q)
    BY DEF Doc
  <1>2. /\ \A p : LoadedPolicy(p)' = LoadedPolicy(p)
        /\ \A m : LoadedUser(m, {})' = LoadedUser(m, {})
    BY DEF LoadedPolicy, LoadedUser, Doc
  <1>3. UsersFit(sys)' /\ GroupsFit'
    BY <1>1 DEF IAMInv, UsersFit, GroupsFit
  <1>4. ASSUME ~stale PROVE AgreeBut({}, {})'
    <2>1. AgreeBut({}, {})
      BY <1>4, AgreeNow
    <2>2. UsersAgree' /\ GroupsAgree'
      BY <1>1, <1>2, <2>1 DEF AgreeBut, UsersAgree, GroupsAgree
    <2>3. PoliciesAgree'
      BY <1>2, <2>1 DEF AgreeBut, PoliciesAgree
    <2>4. \A x \in Names : \/ sys'.umap[x] = Doc(<<"umap", x>>)'
                           \/ x \in Temp /\ sys'.umap[x] = NoDoc
      BY <1>1, <2>1 DEF AgreeBut
    <2>5. \A g \in Groups : sys'.gmap[g] = Doc(<<"gmap", g>>)'
      BY <1>1, <2>1 DEF AgreeBut
    <2>6. QED BY <2>2, <2>3, <2>4, <2>5 DEF AgreeBut
  <1>5. QED BY <1>3, <1>4, MemoryOnly

LEMMA LoadEntryKeeps ==
  ASSUME IAMInv, NEW path \in Paths, LoadEntry(path)
  PROVE  IAMInv'
  <1> DEFINE map == CASE path[1] \in {"user", "sts", "svc"} -> "users"
                      [] path[1] = "policy" -> "docs"
                      [] OTHER -> path[1]
             mapping == CASE path[1] = "user" -> Doc(<<"umap", path[2]>>)
                          [] path[1] = "sts" -> Doc(<<"stsmap", path[2]>>)
                          [] OTHER -> NoDoc
             doc == Doc(path)
  <1>1. /\ todo = << >> /\ path[1] \notin {"group", "stsmap"} /\ store[path] # NoDoc
        /\ UNCHANGED <<store, todo, deleting, load, overtaken, stale, stained>>
        /\ sys' = Applied(sys, {Put(map, path[2], doc)}
                                 \cup IF mapping = NoDoc THEN {}
                                      ELSE {Put("umap", path[2], mapping)})
    BY DEF LoadEntry, history
  <1>2. sys \in SysTypes /\ store \in [Paths -> Files] /\ DocsFit
    BY DEF IAMInv, IAMTypes
  <1>3. doc # NoDoc
    <2>1. store[path] \in [doc : Documents, size : Nat]
      BY <1>1, <1>2 DEF Files
    <2>2. QED BY <1>1, <2>1, NoDocAssumption DEF Doc
  <1> HIDE DEF doc
  <1>4. ASSUME NEW kind \in {"user", "sts", "svc"}, NEW n \in Names, path = <<kind, n>>,
               kind = "sts" => n \in Temp, kind = "svc" => n \in Service
        PROVE  IAMInv'
    <2>0. /\ kind \in UserKinds /\ todo = << >>
          /\ UNCHANGED <<store, todo, deleting, load, overtaken, stale, stained>>
      BY <1>1 DEF UserKinds
    <2>1. map = "users" /\ path[2] = n
      BY <1>4
    <2>2. mapping = IF kind = "user" THEN Doc(<<"umap", n>>) ELSE NoDoc
      BY <1>2, <1>4 DEF DocsFit
    <2> HIDE DEF map, mapping
    <2>3. doc \in Creds
      <3>1. TempCred \in Creds /\ \A c \in CredsFor(n) : c \in Creds
        BY DEF TempCred, Cred, Creds, CredsFor
      <3>2. doc \in CredsFor(n) \/ doc = TempCred
        BY <1>2, <1>3, <1>4 DEF DocsFit, doc
      <3>3. QED BY <3>1, <3>2
    <2>4. CASE mapping = NoDoc
      <3>1. sys' = Applied(sys, {Put("users", n, doc)})
        BY <1>1, <2>1, <2>4
      <3>2. /\ sys' \in SysTypes /\ sys'.users = [sys.users EXCEPT ![n] = doc]
            /\ sys'.groups = sys.groups /\ sys'.docs = sys.docs /\ sys'.umap = sys.umap
            /\ sys'.gmap = sys.gmap /\ sys'.memberOf = sys.memberOf
        BY <1>2, <2>3, <3>1, AppliedUser
      <3>3. doc = Doc(<<kind, n>>)
        BY <1>4 DEF doc
      <3>4. \A m \in Names : sys'.umap[m] = sys.umap[m] \/ sys'.umap[m] = Doc(<<"umap", m>>)
        BY <3>2
      <3>5. QED BY <1>3, <1>4, <2>0, <3>2, <3>3, <3>4, UserReloaded
    <2>5. CASE mapping # NoDoc
      <3>1. sys' = Applied(sys, {Put("users", n, doc), Put("umap", n, mapping)})
        <4>1. {Put("users", n, doc)} \cup {Put("umap", n, mapping)}
                = {Put("users", n, doc), Put("umap", n, mapping)}
          OBVIOUS
        <4>2. QED BY <1>1, <2>1, <2>5, <4>1
      <3>2. mapping = Doc(<<"umap", n>>) /\ mapping \in OptPolicies
        BY <1>2, <2>2, <2>5 DEF DocsFit
      <3>3. /\ sys' \in SysTypes /\ sys'.users = [sys.users EXCEPT ![n] = doc]
            /\ sys'.umap = [sys.umap EXCEPT ![n] = mapping]
            /\ sys'.groups = sys.groups /\ sys'.docs = sys.docs
            /\ sys'.gmap = sys.gmap /\ sys'.memberOf = sys.memberOf
        BY <1>2, <2>3, <3>1, <3>2, AppliedUserAndMap
      <3>4. \A m \in Names : sys'.umap[m] = sys.umap[m] \/ sys'.umap[m] = Doc(<<"umap", m>>)
        BY <1>2, <3>2, <3>3 DEF SysTypes
      <3>5. doc = Doc(<<kind, n>>)
        BY <1>4 DEF doc
      <3>6. QED BY <1>3, <1>4, <2>0, <3>3, <3>4, <3>5, UserReloaded
    <2>6. QED BY <2>4, <2>5
  <1>5. ASSUME NEW p \in Policies, path = <<"policy", p>> PROVE IAMInv'
    <2>1. sys' = Applied(sys, {Put("docs", p, doc)})
      BY <1>1, <1>5
    <2>2. doc = LoadedPolicy(p) /\ doc \in PolicyDocs
      BY <1>2, <1>3, <1>5 DEF DocsFit, LoadedPolicy, PolicyDocs, doc
    <2>3. /\ sys' \in SysTypes /\ sys'.docs = [sys.docs EXCEPT ![p] = doc]
          /\ sys'.users = sys.users /\ sys'.groups = sys.groups /\ sys'.umap = sys.umap
          /\ sys'.gmap = sys.gmap /\ sys'.memberOf = sys.memberOf
      BY <1>2, <2>1, <2>2, AppliedPolicy
    <2>4. \A x \in Policies : sys'.docs[x] = sys.docs[x] \/ sys'.docs[x] = LoadedPolicy(x)
      BY <1>2, <2>2, <2>3 DEF SysTypes
    <2>5. QED BY <1>1, <2>3, <2>4, EntryReloaded
  <1>6. ASSUME NEW n \in Names, path = <<"umap", n>> PROVE IAMInv'
    <2>1. sys' = Applied(sys, {Put("umap", n, doc)})
      BY <1>1, <1>6
    <2>2. doc = Doc(<<"umap", n>>) /\ doc \in OptPolicies
      BY <1>2, <1>6 DEF DocsFit, doc
    <2>3. /\ sys' \in SysTypes /\ sys'.umap = [sys.umap EXCEPT ![n] = doc]
          /\ sys'.users = sys.users /\ sys'.groups = sys.groups /\ sys'.docs = sys.docs
          /\ sys'.gmap = sys.gmap /\ sys'.memberOf = sys.memberOf
      BY <1>2, <2>1, <2>2, AppliedUserMap
    <2>4. \A x \in Names : sys'.umap[x] = sys.umap[x] \/ sys'.umap[x] = Doc(<<"umap", x>>)
      BY <1>2, <2>2, <2>3 DEF SysTypes
    <2>5. QED BY <1>1, <2>3, <2>4, EntryReloaded
  <1>7. ASSUME NEW g \in Groups, path = <<"gmap", g>> PROVE IAMInv'
    <2>1. sys' = Applied(sys, {Put("gmap", g, doc)})
      BY <1>1, <1>7
    <2>2. doc = Doc(<<"gmap", g>>) /\ doc \in OptPolicies
      BY <1>2, <1>7 DEF DocsFit, doc
    <2>3. /\ sys' \in SysTypes /\ sys'.gmap = [sys.gmap EXCEPT ![g] = doc]
          /\ sys'.users = sys.users /\ sys'.groups = sys.groups /\ sys'.docs = sys.docs
          /\ sys'.umap = sys.umap /\ sys'.memberOf = sys.memberOf
      BY <1>2, <2>1, <2>2, AppliedGroupMap
    <2>4. \A x \in Groups : sys'.gmap[x] = sys.gmap[x] \/ sys'.gmap[x] = Doc(<<"gmap", x>>)
      BY <1>2, <2>2, <2>3 DEF SysTypes
    <2>5. QED BY <1>1, <2>3, <2>4, EntryReloaded
  <1>8. QED BY <1>1, <1>4, <1>5, <1>6, <1>7, PathCases DEF Names

-----------------------------------------------------------------------------
(* The specification *)

\* A process that starts knows nothing.
LEMMA StartFits ==
  ASSUME sys' = Empty, stained' = FALSE
  PROVE  sys' \in SysTypes /\ UsersFit(sys)' /\ GroupsFit'
  <1>1. \A n \in Names : MembersOf(sys.groups, n)' = {}
    BY EmptyIs DEF MembersOf
  <1>2. GroupsFit'
    BY <1>1, EmptyIs DEF GroupsFit
  <1>3. QED BY <1>2, EmptyIs DEF UsersFit

LEMMA RestartKeeps ==
  ASSUME IAMInv, Restart
  PROVE  IAMInv'
  <1>1. /\ sys' = Empty /\ todo' = << >> /\ deleting' = [n \in Names |-> NoDoc]
        /\ load' = [NotLoading EXCEPT !.pc = "policies"] /\ overtaken' = FALSE
        /\ stale' = TRUE /\ stained' = FALSE /\ store' = store
    BY DEF Restart
  <1>2. DeletingFits'
    BY <1>1 DEF DeletingFits, Names
  <1>3. IAMTypes'
    BY <1>1, <1>2, StartFits, LoadStartsFits DEF IAMInv, IAMTypes
  <1>4. DocsFit'
    <2>1. \A path : Doc(path)' = Doc(path)
      BY <1>1 DEF Doc
    <2>2. QED BY <2>1 DEF IAMInv, DocsFit
  <1>5. TodoFits' /\ SysAgrees'
    BY <1>1 DEF TodoFits, SysAgrees
  <1>6. QED BY <1>1, <1>3, <1>4, <1>5, StartFits, LoadStartsFits DEF IAMInv

\* The invariant holds at the start.
LEMMA IAMInvInit ==
  ASSUME Init
  PROVE  IAMInv
  <1>1. /\ load \in [pc : LoadPcs, sys : SysTypes] /\ load.pc = "policies" /\ load.sys = Empty
    BY NotLoadingIs DEF Init, LoadPcs
  <1>2. \A path \in Paths : Doc(path) = NoDoc
    BY DEF Init, Doc
  <1>3. DocsFit
    BY <1>2, PathsAre DEF DocsFit, OptPolicies
  <1>4. DeletingFits
    BY DEF Init, DeletingFits, Names
  <1>5. IAMTypes
    BY <1>1, <1>4, EmptyIs DEF Init, IAMTypes, Files
  <1>6. UsersFit(sys) /\ UsersFit(load.sys)
    BY <1>1, EmptyIs DEF Init
  <1>7. TodoFits /\ SysAgrees
    BY DEF Init, TodoFits, SysAgrees
  <1>8. LoadAgrees
    BY <1>1 DEF LoadAgrees
  <1>9. GroupsFit
    <2>1. \A n \in Names : MembersOf(sys.groups, n) = {}
      BY EmptyIs DEF Init, MembersOf
    <2>2. QED BY <2>1, EmptyIs DEF Init, GroupsFit
  <1>10. QED BY <1>3, <1>5, <1>6, <1>7, <1>8, <1>9 DEF IAMInv

\* Every step keeps it.
LEMMA IAMInvNext ==
  ASSUME IAMInv, [Next]_vars
  PROVE  IAMInv'
  <1>1. CASE Update
    <2>1. ASSUME NEW p \in Policies, SetPolicy(p) \/ DeletePolicy(p) PROVE IAMInv'
      BY <2>1, SetPolicyKeeps, DeletePolicyKeeps
    <2>2. ASSUME NEW n \in Names, NEW p \in OptPolicies, PolicyDBSet(n, p, FALSE) PROVE IAMInv'
      BY <2>2, PolicyDBSetKeeps
    <2>3. ASSUME NEW g \in Groups, NEW p \in OptPolicies, PolicyDBSet(g, p, TRUE) PROVE IAMInv'
      BY <2>3, PolicyDBSetKeeps
    <2>4. ASSUME NEW n \in Regular, NEW status \in {"enabled", "disabled"}, NEW p \in OptPolicies,
                 SetUser(n, status, p)
          PROVE  IAMInv'
      BY <2>4, SetUserKeeps
    <2>5. ASSUME NEW n \in Names, NEW status \in {"on", "off"}, SetUserStatus(n, status)
          PROVE  IAMInv'
      BY <2>5, SetUserStatusKeeps
    <2>6. ASSUME NEW n \in Names, SetUserSecretKey(n) \/ DeleteUser(n) PROVE IAMInv'
      BY <2>6, SetUserSecretKeyKeeps, DeleteUserKeeps
    <2>7. ASSUME NEW n \in Temp, SetTempUser(n) PROVE IAMInv'
      BY <2>7, SetTempUserKeeps
    <2>8. ASSUME NEW n \in Service, DeleteServiceAccount(n) PROVE IAMInv'
      BY <2>8, DeleteServiceAccountKeeps
    <2>9. ASSUME NEW n \in Service, NEW parent \in Names \ {n}, NewServiceAccount(n, parent)
          PROVE  IAMInv'
      BY <2>9, NewServiceAccountKeeps
    <2>10. ASSUME NEW g \in Groups, NEW n \in Names,
                  AddUsersToGroup(g, {n}) \/ RemoveUsersFromGroup(g, {n})
           PROVE  IAMInv'
      BY <2>10, AddUsersToGroupKeeps, RemoveUsersFromGroupKeeps
    <2>11. ASSUME NEW g \in Groups, RemoveUsersFromGroup(g, {}) PROVE IAMInv'
      BY <2>11, RemoveUsersFromGroupKeeps
    <2>12. ASSUME NEW g \in Groups, NEW status \in {"enabled", "disabled"}, SetGroupStatus(g, status)
           PROVE  IAMInv'
      BY <2>12, SetGroupStatusKeeps
    <2>13. CASE Restart
      BY <2>13, RestartKeeps
    <2>14. QED
      BY <1>1, <2>1, <2>2, <2>3, <2>4, <2>5, <2>6, <2>7, <2>8, <2>9, <2>10, <2>11, <2>12, <2>13
      DEF Update
  <1>2. CASE Continue
    BY <1>2, GoOnKeeps, DeleteUserEndsKeeps, DeleteUserLeavesKeeps, DeleteUserFailsKeeps DEF Continue
  <1>3. CASE LoadStep
    BY <1>3, LoadStartKeeps, LoadFailsKeeps, LoadPolicyDocsKeeps, LoadGroupsKeeps,
       LoadMappedPoliciesKeeps, LoadSwapKeeps, LoadUsersKeeps DEF LoadStep
  <1>4. CASE LoadOne
    BY <1>4, LoadEntryKeeps, LoadGroupKeeps DEF LoadOne
  <1>5. CASE UNCHANGED vars
    <2>1. DeletingFits'
      BY <1>5 DEF vars, IAMInv, IAMTypes, DeletingFits
    <2>2. QED BY <1>5, <2>1, DeletingStays DEF vars
  <1>6. QED BY <1>1, <1>2, <1>3, <1>4, <1>5 DEF Next

\* In every state memory, store, what is being written and what is being read
\* fit together (IAMSys, iam-object-store.go).
THEOREM IAMInvAlways == Spec => []IAMInv
  <1>1. Init => IAMInv
    BY IAMInvInit
  <1>2. IAMInv /\ [Next]_vars => IAMInv'
    BY IAMInvNext
  <1>3. QED BY <1>1, <1>2, PTL DEF Spec

\* Memory is what is stored, while nobody holds the lock and no load was
\* overtaken, no write failed and something was loaded (IAMSys's methods
\* against loadAll).
THEOREM MapsMatchStoreAlways == Spec => []MapsMatchStore
  <1>1. ASSUME IAMInv PROVE MapsMatchStore
    <2>1. SUFFICES ASSUME todo = << >>, ~stale PROVE MapsAgree
      BY DEF MapsMatchStore
    <2>2. AgreeBut({}, {})
      BY <1>1, <2>1, AgreeNow
    <2>3. \A n \in Names : LoadedMapping(n) = Doc(<<"umap", n>>)
      BY <1>1 DEF IAMInv, DocsFit, LoadedMapping
    <2>4. QED
      BY <2>2, <2>3
      DEF AgreeBut, MapsAgree, UsersAgree, GroupsAgree, PoliciesAgree
  <1>2. QED BY <1>1, IAMInvAlways, PTL

\* Whoever is a member of a group acts under its policy, and a disabled user
\* under none (IsAllowed, PolicyDBGet, buildUserGroupMemberships).
THEOREM PoliciesFollowGroupsAlways == Spec => []PoliciesFollowGroups
  <1>1. ASSUME IAMInv PROVE PoliciesFollowGroups
    <2> DEFINE lists(n, g) == sys.groups[g] # NoDoc /\ sys.groups[g].status = "enabled"
                                /\ n \in sys.groups[g].members
               due(n) == ({sys.umap[n]} \cup {sys.gmap[g] : g \in {h \in Groups : lists(n, h)}})
                           \ {NoDoc}
    <2>1. /\ \A n \in Names : MembersOf(sys.groups, n) \subseteq sys.memberOf[n]
          /\ ~stained => \A n \in Names : sys.memberOf[n] = MembersOf(sys.groups, n)
      BY <1>1 DEF IAMInv, GroupsFit
    <2>2. ASSUME NEW n \in Names, sys.users[n] # NoDoc, sys.users[n].kind = "user"
          PROVE  IF sys.users[n].status \in {"off", "disabled"} THEN EffectivePolicies(n) = {}
                 ELSE due(n) \subseteq EffectivePolicies(n)
      <3>1. ~IsTemp(n) /\ ~IsServiceAccount(n)
        BY <2>2 DEF IsTemp, IsServiceAccount
      <3>2. CASE sys.users[n].status \in {"off", "disabled"}
        BY <2>2, <3>1, <3>2 DEF EffectivePolicies, GetUser, policyDBGet
      <3>3. CASE sys.users[n].status \notin {"off", "disabled"}
        <4>1. EffectivePolicies(n) = policyDBGet(n)
          BY <2>2, <3>1, <3>3 DEF EffectivePolicies, GetUser
        <4>2. \A g \in Groups : lists(n, g) => g \in sys.memberOf[n] /\ sys.groups[g].status # "disabled"
          BY <2>1 DEF MembersOf
        <4>3. due(n) \subseteq policyDBGet(n)
          BY <3>3, <4>2 DEF policyDBGet
        <4>4. QED BY <3>3, <4>1, <4>3
      <3>4. QED BY <3>2, <3>3
    <2>3. QED BY <2>1, <2>2 DEF PoliciesFollowGroups
  <1>2. QED BY <1>1, IAMInvAlways, PTL

-----------------------------------------------------------------------------
(* What is left fits together *)

Unmaps(n) == policyDBSet("umap", n, NoDoc, "skip")
UnmapsGroup(g) == policyDBSet("gmap", g, NoDoc, "skip")

\* The step s is one of the steps.
In(s, steps) == \E i \in 1 .. Len(steps) : steps[i] = s

\* The stored document of the group lists the user.
Lists(g, n) == Doc(<<"group", g>>) # NoDoc /\ n \in Doc(<<"group", g>>).members

\* There is nothing for a new user, or a new group, of the same name to inherit.
NobodyInherits ==
  /\ \A n \in Regular : Doc(<<"user", n>>) = NoDoc =>
       Doc(<<"umap", n>>) = NoDoc /\ \A g \in Groups : ~Lists(g, n)
  /\ \A g \in Groups : Doc(<<"group", g>>) = NoDoc => Doc(<<"gmap", g>>) = NoDoc

\* What policies are mapped exist, or their mappings are still to be deleted.
PoliciesThere ==
  \A p \in Policies :
    /\ \A n \in Names \ Temp : Doc(<<"umap", n>>) = p =>
         LoadedPolicy(p) # NoDoc \/ In(Unmaps(n), todo)
    /\ \A g \in Groups : Doc(<<"gmap", g>>) = p =>
         LoadedPolicy(p) # NoDoc \/ In(UnmapsGroup(g), todo)

\* Service accounts are not taken for users, and have parents.
AccountsFit ==
  \A a \in Service :
    /\ Doc(<<"user", a>>) = NoDoc
    /\ Doc(<<"svc", a>>) # NoDoc => Doc(<<"svc", a>>).kind = "svc"
    /\ \A n \in Regular : (Doc(<<"svc", a>>) # NoDoc /\ Doc(<<"svc", a>>).parent = n) =>
         Doc(<<"user", n>>) # NoDoc \/ In(AccountGoes(a, "force"), todo)

\* The same in memory, which may be without policies that are stored.
MemoryThere ==
  /\ \A a \in Service : sys.users[a] = Doc(<<"svc", a>>)
  /\ \A p \in Policies :
       /\ \A n \in Names \ Temp : sys.umap[n] = p =>
            sys.docs[p] # NoDoc \/ In(Unmaps(n), todo)
       /\ \A g \in Groups : sys.gmap[g] = p =>
            sys.docs[p] # NoDoc \/ In(UnmapsGroup(g), todo)

Whole == NobodyInherits /\ PoliciesThere /\ AccountsFit /\ (~stale => MemoryThere)

\* DeleteUser knows all groups that the user has still to leave.
LeavesAll ==
  \A n \in Regular : (deleting[n] # NoDoc /\ ~deleting[n].doubt) =>
     \A g \in Groups : Lists(g, n) => g \in deleting[n].groups

\* When a policy can be given to a user, and when a user can go.
MayMap(n, p) ==
  /\ n \in Regular => Doc(<<"user", n>>) # NoDoc
  /\ LoadedPolicy(p) # NoDoc
  /\ ~stale => sys.docs[p] # NoDoc

MayGo(n) ==
  /\ Doc(<<"umap", n>>) = NoDoc
  /\ n \in Service => Doc(<<"svc", n>>) = NoDoc
  /\ n \in Regular =>
       /\ \A g \in Groups : ~Lists(g, n)
       /\ \A a \in Service : (Doc(<<"svc", a>>) # NoDoc /\ Doc(<<"svc", a>>).parent = n) =>
            In(AccountGoes(a, "force"), todo)

\* Steps that only take something away, and the next one that is to be done.
Clears ==
  {policyDBSet("umap", n, NoDoc, "skip") : n \in Names}
    \cup {policyDBSet("stsmap", n, NoDoc, "skip") : n \in Temp}
    \cup {policyDBSet("gmap", g, NoDoc, "skip") : g \in Groups}
    \cup {AccountGoes(a, "force") : a \in Service}

HeadReady(s) ==
  \/ s \in Clears
  \/ \E n \in Regular, p \in Policies : s = policyDBSet("umap", n, p, "abort") /\ MayMap(n, p)
  \/ \E g \in Groups : s = GroupGoes(g) /\ Doc(<<"gmap", g>>) = NoDoc
  \/ \E n \in Names \ Temp : s = UserGoes(n) /\ MayGo(n)

TodoReady == todo # << >> => Tail(todo) \in Seq(Clears) /\ HeadReady(Head(todo))

OrphanInv ==
  /\ failures \in Nat
  /\ ~torn => /\ Whole /\ LeavesAll /\ TodoReady
              /\ sys.nil => stale /\ todo = << >>

(* What the steps of a change leave *)

\* What is written, and where.
OnlyDoc(path, doc) == Doc(path)' = doc /\ \A q \in Paths \ {path} : Doc(q)' = Doc(q)

\* A step that is written; the steps before it are those after it and the step.
Wrote(s) ==
  /\ store' = Write(s.path, s.doc) /\ sys' = Applied(sys, s.changes) /\ stale' = stale
  /\ \A x : In(x, todo) => x = s \/ In(x, todo')

\* Documents at other paths stay.
LEMMA DocsKept ==
  ASSUME NEW kind, NEW name, NEW doc, <<kind, name>> \in Paths, OnlyDoc(<<kind, name>>, doc)
  PROVE  /\ \A n \in Names : Doc(<<"user", n>>)' = IF kind = "user" /\ n = name THEN doc
                                                   ELSE Doc(<<"user", n>>)
         /\ \A n \in Names : Doc(<<"umap", n>>)' = IF kind = "umap" /\ n = name THEN doc
                                                   ELSE Doc(<<"umap", n>>)
         /\ \A n \in Service : Doc(<<"svc", n>>)' = IF kind = "svc" /\ n = name THEN doc
                                                    ELSE Doc(<<"svc", n>>)
         /\ \A g \in Groups : Doc(<<"group", g>>)' = IF kind = "group" /\ g = name THEN doc
                                                     ELSE Doc(<<"group", g>>)
         /\ \A g \in Groups : Doc(<<"gmap", g>>)' = IF kind = "gmap" /\ g = name THEN doc
                                                    ELSE Doc(<<"gmap", g>>)
         /\ \A p \in Policies : Doc(<<"policy", p>>)' = IF kind = "policy" /\ p = name THEN doc
                                                        ELSE Doc(<<"policy", p>>)
  <1>1. \A k, n : <<k, n>> \in Paths =>
          Doc(<<k, n>>)' = IF k = kind /\ n = name THEN doc ELSE Doc(<<k, n>>)
    BY DEF OnlyDoc
  <1>2. QED BY <1>1, PathsAre

\* Policies are loaded as before.
LEMMA PoliciesKept ==
  ASSUME \A p \in Policies : Doc(<<"policy", p>>)' = Doc(<<"policy", p>>)
  PROVE  \A p \in Policies : LoadedPolicy(p)' = LoadedPolicy(p)
  BY DEF LoadedPolicy

LEMMA ListsKept ==
  ASSUME \A g \in Groups : Doc(<<"group", g>>)' = Doc(<<"group", g>>)
  PROVE  \A g \in Groups : \A n : Lists(g, n)' <=> Lists(g, n)
  BY DEF Lists

\* What is known of the documents and the maps.
LEMMA TypesOf ==
  ASSUME IAMInv
  PROVE  /\ store \in [Paths -> Files] /\ sys \in SysTypes
         /\ \A n \in Names : Doc(<<"umap", n>>) \in Policies \cup {NoDoc}
         /\ \A g \in Groups : Doc(<<"gmap", g>>) \in Policies \cup {NoDoc}
         /\ \A n \in Names : sys.umap[n] \in Policies \cup {NoDoc}
         /\ \A g \in Groups : sys.gmap[g] \in Policies \cup {NoDoc}
         /\ \A n \in Regular : n \in Names /\ n \notin Temp /\ n \notin Service
         /\ \A n \in Service : n \in Names /\ n \notin Temp /\ n \notin Regular
         /\ Regular \subseteq Names /\ Service \subseteq Names
  BY NamesAssumption DEF IAMInv, IAMTypes, DocsFit, SysTypes, OptPolicies, Names

LEMMA NamesAre ==
  /\ \A n \in Regular : n \in Names /\ n \notin Temp /\ n \notin Service
  /\ \A n \in Service : n \in Names /\ n \notin Temp /\ n \notin Regular
  BY NamesAssumption DEF Names

\* Mapped policies are still there when mappings only go, and policies stay.
LEMMA PoliciesLeft ==
  ASSUME PoliciesThere,
         \A p \in Policies : LoadedPolicy(p) # NoDoc => LoadedPolicy(p)' # NoDoc,
         \A n \in Names \ Temp : Doc(<<"umap", n>>)' # NoDoc =>
           /\ Doc(<<"umap", n>>)' = Doc(<<"umap", n>>)
           /\ In(Unmaps(n), todo) => In(Unmaps(n), todo'),
         \A g \in Groups : Doc(<<"gmap", g>>)' # NoDoc =>
           /\ Doc(<<"gmap", g>>)' = Doc(<<"gmap", g>>)
           /\ In(UnmapsGroup(g), todo) => In(UnmapsGroup(g), todo')
  PROVE  PoliciesThere'
  <1>1. ASSUME NEW p \in Policies PROVE p # NoDoc
    BY NoDocAssumption DEF Documents
  <1>2. ASSUME NEW p \in Policies, NEW n \in Names \ Temp, Doc(<<"umap", n>>)' = p
        PROVE  LoadedPolicy(p)' # NoDoc \/ In(Unmaps(n), todo')
    BY <1>1, <1>2 DEF PoliciesThere
  <1>3. ASSUME NEW p \in Policies, NEW g \in Groups, Doc(<<"gmap", g>>)' = p
        PROVE  LoadedPolicy(p)' # NoDoc \/ In(UnmapsGroup(g), todo')
    BY <1>1, <1>3 DEF PoliciesThere
  <1>4. QED BY <1>2, <1>3 DEF PoliciesThere

\* Service accounts fit when they only go, and users stay.
LEMMA AccountsLeft ==
  ASSUME AccountsFit, \A a \in Service : Doc(<<"user", a>>)' = Doc(<<"user", a>>),
         \A n \in Regular : Doc(<<"user", n>>) # NoDoc => Doc(<<"user", n>>)' # NoDoc,
         \A a \in Service : Doc(<<"svc", a>>)' # NoDoc =>
           /\ Doc(<<"svc", a>>)' = Doc(<<"svc", a>>)
           /\ In(AccountGoes(a, "force"), todo) => In(AccountGoes(a, "force"), todo')
  PROVE  AccountsFit'
  <1>1. ASSUME NEW a \in Service
        PROVE  Doc(<<"user", a>>)' = NoDoc /\ (Doc(<<"svc", a>>)' # NoDoc => Doc(<<"svc", a>>)'.kind = "svc")
    BY DEF AccountsFit
  <1>2. ASSUME NEW a \in Service, NEW n \in Regular, Doc(<<"svc", a>>)' # NoDoc,
               Doc(<<"svc", a>>)'.parent = n
        PROVE  Doc(<<"user", n>>)' # NoDoc \/ In(AccountGoes(a, "force"), todo')
    BY <1>2 DEF AccountsFit
  <1>3. QED BY <1>1, <1>2 DEF AccountsFit

\* The same in memory.
LEMMA MemoryLeft ==
  ASSUME MemoryThere, \A a \in Service : sys'.users[a] = Doc(<<"svc", a>>)',
         \A p \in Policies : sys.docs[p] # NoDoc => sys'.docs[p] # NoDoc,
         \A n \in Names \ Temp : sys'.umap[n] # NoDoc =>
           sys'.umap[n] = sys.umap[n] /\ (In(Unmaps(n), todo) => In(Unmaps(n), todo')),
         \A g \in Groups : sys'.gmap[g] # NoDoc =>
           sys'.gmap[g] = sys.gmap[g] /\ (In(UnmapsGroup(g), todo) => In(UnmapsGroup(g), todo'))
  PROVE  MemoryThere'
  <1>1. ASSUME NEW p \in Policies PROVE p # NoDoc
    BY NoDocAssumption DEF Documents
  <1>2. ASSUME NEW p \in Policies, NEW n \in Names \ Temp, sys'.umap[n] = p
        PROVE  sys'.docs[p] # NoDoc \/ In(Unmaps(n), todo')
    BY <1>1, <1>2 DEF MemoryThere
  <1>3. ASSUME NEW p \in Policies, NEW g \in Groups, sys'.gmap[g] = p
        PROVE  sys'.docs[p] # NoDoc \/ In(UnmapsGroup(g), todo')
    BY <1>1, <1>3 DEF MemoryThere
  <1>4. QED BY <1>2, <1>3 DEF MemoryThere

\* A user is saved.
LEMMA SavesUserWhole ==
  ASSUME IAMInv, Whole, NEW n \in Names \ Service, NEW kind \in {"user", "sts"},
         kind = "sts" => n \in Temp, NEW cred \in Creds, Wrote(SaveUser(kind, n, cred))
  PROVE  Whole'
  <1>0. NobodyInherits /\ PoliciesThere /\ AccountsFit /\ (~stale => MemoryThere)
    BY DEF Whole
  <1>1. <<kind, n>> \in Paths /\ cred \in DocsAt(<<kind, n>>) /\ cred # NoDoc
    BY PathsAre, NoDocAssumption DEF DocsAt, Documents
  <1>2. /\ store' = Write(<<kind, n>>, cred) /\ sys' = Applied(sys, {Put("users", n, cred)})
        /\ stale' = stale /\ \A x : In(x, todo) => x = SaveUser(kind, n, cred) \/ In(x, todo')
    BY DEF Wrote, SaveUser, Step
  <1>3. OnlyDoc(<<kind, n>>, cred)
    BY <1>1, <1>2, TypesOf, WriteIs DEF OnlyDoc
  <1>4. /\ \A m \in Names : Doc(<<"user", m>>)' = IF kind = "user" /\ m = n THEN cred
                                                  ELSE Doc(<<"user", m>>)
        /\ \A m \in Names : Doc(<<"umap", m>>)' = Doc(<<"umap", m>>)
        /\ \A a \in Service : Doc(<<"svc", a>>)' = Doc(<<"svc", a>>)
        /\ \A g \in Groups : /\ Doc(<<"group", g>>)' = Doc(<<"group", g>>)
                             /\ Doc(<<"gmap", g>>)' = Doc(<<"gmap", g>>)
        /\ \A p \in Policies : Doc(<<"policy", p>>)' = Doc(<<"policy", p>>)
    BY <1>1, <1>3, DocsKept
  <1>5. /\ \A p \in Policies : LoadedPolicy(p)' = LoadedPolicy(p)
        /\ \A g \in Groups : \A m : Lists(g, m)' <=> Lists(g, m)
    BY <1>4, PoliciesKept, ListsKept
  <1>6. /\ sys'.users = [sys.users EXCEPT ![n] = cred]
        /\ sys'.docs = sys.docs /\ sys'.umap = sys.umap /\ sys'.gmap = sys.gmap
    BY <1>2, TypesOf, AppliedUser
  <1>7. /\ \A m : In(Unmaps(m), todo) => In(Unmaps(m), todo')
        /\ \A g : In(UnmapsGroup(g), todo) => In(UnmapsGroup(g), todo')
        /\ \A a : In(AccountGoes(a, "force"), todo) => In(AccountGoes(a, "force"), todo')
    BY <1>2 DEF SaveUser, Step, Unmaps, UnmapsGroup, AccountGoes, policyDBSet
  <1>8. NobodyInherits'
    BY <1>1, <1>4, <1>5, <1>0, NamesAre DEF NobodyInherits
  <1>9. PoliciesThere'
    BY <1>4, <1>5, <1>7, <1>0, PoliciesLeft
  <1>10. AccountsFit'
    BY <1>1, <1>4, <1>7, <1>0, NamesAre, AccountsLeft
  <1>11. ~stale' => MemoryThere'
    BY <1>2, <1>4, <1>6, <1>7, <1>0, NamesAre, TypesOf DEF MemoryThere, SysTypes
  <1>12. QED BY <1>8, <1>9, <1>10, <1>11 DEF Whole

\* A service account is made, for a parent that is there, or goes.
LEMMA AccountWhole ==
  ASSUME IAMInv, Whole, NEW a \in Service, NEW cred \in Creds \cup {NoDoc}, NEW s, Wrote(s),
         s.path = <<"svc", a>>, s.doc = cred, s.changes = {Put("users", a, cred)},
         cred # NoDoc => /\ cred.kind = "svc"
                         /\ cred.parent \in Regular => Doc(<<"user", cred.parent>>) # NoDoc
  PROVE  Whole'
  <1>0. NobodyInherits /\ PoliciesThere /\ AccountsFit /\ (~stale => MemoryThere)
    BY DEF Whole
  <1>1. <<"svc", a>> \in Paths /\ cred \in DocsAt(<<"svc", a>>) \cup {NoDoc} /\ a \in Names
    BY PathsAre, TypesOf DEF DocsAt
  <1>2. /\ store' = Write(<<"svc", a>>, cred) /\ sys' = Applied(sys, {Put("users", a, cred)})
        /\ stale' = stale /\ \A x : In(x, todo) => x = s \/ In(x, todo')
    BY DEF Wrote
  <1>3. OnlyDoc(<<"svc", a>>, cred)
    BY <1>1, <1>2, TypesOf, WriteIs DEF OnlyDoc
  <1>4. /\ \A m \in Names : /\ Doc(<<"user", m>>)' = Doc(<<"user", m>>)
                            /\ Doc(<<"umap", m>>)' = Doc(<<"umap", m>>)
        /\ \A b \in Service : Doc(<<"svc", b>>)' = IF b = a THEN cred ELSE Doc(<<"svc", b>>)
        /\ \A g \in Groups : /\ Doc(<<"group", g>>)' = Doc(<<"group", g>>)
                             /\ Doc(<<"gmap", g>>)' = Doc(<<"gmap", g>>)
        /\ \A p \in Policies : Doc(<<"policy", p>>)' = Doc(<<"policy", p>>)
    BY <1>1, <1>3, DocsKept
  <1>5. /\ \A p \in Policies : LoadedPolicy(p)' = LoadedPolicy(p)
        /\ \A g \in Groups : \A m : Lists(g, m)' <=> Lists(g, m)
    BY <1>4, PoliciesKept, ListsKept
  <1>6. /\ sys'.users = [sys.users EXCEPT ![a] = cred]
        /\ sys'.docs = sys.docs /\ sys'.umap = sys.umap /\ sys'.gmap = sys.gmap
    BY <1>1, <1>2, TypesOf, AppliedUser
  <1>7. /\ \A m : In(Unmaps(m), todo) => In(Unmaps(m), todo')
        /\ \A g : In(UnmapsGroup(g), todo) => In(UnmapsGroup(g), todo')
        /\ \A b : b # a /\ In(AccountGoes(b, "force"), todo) => In(AccountGoes(b, "force"), todo')
    <2>1. \A m : Unmaps(m).path # s.path /\ UnmapsGroup(m).path # s.path
      BY DEF Step, Unmaps, UnmapsGroup, policyDBSet
    <2>2. \A b : b # a => AccountGoes(b, "force").path # s.path
      BY DEF Step, AccountGoes
    <2>3. QED BY <1>2, <2>1, <2>2
  <1>8. NobodyInherits'
    BY <1>4, <1>5, <1>0, NamesAre DEF NobodyInherits
  <1>9. PoliciesThere'
    BY <1>4, <1>5, <1>7, <1>0, PoliciesLeft
  <1>10. AccountsFit'
    <2>1. ASSUME NEW b \in Service
          PROVE  /\ Doc(<<"user", b>>)' = NoDoc
                 /\ Doc(<<"svc", b>>)' # NoDoc => Doc(<<"svc", b>>)'.kind = "svc"
      <3>1. CASE b = a
        BY <1>4, <1>0, <3>1, NamesAre DEF AccountsFit
      <3>2. CASE b # a
        <4>1. Doc(<<"user", b>>)' = Doc(<<"user", b>>) /\ Doc(<<"svc", b>>)' = Doc(<<"svc", b>>)
          BY <1>4, <3>2, NamesAre
        <4>2. QED BY <1>0, <4>1 DEF AccountsFit
      <3>3. QED BY <3>1, <3>2
    <2>2. ASSUME NEW b \in Service, NEW n \in Regular, Doc(<<"svc", b>>)' # NoDoc,
                 Doc(<<"svc", b>>)'.parent = n
          PROVE  Doc(<<"user", n>>)' # NoDoc \/ In(AccountGoes(b, "force"), todo')
      <3>1. CASE b = a
        BY <1>4, <2>2, <3>1, NamesAre
      <3>2. CASE b # a
        BY <1>0, <1>4, <1>7, <2>2, <3>2, NamesAre DEF AccountsFit
      <3>3. QED BY <3>1, <3>2
    <2>3. QED BY <2>1, <2>2 DEF AccountsFit
  <1>11. ~stale' => MemoryThere'
    <2>1. \A b \in Service : sys'.users[b] = IF b = a THEN cred ELSE sys.users[b]
      BY <1>6, NamesAre, TypesOf DEF SysTypes
    <2>2. ASSUME ~stale PROVE \A b \in Service : sys'.users[b] = Doc(<<"svc", b>>)'
      BY <1>0, <1>4, <2>1, <2>2 DEF MemoryThere
    <2>3. QED BY <1>0, <1>2, <1>6, <1>7, <2>2, MemoryLeft
  <1>12. QED BY <1>8, <1>9, <1>10, <1>11 DEF Whole

\* A policy is saved, or goes when the mappings of all that have it are to go too.
LEMMA PolicyWhole ==
  ASSUME IAMInv, Whole, NEW p \in Policies, NEW doc \in {"custom", NoDoc}, NEW s, Wrote(s),
         s.path = <<"policy", p>>, s.doc = doc, s.changes = {Put("docs", p, doc)},
         doc = NoDoc =>
           /\ \A n \in Names \ Temp : (Doc(<<"umap", n>>) = p \/ (~stale /\ sys.umap[n] = p))
                                         => In(Unmaps(n), todo')
           /\ \A g \in Groups : (Doc(<<"gmap", g>>) = p \/ (~stale /\ sys.gmap[g] = p))
                                   => In(UnmapsGroup(g), todo')
  PROVE  Whole'
  <1>0. NobodyInherits /\ PoliciesThere /\ AccountsFit /\ (~stale => MemoryThere)
    BY DEF Whole
  <1>1. <<"policy", p>> \in Paths /\ doc \in DocsAt(<<"policy", p>>) \cup {NoDoc}
    BY PathsAre DEF DocsAt
  <1>2. /\ store' = Write(<<"policy", p>>, doc) /\ sys' = Applied(sys, {Put("docs", p, doc)})
        /\ stale' = stale /\ \A x : In(x, todo) => x = s \/ In(x, todo')
    BY DEF Wrote
  <1>3. OnlyDoc(<<"policy", p>>, doc)
    BY <1>1, <1>2, TypesOf, WriteIs DEF OnlyDoc
  <1>4. /\ \A m \in Names : /\ Doc(<<"user", m>>)' = Doc(<<"user", m>>)
                            /\ Doc(<<"umap", m>>)' = Doc(<<"umap", m>>)
        /\ \A b \in Service : Doc(<<"svc", b>>)' = Doc(<<"svc", b>>)
        /\ \A g \in Groups : /\ Doc(<<"group", g>>)' = Doc(<<"group", g>>)
                             /\ Doc(<<"gmap", g>>)' = Doc(<<"gmap", g>>)
        /\ \A q \in Policies : Doc(<<"policy", q>>)' = IF q = p THEN doc ELSE Doc(<<"policy", q>>)
    BY <1>1, <1>3, DocsKept
  <1>5. /\ \A q \in Policies : q # p => LoadedPolicy(q)' = LoadedPolicy(q)
        /\ doc # NoDoc => LoadedPolicy(p)' # NoDoc
        /\ \A g \in Groups : \A m : Lists(g, m)' <=> Lists(g, m)
    BY <1>4, ListsKept DEF LoadedPolicy
  <1>6. /\ sys'.docs = [sys.docs EXCEPT ![p] = doc]
        /\ sys'.users = sys.users /\ sys'.umap = sys.umap /\ sys'.gmap = sys.gmap
    <2>1. sys \in SysTypes /\ doc \in PolicyDocs
      BY TypesOf DEF PolicyDocs
    <2>2. QED BY <1>2, <2>1, AppliedPolicy
  <1>7. /\ \A m : In(Unmaps(m), todo) => In(Unmaps(m), todo')
        /\ \A g : In(UnmapsGroup(g), todo) => In(UnmapsGroup(g), todo')
        /\ \A b : In(AccountGoes(b, "force"), todo) => In(AccountGoes(b, "force"), todo')
    <2>1. \A m : Unmaps(m).path # s.path /\ UnmapsGroup(m).path # s.path
      BY DEF Step, Unmaps, UnmapsGroup, policyDBSet
    <2>2. \A b : AccountGoes(b, "force").path # s.path
      BY DEF Step, AccountGoes
    <2>3. QED BY <1>2, <2>1, <2>2
  <1>8. NobodyInherits'
    BY <1>4, <1>5, <1>0, NamesAre DEF NobodyInherits
  <1>9. PoliciesThere'
    <2>1. ASSUME NEW q \in Policies, NEW n \in Names \ Temp, Doc(<<"umap", n>>)' = q
          PROVE  LoadedPolicy(q)' # NoDoc \/ In(Unmaps(n), todo')
      <3>1. Doc(<<"umap", n>>) = q
        BY <1>4, <2>1
      <3>2. LoadedPolicy(q) # NoDoc \/ In(Unmaps(n), todo)
        BY <1>0, <3>1 DEF PoliciesThere
      <3>3. QED BY <1>5, <1>7, <3>1, <3>2
    <2>2. ASSUME NEW q \in Policies, NEW g \in Groups, Doc(<<"gmap", g>>)' = q
          PROVE  LoadedPolicy(q)' # NoDoc \/ In(UnmapsGroup(g), todo')
      <3>1. Doc(<<"gmap", g>>) = q
        BY <1>4, <2>2
      <3>2. LoadedPolicy(q) # NoDoc \/ In(UnmapsGroup(g), todo)
        BY <1>0, <3>1 DEF PoliciesThere
      <3>3. QED BY <1>5, <1>7, <3>1, <3>2
    <2>3. QED BY <2>1, <2>2 DEF PoliciesThere
  <1>10. AccountsFit'
    BY <1>4, <1>7, <1>0, NamesAre, AccountsLeft
  <1>11. ~stale' => MemoryThere'
    BY <1>2, <1>4, <1>6, <1>7, <1>0, NamesAre, TypesOf DEF MemoryThere, SysTypes
  <1>12. QED BY <1>8, <1>9, <1>10, <1>11 DEF Whole

\* A group is saved; its members are there.
LEMMA GroupWhole ==
  ASSUME IAMInv, Whole, NEW g \in Groups, NEW doc \in GroupDocs, NEW names \in SUBSET Names,
         NEW to \in [Names -> SUBSET Groups], NEW s, Wrote(s),
         s = Step(<<"group", g>>, doc,
                  {Put("groups", g, doc)} \cup {Put("memberOf", n, to[n]) : n \in names}, "abort"),
         \A n \in Regular : n \in doc.members => Doc(<<"user", n>>) # NoDoc
  PROVE  Whole'
  <1>0. NobodyInherits /\ PoliciesThere /\ AccountsFit /\ (~stale => MemoryThere)
    BY DEF Whole
  <1>1. <<"group", g>> \in Paths /\ doc \in DocsAt(<<"group", g>>) /\ doc # NoDoc
    BY PathsAre, NoDocAssumption DEF DocsAt, Documents
  <1>2. /\ store' = Write(<<"group", g>>, doc)
        /\ sys' = Applied(sys, {Put("groups", g, doc)} \cup {Put("memberOf", n, to[n]) : n \in names})
        /\ stale' = stale /\ \A x : In(x, todo) => x = s \/ In(x, todo')
        /\ s.path = <<"group", g>>
    BY DEF Wrote, Step
  <1>3. OnlyDoc(<<"group", g>>, doc)
    BY <1>1, <1>2, TypesOf, WriteIs DEF OnlyDoc
  <1>4. /\ \A m \in Names : /\ Doc(<<"user", m>>)' = Doc(<<"user", m>>)
                            /\ Doc(<<"umap", m>>)' = Doc(<<"umap", m>>)
        /\ \A b \in Service : Doc(<<"svc", b>>)' = Doc(<<"svc", b>>)
        /\ \A h \in Groups : /\ Doc(<<"group", h>>)' = IF h = g THEN doc ELSE Doc(<<"group", h>>)
                             /\ Doc(<<"gmap", h>>)' = Doc(<<"gmap", h>>)
        /\ \A q \in Policies : Doc(<<"policy", q>>)' = Doc(<<"policy", q>>)
    BY <1>1, <1>3, DocsKept
  <1>5. /\ \A q \in Policies : LoadedPolicy(q)' = LoadedPolicy(q)
        /\ \A h \in Groups : \A m : Lists(h, m)' <=> IF h = g THEN m \in doc.members ELSE Lists(h, m)
    BY <1>1, <1>4, PoliciesKept DEF Lists
  <1>6. /\ sys'.users = sys.users /\ sys'.docs = sys.docs
        /\ sys'.umap = sys.umap /\ sys'.gmap = sys.gmap
    <2>1. sys \in SysTypes
      BY TypesOf
    <2>2. QED
      <3>1. sys' = Applied(sys, {Put("groups", g, doc)} \cup {Put("memberOf", n, to[n]) : n \in names})
        BY <1>2
      <3>2. /\ sys' \in SysTypes /\ sys'.groups = [sys.groups EXCEPT ![g] = doc]
            /\ sys'.memberOf = [n \in Names |-> IF n \in names THEN to[n] ELSE sys.memberOf[n]]
            /\ sys'.users = sys.users /\ sys'.docs = sys.docs
            /\ sys'.umap = sys.umap /\ sys'.gmap = sys.gmap
        BY <2>1, <3>1, AppliedMembers
      <3>3. QED BY <3>2
  <1>7. /\ \A m : In(Unmaps(m), todo) => In(Unmaps(m), todo')
        /\ \A h : In(UnmapsGroup(h), todo) => In(UnmapsGroup(h), todo')
        /\ \A b : In(AccountGoes(b, "force"), todo) => In(AccountGoes(b, "force"), todo')
    <2>1. \A m : Unmaps(m).path # s.path /\ UnmapsGroup(m).path # s.path
      BY <1>2 DEF Step, Unmaps, UnmapsGroup, policyDBSet
    <2>2. \A b : AccountGoes(b, "force").path # s.path
      BY <1>2 DEF Step, AccountGoes
    <2>3. QED BY <1>2, <2>1, <2>2
  <1>8. NobodyInherits'
    BY <1>1, <1>4, <1>5, <1>0, NamesAre DEF NobodyInherits
  <1>9. PoliciesThere'
    BY <1>4, <1>5, <1>7, <1>0, PoliciesLeft
  <1>10. AccountsFit'
    BY <1>4, <1>7, <1>0, NamesAre, AccountsLeft
  <1>11. ~stale' => MemoryThere'
    BY <1>2, <1>4, <1>6, <1>7, <1>0, NamesAre DEF MemoryThere
  <1>12. QED BY <1>8, <1>9, <1>10, <1>11 DEF Whole

\* A mapping of a user is made, for a policy that is there, or goes.
LEMMA UserMapWhole ==
  ASSUME IAMInv, Whole, NEW n \in Names, NEW p \in Policies \cup {NoDoc}, NEW s, Wrote(s),
         s.path = <<"umap", n>>, s.doc = p, s.changes = {Put("umap", n, p)},
         p # NoDoc => MayMap(n, p)
  PROVE  Whole'
  <1>0. NobodyInherits /\ PoliciesThere /\ AccountsFit /\ (~stale => MemoryThere)
    BY DEF Whole
  <1>1. <<"umap", n>> \in Paths /\ p \in DocsAt(<<"umap", n>>) \cup {NoDoc}
    BY PathsAre DEF DocsAt
  <1>2. /\ store' = Write(<<"umap", n>>, p) /\ sys' = Applied(sys, {Put("umap", n, p)})
        /\ stale' = stale /\ \A x : In(x, todo) => x = s \/ In(x, todo')
    BY DEF Wrote
  <1>3. OnlyDoc(<<"umap", n>>, p)
    BY <1>1, <1>2, TypesOf, WriteIs DEF OnlyDoc
  <1>4. /\ \A m \in Names : /\ Doc(<<"user", m>>)' = Doc(<<"user", m>>)
                            /\ Doc(<<"umap", m>>)' = IF m = n THEN p ELSE Doc(<<"umap", m>>)
        /\ \A b \in Service : Doc(<<"svc", b>>)' = Doc(<<"svc", b>>)
        /\ \A g \in Groups : /\ Doc(<<"group", g>>)' = Doc(<<"group", g>>)
                             /\ Doc(<<"gmap", g>>)' = Doc(<<"gmap", g>>)
        /\ \A q \in Policies : Doc(<<"policy", q>>)' = Doc(<<"policy", q>>)
    BY <1>1, <1>3, DocsKept
  <1>5. /\ \A q \in Policies : LoadedPolicy(q)' = LoadedPolicy(q)
        /\ \A g \in Groups : \A m : Lists(g, m)' <=> Lists(g, m)
    BY <1>4, PoliciesKept, ListsKept
  <1>6. /\ \A m \in Names : sys'.umap[m] = IF m = n THEN p ELSE sys.umap[m]
        /\ sys'.users = sys.users /\ sys'.docs = sys.docs /\ sys'.gmap = sys.gmap
    <2>1. sys \in SysTypes /\ p \in OptPolicies
      BY TypesOf DEF OptPolicies
    <2>2. /\ sys' \in SysTypes /\ sys'.umap = [sys.umap EXCEPT ![n] = p] /\ sys'.nil = sys.nil
          /\ sys'.users = sys.users /\ sys'.groups = sys.groups /\ sys'.docs = sys.docs
          /\ sys'.gmap = sys.gmap /\ sys'.memberOf = sys.memberOf
      BY <1>2, <2>1, AppliedUserMap
    <2>3. QED BY <2>1, <2>2 DEF SysTypes
  <1>7. /\ \A m : m # n /\ In(Unmaps(m), todo) => In(Unmaps(m), todo')
        /\ \A g : In(UnmapsGroup(g), todo) => In(UnmapsGroup(g), todo')
        /\ \A b : In(AccountGoes(b, "force"), todo) => In(AccountGoes(b, "force"), todo')
    <2>1. /\ \A m : m # n => Unmaps(m).path # s.path
          /\ \A g : UnmapsGroup(g).path # s.path
      BY DEF Step, Unmaps, UnmapsGroup, policyDBSet
    <2>2. \A b : AccountGoes(b, "force").path # s.path
      BY DEF Step, AccountGoes
    <2>3. QED BY <1>2, <2>1, <2>2
  <1>8. p # NoDoc => /\ LoadedPolicy(p) # NoDoc /\ (~stale => sys.docs[p] # NoDoc)
                     /\ n \in Regular => Doc(<<"user", n>>) # NoDoc
    BY DEF MayMap
  <1>9. NobodyInherits'
    BY <1>4, <1>5, <1>8, <1>0, NamesAre DEF NobodyInherits
  <1>10. ASSUME NEW q \in Policies PROVE q # NoDoc
    BY NoDocAssumption DEF Documents
  <1>11. PoliciesThere'
    <2>1. ASSUME NEW q \in Policies, NEW m \in Names \ Temp, Doc(<<"umap", m>>)' = q
          PROVE  LoadedPolicy(q)' # NoDoc \/ In(Unmaps(m), todo')
      <3>1. CASE m = n
        BY <1>4, <1>5, <1>8, <1>10, <2>1, <3>1
      <3>2. CASE m # n
        <4>1. Doc(<<"umap", m>>) = q
          BY <1>4, <2>1, <3>2
        <4>2. LoadedPolicy(q) # NoDoc \/ In(Unmaps(m), todo)
          BY <1>0, <4>1 DEF PoliciesThere
        <4>3. QED BY <1>5, <1>7, <3>2, <4>2
      <3>3. QED BY <3>1, <3>2
    <2>2. ASSUME NEW q \in Policies, NEW g \in Groups, Doc(<<"gmap", g>>)' = q
          PROVE  LoadedPolicy(q)' # NoDoc \/ In(UnmapsGroup(g), todo')
      <3>1. LoadedPolicy(q) # NoDoc \/ In(UnmapsGroup(g), todo)
        BY <1>0, <1>4, <2>2 DEF PoliciesThere
      <3>2. QED BY <1>5, <1>7, <3>1
    <2>3. QED BY <2>1, <2>2 DEF PoliciesThere
  <1>12. AccountsFit'
    BY <1>4, <1>7, <1>0, NamesAre, AccountsLeft
  <1>13. ASSUME ~stale PROVE MemoryThere'
    <2>1. ASSUME NEW q \in Policies, NEW m \in Names \ Temp, sys'.umap[m] = q
          PROVE  sys'.docs[q] # NoDoc \/ In(Unmaps(m), todo')
      <3>1. CASE m = n
        BY <1>6, <1>8, <1>10, <1>13, <2>1, <3>1
      <3>2. CASE m # n
        <4>1. sys.umap[m] = q
          BY <1>6, <2>1, <3>2
        <4>2. sys.docs[q] # NoDoc \/ In(Unmaps(m), todo)
          BY <1>0, <1>13, <4>1 DEF MemoryThere
        <4>3. QED BY <1>6, <1>7, <3>2, <4>2
      <3>3. QED BY <3>1, <3>2
    <2>2. ASSUME NEW q \in Policies, NEW g \in Groups, sys'.gmap[g] = q
          PROVE  sys'.docs[q] # NoDoc \/ In(UnmapsGroup(g), todo')
      <3>1. sys.docs[q] # NoDoc \/ In(UnmapsGroup(g), todo)
        BY <1>0, <1>6, <1>13, <2>2 DEF MemoryThere
      <3>2. QED BY <1>6, <1>7, <3>1
    <2>3. \A a \in Service : sys'.users[a] = Doc(<<"svc", a>>)'
      BY <1>0, <1>4, <1>6, <1>13 DEF MemoryThere
    <2>4. QED BY <2>1, <2>2, <2>3 DEF MemoryThere
  <1>14. QED BY <1>2, <1>9, <1>11, <1>12, <1>13 DEF Whole

\* The same of a group.
LEMMA GroupMapWhole ==
  ASSUME IAMInv, Whole, NEW g \in Groups, NEW p \in Policies \cup {NoDoc}, NEW s, Wrote(s),
         s.path = <<"gmap", g>>, s.doc = p, s.changes = {Put("gmap", g, p)},
         p # NoDoc => /\ LoadedPolicy(p) # NoDoc /\ (~stale => sys.docs[p] # NoDoc)
                      /\ Doc(<<"group", g>>) # NoDoc
  PROVE  Whole'
  <1>0. NobodyInherits /\ PoliciesThere /\ AccountsFit /\ (~stale => MemoryThere)
    BY DEF Whole
  <1>1. <<"gmap", g>> \in Paths /\ p \in DocsAt(<<"gmap", g>>) \cup {NoDoc}
    BY PathsAre DEF DocsAt
  <1>2. /\ store' = Write(<<"gmap", g>>, p) /\ sys' = Applied(sys, {Put("gmap", g, p)})
        /\ stale' = stale /\ \A x : In(x, todo) => x = s \/ In(x, todo')
    BY DEF Wrote
  <1>3. OnlyDoc(<<"gmap", g>>, p)
    BY <1>1, <1>2, TypesOf, WriteIs DEF OnlyDoc
  <1>4. /\ \A m \in Names : /\ Doc(<<"user", m>>)' = Doc(<<"user", m>>)
                            /\ Doc(<<"umap", m>>)' = Doc(<<"umap", m>>)
        /\ \A b \in Service : Doc(<<"svc", b>>)' = Doc(<<"svc", b>>)
        /\ \A h \in Groups : /\ Doc(<<"group", h>>)' = Doc(<<"group", h>>)
                             /\ Doc(<<"gmap", h>>)' = IF h = g THEN p ELSE Doc(<<"gmap", h>>)
        /\ \A q \in Policies : Doc(<<"policy", q>>)' = Doc(<<"policy", q>>)
    BY <1>1, <1>3, DocsKept
  <1>5. /\ \A q \in Policies : LoadedPolicy(q)' = LoadedPolicy(q)
        /\ \A h \in Groups : \A m : Lists(h, m)' <=> Lists(h, m)
    BY <1>4, PoliciesKept, ListsKept
  <1>6. /\ \A h \in Groups : sys'.gmap[h] = IF h = g THEN p ELSE sys.gmap[h]
        /\ sys'.users = sys.users /\ sys'.docs = sys.docs /\ sys'.umap = sys.umap
    <2>1. sys \in SysTypes /\ p \in OptPolicies
      BY TypesOf DEF OptPolicies
    <2>2. /\ sys' \in SysTypes /\ sys'.gmap = [sys.gmap EXCEPT ![g] = p] /\ sys'.nil = sys.nil
          /\ sys'.users = sys.users /\ sys'.groups = sys.groups /\ sys'.docs = sys.docs
          /\ sys'.umap = sys.umap /\ sys'.memberOf = sys.memberOf
      BY <1>2, <2>1, AppliedGroupMap
    <2>3. QED BY <2>1, <2>2 DEF SysTypes
  <1>7. /\ \A m : In(Unmaps(m), todo) => In(Unmaps(m), todo')
        /\ \A h : h # g /\ In(UnmapsGroup(h), todo) => In(UnmapsGroup(h), todo')
        /\ \A b : In(AccountGoes(b, "force"), todo) => In(AccountGoes(b, "force"), todo')
    <2>1. /\ \A m : Unmaps(m).path # s.path
          /\ \A h : h # g => UnmapsGroup(h).path # s.path
      BY DEF Step, Unmaps, UnmapsGroup, policyDBSet
    <2>2. \A b : AccountGoes(b, "force").path # s.path
      BY DEF Step, AccountGoes
    <2>3. QED BY <1>2, <2>1, <2>2
  <1>8. NobodyInherits'
    BY <1>4, <1>5, <1>0, NamesAre DEF NobodyInherits
  <1>9. ASSUME NEW q \in Policies PROVE q # NoDoc
    BY NoDocAssumption DEF Documents
  <1>10. PoliciesThere'
    <2>1. ASSUME NEW q \in Policies, NEW h \in Groups, Doc(<<"gmap", h>>)' = q
          PROVE  LoadedPolicy(q)' # NoDoc \/ In(UnmapsGroup(h), todo')
      <3>1. CASE h = g
        BY <1>4, <1>5, <1>9, <2>1, <3>1
      <3>2. CASE h # g
        <4>1. Doc(<<"gmap", h>>) = q
          BY <1>4, <2>1, <3>2
        <4>2. LoadedPolicy(q) # NoDoc \/ In(UnmapsGroup(h), todo)
          BY <1>0, <4>1 DEF PoliciesThere
        <4>3. QED BY <1>5, <1>7, <3>2, <4>2
      <3>3. QED BY <3>1, <3>2
    <2>2. ASSUME NEW q \in Policies, NEW m \in Names \ Temp, Doc(<<"umap", m>>)' = q
          PROVE  LoadedPolicy(q)' # NoDoc \/ In(Unmaps(m), todo')
      <3>1. LoadedPolicy(q) # NoDoc \/ In(Unmaps(m), todo)
        BY <1>0, <1>4, <2>2 DEF PoliciesThere
      <3>2. QED BY <1>5, <1>7, <3>1
    <2>3. QED BY <2>1, <2>2 DEF PoliciesThere
  <1>11. AccountsFit'
    BY <1>4, <1>7, <1>0, NamesAre, AccountsLeft
  <1>12. ASSUME ~stale PROVE MemoryThere'
    <2>1. ASSUME NEW q \in Policies, NEW h \in Groups, sys'.gmap[h] = q
          PROVE  sys'.docs[q] # NoDoc \/ In(UnmapsGroup(h), todo')
      <3>1. CASE h = g
        BY <1>6, <1>9, <1>12, <2>1, <3>1
      <3>2. CASE h # g
        <4>1. sys.gmap[h] = q
          BY <1>6, <2>1, <3>2
        <4>2. sys.docs[q] # NoDoc \/ In(UnmapsGroup(h), todo)
          BY <1>0, <1>12, <4>1 DEF MemoryThere
        <4>3. QED BY <1>6, <1>7, <3>2, <4>2
      <3>3. QED BY <3>1, <3>2
    <2>2. ASSUME NEW q \in Policies, NEW m \in Names \ Temp, sys'.umap[m] = q
          PROVE  sys'.docs[q] # NoDoc \/ In(Unmaps(m), todo')
      <3>1. sys.docs[q] # NoDoc \/ In(Unmaps(m), todo)
        BY <1>0, <1>6, <1>12, <2>2 DEF MemoryThere
      <3>2. QED BY <1>6, <1>7, <3>1
    <2>3. \A a \in Service : sys'.users[a] = Doc(<<"svc", a>>)'
      BY <1>0, <1>4, <1>6, <1>12 DEF MemoryThere
    <2>4. QED BY <2>1, <2>2, <2>3 DEF MemoryThere
  <1>13. QED BY <1>2, <1>8, <1>10, <1>11, <1>12 DEF Whole

\* A mapping, or a mapping of a temporary user, goes that is not the one which counts.
LEMMA OtherMapWhole ==
  ASSUME IAMInv, Whole, NEW n, NEW kind \in {"umap", "stsmap", "gmap"}, <<kind, n>> \in Paths,
         NEW s, Wrote(s), s.path = <<kind, n>>, s.doc = NoDoc,
         \/ s.changes = {} /\ \A x : ~In(x, todo)
         \/ kind = "stsmap" /\ s.changes = {Put("umap", n, NoDoc)}
  PROVE  Whole'
  <1>0. NobodyInherits /\ PoliciesThere /\ AccountsFit /\ (~stale => MemoryThere)
    BY DEF Whole
  <1>2. /\ store' = Write(<<kind, n>>, NoDoc) /\ sys' = Applied(sys, s.changes)
        /\ stale' = stale /\ \A x : In(x, todo) => x = s \/ In(x, todo')
    BY DEF Wrote
  <1>3. OnlyDoc(<<kind, n>>, NoDoc)
    BY <1>2, TypesOf, WriteIs DEF OnlyDoc
  <1>4. /\ \A m \in Names : /\ Doc(<<"user", m>>)' = Doc(<<"user", m>>)
                            /\ Doc(<<"umap", m>>)' \in {Doc(<<"umap", m>>), NoDoc}
        /\ \A b \in Service : Doc(<<"svc", b>>)' = Doc(<<"svc", b>>)
        /\ \A g \in Groups : /\ Doc(<<"group", g>>)' = Doc(<<"group", g>>)
                             /\ Doc(<<"gmap", g>>)' \in {Doc(<<"gmap", g>>), NoDoc}
        /\ \A q \in Policies : Doc(<<"policy", q>>)' = Doc(<<"policy", q>>)
    BY <1>3, DocsKept
  <1>5. /\ \A q \in Policies : LoadedPolicy(q)' = LoadedPolicy(q)
        /\ \A g \in Groups : \A m : Lists(g, m)' <=> Lists(g, m)
    BY <1>4, PoliciesKept, ListsKept
  <1>6. /\ \A m \in Names \ Temp : sys'.umap[m] = sys.umap[m]
        /\ sys'.users = sys.users /\ sys'.docs = sys.docs /\ sys'.gmap = sys.gmap
    <2>1. CASE s.changes = {}
      BY <1>2, <2>1, TypesOf, AppliedNone
    <2>2. CASE kind = "stsmap" /\ s.changes = {Put("umap", n, NoDoc)}
      <3>1. sys \in SysTypes /\ NoDoc \in OptPolicies /\ n \in Temp /\ n \in Names
        BY <2>2, TypesOf, PathsAre DEF OptPolicies, Names
      <3>2. /\ sys' \in SysTypes /\ sys'.umap = [sys.umap EXCEPT ![n] = NoDoc] /\ sys'.nil = sys.nil
            /\ sys'.users = sys.users /\ sys'.groups = sys.groups /\ sys'.docs = sys.docs
            /\ sys'.gmap = sys.gmap /\ sys'.memberOf = sys.memberOf
        BY <1>2, <2>2, <3>1, AppliedUserMap
      <3>3. QED BY <3>1, <3>2 DEF SysTypes
    <2>3. QED BY <2>1, <2>2
  <1>7. /\ \A m : In(Unmaps(m), todo) => In(Unmaps(m), todo')
        /\ \A h : In(UnmapsGroup(h), todo) => In(UnmapsGroup(h), todo')
        /\ \A b : In(AccountGoes(b, "force"), todo) => In(AccountGoes(b, "force"), todo')
    <2>1. CASE \A x : ~In(x, todo)
      BY <2>1
    <2>2. CASE kind = "stsmap"
      <3>1. \A m : Unmaps(m).path # s.path /\ UnmapsGroup(m).path # s.path
        BY <2>2 DEF Step, Unmaps, UnmapsGroup, policyDBSet
      <3>2. \A b : AccountGoes(b, "force").path # s.path
        BY <2>2 DEF Step, AccountGoes
      <3>3. QED BY <1>2, <3>1, <3>2
    <2>3. QED BY <2>1, <2>2
  <1>8. NobodyInherits'
    BY <1>4, <1>5, <1>0, NamesAre DEF NobodyInherits
  <1>9. PoliciesThere'
    BY <1>4, <1>5, <1>7, <1>0, PoliciesLeft
  <1>10. AccountsFit'
    BY <1>4, <1>7, <1>0, NamesAre, AccountsLeft
  <1>11. ASSUME ~stale PROVE MemoryThere'
    <2>1. \A a \in Service : sys'.users[a] = Doc(<<"svc", a>>)'
      BY <1>0, <1>4, <1>6, <1>11 DEF MemoryThere
    <2>2. QED BY <1>0, <1>6, <1>7, <1>11, <2>1, MemoryLeft
  <1>12. QED BY <1>2, <1>8, <1>9, <1>10, <1>11 DEF Whole

\* A group goes, after its mapping.
LEMMA GroupGoesWhole ==
  ASSUME IAMInv, Whole, NEW g \in Groups, Wrote(GroupGoes(g)), Doc(<<"gmap", g>>) = NoDoc
  PROVE  Whole'
  <1> DEFINE s == GroupGoes(g)
  <1>0. NobodyInherits /\ PoliciesThere /\ AccountsFit /\ (~stale => MemoryThere)
    BY DEF Whole
  <1>1. <<"group", g>> \in Paths
    BY PathsAre
  <1>2. /\ store' = Write(<<"group", g>>, NoDoc)
        /\ sys' = Applied(sys, {Put("groups", g, NoDoc), Put("gmap", g, NoDoc)})
        /\ stale' = stale /\ \A x : In(x, todo) => x = s \/ In(x, todo')
        /\ s.path = <<"group", g>>
    BY DEF Wrote, GroupGoes, Step
  <1> HIDE DEF s
  <1>3. OnlyDoc(<<"group", g>>, NoDoc)
    BY <1>1, <1>2, TypesOf, WriteIs DEF OnlyDoc
  <1>4. /\ \A m \in Names : /\ Doc(<<"user", m>>)' = Doc(<<"user", m>>)
                            /\ Doc(<<"umap", m>>)' = Doc(<<"umap", m>>)
        /\ \A b \in Service : Doc(<<"svc", b>>)' = Doc(<<"svc", b>>)
        /\ \A h \in Groups : /\ Doc(<<"group", h>>)' = IF h = g THEN NoDoc ELSE Doc(<<"group", h>>)
                             /\ Doc(<<"gmap", h>>)' = Doc(<<"gmap", h>>)
        /\ \A q \in Policies : Doc(<<"policy", q>>)' = Doc(<<"policy", q>>)
    BY <1>1, <1>3, DocsKept
  <1>5. /\ \A q \in Policies : LoadedPolicy(q)' = LoadedPolicy(q)
        /\ \A h \in Groups : \A m : Lists(h, m)' => Lists(h, m)
    BY <1>4, PoliciesKept DEF Lists
  <1>6. /\ \A h \in Groups : sys'.gmap[h] = IF h = g THEN NoDoc ELSE sys.gmap[h]
        /\ sys'.users = sys.users /\ sys'.docs = sys.docs /\ sys'.umap = sys.umap
    <2>1. sys \in SysTypes /\ NoDoc \in OptPolicies /\ NoDoc \in GroupDocs \cup {NoDoc}
      BY TypesOf DEF OptPolicies
    <2>2. /\ sys' \in SysTypes /\ sys'.nil = sys.nil
          /\ sys'.groups = [sys.groups EXCEPT ![g] = NoDoc] /\ sys'.gmap = [sys.gmap EXCEPT ![g] = NoDoc]
          /\ sys'.users = sys.users /\ sys'.docs = sys.docs /\ sys'.umap = sys.umap
          /\ sys'.memberOf = sys.memberOf
      BY <1>2, <2>1, AppliedGroupAndMap
    <2>3. QED BY <2>1, <2>2 DEF SysTypes
  <1>7. /\ \A m : In(Unmaps(m), todo) => In(Unmaps(m), todo')
        /\ \A h : In(UnmapsGroup(h), todo) => In(UnmapsGroup(h), todo')
        /\ \A b : In(AccountGoes(b, "force"), todo) => In(AccountGoes(b, "force"), todo')
    <2>1. \A m : Unmaps(m).path # s.path /\ UnmapsGroup(m).path # s.path
      BY <1>2 DEF Step, Unmaps, UnmapsGroup, policyDBSet
    <2>2. \A b : AccountGoes(b, "force").path # s.path
      BY <1>2 DEF Step, AccountGoes
    <2>3. QED BY <1>2, <2>1, <2>2
  <1>8. NobodyInherits'
    BY <1>4, <1>5, <1>0, NamesAre DEF NobodyInherits
  <1>9. PoliciesThere'
    BY <1>4, <1>5, <1>7, <1>0, PoliciesLeft
  <1>10. AccountsFit'
    BY <1>4, <1>7, <1>0, NamesAre, AccountsLeft
  <1>11. ASSUME ~stale PROVE MemoryThere'
    <2>1. \A a \in Service : sys'.users[a] = Doc(<<"svc", a>>)'
      BY <1>0, <1>4, <1>6, <1>11 DEF MemoryThere
    <2>2. QED BY <1>0, <1>6, <1>7, <1>11, <2>1, MemoryLeft
  <1>12. QED BY <1>2, <1>8, <1>9, <1>10, <1>11 DEF Whole

\* A user goes, after the mapping and all groups; the service accounts follow.
LEMMA UserGoesWhole ==
  ASSUME IAMInv, Whole, NEW n \in Names \ Temp, Wrote(UserGoes(n)), MayGo(n)
  PROVE  Whole'
  <1> DEFINE s == UserGoes(n)
  <1>0. NobodyInherits /\ PoliciesThere /\ AccountsFit /\ (~stale => MemoryThere)
    BY DEF Whole
  <1>1. <<"user", n>> \in Paths
    BY PathsAre
  <1>2. /\ store' = Write(<<"user", n>>, NoDoc)
        /\ sys' = Applied(sys, {Put("users", n, NoDoc), Put("umap", n, NoDoc)})
        /\ stale' = stale /\ \A x : In(x, todo) => x = s \/ In(x, todo')
        /\ s.path = <<"user", n>>
    BY DEF Wrote, UserGoes, Step
  <1> HIDE DEF s
  <1>3. OnlyDoc(<<"user", n>>, NoDoc)
    BY <1>1, <1>2, TypesOf, WriteIs DEF OnlyDoc
  <1>4. /\ \A m \in Names : /\ Doc(<<"user", m>>)' = IF m = n THEN NoDoc ELSE Doc(<<"user", m>>)
                            /\ Doc(<<"umap", m>>)' = Doc(<<"umap", m>>)
        /\ \A b \in Service : Doc(<<"svc", b>>)' = Doc(<<"svc", b>>)
        /\ \A h \in Groups : /\ Doc(<<"group", h>>)' = Doc(<<"group", h>>)
                             /\ Doc(<<"gmap", h>>)' = Doc(<<"gmap", h>>)
        /\ \A q \in Policies : Doc(<<"policy", q>>)' = Doc(<<"policy", q>>)
    BY <1>1, <1>3, DocsKept
  <1>5. /\ \A q \in Policies : LoadedPolicy(q)' = LoadedPolicy(q)
        /\ \A h \in Groups : \A m : Lists(h, m)' <=> Lists(h, m)
    BY <1>4, PoliciesKept, ListsKept
  <1>6. /\ \A m \in Names : /\ sys'.users[m] = IF m = n THEN NoDoc ELSE sys.users[m]
                            /\ sys'.umap[m] = IF m = n THEN NoDoc ELSE sys.umap[m]
        /\ sys'.docs = sys.docs /\ sys'.gmap = sys.gmap
    <2>1. sys \in SysTypes /\ NoDoc \in OptPolicies /\ NoDoc \in Creds \cup {NoDoc}
      BY TypesOf DEF OptPolicies
    <2>2. /\ sys' \in SysTypes /\ sys'.nil = sys.nil
          /\ sys'.users = [sys.users EXCEPT ![n] = NoDoc] /\ sys'.umap = [sys.umap EXCEPT ![n] = NoDoc]
          /\ sys'.groups = sys.groups /\ sys'.docs = sys.docs /\ sys'.gmap = sys.gmap
          /\ sys'.memberOf = sys.memberOf
      BY <1>2, <2>1, AppliedUserAndMap
    <2>3. QED BY <2>1, <2>2 DEF SysTypes
  <1>7. /\ \A m : In(Unmaps(m), todo) => In(Unmaps(m), todo')
        /\ \A h : In(UnmapsGroup(h), todo) => In(UnmapsGroup(h), todo')
        /\ \A b : In(AccountGoes(b, "force"), todo) => In(AccountGoes(b, "force"), todo')
    <2>1. \A m : Unmaps(m).path # s.path /\ UnmapsGroup(m).path # s.path
      BY <1>2 DEF Step, Unmaps, UnmapsGroup, policyDBSet
    <2>2. \A b : AccountGoes(b, "force").path # s.path
      BY <1>2 DEF Step, AccountGoes
    <2>3. QED BY <1>2, <2>1, <2>2
  <1>8. NobodyInherits'
    <2>1. ASSUME NEW m \in Regular, Doc(<<"user", m>>)' = NoDoc
          PROVE  Doc(<<"umap", m>>)' = NoDoc /\ \A g \in Groups : ~Lists(g, m)'
      <3>1. CASE m = n
        BY <1>4, <1>5, <2>1, <3>1, NamesAre DEF MayGo
      <3>2. CASE m # n
        BY <1>0, <1>4, <1>5, <2>1, <3>2, NamesAre DEF NobodyInherits
      <3>3. QED BY <3>1, <3>2
    <2>2. \A g \in Groups : Doc(<<"group", g>>)' = NoDoc => Doc(<<"gmap", g>>)' = NoDoc
      BY <1>0, <1>4 DEF NobodyInherits
    <2>3. QED BY <2>1, <2>2 DEF NobodyInherits
  <1>9. PoliciesThere'
    BY <1>4, <1>5, <1>7, <1>0, PoliciesLeft
  <1>10. AccountsFit'
    <2>1. ASSUME NEW a \in Service
          PROVE  /\ Doc(<<"user", a>>)' = NoDoc
                 /\ Doc(<<"svc", a>>)' # NoDoc => Doc(<<"svc", a>>)'.kind = "svc"
      <3>1. Doc(<<"user", a>>)' \in {NoDoc, Doc(<<"user", a>>)} /\ Doc(<<"svc", a>>)' = Doc(<<"svc", a>>)
        BY <1>4, NamesAre
      <3>2. QED BY <1>0, <3>1 DEF AccountsFit
    <2>2. ASSUME NEW a \in Service, NEW m \in Regular, Doc(<<"svc", a>>)' # NoDoc,
                 Doc(<<"svc", a>>)'.parent = m
          PROVE  Doc(<<"user", m>>)' # NoDoc \/ In(AccountGoes(a, "force"), todo')
      <3>1. CASE m = n
        BY <1>4, <1>7, <2>2, <3>1, NamesAre DEF MayGo
      <3>2. CASE m # n
        BY <1>0, <1>4, <1>7, <2>2, <3>2, NamesAre DEF AccountsFit
      <3>3. QED BY <3>1, <3>2
    <2>3. QED BY <2>1, <2>2 DEF AccountsFit
  <1>11. ASSUME ~stale PROVE MemoryThere'
    <2>1. ASSUME NEW a \in Service PROVE sys'.users[a] = Doc(<<"svc", a>>)'
      <3>1. CASE a = n
        BY <1>4, <1>6, <3>1, NamesAre DEF MayGo
      <3>2. CASE a # n
        BY <1>0, <1>4, <1>6, <1>11, <3>2, NamesAre DEF MemoryThere
      <3>3. QED BY <3>1, <3>2
    <2>2. QED BY <1>0, <1>6, <1>7, <1>11, <2>1, MemoryLeft
  <1>12. QED BY <1>2, <1>8, <1>9, <1>10, <1>11 DEF Whole

\* A step that fails raises the number of failures, another is written.
LEMMA DoWrites ==
  ASSUME sys \in SysTypes, failures \in Nat, NEW steps, Do(steps)
  PROVE  /\ failures' \in Nat /\ sys'.nil = sys.nil
         /\ (failures' = failures /\ ~sys.nil) =>
              /\ store' = Write(Head(steps).path, Head(steps).doc)
              /\ sys' = Applied(sys, Head(steps).changes)
              /\ todo' = Tail(steps) /\ stale' = stale
  <1>1. \A changes : Applied(sys, changes).nil = sys.nil
    BY AppliedIs
  <1>2. CASE failures' = failures + 1
    BY <1>1, <1>2 DEF Do
  <1>3. CASE failures' # failures + 1
    BY <1>1, <1>3 DEF Do, Panics
  <1>4. QED BY <1>2, <1>3

LEMMA NothingTodo ==
  ASSUME todo = << >>
  PROVE  \A x : ~In(x, todo)
  BY DEF In

\* Only a step that saves a group can list somebody.
LEMMA ListsGo ==
  ASSUME IAMInv, NEW path \in Paths, NEW doc \in DocsAt(path) \cup {NoDoc},
         store' = Write(path, doc), path[1] = "group" => doc = NoDoc
  PROVE  \A g \in Groups : \A n : Lists(g, n)' => Lists(g, n)
  <1>1. Doc(path)' = doc /\ \A q \in Paths \ {path} : Doc(q)' = Doc(q)
    BY TypesOf, WriteIs
  <1>2. ASSUME NEW g \in Groups PROVE Doc(<<"group", g>>)' \in {Doc(<<"group", g>>), NoDoc}
    <2>1. <<"group", g>> \in Paths
      BY PathsAre
    <2>2. CASE path = <<"group", g>>
      BY <1>1, <2>2
    <2>3. CASE path # <<"group", g>>
      BY <1>1, <2>1, <2>3
    <2>4. QED BY <2>2, <2>3
  <1>3. QED BY <1>2 DEF Lists

LEMMA LeavesKept ==
  ASSUME LeavesAll, \A g \in Groups : \A n : Lists(g, n)' => Lists(g, n),
         \A n \in Regular : deleting'[n] \in {NoDoc, deleting[n]}
  PROVE  LeavesAll'
  <1>1. ASSUME NEW n \in Regular, deleting'[n] # NoDoc, ~deleting'[n].doubt,
               NEW g \in Groups, Lists(g, n)'
        PROVE  g \in deleting'[n].groups
    BY <1>1 DEF LeavesAll
  <1>2. QED BY <1>1 DEF LeavesAll

\* The steps that come later.
LEMMA ReadyFits ==
  ASSUME NEW s, HeadReady(s)
  PROVE  /\ s.path \in Paths /\ s.doc \in DocsAt(s.path) \cup {NoDoc}
         /\ s.path[1] = "group" => s.doc = NoDoc
  <1>1. CASE s \in Clears
    <2>1. s.path \in Paths
      <3>1. \/ \E n \in Names : s.path = <<"umap", n>>
            \/ \E n \in Temp : s.path = <<"stsmap", n>>
            \/ \E g \in Groups : s.path = <<"gmap", g>>
            \/ \E a \in Service : s.path = <<"svc", a>>
        BY <1>1 DEF Clears, policyDBSet, AccountGoes, Step
      <3>2. QED BY <3>1, PathsAre
    <2>2. s.doc = NoDoc
      BY <1>1 DEF Clears, policyDBSet, AccountGoes, Step
    <2>3. QED BY <2>1, <2>2
  <1>2. ASSUME NEW n \in Regular, NEW p \in Policies, s = policyDBSet("umap", n, p, "abort")
        PROVE  /\ s.path \in Paths /\ s.doc \in DocsAt(s.path) \cup {NoDoc}
               /\ s.path[1] = "group" => s.doc = NoDoc
    BY <1>2, PathsAre, NamesAre DEF policyDBSet, Step, DocsAt
  <1>3. ASSUME NEW g \in Groups, s = GroupGoes(g)
        PROVE  /\ s.path \in Paths /\ s.doc \in DocsAt(s.path) \cup {NoDoc}
               /\ s.path[1] = "group" => s.doc = NoDoc
    BY <1>3, PathsAre DEF GroupGoes, Step
  <1>4. ASSUME NEW n \in Names, s = UserGoes(n)
        PROVE  /\ s.path \in Paths /\ s.doc \in DocsAt(s.path) \cup {NoDoc}
               /\ s.path[1] = "group" => s.doc = NoDoc
    BY <1>4, PathsAre DEF UserGoes, Step
  <1>5. QED BY <1>1, <1>2, <1>3, <1>4 DEF HeadReady

LEMMA ReadyWhole ==
  ASSUME IAMInv, Whole, NEW s, HeadReady(s), Wrote(s)
  PROVE  Whole'
  <1>1. ASSUME NEW n \in Names, s = policyDBSet("umap", n, NoDoc, "skip") PROVE Whole'
    <2>1. s.path = <<"umap", n>> /\ s.doc = NoDoc /\ s.changes = {Put("umap", n, NoDoc)}
      BY <1>1 DEF policyDBSet, Step, MapKind
    <2>2. QED BY <2>1, UserMapWhole
  <1>2. ASSUME NEW n \in Temp, s = policyDBSet("stsmap", n, NoDoc, "skip") PROVE Whole'
    <2>1. s.path = <<"stsmap", n>> /\ s.doc = NoDoc /\ s.changes = {Put("umap", n, NoDoc)}
      BY <1>2 DEF policyDBSet, Step, MapKind
    <2>2. <<"stsmap", n>> \in Paths
      BY PathsAre
    <2>3. QED BY <2>1, <2>2, OtherMapWhole
  <1>3. ASSUME NEW g \in Groups, s = policyDBSet("gmap", g, NoDoc, "skip") PROVE Whole'
    <2>1. s.path = <<"gmap", g>> /\ s.doc = NoDoc /\ s.changes = {Put("gmap", g, NoDoc)}
      BY <1>3 DEF policyDBSet, Step, MapKind
    <2>2. QED BY <2>1, GroupMapWhole
  <1>4. ASSUME NEW a \in Service, s = AccountGoes(a, "force") PROVE Whole'
    <2>1. s.path = <<"svc", a>> /\ s.doc = NoDoc /\ s.changes = {Put("users", a, NoDoc)}
      BY <1>4 DEF AccountGoes, Step
    <2>2. QED BY <2>1, AccountWhole
  <1>5. CASE s \in Clears
    BY <1>1, <1>2, <1>3, <1>4, <1>5 DEF Clears
  <1>6. ASSUME NEW n \in Regular, NEW p \in Policies, s = policyDBSet("umap", n, p, "abort"),
               MayMap(n, p)
        PROVE  Whole'
    <2>1. s.path = <<"umap", n>> /\ s.doc = p /\ s.changes = {Put("umap", n, p)} /\ n \in Names
      BY <1>6, NamesAre DEF policyDBSet, Step, MapKind
    <2>2. QED BY <1>6, <2>1, UserMapWhole
  <1>7. QED BY <1>5, <1>6, GroupGoesWhole, UserGoesWhole DEF HeadReady

\* The holder of the lock goes on.
LEMMA GoOnOrphan ==
  ASSUME IAMInv, OrphanInv, GoOn
  PROVE  OrphanInv'
  <1>1. /\ todo # << >> /\ Do(todo) /\ torn' = (torn \/ failures' # failures)
        /\ deleting' = deleting
    BY DEF GoOn
  <1>2. sys \in SysTypes /\ failures \in Nat
    BY TypesOf DEF OrphanInv
  <1>3. failures' \in Nat /\ sys'.nil = sys.nil
    BY <1>1, <1>2, DoWrites
  <1>4. SUFFICES ASSUME ~torn'
        PROVE  Whole' /\ LeavesAll' /\ TodoReady' /\ (sys'.nil => stale' /\ todo' = << >>)
    BY <1>3 DEF OrphanInv
  <1>5. Whole /\ LeavesAll /\ TodoReady /\ ~sys.nil /\ failures' = failures
    BY <1>1, <1>4 DEF OrphanInv
  <1>6. /\ store' = Write(Head(todo).path, Head(todo).doc)
        /\ sys' = Applied(sys, Head(todo).changes)
        /\ todo' = Tail(todo) /\ stale' = stale
    BY <1>1, <1>2, <1>5, DoWrites
  <1>7. HeadReady(Head(todo)) /\ Tail(todo) \in Seq(Clears)
    BY <1>1, <1>5 DEF TodoReady
  <1>8. \A x : In(x, todo) => x = Head(todo) \/ In(x, Tail(todo))
    <2>1. PICK T : todo \in Seq(T)
      <3>1. CASE \E g \in Groups : todo = <<GroupGoes(g)>>
        <4>1. PICK g \in Groups : todo = <<GroupGoes(g)>>
          BY <3>1
        <4>2. todo \in Seq({GroupGoes(g)})
          BY <4>1
        <4>3. QED BY <4>2
      <3>2. ASSUME NEW n, NEW rest \in Seq(AccountSteps), todo = <<UserGoes(n)>> \o rest
            PROVE  todo \in Seq({UserGoes(n)} \cup AccountSteps)
        BY <3>2
      <3>3. QED BY <3>1, <3>2 DEF IAMInv, TodoFits
    <2>2. QED BY <1>1, <2>1 DEF In
  <1>9. Wrote(Head(todo))
    BY <1>6, <1>8 DEF Wrote
  <1>10. Whole'
    BY <1>5, <1>7, <1>9, ReadyWhole
  <1>11. LeavesAll'
    <2>1. \A g \in Groups : \A n : Lists(g, n)' => Lists(g, n)
      BY <1>6, <1>7, ReadyFits, ListsGo
    <2>2. QED BY <1>1, <1>5, <2>1, LeavesKept
  <1>12. TodoReady'
    <2>1. todo' \in Seq(Clears)
      BY <1>6, <1>7
    <2>2. todo' # << >> => Head(todo') \in Clears /\ Tail(todo') \in Seq(Clears)
      BY <2>1
    <2>3. QED BY <2>2 DEF TodoReady, HeadReady
  <1>13. QED BY <1>3, <1>5, <1>10, <1>11, <1>12

-----------------------------------------------------------------------------
(* Every action leaves it so *)

\* The first step of a change is written, or the change counts as torn.
LEMMA ChangeOrphan ==
  ASSUME IAMInv, OrphanInv, todo = << >>, NEW steps, Do(steps),
         ~torn' => ~torn /\ ~stale /\ failures' = failures,
         (/\ ~torn' /\ ~stale /\ Whole /\ LeavesAll
          /\ Wrote(Head(steps)) /\ todo' = Tail(steps))
            => Whole' /\ LeavesAll' /\ TodoReady'
  PROVE  OrphanInv'
  <1>1. sys \in SysTypes /\ failures \in Nat
    BY TypesOf DEF OrphanInv
  <1>2. failures' \in Nat /\ sys'.nil = sys.nil
    BY <1>1, DoWrites
  <1>3. SUFFICES ASSUME ~torn'
        PROVE  Whole' /\ LeavesAll' /\ TodoReady' /\ (sys'.nil => stale' /\ todo' = << >>)
    BY <1>2 DEF OrphanInv
  <1>4. Whole /\ LeavesAll /\ ~sys.nil /\ failures' = failures /\ ~stale
    BY <1>3 DEF OrphanInv
  <1>5. /\ store' = Write(Head(steps).path, Head(steps).doc)
        /\ sys' = Applied(sys, Head(steps).changes)
        /\ todo' = Tail(steps) /\ stale' = stale
    BY <1>1, <1>4, DoWrites
  <1>6. Wrote(Head(steps))
    BY <1>5, NothingTodo DEF Wrote
  <1>7. QED BY <1>2, <1>3, <1>4, <1>5, <1>6

\* A change under the lock after which no more users are listed.
LEMMA LockedOrphan ==
  ASSUME IAMInv, OrphanInv, NEW odd, NEW steps, LockedUnless(odd, steps),
         (/\ ~odd /\ ~stale /\ Whole /\ todo = << >>
          /\ Wrote(Head(steps)) /\ todo' = Tail(steps))
            => /\ Whole' /\ TodoReady'
               /\ \A g \in Groups : \A n : Lists(g, n)' => Lists(g, n)
  PROVE  OrphanInv'
  <1>1. /\ todo = << >> /\ Do(steps) /\ deleting' = deleting
        /\ torn' = (torn \/ stale \/ odd \/ failures' # failures)
    BY DEF LockedUnless, Change
  <1>2. ASSUME ~torn', ~stale, Whole, LeavesAll, Wrote(Head(steps)), todo' = Tail(steps)
        PROVE  Whole' /\ LeavesAll' /\ TodoReady'
    <2>1. /\ Whole' /\ TodoReady'
          /\ \A g \in Groups : \A n : Lists(g, n)' => Lists(g, n)
      BY <1>1, <1>2
    <2>2. \A n \in Regular : deleting'[n] \in {NoDoc, deleting[n]}
      BY <1>1
    <2>3. QED BY <1>2, <2>1, <2>2, LeavesKept
  <1>3. ~torn' => ~torn /\ ~stale /\ failures' = failures
    BY <1>1
  <1>4. QED BY <1>1, <1>2, <1>3, ChangeOrphan

\* One that makes a single step, which does not save a group.
LEMMA OneStepOrphan ==
  ASSUME IAMInv, OrphanInv, NEW odd, NEW s, LockedUnless(odd, <<s>>),
         s.path \in Paths, s.doc \in DocsAt(s.path) \cup {NoDoc},
         s.path[1] = "group" => s.doc = NoDoc,
         (~odd /\ ~stale /\ Whole /\ todo = << >> /\ Wrote(s)) => Whole'
  PROVE  OrphanInv'
  <1>1. Head(<<s>>) = s /\ Tail(<<s>>) = << >> OBVIOUS
  <1>2. ASSUME ~odd, ~stale, Whole, todo = << >>, Wrote(s), todo' = << >>
        PROVE  /\ Whole' /\ TodoReady'
               /\ \A g \in Groups : \A n : Lists(g, n)' => Lists(g, n)
    <2>1. store' = Write(s.path, s.doc)
      BY <1>2 DEF Wrote
    <2>2. QED BY <1>2, <2>1, ListsGo DEF TodoReady
  <1> DEFINE steps == <<s>>
  <1>3. Head(steps) = s /\ Tail(steps) = << >> /\ LockedUnless(odd, steps)
    BY <1>1
  <1> HIDE DEF steps
  <1>4. QED BY <1>2, <1>3, LockedOrphan

LEMMA SetPolicyOrphan ==
  ASSUME IAMInv, OrphanInv, NEW p \in Policies, SetPolicy(p)
  PROVE  OrphanInv'
  <1> DEFINE s == Step(<<"policy", p>>, "custom", {Put("docs", p, "custom")}, "abort")
  <1>1. LockedUnless(FALSE, <<s>>)
    BY DEF SetPolicy, Locked
  <1>2. s.path = <<"policy", p>> /\ s.doc = "custom" /\ s.changes = {Put("docs", p, "custom")}
    BY DEF Step
  <1> HIDE DEF s
  <1>3. s.path \in Paths /\ s.doc \in DocsAt(s.path)
    BY <1>2, PathsAre DEF DocsAt
  <1>4. s.path[1] # "group" /\ "custom" # NoDoc
    BY <1>2, NoDocAssumption DEF Documents
  <1>5. ASSUME Whole, Wrote(s) PROVE Whole'
    BY <1>2, <1>4, <1>5, PolicyWhole
  <1>6. QED BY <1>1, <1>3, <1>4, <1>5, OneStepOrphan

\* Memory agrees with the documents, and service accounts are known as such.
LEMMA Agreed ==
  ASSUME IAMInv, Whole, todo = << >>, ~stale
  PROVE  /\ \A n \in Regular : sys.users[n] = Doc(<<"user", n>>)
         /\ \A a \in Service : /\ sys.users[a] = Doc(<<"svc", a>>)
                               /\ sys.users[a] # NoDoc => IsServiceAccount(a)
         /\ \A n \in Names \ Temp : sys.umap[n] = Doc(<<"umap", n>>)
         /\ \A g \in Groups : /\ sys.groups[g] = Doc(<<"group", g>>)
                              /\ sys.gmap[g] = Doc(<<"gmap", g>>)
         /\ \A p \in Policies : sys.docs[p] # NoDoc => LoadedPolicy(p) # NoDoc
  <1>1. AgreeBut({}, {})
    BY AgreeNow
  <1>2. AccountsFit /\ MemoryThere
    BY DEF Whole
  <1>3. \A n \in Regular : sys.users[n] = Doc(<<"user", n>>)
    BY <1>1, LoadedUserIs DEF AgreeBut, UsersAgree, UsersFromPaths
  <1>4. \A a \in Service : sys.users[a] = Doc(<<"svc", a>>)
    BY <1>2 DEF MemoryThere
  <1>5. ASSUME NEW a \in Service, sys.users[a] # NoDoc PROVE IsServiceAccount(a)
    BY <1>2, <1>4, <1>5 DEF AccountsFit, IsServiceAccount
  <1>6. QED BY <1>1, <1>3, <1>4, <1>5 DEF AgreeBut, GroupsAgree, PoliciesAgree

LEMMA PolicyDBSetOrphan ==
  ASSUME IAMInv, OrphanInv, NEW name, NEW policy \in OptPolicies, NEW isGroup \in BOOLEAN,
         name \in (IF isGroup THEN Groups ELSE Names), PolicyDBSet(name, policy, isGroup)
  PROVE  OrphanInv'
  <1> DEFINE kind == IF isGroup THEN "gmap" ELSE "umap"
             s == policyDBSet(kind, name, policy, "abort")
  <1>1. LockedUnless(FALSE, <<s>>)
    BY DEF PolicyDBSet, Locked
  <1>2. s.path = <<kind, name>> /\ s.doc = policy /\ s.changes = {Put(kind, name, policy)}
    BY DEF policyDBSet, Step, MapKind
  <1> HIDE DEF s
  <1>3. s.path \in Paths /\ s.doc \in DocsAt(s.path) \cup {NoDoc} /\ s.path[1] # "group"
    <2>1. policy \in Policies \cup {NoDoc} /\ <<kind, name>> \in Paths
      BY PathsAre DEF OptPolicies
    <2>2. DocsAt(<<kind, name>>) = Policies
      BY DEF DocsAt
    <2>3. kind # "group" /\ <<kind, name>>[1] = kind OBVIOUS
    <2> HIDE DEF kind
    <2>4. QED BY <1>2, <2>1, <2>2, <2>3
  <1>4. ASSUME ~stale, Whole, todo = << >>, Wrote(s) PROVE Whole'
    <2>1. policy # NoDoc => policy \in Policies /\ sys.docs[policy] # NoDoc /\ LoadedPolicy(policy) # NoDoc
      BY <1>4, Agreed DEF PolicyDBSet, OptPolicies
    <2>2. CASE isGroup
      <3>1. name \in Groups /\ Doc(<<"group", name>>) # NoDoc
        BY <1>4, <2>2, Agreed DEF PolicyDBSet
      <3>2. s.path = <<"gmap", name>> /\ s.changes = {Put("gmap", name, policy)}
        BY <1>2, <2>2
      <3>3. QED BY <1>2, <1>4, <2>1, <3>1, <3>2, GroupMapWhole DEF OptPolicies
    <2>3. CASE ~isGroup
      <3>1. name \in Names /\ (name \in Regular => Doc(<<"user", name>>) # NoDoc)
        BY <1>4, <2>3, Agreed DEF PolicyDBSet
      <3>2. s.path = <<"umap", name>> /\ s.changes = {Put("umap", name, policy)}
        BY <1>2, <2>3
      <3>3. policy # NoDoc => MayMap(name, policy)
        BY <2>1, <3>1 DEF MayMap
      <3>4. QED BY <1>2, <1>4, <3>1, <3>2, <3>3, UserMapWhole DEF OptPolicies
    <2>4. QED BY <2>2, <2>3
  <1>5. QED BY <1>1, <1>3, <1>4, OneStepOrphan

\* A change that writes one user, who is no service account.
LEMMA OneUserOrphan ==
  ASSUME IAMInv, OrphanInv, NEW odd, NEW n \in Names, NEW cred \in Creds, NEW kind \in {"user", "sts"},
         kind = "sts" => n \in Temp, LockedUnless(odd, <<SaveUser(kind, n, cred)>>),
         (~odd /\ ~stale /\ Whole /\ todo = << >>) => n \notin Service
  PROVE  OrphanInv'
  <1> DEFINE s == SaveUser(kind, n, cred)
  <1>1. s.path = <<kind, n>> /\ s.doc = cred
    BY DEF SaveUser, Step
  <1>2. ASSUME ~odd, ~stale, Whole, todo = << >>, Wrote(s) PROVE Whole'
    BY <1>2, SavesUserWhole
  <1> HIDE DEF s
  <1>3. s.path \in Paths /\ s.doc \in DocsAt(s.path) \cup {NoDoc} /\ s.path[1] # "group"
    <2>1. <<kind, n>> \in Paths
      BY PathsAre
    <2>2. DocsAt(<<kind, n>>) = Creds
      BY DEF DocsAt
    <2>3. kind # "group" /\ <<kind, n>>[1] = kind OBVIOUS
    <2>4. QED BY <1>1, <2>1, <2>2, <2>3
  <1>4. LockedUnless(odd, <<s>>)
    BY DEF s
  <1>5. QED BY <1>2, <1>3, <1>4, OneStepOrphan

LEMMA SetUserStatusOrphan ==
  ASSUME IAMInv, OrphanInv, NEW n \in Names, NEW status \in {"on", "off"}, SetUserStatus(n, status)
  PROVE  OrphanInv'
  <1> DEFINE cred == Cred("user", status, NoDoc)
  <1>1. cred \in Creds
    BY DEF Cred, Creds
  <1>2. sys.users[n] # NoDoc /\ LockedUnless(IsServiceAccount(n), <<SaveUser("user", n, cred)>>)
    BY DEF SetUserStatus
  <1> HIDE DEF cred
  <1>3. (~IsServiceAccount(n) /\ ~stale /\ Whole /\ todo = << >>) => n \notin Service
    BY <1>2, Agreed
  <1>4. QED BY <1>1, <1>2, <1>3, OneUserOrphan

LEMMA SetUserSecretKeyOrphan ==
  ASSUME IAMInv, OrphanInv, NEW n \in Names, SetUserSecretKey(n)
  PROVE  OrphanInv'
  <1>1. sys.users[n] \in Creds
    BY KindsFit DEF SetUserSecretKey, CredsFor
  <1>2. /\ sys.users[n] # NoDoc
        /\ LockedUnless(IsServiceAccount(n), <<SaveUser("user", n, sys.users[n])>>)
    BY DEF SetUserSecretKey
  <1>3. (~IsServiceAccount(n) /\ ~stale /\ Whole /\ todo = << >>) => n \notin Service
    BY <1>2, Agreed
  <1>4. QED BY <1>1, <1>2, <1>3, OneUserOrphan

LEMMA SetTempUserOrphan ==
  ASSUME IAMInv, OrphanInv, NEW n \in Temp, SetTempUser(n)
  PROVE  OrphanInv'
  <1>1. n \in Names /\ n \notin Service /\ TempCred \in Creds
    BY NamesAssumption DEF Names, TempCred, Cred, Creds
  <1>2. LockedUnless(FALSE, <<SaveUser("sts", n, TempCred)>>)
    BY DEF SetTempUser, Locked, TempCred
  <1>3. QED BY <1>1, <1>2, OneUserOrphan

LEMMA NewServiceAccountOrphan ==
  ASSUME IAMInv, OrphanInv, NEW n \in Service, NEW parent \in Names, NewServiceAccount(n, parent)
  PROVE  OrphanInv'
  <1> DEFINE cred == Cred("svc", "on", parent)
             s == SaveUser("svc", n, cred)
  <1>1. cred \in Creds /\ cred.kind = "svc" /\ cred.parent = parent
    BY DEF Cred, Creds
  <1>2. LockedUnless(FALSE, <<s>>) /\ sys.users[parent] # NoDoc
    BY DEF NewServiceAccount, Locked
  <1> HIDE DEF cred
  <1>3. s.path = <<"svc", n>> /\ s.doc = cred /\ s.changes = {Put("users", n, cred)}
    BY DEF SaveUser, Step
  <1> HIDE DEF s
  <1>4. s.path \in Paths /\ s.doc \in DocsAt(s.path) \cup {NoDoc} /\ s.path[1] # "group"
    BY <1>1, <1>3, PathsAre DEF DocsAt
  <1>5. ASSUME ~stale, Whole, todo = << >>, Wrote(s) PROVE Whole'
    <2>1. cred.parent \in Regular => Doc(<<"user", cred.parent>>) # NoDoc
      BY <1>1, <1>2, <1>5, Agreed
    <2>2. QED BY <1>1, <1>3, <1>5, <2>1, AccountWhole
  <1>6. QED BY <1>2, <1>4, <1>5, OneStepOrphan

LEMMA DeleteServiceAccountOrphan ==
  ASSUME IAMInv, OrphanInv, NEW n \in Service, DeleteServiceAccount(n)
  PROVE  OrphanInv'
  <1> DEFINE s == AccountGoes(n, "abort")
  <1>1. LockedUnless(FALSE, <<s>>)
    BY DEF DeleteServiceAccount, Locked, AccountGoes
  <1>2. s.path = <<"svc", n>> /\ s.doc = NoDoc /\ s.changes = {Put("users", n, NoDoc)}
    BY DEF AccountGoes, Step
  <1> HIDE DEF s
  <1>3. s.path \in Paths /\ s.doc \in DocsAt(s.path) \cup {NoDoc} /\ s.path[1] # "group"
    BY <1>2, PathsAre
  <1>4. ASSUME Whole, Wrote(s) PROVE Whole'
    BY <1>2, <1>4, AccountWhole
  <1>5. QED BY <1>1, <1>3, <1>4, OneStepOrphan

LEMMA FirstAndRest ==
  ASSUME NEW s, NEW T, NEW rest \in Seq(T)
  PROVE  Head(<<s>> \o rest) = s /\ Tail(<<s>> \o rest) = rest
  OBVIOUS

LEMMA AtMostOne ==
  ASSUME NEW s
  PROVE  <<s>> \in Seq({s}) /\ << >> \in Seq({s})
  OBVIOUS

LEMMA SetUserOrphan ==
  ASSUME IAMInv, OrphanInv, NEW n \in Regular, NEW status \in {"enabled", "disabled"},
         NEW policy \in OptPolicies, SetUser(n, status, policy)
  PROVE  OrphanInv'
  <1> DEFINE cred == Cred("user", status, NoDoc)
             s == SaveUser("user", n, cred)
             map == policyDBSet("umap", n, policy, "abort")
             rest == IF policy # NoDoc /\ sys.docs[policy] # NoDoc THEN <<map>> ELSE << >>
  <1>1. cred \in Creds /\ n \in Names /\ n \notin Service
    BY NamesAre DEF Cred, Creds
  <1>2. LockedUnless(FALSE, <<s>> \o rest)
    BY DEF SetUser, Locked
  <1>3. s.path = <<"user", n>> /\ s.doc = cred /\ s.changes = {Put("users", n, cred)}
    BY DEF SaveUser, Step
  <1> HIDE DEF cred
  <1>4. Head(<<s>> \o rest) = s /\ Tail(<<s>> \o rest) = rest
    <2>1. rest = <<map>> \/ rest = << >> OBVIOUS
    <2> HIDE DEF s, map, rest
    <2>2. QED BY <2>1, FirstAndRest, AtMostOne
  <1>5. <<"user", n>> \in Paths /\ cred \in DocsAt(<<"user", n>>) /\ cred # NoDoc
    BY <1>1, PathsAre, NoDocAssumption DEF DocsAt, Documents
  <1> DEFINE steps == <<s>> \o rest
  <1>6. Head(steps) = s /\ Tail(steps) = rest /\ LockedUnless(FALSE, steps)
    BY <1>2, <1>4
  <1> HIDE DEF steps
  <1>7. ASSUME ~stale, Whole, todo = << >>, Wrote(s), todo' = rest
        PROVE  /\ Whole' /\ TodoReady'
               /\ \A g \in Groups : \A m : Lists(g, m)' => Lists(g, m)
    <2>1. Whole'
      BY <1>1, <1>7, SavesUserWhole
    <2>2. /\ store' = Write(<<"user", n>>, cred) /\ sys' = Applied(sys, {Put("users", n, cred)})
          /\ stale' = stale
      BY <1>3, <1>7 DEF Wrote
    <2>3. \A g \in Groups : \A m : Lists(g, m)' => Lists(g, m)
      BY <1>5, <2>2, ListsGo
    <2>4. ASSUME policy # NoDoc, sys.docs[policy] # NoDoc PROVE MayMap(n, policy)'
      <3>1. policy \in Policies /\ LoadedPolicy(policy) # NoDoc
        BY <1>7, <2>4, Agreed DEF OptPolicies
      <3>2. OnlyDoc(<<"user", n>>, cred)
        BY <1>5, <2>2, TypesOf, WriteIs DEF OnlyDoc
      <3>3. \A p \in Policies : Doc(<<"policy", p>>)' = Doc(<<"policy", p>>)
        BY <3>2, PathsAre DEF OnlyDoc
      <3>4. LoadedPolicy(policy)' # NoDoc
        BY <3>1, <3>3, PoliciesKept
      <3>5. sys'.docs = sys.docs
        <4>1. sys \in SysTypes /\ cred \in Creds \cup {NoDoc}
          BY <1>1, TypesOf
        <4>2. /\ sys' \in SysTypes /\ sys'.users = [sys.users EXCEPT ![n] = cred]
              /\ sys'.nil = sys.nil /\ sys'.groups = sys.groups /\ sys'.docs = sys.docs
              /\ sys'.umap = sys.umap /\ sys'.gmap = sys.gmap /\ sys'.memberOf = sys.memberOf
          BY <1>1, <2>2, <4>1, AppliedUser
        <4>3. QED BY <4>2
      <3>6. QED BY <1>5, <2>4, <3>2, <3>4, <3>5 DEF MayMap, OnlyDoc
    <2>5. TodoReady'
      <3>1. CASE rest = << >>
        BY <1>7, <3>1 DEF TodoReady
      <3>2. CASE rest = <<map>> /\ policy # NoDoc /\ sys.docs[policy] # NoDoc
        <4>1. Head(todo') = map /\ Tail(todo') = << >>
          BY <1>7, <3>2
        <4>2. MayMap(n, policy)' /\ policy \in Policies
          BY <2>4, <3>2 DEF OptPolicies
        <4>3. << >> \in Seq(Clears) OBVIOUS
        <4>4. QED BY <4>1, <4>2, <4>3 DEF TodoReady, HeadReady
      <3>3. QED BY <3>1, <3>2
    <2>6. QED BY <2>1, <2>3, <2>5
  <1> HIDE DEF rest, s
  <1>8. QED BY <1>6, <1>7, LockedOrphan

\* Every element of a finite set is in its sequence.
LEMMA SetToSeqHas ==
  ASSUME NEW S, IsFiniteSet(S), NEW x \in S
  PROVE  In(x, SetToSeq(S))
  <1> DEFINE n == Cardinality(S)
             f == SetToSeq(S)
  <1>1. n \in Nat /\ Bijection(1 .. n, S) # {}
    BY FS_CardinalityType DEF ExistsBijection
  <1>2. PICK g \in [1 .. n -> S] : IsInjective(g)
    BY <1>1 DEF Bijection, Injection
  <1>3. f \in [1 .. n -> S] /\ IsInjective(f)
    BY <1>2 DEF SetToSeq
  <1>4. IsFiniteSet(1 .. n) /\ Cardinality(1 .. n) = Cardinality(S)
    <2>1. 1 \in Int /\ n \in Int
      BY <1>1
    <2> HIDE DEF n
    <2>2. IsFiniteSet(1 .. n) /\ Cardinality(1 .. n) = IF 1 > n THEN 0 ELSE n - 1 + 1
      BY <2>1, FS_Interval
    <2>3. Cardinality(1 .. n) = n
      BY <1>1, <2>2
    <2>4. QED BY <2>2, <2>3 DEF n
  <1> HIDE DEF n, f
  <1>5. f \in Injection(1 .. n, S)
    BY <1>3 DEF Injection
  <1>6. f \in Surjection(1 .. n, S)
    BY <1>4, <1>5, FS_Injection
  <1>7. PICK i \in 1 .. n : f[i] = x
    BY <1>6 DEF Surjection
  <1>8. Len(f) = n
    BY <1>1, <1>3
  <1>9. QED BY <1>7, <1>8 DEF In, f

LEMMA InEither ==
  ASSUME NEW T, NEW a \in Seq(T), NEW b \in Seq(T), NEW x, In(x, a) \/ In(x, b)
  PROVE  In(x, a \o b)
  <1>1. CASE In(x, a)
    BY <1>1 DEF In
  <1>2. CASE In(x, b)
    <2>1. PICK i \in 1 .. Len(b) : b[i] = x
      BY <1>2 DEF In
    <2>2. Len(a) + i \in 1 .. Len(a \o b) /\ (a \o b)[Len(a) + i] = x
      BY <2>1
    <2>3. QED BY <2>2 DEF In
  <1>3. QED BY <1>1, <1>2

\* The steps after the first of a change may all come later.
LEMMA ClearsReady ==
  ASSUME todo' \in Seq(Clears)
  PROVE  TodoReady'
  <1>1. todo' # << >> => Head(todo') \in Clears /\ Tail(todo') \in Seq(Clears) OBVIOUS
  <1>2. QED BY <1>1 DEF TodoReady, HeadReady

LEMMA DeletePolicyOrphan ==
  ASSUME IAMInv, OrphanInv, NEW p \in Policies, DeletePolicy(p)
  PROVE  OrphanInv'
  <1> DEFINE users == {n \in Names : sys.umap[n] = p}
             strays == {g \in Groups : sys.gmap[g] = p /\ sys.groups[g] = NoDoc}
             groups == {g \in Groups : sys.gmap[g] = p} \ strays
             unmap(n) == policyDBSet(IF IsTemp(n) THEN "stsmap" ELSE "umap", n, NoDoc, "skip")
             s == Step(<<"policy", p>>, NoDoc, {Put("docs", p, NoDoc)}, "force")
             lost == \E n \in users : sys.users[n] = NoDoc
             U == {unmap(n) : n \in users}
             G == {policyDBSet("gmap", g, NoDoc, "skip") : g \in groups}
             steps == IF lost THEN <<s>> ELSE <<s>> \o SetToSeq(U) \o SetToSeq(G)
  <1>1. LockedUnless(lost \/ strays # {}, steps)
    BY DEF DeletePolicy
  <1>2. U \subseteq Clears /\ G \subseteq Clears
    BY KindsFit DEF Clears
  <1>3. IsFiniteSet(U) /\ IsFiniteSet(G)
    <2>1. IsFiniteSet(users) /\ IsFiniteSet(groups)
      BY FiniteAssumption, FS_Subset
    <2>2. /\ [n \in users |-> unmap(n)] \in Surjection(users, U)
          /\ [g \in groups |-> policyDBSet("gmap", g, NoDoc, "skip")] \in Surjection(groups, G)
      BY DEF Surjection
    <2>3. QED BY <2>1, <2>2, FS_Surjection
  <1>4. \A n \in Names \ Temp : sys.umap[n] = p => Unmaps(n) \in U
    BY KindsFit DEF Unmaps
  <1>5. strays = {} => \A g \in Groups : sys.gmap[g] = p => UnmapsGroup(g) \in G
    BY DEF UnmapsGroup
  <1>6. s.path = <<"policy", p>> /\ s.doc = NoDoc /\ s.changes = {Put("docs", p, NoDoc)}
    BY DEF Step
  <1> DEFINE rest == SetToSeq(U) \o SetToSeq(G)
  <1>7. ~lost => Head(steps) = s /\ Tail(steps) = rest /\ rest \in Seq(Clears)
    <2> HIDE DEF U, G, s, lost
    <2>1. SetToSeq(U) \in Seq(Clears) /\ SetToSeq(G) \in Seq(Clears)
      BY <1>2, <1>3, SetToSeqIs
    <2>2. rest \in Seq(Clears) /\ <<s>> \o SetToSeq(U) \o SetToSeq(G) = <<s>> \o rest
      BY <2>1
    <2> HIDE DEF rest
    <2>3. QED BY <2>2, FirstAndRest, ZenonT(60)
  <1>8. \A x : x \in U \/ x \in G => In(x, rest)
    <2> HIDE DEF U, G
    <2>1. SetToSeq(U) \in Seq(Clears) /\ SetToSeq(G) \in Seq(Clears)
      BY <1>2, <1>3, SetToSeqIs
    <2>2. ASSUME NEW x, x \in U \/ x \in G PROVE In(x, SetToSeq(U)) \/ In(x, SetToSeq(G))
      BY <1>3, <2>2, SetToSeqHas
    <2>3. QED BY <2>1, <2>2, InEither
  <1> HIDE DEF U, G, s, lost, strays, rest, steps
  <1>9. ASSUME ~(lost \/ strays # {}), ~stale, Whole, todo = << >>, Wrote(Head(steps)), todo' = Tail(steps)
        PROVE  /\ Whole' /\ TodoReady'
               /\ \A g \in Groups : \A n : Lists(g, n)' => Lists(g, n)
    <2>1. Wrote(s) /\ todo' = rest /\ rest \in Seq(Clears)
      BY <1>7, <1>9
    <2>2. \A n \in Names \ Temp : (Doc(<<"umap", n>>) = p \/ (~stale /\ sys.umap[n] = p))
                                     => In(Unmaps(n), todo')
      BY <1>4, <1>8, <1>9, <2>1, Agreed
    <2>3. \A g \in Groups : (Doc(<<"gmap", g>>) = p \/ (~stale /\ sys.gmap[g] = p))
                              => In(UnmapsGroup(g), todo')
      BY <1>5, <1>8, <1>9, <2>1, Agreed
    <2>4. Whole'
      BY <1>6, <1>9, <2>1, <2>2, <2>3, PolicyWhole
    <2>5. <<"policy", p>> \in Paths /\ store' = Write(<<"policy", p>>, NoDoc)
      BY <1>6, <2>1, PathsAre DEF Wrote
    <2>6. \A g \in Groups : \A n : Lists(g, n)' => Lists(g, n)
      BY <2>5, ListsGo
    <2>7. QED BY <2>1, <2>4, <2>6, ClearsReady
  <1>10. QED BY <1>1, <1>9, LockedOrphan

\* A group is saved, with members that it had or that are users.
LEMMA GroupSavedWhole ==
  ASSUME IAMInv, Whole, ~stale, todo = << >>, NEW g \in Groups, NEW doc \in GroupDocs,
         NEW names \in SUBSET Names, NEW to \in [Names -> SUBSET Groups], NEW s, Wrote(s),
         s = Step(<<"group", g>>, doc,
                  {Put("groups", g, doc)} \cup {Put("memberOf", n, to[n]) : n \in names}, "abort"),
         \A n \in Regular : n \in doc.members =>
           Lists(g, n) \/ sys.users[n] # NoDoc
  PROVE  /\ Whole'
         /\ \A h \in Groups : \A n : Lists(h, n)' <=> IF h = g THEN n \in doc.members ELSE Lists(h, n)
  <1>1. \A n \in Regular : n \in doc.members => Doc(<<"user", n>>) # NoDoc
    <2>1. NobodyInherits
      BY DEF Whole
    <2>2. QED BY <2>1, Agreed DEF NobodyInherits
  <1>2. Whole'
    BY <1>1, GroupWhole
  <1>3. <<"group", g>> \in Paths /\ doc \in DocsAt(<<"group", g>>) /\ doc # NoDoc
    BY PathsAre, NoDocAssumption DEF DocsAt, Documents
  <1>4. store' = Write(<<"group", g>>, doc)
    BY DEF Wrote, Step
  <1>5. OnlyDoc(<<"group", g>>, doc)
    BY <1>3, <1>4, TypesOf, WriteIs DEF OnlyDoc
  <1>6. \A h \in Groups : Doc(<<"group", h>>)' = IF h = g THEN doc ELSE Doc(<<"group", h>>)
    BY <1>5, PathsAre DEF OnlyDoc
  <1>7. QED BY <1>2, <1>3, <1>6 DEF Lists

LEMMA AddUsersToGroupOrphan ==
  ASSUME IAMInv, OrphanInv, NEW g \in Groups, NEW n \in Names, AddUsersToGroup(g, {n})
  PROVE  OrphanInv'
  <1> DEFINE old == IF sys.groups[g] = NoDoc THEN Group({}, "enabled") ELSE sys.groups[g]
             gi == [old EXCEPT !.members = @ \cup {n}]
             s == Step(<<"group", g>>, gi,
                       {Put("groups", g, gi)}
                         \cup {Put("memberOf", m, sys.memberOf[m] \cup {g}) : m \in {n}}, "abort")
             to == [m \in Names |-> sys.memberOf[m] \cup {g}]
  <1>1. /\ todo = << >> /\ Do(<<s>>) /\ sys.users[n] # NoDoc
        /\ deleting' = [m \in Names |-> IF m \in {n} /\ deleting[m] # NoDoc
                                        THEN [deleting[m] EXCEPT !.doubt = TRUE] ELSE deleting[m]]
        /\ torn' = (torn \/ stale \/ failures' # failures)
    BY DEF AddUsersToGroup, Change, KnownUsers
  <1>2. old \in GroupDocs
    BY GroupKnown DEF Group, GroupDocs
  <1>3. \A m \in old.members : sys.groups[g] # NoDoc /\ m \in sys.groups[g].members
    BY DEF Group
  <1> HIDE DEF old
  <1>4. gi \in GroupDocs /\ gi.members = old.members \cup {n}
    BY <1>2 DEF GroupDocs
  <1>5. to \in [Names -> SUBSET Groups] /\ \A m \in Names : to[m] = sys.memberOf[m] \cup {g}
    BY GroupKnown
  <1> HIDE DEF gi, to
  <1>6. {Put("memberOf", m, sys.memberOf[m] \cup {g}) : m \in {n}} =
          {Put("memberOf", m, to[m]) : m \in {n}}
    BY <1>5
  <1>7. s = Step(<<"group", g>>, gi,
                 {Put("groups", g, gi)} \cup {Put("memberOf", m, to[m]) : m \in {n}}, "abort")
    BY <1>6
  <1> DEFINE steps == <<s>>
  <1> HIDE DEF s
  <1>8. Head(steps) = s /\ Tail(steps) = << >> /\ Do(steps)
    BY <1>1
  <1> HIDE DEF steps
  <1>9. ASSUME ~stale, Whole, LeavesAll, Wrote(s), todo' = << >>
        PROVE  Whole' /\ LeavesAll' /\ TodoReady'
    <2>1. \A m \in Regular : m \in gi.members => Lists(g, m) \/ sys.users[m] # NoDoc
      <3>1. sys.groups[g] = Doc(<<"group", g>>)
        BY <1>1, <1>9, Agreed
      <3>2. QED BY <1>1, <1>3, <1>4, <3>1 DEF Lists
    <2>2. /\ Whole'
          /\ \A h \in Groups : \A m : Lists(h, m)' <=> IF h = g THEN m \in gi.members ELSE Lists(h, m)
      <3> DEFINE names == {n}
      <3>1. names \in SUBSET Names OBVIOUS
      <3>2. s = Step(<<"group", g>>, gi,
                     {Put("groups", g, gi)} \cup {Put("memberOf", m, to[m]) : m \in names}, "abort")
        BY <1>7
      <3> HIDE DEF names
      <3>3. todo = << >> /\ gi \in GroupDocs /\ to \in [Names -> SUBSET Groups]
        BY <1>1, <1>4, <1>5
      <3>4. Whole'
        BY <1>9, <2>1, <3>1, <3>2, <3>3, GroupSavedWhole
      <3>5. \A h \in Groups : \A m : Lists(h, m)' <=> IF h = g THEN m \in gi.members ELSE Lists(h, m)
        BY <1>9, <2>1, <3>1, <3>2, <3>3, GroupSavedWhole
      <3>6. QED BY <3>4, <3>5
    <2>3. \A h \in Groups : \A m : Lists(h, m)' => m = n \/ Lists(h, m)
      <3>1. \A m \in old.members : Lists(g, m)
        BY <1>1, <1>3, <1>9, Agreed DEF Lists
      <3>2. QED BY <1>4, <2>2, <3>1
    <2>4. ASSUME NEW m \in Regular, deleting'[m] # NoDoc, ~deleting'[m].doubt
          PROVE  m # n /\ deleting'[m] = deleting[m]
      <3>1. deleting[m] \in Deletions \cup {NoDoc} /\ m \in Names
        BY NamesAre DEF IAMInv, IAMTypes, DeletingFits
      <3>2. deleting[m] \in Deletions => [deleting[m] EXCEPT !.doubt = TRUE].doubt
        BY DEF Deletions
      <3>3. CASE m = n
        BY <1>1, <2>4, <3>1, <3>2, <3>3
      <3>4. QED BY <1>1, <3>1, <3>3
    <2>5. ASSUME NEW m \in Regular, deleting'[m] # NoDoc, ~deleting'[m].doubt,
                 NEW h \in Groups, Lists(h, m)'
          PROVE  h \in deleting'[m].groups
      BY <1>9, <2>3, <2>4, <2>5 DEF LeavesAll
    <2>6. QED BY <1>9, <2>2, <2>5 DEF LeavesAll, TodoReady
  <1>10. QED BY <1>1, <1>8, <1>9, ChangeOrphan

LEMMA SetGroupStatusOrphan ==
  ASSUME IAMInv, OrphanInv, NEW g \in Groups, NEW status \in {"enabled", "disabled"},
         SetGroupStatus(g, status)
  PROVE  OrphanInv'
  <1> DEFINE gi == [sys.groups[g] EXCEPT !.status = status]
             s == Step(<<"group", g>>, gi, {Put("groups", g, gi)}, "abort")
             to == [m \in Names |-> {}]
  <1>1. sys.groups[g] # NoDoc /\ LockedUnless(FALSE, <<s>>)
    BY DEF SetGroupStatus, Locked
  <1>2. gi \in GroupDocs /\ gi.members = sys.groups[g].members
    BY <1>1, GroupKnown DEF GroupDocs
  <1>3. to \in [Names -> SUBSET Groups] OBVIOUS
  <1> HIDE DEF gi, to
  <1>4. s = Step(<<"group", g>>, gi,
                 {Put("groups", g, gi)} \cup {Put("memberOf", m, to[m]) : m \in {}}, "abort")
    OBVIOUS
  <1> HIDE DEF s
  <1>5. Head(<<s>>) = s /\ Tail(<<s>>) = << >> OBVIOUS
  <1>6. ASSUME ~stale, Whole, todo = << >>, Wrote(s), todo' = << >>
        PROVE  /\ Whole' /\ TodoReady'
               /\ \A h \in Groups : \A n : Lists(h, n)' => Lists(h, n)
    <2>1. \A m : m \in gi.members => Lists(g, m)
      BY <1>1, <1>2, <1>6, Agreed DEF Lists
    <2>2. {} \in SUBSET Names OBVIOUS
    <2>3. /\ Whole'
          /\ \A h \in Groups : \A m : Lists(h, m)' <=> IF h = g THEN m \in gi.members ELSE Lists(h, m)
      BY <1>2, <1>3, <1>4, <1>6, <2>1, <2>2, GroupSavedWhole
    <2>4. QED BY <1>6, <2>1, <2>3 DEF TodoReady
  <1> DEFINE steps == <<s>>
  <1>7. Head(steps) = s /\ Tail(steps) = << >> /\ LockedUnless(FALSE, steps)
    BY <1>1, <1>5
  <1> HIDE DEF steps
  <1>8. QED BY <1>6, <1>7, LockedOrphan

\* A member leaves a group.
LEMMA MemberGoes ==
  ASSUME IAMInv, NEW g \in Groups, NEW n \in Names, sys.groups[g] # NoDoc
  PROVE  /\ Tail(RemovalOf(g, {n})) = << >>
         /\ (~stale /\ Whole /\ todo = << >> /\ Wrote(Head(RemovalOf(g, {n}))))
              => /\ Whole'
                 /\ \A h \in Groups : \A m : Lists(h, m)' => Lists(h, m) /\ (h # g \/ m # n)
  <1> DEFINE gi == [sys.groups[g] EXCEPT !.members = @ \ {n}]
             to == [m \in Names |-> sys.memberOf[m] \ {g}]
             names == {n}
             s == Step(<<"group", g>>, gi,
                       {Put("groups", g, gi)}
                         \cup {Put("memberOf", m, sys.memberOf[m] \ {g}) : m \in {n}}, "abort")
  <1>1. RemovalOf(g, {n}) = <<s>>
    BY DEF RemovalOf
  <1>2. gi \in GroupDocs /\ gi.members = sys.groups[g].members \ {n}
    BY GroupKnown DEF GroupDocs
  <1>3. to \in [Names -> SUBSET Groups] /\ \A m \in Names : to[m] = sys.memberOf[m] \ {g}
    BY GroupKnown
  <1> HIDE DEF gi, to
  <1>4. {Put("memberOf", m, sys.memberOf[m] \ {g}) : m \in {n}} =
          {Put("memberOf", m, to[m]) : m \in {n}}
    BY <1>3
  <1>5. /\ names \in SUBSET Names
        /\ s = Step(<<"group", g>>, gi,
                    {Put("groups", g, gi)} \cup {Put("memberOf", m, to[m]) : m \in names}, "abort")
    BY <1>4
  <1> HIDE DEF s, names
  <1>6. Head(<<s>>) = s /\ Tail(<<s>>) = << >> OBVIOUS
  <1>7. ASSUME ~stale, Whole, todo = << >>, Wrote(s)
        PROVE  /\ Whole'
               /\ \A h \in Groups : \A m : Lists(h, m)' => Lists(h, m) /\ (h # g \/ m # n)
    <2>1. \A m : m \in gi.members => Lists(g, m) /\ m # n
      BY <1>2, <1>7, Agreed DEF Lists
    <2>2. /\ Whole'
          /\ \A h \in Groups : \A m : Lists(h, m)' <=> IF h = g THEN m \in gi.members ELSE Lists(h, m)
      BY <1>2, <1>3, <1>5, <1>7, <2>1, GroupSavedWhole
    <2>3. QED BY <2>1, <2>2
  <1>8. QED BY <1>1, <1>6, <1>7

\* A mapping is deleted, before its user or group.
LEMMA EmptyGroupGoes ==
  ASSUME IAMInv, NEW g \in Groups, ~stale, Whole, todo = << >>,
         NEW s, s = Step(<<"gmap", g>>, NoDoc, {}, "abort"), Wrote(s), todo' = <<GroupGoes(g)>>
  PROVE  /\ Whole' /\ TodoReady'
         /\ \A h \in Groups : \A m : Lists(h, m)' => Lists(h, m)
  <1>1. s.path = <<"gmap", g>> /\ s.doc = NoDoc /\ s.changes = {} /\ <<"gmap", g>> \in Paths
    BY PathsAre DEF Step
  <1>2. Whole'
    BY <1>1, NothingTodo, OtherMapWhole
  <1>3. store' = Write(<<"gmap", g>>, NoDoc)
    BY <1>1 DEF Wrote
  <1>4. Doc(<<"gmap", g>>)' = NoDoc
    BY <1>1, <1>3, TypesOf, WriteIs
  <1>5. \A h \in Groups : \A m : Lists(h, m)' => Lists(h, m)
    BY <1>1, <1>3, ListsGo
  <1>6. Head(todo') = GroupGoes(g) /\ Tail(todo') = << >> /\ << >> \in Seq(Clears) OBVIOUS
  <1>7. QED BY <1>2, <1>4, <1>5, <1>6 DEF TodoReady, HeadReady

LEMMA RemoveUsersFromGroupOrphan ==
  ASSUME IAMInv, OrphanInv, NEW g \in Groups, NEW members,
         members = {} \/ \E n \in Names : members = {n}, RemoveUsersFromGroup(g, members)
  PROVE  OrphanInv'
  <1>1. sys.groups[g] # NoDoc /\ LockedUnless(FALSE, RemovalOf(g, members))
    BY DEF RemoveUsersFromGroup, Locked
  <1>2. ASSUME NEW n \in Names, members = {n} PROVE OrphanInv'
    <2> DEFINE steps == RemovalOf(g, {n})
    <2>1. LockedUnless(FALSE, steps)
      BY <1>1, <1>2
    <2>2. ASSUME ~stale, Whole, todo = << >>, Wrote(Head(steps)), todo' = Tail(steps)
          PROVE  /\ Whole' /\ TodoReady'
                 /\ \A h \in Groups : \A m : Lists(h, m)' => Lists(h, m)
      BY <1>1, <2>2, MemberGoes DEF TodoReady
    <2> HIDE DEF steps
    <2>3. QED BY <2>1, <2>2, LockedOrphan
  <1>3. CASE members = {}
    <2> DEFINE s == Step(<<"gmap", g>>, NoDoc, {}, "abort")
               steps == <<s, GroupGoes(g)>>
    <2>1. RemovalOf(g, members) = steps
      BY <1>3 DEF RemovalOf, GroupGoes
    <2>2. Head(steps) = s /\ Tail(steps) = <<GroupGoes(g)>> OBVIOUS
    <2>3. LockedUnless(FALSE, steps)
      BY <1>1, <2>1
    <2> HIDE DEF steps
    <2>4. ASSUME ~stale, Whole, todo = << >>, Wrote(s), todo' = <<GroupGoes(g)>>
          PROVE  /\ Whole' /\ TodoReady'
                 /\ \A h \in Groups : \A m : Lists(h, m)' => Lists(h, m)
      BY <2>4, EmptyGroupGoes
    <2> HIDE DEF s
    <2>5. QED BY <2>2, <2>3, <2>4, LockedOrphan
  <1>4. QED BY <1>2, <1>3

\* Documents stay, but for those of temporary users.
DocsStay ==
  /\ \A n \in Names \ Temp : Doc(<<"user", n>>)' = Doc(<<"user", n>>)
                            /\ Doc(<<"umap", n>>)' = Doc(<<"umap", n>>)
  /\ \A a \in Service : Doc(<<"svc", a>>)' = Doc(<<"svc", a>>)
  /\ \A g \in Groups : Doc(<<"group", g>>)' = Doc(<<"group", g>>)
                       /\ Doc(<<"gmap", g>>)' = Doc(<<"gmap", g>>)
  /\ \A p \in Policies : Doc(<<"policy", p>>)' = Doc(<<"policy", p>>)

LEMMA StoreStays ==
  ASSUME store' = store
  PROVE  DocsStay
  BY DEF DocsStay, Doc

\* Nothing that is told apart is written.
LEMMA DocsStayOrphan ==
  ASSUME OrphanInv, DocsStay, failures' \in Nat, ~torn' => ~torn /\ todo' = todo,
         todo = << >> \/ (sys' = sys /\ (~stale' => ~stale)),
         ~torn /\ Whole /\ todo' = todo /\ (sys.nil => stale) =>
           (~stale' => ~sys'.nil /\ MemoryThere'),
         \A n \in Regular : deleting'[n] \in {NoDoc, deleting[n]}
  PROVE  OrphanInv'
  <1>1. SUFFICES ASSUME ~torn'
        PROVE  Whole' /\ LeavesAll' /\ TodoReady' /\ (sys'.nil => stale' /\ todo' = << >>)
    BY DEF OrphanInv
  <1>2. /\ Whole /\ LeavesAll /\ TodoReady /\ (sys.nil => stale /\ todo = << >>)
        /\ todo' = todo /\ ~torn
    BY <1>1 DEF OrphanInv
  <1>3. /\ \A p \in Policies : LoadedPolicy(p)' = LoadedPolicy(p)
        /\ \A g \in Groups : \A n : Lists(g, n)' <=> Lists(g, n)
    BY PoliciesKept, ListsKept DEF DocsStay
  <1>4. NobodyInherits' /\ PoliciesThere' /\ AccountsFit'
    <2>1. NobodyInherits /\ PoliciesThere /\ AccountsFit
      BY <1>2 DEF Whole
    <2>2. NobodyInherits'
      BY <1>3, <2>1, NamesAre DEF NobodyInherits, DocsStay
    <2>3. PoliciesThere'
      BY <1>2, <1>3, <2>1 DEF PoliciesThere, DocsStay
    <2>4. AccountsFit'
      BY <1>2, <2>1, NamesAre DEF AccountsFit, DocsStay
    <2>5. QED BY <2>2, <2>3, <2>4
  <1>5. ~stale' => ~sys'.nil /\ MemoryThere'
    BY <1>2
  <1>6. LeavesAll'
    BY <1>2, <1>3, LeavesKept
  <1>7. TodoReady'
    <2>1. ASSUME todo # << >> PROVE HeadReady(Head(todo))'
      <3>1. HeadReady(Head(todo)) /\ sys' = sys /\ (~stale' => ~stale)
        BY <1>2, <2>1 DEF TodoReady
      <3>2. QED BY <1>2, <1>3, <3>1, NamesAre DEF HeadReady, MayMap, MayGo, DocsStay
    <2>2. QED BY <1>2, <2>1 DEF TodoReady
  <1>8. QED BY <1>2, <1>4, <1>5, <1>6, <1>7 DEF Whole

\* Memory stays, or counts as stale.
LEMMA MemoryStays ==
  ASSUME OrphanInv, DocsStay, todo' = todo, failures' \in Nat, ~torn' => ~torn,
         sys' = sys, ~stale' => ~stale,
         \A n \in Regular : deleting'[n] \in {NoDoc, deleting[n]}
  PROVE  OrphanInv'
  <1>1. ASSUME Whole, sys.nil => stale, ~stale' PROVE ~sys'.nil /\ MemoryThere'
    BY <1>1 DEF Whole, MemoryThere, DocsStay
  <1>2. QED BY <1>1, DocsStayOrphan

LEMMA DeleteUserOrphan ==
  ASSUME IAMInv, OrphanInv, NEW n \in Names, DeleteUser(n)
  PROVE  OrphanInv'
  <1>1. /\ store' = store /\ sys' = sys /\ todo' = todo /\ todo = << >> /\ failures' = failures
        /\ stale' = stale /\ torn' = torn
        /\ deleting' = [deleting EXCEPT ![n] = [groups |-> sys.memberOf[n], doubt |-> stale]]
    BY DEF DeleteUser, Change, history
  <1>2. deleting \in [Names -> Deletions \cup {NoDoc}] /\ Regular \subseteq Names
    BY TypesOf DEF IAMInv, IAMTypes, DeletingFits
  <1>3. ASSUME ~torn' PROVE Whole' /\ LeavesAll' /\ TodoReady' /\ (sys'.nil => stale' /\ todo' = << >>)
    <2>1. Whole /\ LeavesAll /\ (sys.nil => stale /\ todo = << >>)
      BY <1>1, <1>3 DEF OrphanInv
    <2>2. \A q : Doc(q)' = Doc(q)
      BY <1>1 DEF Doc
    <2>3. /\ \A p : LoadedPolicy(p)' = LoadedPolicy(p)
          /\ \A g, m : Lists(g, m)' <=> Lists(g, m)
      BY <2>2 DEF LoadedPolicy, Lists
    <2>4. NobodyInherits' /\ PoliciesThere' /\ AccountsFit' /\ (~stale' => MemoryThere')
      <3>1. NobodyInherits /\ PoliciesThere /\ AccountsFit /\ (~stale => MemoryThere)
        BY <2>1 DEF Whole
      <3>2. NobodyInherits'
        BY <2>2, <2>3, <3>1 DEF NobodyInherits
      <3>3. PoliciesThere'
        BY <1>1, <2>2, <2>3, <3>1 DEF PoliciesThere
      <3>4. AccountsFit'
        BY <1>1, <2>2, <3>1 DEF AccountsFit
      <3>5. ~stale' => MemoryThere'
        BY <1>1, <2>2, <3>1 DEF MemoryThere
      <3>6. QED BY <3>2, <3>3, <3>4, <3>5
    <2>5. ASSUME NEW m \in Regular, deleting'[m] # NoDoc, ~deleting'[m].doubt,
                 NEW g \in Groups, Lists(g, m)'
          PROVE  g \in deleting'[m].groups
      <3>1. CASE m = n
        <4>1. ~stale /\ deleting'[m].groups = sys.memberOf[n]
          BY <1>1, <1>2, <2>5, <3>1
        <4>2. sys.groups[g] # NoDoc /\ n \in sys.groups[g].members
          BY <1>1, <2>1, <2>3, <2>5, <3>1, <4>1, Agreed DEF Lists
        <4>3. g \in sys.memberOf[n]
          BY <4>2, GroupKnown
        <4>4. QED BY <4>1, <4>3
      <3>2. CASE m # n
        BY <1>1, <1>2, <2>1, <2>3, <2>5, <3>2 DEF LeavesAll
      <3>3. QED BY <3>1, <3>2
    <2>6. LeavesAll'
      BY <2>5 DEF LeavesAll
    <2>7. QED BY <1>1, <2>1, <2>4, <2>6 DEF Whole, TodoReady
  <1>4. failures' \in Nat
    BY <1>1 DEF OrphanInv
  <1>5. QED BY <1>3, <1>4 DEF OrphanInv

LEMMA DeletingKnown ==
  ASSUME IAMInv
  PROVE  /\ deleting \in [Names -> Deletions \cup {NoDoc}] /\ Regular \subseteq Names
         /\ \A n \in Names : deleting[n] # NoDoc => deleting[n] \in Deletions /\ n \notin Temp
  BY TypesOf DEF IAMInv, IAMTypes, DeletingFits

LEMMA DeleteUserLeavesOrphan ==
  ASSUME IAMInv, OrphanInv, NEW n \in Names, NEW g \in Groups, DeleteUserLeaves(n, g)
  PROVE  OrphanInv'
  <1> DEFINE steps == RemovalOf(g, {n})
  <1>1. /\ todo = << >> /\ deleting[n] # NoDoc /\ sys.groups[g] # NoDoc
        /\ Do(steps) /\ torn' = (torn \/ stale)
        /\ IF failures' # failures THEN deleting' = [deleting EXCEPT ![n] = NoDoc]
           ELSE deleting' = [deleting EXCEPT ![n].groups = @ \ {g}]
    BY DEF DeleteUserLeaves, DeleteUserReturns
  <1>2. /\ deleting \in [Names -> Deletions \cup {NoDoc}] /\ Regular \subseteq Names
        /\ deleting[n] \in Deletions
    BY <1>1, DeletingKnown
  <1>3. CASE failures' = failures
    <2>1. \A m \in Regular : m # n => deleting'[m] = deleting[m]
      BY <1>1, <1>2, <1>3
    <2>2. deleting'[n] = [deleting[n] EXCEPT !.groups = @ \ {g}]
      BY <1>1, <1>2, <1>3
    <2>3. deleting'[n].groups = deleting[n].groups \ {g} /\ deleting'[n].doubt = deleting[n].doubt
      BY <1>2, <2>2 DEF Deletions
    <2>4. ASSUME ~stale, Whole, LeavesAll, Wrote(Head(steps)), todo' = Tail(steps)
          PROVE  Whole' /\ LeavesAll' /\ TodoReady'
      <3>1. /\ todo' = << >> /\ Whole'
            /\ \A h \in Groups : \A m : Lists(h, m)' => Lists(h, m) /\ (h # g \/ m # n)
        BY <1>1, <2>4, MemberGoes
      <3>2. ASSUME NEW m \in Regular, deleting'[m] # NoDoc, ~deleting'[m].doubt,
                   NEW h \in Groups, Lists(h, m)'
            PROVE  h \in deleting'[m].groups
        <4>1. CASE m = n
          <5>1. h # g /\ Lists(h, n)
            BY <3>1, <3>2, <4>1
          <5>2. h \in deleting[n].groups
            BY <1>1, <2>3, <2>4, <3>2, <4>1, <5>1 DEF LeavesAll
          <5>3. QED BY <2>3, <4>1, <5>1, <5>2
        <4>2. CASE m # n
          BY <2>1, <2>4, <3>1, <3>2, <4>2 DEF LeavesAll
        <4>3. QED BY <4>1, <4>2
      <3>3. QED BY <3>1, <3>2 DEF LeavesAll, TodoReady
    <2> HIDE DEF steps
    <2>5. QED BY <1>1, <1>3, <2>4, ChangeOrphan
  <1>4. CASE failures' # failures
    <2>1. \A m \in Regular : deleting'[m] \in {NoDoc, deleting[m]}
      BY <1>1, <1>2, <1>4
    <2>2. Tail(steps) = << >> /\ Head(steps).fail = "abort"
      BY MemberGoes, <1>1 DEF RemovalOf, Step
    <2>3. sys' = sys /\ todo' = << >> /\ stale' = TRUE /\ store' = store
      BY <1>1, <1>4, <2>2 DEF Do
    <2>4. failures' \in Nat
      BY <1>1, TypesOf, DoWrites DEF OrphanInv
    <2>5. QED BY <1>1, <2>1, <2>3, <2>4, StoreStays, MemoryStays
  <1>5. QED BY <1>3, <1>4

LEMMA DeleteUserFailsOrphan ==
  ASSUME IAMInv, OrphanInv, NEW n \in Names, NEW g \in Groups, DeleteUserFails(n, g)
  PROVE  OrphanInv'
  <1>1. /\ store' = store /\ sys' = sys /\ todo' = todo /\ failures' = failures
        /\ stale' = stale /\ torn' = torn /\ deleting' = [deleting EXCEPT ![n] = NoDoc]
    BY DEF DeleteUserFails, DeleteUserReturns, history
  <1>2. \A m \in Regular : deleting'[m] \in {NoDoc, deleting[m]}
    BY <1>1, DeletingKnown
  <1>3. failures' \in Nat
    BY <1>1 DEF OrphanInv
  <1>4. QED BY <1>1, <1>2, <1>3, StoreStays, MemoryStays

LEMMA DeleteUserEndsOrphan ==
  ASSUME IAMInv, OrphanInv, NEW n \in Names, DeleteUserEnds(n)
  PROVE  OrphanInv'
  <1> DEFINE accounts == {a \in Names : IsServiceAccount(a) /\ sys.users[a].parent = n}
             A == {Step(<<"svc", a>>, NoDoc, {Put("users", a, NoDoc)}, "force") : a \in accounts}
             s == Step(<<"umap", n>>, NoDoc, {}, "force")
             rest == SetToSeq(A)
             later == <<UserGoes(n)>> \o rest
             steps == <<s, UserGoes(n)>> \o rest
  <1>1. /\ todo = << >> /\ deleting[n] # NoDoc /\ deleting[n].groups = {}
        /\ deleting' = [deleting EXCEPT ![n] = NoDoc] /\ Do(steps)
        /\ torn' = (torn \/ stale \/ deleting[n].doubt \/ IsServiceAccount(n)
                      \/ failures' # failures)
    BY DEF DeleteUserEnds, DeleteUserReturns, UserGoes
  <1>2. accounts \subseteq Service
    BY KindsFit
  <1>3. \A a \in accounts :
          Step(<<"svc", a>>, NoDoc, {Put("users", a, NoDoc)}, "force") = AccountGoes(a, "force")
    BY DEF AccountGoes
  <1>4. A \subseteq Clears
    <2> HIDE DEF accounts
    <2>1. \A a \in Service : AccountGoes(a, "force") \in Clears
      BY DEF Clears
    <2>2. QED BY <1>2, <1>3, <2>1
  <1>5. \A a \in accounts : AccountGoes(a, "force") \in A
    <2> HIDE DEF accounts
    <2>1. QED BY <1>3
  <1>6. IsFiniteSet(A)
    <2>1. IsFiniteSet(accounts)
      BY FiniteAssumption, FS_Subset
    <2>2. [a \in accounts |-> Step(<<"svc", a>>, NoDoc, {Put("users", a, NoDoc)}, "force")]
            \in Surjection(accounts, A)
      BY DEF Surjection
    <2>3. QED BY <2>1, <2>2, FS_Surjection
  <1> HIDE DEF A
  <1>7. rest \in Seq(Clears) /\ \A a \in accounts : In(AccountGoes(a, "force"), rest)
    BY <1>4, <1>5, <1>6, SetToSeqIs, SetToSeqHas
  <1>8. s.path = <<"umap", n>> /\ s.doc = NoDoc /\ s.changes = {} /\ <<"umap", n>> \in Paths
    BY PathsAre DEF Step
  <1> HIDE DEF rest, s
  <1>9. /\ Head(steps) = s /\ Tail(steps) = later /\ later # << >>
        /\ Head(later) = UserGoes(n) /\ Tail(later) = rest
    BY <1>7
  <1>10. \A x : In(x, rest) => In(x, later)
    <2>1. ASSUME NEW x, In(x, rest) PROVE In(x, later)
      <3>1. PICK i \in 1 .. Len(rest) : rest[i] = x
        BY <2>1 DEF In
      <3>2. i + 1 \in 1 .. Len(later) /\ later[i + 1] = x
        BY <1>7, <3>1
      <3>3. QED BY <3>2 DEF In
    <2>2. QED BY <2>1
  <1> HIDE DEF steps, later
  <1>11. n \notin Temp /\ \A m \in Regular : deleting'[m] \in {NoDoc, deleting[m]}
    BY <1>1, DeletingKnown
  <1>12. ASSUME ~torn', ~stale, Whole, LeavesAll, Wrote(s), todo' = later
         PROVE  Whole' /\ LeavesAll' /\ TodoReady'
    <2>1. Whole'
      BY <1>1, <1>8, <1>12, NothingTodo, OtherMapWhole
    <2>2. store' = Write(<<"umap", n>>, NoDoc)
      BY <1>8, <1>12 DEF Wrote
    <2>3. \A g \in Groups : \A m : Lists(g, m)' => Lists(g, m)
      BY <1>8, <2>2, ListsGo
    <2>4. LeavesAll'
      BY <1>11, <1>12, <2>3, LeavesKept
    <2>5. OnlyDoc(<<"umap", n>>, NoDoc)
      BY <1>8, <2>2, TypesOf, WriteIs DEF OnlyDoc
    <2>6. \A a \in Service : Doc(<<"svc", a>>)' = Doc(<<"svc", a>>)
      BY <2>5, PathsAre DEF OnlyDoc
    <2>7. n \in Service => Doc(<<"svc", n>>)' = NoDoc
      BY <1>1, <1>12, <2>6, Agreed
    <2>8. n \in Regular => \A g \in Groups : ~Lists(g, n)'
      BY <1>1, <1>12, <2>3 DEF LeavesAll
    <2>9. ASSUME NEW a \in Service, Doc(<<"svc", a>>)' # NoDoc, Doc(<<"svc", a>>)'.parent = n
          PROVE  In(AccountGoes(a, "force"), todo')
      <3>1. sys.users[a] # NoDoc /\ sys.users[a].parent = n /\ IsServiceAccount(a) /\ a \in Names
        BY <1>1, <1>12, <2>6, <2>9, Agreed, TypesOf
      <3>2. QED BY <1>7, <1>10, <1>12, <3>1
    <2>10. MayGo(n)'
      BY <1>8, <2>5, <2>7, <2>8, <2>9 DEF MayGo, OnlyDoc
    <2>11. TodoReady'
      <3>1. Tail(todo') \in Seq(Clears) /\ Head(todo') = UserGoes(n)
        BY <1>7, <1>9, <1>12
      <3>2. QED BY <1>11, <2>10, <3>1 DEF TodoReady, HeadReady
    <2>12. QED BY <2>1, <2>4, <2>11
  <1>13. ~torn' => ~torn /\ ~stale /\ failures' = failures
    BY <1>1
  <1>14. QED BY <1>1, <1>9, <1>12, <1>13, ChangeOrphan

\* Nothing changes but what loadAll has read.
LEMMA LoadOnlyOrphan ==
  ASSUME OrphanInv, UNCHANGED <<store, sys, todo, deleting, failures, stale, torn>>
  PROVE  OrphanInv'
  <1>1. failures' \in Nat
    BY DEF OrphanInv
  <1>2. DocsStay
    BY StoreStays
  <1>3. QED BY <1>1, <1>2, MemoryStays

LEMMA LoadUsersOrphan ==
  ASSUME IAMInv, OrphanInv, NEW expired \in SUBSET Temp, LoadUsers(expired)
  PROVE  OrphanInv'
  <1> DEFINE gone == {path \in Paths : path[2] \in expired /\ path[1] \in {"user", "sts"}}
             mapped == {IF path[1] = "sts" THEN <<"stsmap", path[2]>> ELSE <<"umap", path[2]>> :
                          path \in {q \in gone : store[q] # NoDoc}}
             dropped == gone \cup mapped
  <1>1. /\ store' = [path \in Paths |-> IF path \in dropped THEN NoDoc ELSE store[path]]
        /\ stale' = (stale \/ expired # {})
        /\ UNCHANGED <<sys, todo, deleting, failures, torn>>
    BY DEF LoadUsers
  <1>2. \A path \in dropped : path[2] \in Temp /\ path[1] \in {"user", "sts", "stsmap", "umap"}
    <2>1. \A path \in mapped : path[2] \in expired /\ path[1] \in {"stsmap", "umap"} OBVIOUS
    <2> HIDE DEF mapped
    <2>2. QED BY <2>1
  <1> HIDE DEF dropped
  <1>3. \A path \in Paths : path \notin dropped => Doc(path)' = Doc(path)
    BY <1>1, TypesOf DEF Doc
  <1>4. /\ \A n \in Names \ Temp : <<"user", n>> \notin dropped /\ <<"umap", n>> \notin dropped
        /\ \A n : /\ <<"svc", n>> \notin dropped /\ <<"group", n>> \notin dropped
                  /\ <<"gmap", n>> \notin dropped /\ <<"policy", n>> \notin dropped
    BY <1>2
  <1>5. DocsStay
    BY <1>3, <1>4, PathsAre DEF DocsStay
  <1>6. failures' \in Nat
    BY <1>1 DEF OrphanInv
  <1>7. QED BY <1>1, <1>5, <1>6, MemoryStays

LEMMA LoadSwapOrphan ==
  ASSUME IAMInv, OrphanInv, LoadSwap
  PROVE  OrphanInv'
  <1>1. /\ load.pc = "swap" /\ todo = << >> /\ stale' = overtaken
        /\ UNCHANGED <<store, todo, deleting, failures, torn>>
        /\ sys' = [load.sys EXCEPT !.nil = FALSE,
                     !.memberOf = [n \in Names |-> sys.memberOf[n]
                                                     \cup MembersOf(load.sys.groups, n)]]
    BY DEF LoadSwap
  <1>2. /\ sys'.users = load.sys.users /\ sys'.docs = load.sys.docs
        /\ sys'.umap = load.sys.umap /\ sys'.gmap = load.sys.gmap /\ sys'.nil = FALSE
    BY <1>1 DEF IAMInv, IAMTypes, SysTypes
  <1>3. ASSUME Whole, ~stale' PROVE MemoryThere'
    <2>1. /\ \A p \in Policies : sys'.docs[p] = LoadedPolicy(p)
          /\ \A n \in Names : sys'.users[n] = LoadedUser(n, {}) /\ sys'.umap[n] = Doc(<<"umap", n>>)
          /\ \A g \in Groups : sys'.gmap[g] = Doc(<<"gmap", g>>)
      BY <1>1, <1>2, <1>3 DEF IAMInv, LoadAgrees
    <2>2. PoliciesThere /\ AccountsFit
      BY <1>3 DEF Whole
    <2>3. \A q : Doc(q)' = Doc(q)
      BY <1>1 DEF Doc
    <2>4. ASSUME NEW a \in Service PROVE sys'.users[a] = Doc(<<"svc", a>>)'
      BY <2>1, <2>2, <2>3, NamesAre, LoadedUserIs DEF AccountsFit, UsersFromPaths
    <2>5. ASSUME NEW p \in Policies
          PROVE  /\ \A n \in Names \ Temp : sys'.umap[n] = p => sys'.docs[p] # NoDoc
                 /\ \A g \in Groups : sys'.gmap[g] = p => sys'.docs[p] # NoDoc
      BY <1>1, <2>1, <2>2, NothingTodo DEF PoliciesThere
    <2>6. QED BY <2>4, <2>5 DEF MemoryThere
  <1>4. failures' \in Nat /\ \A n \in Regular : deleting'[n] \in {NoDoc, deleting[n]}
    BY <1>1 DEF OrphanInv
  <1>5. DocsStay
    BY <1>1, StoreStays
  <1>6. QED BY <1>1, <1>2, <1>3, <1>4, <1>5, DocsStayOrphan

\* Memory keeps values, or has those of the documents.
LEMMA ReloadedOrphan ==
  ASSUME IAMInv, OrphanInv, todo = << >>,
         UNCHANGED <<store, todo, deleting, failures, stale, torn>>, sys'.nil = sys.nil,
         \A a \in Service : (\A n \in Service : Doc(<<"user", n>>) = NoDoc)
                              => sys'.users[a] \in {sys.users[a], Doc(<<"svc", a>>)},
         \A p \in Policies : sys'.docs[p] \in {sys.docs[p], LoadedPolicy(p)},
         \A n \in Names \ Temp : sys'.umap[n] \in {sys.umap[n], Doc(<<"umap", n>>)},
         \A g \in Groups : sys'.gmap[g] \in {sys.gmap[g], Doc(<<"gmap", g>>)}
  PROVE  OrphanInv'
  <1>1. ASSUME Whole, ~stale, ~sys.nil PROVE MemoryThere'
    <2>1. AccountsFit /\ MemoryThere
      BY <1>1 DEF Whole
    <2>2. \A q : Doc(q)' = Doc(q)
      BY DEF Doc
    <2>3. \A a \in Service : sys'.users[a] = Doc(<<"svc", a>>)'
      BY <1>1, <2>1, <2>2, Agreed DEF AccountsFit
    <2>4. ASSUME NEW p \in Policies, sys.docs[p] # NoDoc PROVE sys'.docs[p] # NoDoc
      BY <1>1, <2>4, Agreed
    <2>5. ASSUME NEW p \in Policies, NEW n \in Names \ Temp, sys'.umap[n] = p
          PROVE  sys'.docs[p] # NoDoc
      <3>1. sys.umap[n] = p
        BY <1>1, <2>5, Agreed
      <3>2. QED BY <2>1, <2>4, <3>1, NothingTodo DEF MemoryThere
    <2>6. ASSUME NEW p \in Policies, NEW g \in Groups, sys'.gmap[g] = p
          PROVE  sys'.docs[p] # NoDoc
      <3>1. sys.gmap[g] = p
        BY <1>1, <2>6, Agreed
      <3>2. QED BY <2>1, <2>4, <3>1, NothingTodo DEF MemoryThere
    <2>7. QED BY <2>3, <2>5, <2>6 DEF MemoryThere
  <1>2. failures' \in Nat /\ \A n \in Regular : deleting'[n] \in {NoDoc, deleting[n]}
    BY DEF OrphanInv
  <1>3. DocsStay
    BY StoreStays
  <1>4. QED BY <1>1, <1>2, <1>3, DocsStayOrphan

LEMMA ValueFrom ==
  ASSUME NEW mem, NEW changes, NEW map, NEW key
  PROVE  \/ ValueAt(mem, changes, map, key) = mem[map][key]
         \/ \E c \in changes : /\ c[1] = map /\ c[2] = key
                               /\ ValueAt(mem, changes, map, key) = c[3]
  BY DEF ValueAt, Touches

LEMMA LoadEntryOrphan ==
  ASSUME IAMInv, OrphanInv, NEW path \in Paths, LoadEntry(path)
  PROVE  OrphanInv'
  <1> DEFINE map == CASE path[1] \in {"user", "sts", "svc"} -> "users"
                      [] path[1] = "policy" -> "docs"
                      [] OTHER -> path[1]
             mapping == CASE path[1] = "user" -> Doc(<<"umap", path[2]>>)
                          [] path[1] = "sts" -> Doc(<<"stsmap", path[2]>>)
                          [] OTHER -> NoDoc
             doc == Doc(path)
             changes == {Put(map, path[2], doc)} \cup IF mapping = NoDoc THEN {}
                                                      ELSE {Put("umap", path[2], mapping)}
  <1>1. /\ todo = << >> /\ store[path] # NoDoc /\ path[1] \notin {"group", "stsmap"}
        /\ UNCHANGED <<store, todo, deleting, failures, stale, torn>>
        /\ sys' = Applied(sys, changes)
    BY DEF LoadEntry, history
  <1>2. sys \in SysTypes /\ store \in [Paths -> Files]
    BY TypesOf
  <1>3. doc # NoDoc
    <2>1. store[path] \in [doc : Documents, size : Nat]
      BY <1>1, <1>2 DEF Files
    <2>2. QED BY <1>1, <2>1, NoDocAssumption DEF Doc
  <1>4. \A c \in changes : \/ c = <<map, path[2], doc>>
                           \/ mapping # NoDoc /\ c = <<"umap", path[2], mapping>>
    <2> HIDE DEF map, mapping, doc
    <2>1. CASE mapping = NoDoc
      BY <2>1 DEF Put
    <2>2. CASE mapping # NoDoc
      BY <2>2 DEF Put
    <2>3. QED BY <2>1, <2>2
  <1>5. sys'.nil = sys.nil
    <2> HIDE DEF changes
    <2>1. QED BY <1>1, <1>2, AppliedIs
  <1>6. /\ \A n \in Names : /\ sys'.users[n] = ValueAt(sys, changes, "users", n)
                            /\ sys'.umap[n] = ValueAt(sys, changes, "umap", n)
        /\ \A p \in Policies : sys'.docs[p] = ValueAt(sys, changes, "docs", p)
        /\ \A g \in Groups : sys'.gmap[g] = ValueAt(sys, changes, "gmap", g)
    <2> HIDE DEF changes
    <2>1. QED BY <1>1, <1>2, AppliedIs
  <1> HIDE DEF changes
  <1>7. path = <<path[1], path[2]>>
    BY PathCases
  <1>8. ASSUME NEW a \in Service, \A n \in Service : Doc(<<"user", n>>) = NoDoc
        PROVE  sys'.users[a] \in {sys.users[a], Doc(<<"svc", a>>)}
    <2>1. sys'.users[a] = ValueAt(sys, changes, "users", a)
      BY <1>6, NamesAre
    <2>2. ASSUME NEW c \in changes, c[1] = "users", c[2] = a PROVE c[3] = Doc(<<"svc", a>>)
      <3>1. c = <<map, path[2], doc>> /\ map = "users" /\ path[2] = a
        BY <1>4, <2>2
      <3>2. path[1] \in {"user", "sts", "svc"}
        BY <1>1, <3>1, PathCases
      <3>3. path[1] # "sts"
        BY <1>7, <3>1, NamesAre, PathsAre
      <3>4. path[1] # "user"
        BY <1>3, <1>7, <1>8, <3>1
      <3>5. QED BY <1>7, <3>1, <3>2, <3>3, <3>4
    <2>3. QED BY <2>1, <2>2, ValueFrom
  <1>9. ASSUME NEW p \in Policies
        PROVE  sys'.docs[p] \in {sys.docs[p], LoadedPolicy(p)}
    <2>1. ASSUME NEW c \in changes, c[1] = "docs", c[2] = p PROVE c[3] = LoadedPolicy(p)
      <3>1. c = <<map, path[2], doc>> /\ map = "docs" /\ path[2] = p
        BY <1>4, <2>1
      <3>2. path = <<"policy", p>>
        BY <1>7, <3>1, PathCases
      <3>3. QED BY <1>3, <3>1, <3>2 DEF LoadedPolicy
    <2>2. QED BY <1>6, <2>1, ValueFrom
  <1>10. ASSUME NEW n \in Names \ Temp
         PROVE  sys'.umap[n] \in {sys.umap[n], Doc(<<"umap", n>>)}
    <2>1. ASSUME NEW c \in changes, c[1] = "umap", c[2] = n PROVE c[3] = Doc(<<"umap", n>>)
      <3>1. CASE c = <<map, path[2], doc>>
        <4>1. path = <<"umap", n>>
          BY <1>7, <2>1, <3>1, PathCases
        <4>2. QED BY <3>1, <4>1
      <3>2. CASE mapping # NoDoc /\ c = <<"umap", path[2], mapping>>
        <4>1. path[2] = n /\ path[1] # "sts"
          BY <1>7, <2>1, <3>2, PathsAre
        <4>2. QED BY <2>1, <3>2, <4>1
      <3>3. QED BY <1>4, <3>1, <3>2
    <2>2. QED BY <1>6, <2>1, ValueFrom
  <1>11. ASSUME NEW g \in Groups
         PROVE  sys'.gmap[g] \in {sys.gmap[g], Doc(<<"gmap", g>>)}
    <2>1. ASSUME NEW c \in changes, c[1] = "gmap", c[2] = g PROVE c[3] = Doc(<<"gmap", g>>)
      <3>1. c = <<map, path[2], doc>> /\ map = "gmap" /\ path[2] = g
        BY <1>4, <2>1
      <3>2. path = <<"gmap", g>>
        BY <1>7, <3>1, PathCases
      <3>3. QED BY <3>1, <3>2
    <2>2. QED BY <1>6, <2>1, ValueFrom
  <1> HIDE DEF doc, map, mapping
  <1>12. QED BY <1>1, <1>5, <1>8, <1>9, <1>10, <1>11, ReloadedOrphan

LEMMA LoadGroupOrphan ==
  ASSUME IAMInv, OrphanInv, NEW g \in Groups, LoadGroup(g)
  PROVE  OrphanInv'
  <1> DEFINE changes ==
               {Put("groups", g, Doc(<<"group", g>>))}
                 \cup {Put("memberOf", n, (sys.memberOf[n] \ {g})
                          \cup (IF n \in Doc(<<"group", g>>).members THEN {g} ELSE {})) : n \in Names}
  <1>1. /\ todo = << >> /\ UNCHANGED <<store, todo, deleting, failures, stale, torn>>
        /\ sys' = Applied(sys, changes)
    BY DEF LoadGroup, history
  <1>2. \A c \in changes : c[1] \in {"groups", "memberOf"}
    BY DEF Put
  <1> HIDE DEF changes
  <1>3. /\ sys'.nil = sys.nil
        /\ \A n \in Names : /\ sys'.users[n] = ValueAt(sys, changes, "users", n)
                            /\ sys'.umap[n] = ValueAt(sys, changes, "umap", n)
        /\ \A p \in Policies : sys'.docs[p] = ValueAt(sys, changes, "docs", p)
        /\ \A h \in Groups : sys'.gmap[h] = ValueAt(sys, changes, "gmap", h)
    BY <1>1, TypesOf, AppliedIs
  <1>4. \A map, x : map \notin {"groups", "memberOf"} => ValueAt(sys, changes, map, x) = sys[map][x]
    BY <1>2, ValueLeft DEF Touches
  <1>5. /\ \A n \in Names : sys'.users[n] = sys.users[n] /\ sys'.umap[n] = sys.umap[n]
        /\ \A p \in Policies : sys'.docs[p] = sys.docs[p]
        /\ \A h \in Groups : sys'.gmap[h] = sys.gmap[h]
    BY <1>3, <1>4
  <1>6. \A a \in Service : a \in Names
    BY NamesAre
  <1>7. QED BY <1>1, <1>3, <1>5, <1>6, ReloadedOrphan

LEMMA RestartOrphan ==
  ASSUME IAMInv, OrphanInv, Restart
  PROVE  OrphanInv'
  <1>1. /\ todo' = << >> /\ stale' = TRUE /\ torn' = (torn \/ todo # << >>)
        /\ UNCHANGED <<store, failures>> /\ deleting' = [n \in Names |-> NoDoc]
    BY DEF Restart
  <1>2. failures' \in Nat /\ \A n \in Regular : deleting'[n] \in {NoDoc, deleting[n]}
    BY <1>1, NamesAre DEF OrphanInv
  <1>3. DocsStay
    BY <1>1, StoreStays
  <1>4. CASE todo = << >>
    BY <1>1, <1>2, <1>3, <1>4, DocsStayOrphan
  <1>5. CASE todo # << >>
    BY <1>1, <1>2, <1>5 DEF OrphanInv
  <1>6. QED BY <1>4, <1>5

LEMMA OrphanInit ==
  ASSUME Init
  PROVE  OrphanInv
  <1>1. \A path \in Paths : Doc(path) = NoDoc
    BY DEF Init, Doc
  <1>2. /\ \A n \in Names : Doc(<<"user", n>>) = NoDoc /\ Doc(<<"umap", n>>) = NoDoc
        /\ \A a \in Service : Doc(<<"svc", a>>) = NoDoc
        /\ \A g \in Groups : Doc(<<"group", g>>) = NoDoc /\ Doc(<<"gmap", g>>) = NoDoc
    BY <1>1, PathsAre
  <1>3. \A p \in Policies : p # NoDoc
    BY NoDocAssumption DEF Documents
  <1>4. NobodyInherits /\ PoliciesThere /\ AccountsFit
    BY <1>2, <1>3, NamesAre DEF NobodyInherits, PoliciesThere, AccountsFit, Lists
  <1>5. LeavesAll
    BY <1>2 DEF LeavesAll, Lists
  <1>6. QED BY <1>4, <1>5 DEF Init, OrphanInv, Whole, TodoReady

LEMMA OrphanNext ==
  ASSUME IAMInv, OrphanInv, [Next]_vars
  PROVE  OrphanInv'
  <1>1. CASE Update
    <2>1. ASSUME NEW p \in Policies, SetPolicy(p) \/ DeletePolicy(p) PROVE OrphanInv'
      BY <2>1, SetPolicyOrphan, DeletePolicyOrphan
    <2>2. ASSUME NEW n \in Names, NEW p \in OptPolicies, PolicyDBSet(n, p, FALSE) PROVE OrphanInv'
      BY <2>2, PolicyDBSetOrphan
    <2>3. ASSUME NEW g \in Groups, NEW p \in OptPolicies, PolicyDBSet(g, p, TRUE) PROVE OrphanInv'
      BY <2>3, PolicyDBSetOrphan
    <2>4. ASSUME NEW n \in Regular, NEW status \in {"enabled", "disabled"}, NEW p \in OptPolicies,
                 SetUser(n, status, p)
          PROVE  OrphanInv'
      BY <2>4, SetUserOrphan
    <2>5. ASSUME NEW n \in Names, NEW status \in {"on", "off"}, SetUserStatus(n, status)
          PROVE  OrphanInv'
      BY <2>5, SetUserStatusOrphan
    <2>6. ASSUME NEW n \in Names, SetUserSecretKey(n) \/ DeleteUser(n) PROVE OrphanInv'
      BY <2>6, SetUserSecretKeyOrphan, DeleteUserOrphan
    <2>7. ASSUME NEW n \in Temp, SetTempUser(n) PROVE OrphanInv'
      BY <2>7, SetTempUserOrphan
    <2>8. ASSUME NEW n \in Service, DeleteServiceAccount(n) PROVE OrphanInv'
      BY <2>8, DeleteServiceAccountOrphan
    <2>9. ASSUME NEW n \in Service, NEW parent \in Names \ {n}, NewServiceAccount(n, parent)
          PROVE  OrphanInv'
      BY <2>9, NewServiceAccountOrphan
    <2>10. ASSUME NEW g \in Groups, NEW n \in Names,
                  AddUsersToGroup(g, {n}) \/ RemoveUsersFromGroup(g, {n})
           PROVE  OrphanInv'
      BY <2>10, AddUsersToGroupOrphan, RemoveUsersFromGroupOrphan
    <2>11. ASSUME NEW g \in Groups, RemoveUsersFromGroup(g, {}) PROVE OrphanInv'
      BY <2>11, RemoveUsersFromGroupOrphan
    <2>12. ASSUME NEW g \in Groups, NEW status \in {"enabled", "disabled"}, SetGroupStatus(g, status)
           PROVE  OrphanInv'
      BY <2>12, SetGroupStatusOrphan
    <2>13. CASE Restart
      BY <2>13, RestartOrphan
    <2>14. QED
      BY <1>1, <2>1, <2>2, <2>3, <2>4, <2>5, <2>6, <2>7, <2>8, <2>9, <2>10, <2>11, <2>12, <2>13
      DEF Update
  <1>2. CASE Continue
    BY <1>2, GoOnOrphan, DeleteUserEndsOrphan, DeleteUserLeavesOrphan, DeleteUserFailsOrphan
    DEF Continue
  <1>3. CASE LoadStep
    <2>1. CASE LoadStart \/ LoadFails \/ LoadPolicyDocs \/ LoadGroups \/ LoadMappedPolicies
      BY <2>1, LoadOnlyOrphan
      DEF LoadStart, LoadFails, LoadPolicyDocs, LoadGroups, LoadMappedPolicies, history
    <2>2. QED BY <1>3, <2>1, LoadSwapOrphan, LoadUsersOrphan DEF LoadStep
  <1>4. CASE LoadOne
    BY <1>4, LoadEntryOrphan, LoadGroupOrphan DEF LoadOne
  <1>5. CASE UNCHANGED vars
    BY <1>5, LoadOnlyOrphan DEF vars
  <1>6. QED BY <1>1, <1>2, <1>3, <1>4, <1>5 DEF Next

\* Unless a change failed, broke off or was made on stale maps, the documents
\* fit together, at every step of a change that takes several, and so does
\* memory that is not stale (IAMSys's methods, DeleteUser, loadAll).
THEOREM OrphanInvAlways == Spec => []OrphanInv
  <1>1. Init => OrphanInv
    BY OrphanInit
  <1>2. IAMInv /\ OrphanInv /\ [Next]_vars => OrphanInv'
    BY OrphanNext
  <1>3. QED BY <1>1, <1>2, IAMInvAlways, PTL DEF Spec

\* Nothing of a user, a group or a policy that was deleted is left for the next
\* one of that name (DeleteUser, DeletePolicy, RemoveUsersFromGroup).
THEOREM NoOrphansAlways == Spec => []NoOrphans
  <1>1. ASSUME IAMInv, OrphanInv PROVE NoOrphans
    <2>1. SUFFICES ASSUME todo = << >>, ~stale, ~torn PROVE NoOrphans
      BY DEF NoOrphans
    <2>2. Whole
      BY <1>1, <2>1 DEF OrphanInv
    <2>3. NobodyInherits /\ AccountsFit /\ MemoryThere
      BY <2>1, <2>2 DEF Whole
    <2>4. ASSUME NEW n \in Regular, sys.users[n] = NoDoc
          PROVE  sys.umap[n] = NoDoc /\ MembersOf(sys.groups, n) = {}
      <3>1. Doc(<<"user", n>>) = NoDoc
        BY <1>1, <2>1, <2>2, <2>4, Agreed
      <3>2. Doc(<<"umap", n>>) = NoDoc /\ \A g \in Groups : ~Lists(g, n)
        BY <2>3, <3>1 DEF NobodyInherits
      <3>3. QED BY <1>1, <2>1, <2>2, <3>2, Agreed, NamesAre DEF MembersOf, Lists
    <2>5. ASSUME NEW g \in Groups, sys.groups[g] = NoDoc PROVE sys.gmap[g] = NoDoc
      BY <1>1, <2>1, <2>2, <2>3, <2>5, Agreed DEF NobodyInherits
    <2>6. ASSUME NEW n \in Names \ Temp, sys.umap[n] # NoDoc PROVE sys.docs[sys.umap[n]] # NoDoc
      <3>1. sys.umap[n] \in Policies
        BY <1>1, <2>6, TypesOf
      <3>2. QED BY <2>1, <2>3, <3>1, NothingTodo DEF MemoryThere
    <2>7. ASSUME NEW g \in Groups, sys.gmap[g] # NoDoc PROVE sys.docs[sys.gmap[g]] # NoDoc
      <3>1. sys.gmap[g] \in Policies
        BY <1>1, <2>7, TypesOf
      <3>2. QED BY <2>1, <2>3, <3>1, NothingTodo DEF MemoryThere
    <2>8. ASSUME NEW n \in Service, IsServiceAccount(n), sys.users[n].parent \in Regular
          PROVE  sys.users[sys.users[n].parent] # NoDoc
      <3>1. Doc(<<"svc", n>>) # NoDoc /\ Doc(<<"svc", n>>) = sys.users[n]
        BY <2>3, <2>8 DEF MemoryThere, IsServiceAccount
      <3>2. \A m \in Regular : sys.users[n].parent = m => Doc(<<"user", m>>) # NoDoc
        BY <2>1, <2>3, <3>1, NothingTodo DEF AccountsFit
      <3>3. \A m \in Regular : sys.users[n].parent = m => sys.users[m] # NoDoc
        BY <1>1, <2>1, <2>2, <3>2, Agreed
      <3>4. QED BY <2>8, <3>3
    <2>9. QED BY <2>1, <2>4, <2>5, <2>6, <2>7, <2>8 DEF NoOrphans
  <1>2. QED BY <1>1, IAMInvAlways, OrphanInvAlways, PTL

=============================================================================

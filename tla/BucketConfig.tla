---------------------------- MODULE BucketConfig ----------------------------
(***************************************************************************)
(* The configuration of buckets: their policies and whether object locking *)
(* is enabled.  Each is a document in the meta bucket and an entry of a    *)
(* map in memory, written one after the other by handlers that take no     *)
(* lock in between (policy.go, bucket-policy-handlers.go, the policy       *)
(* handlers of web-handlers.go, bucket-handlers.go, config-common.go).     *)
(*                                                                         *)
(* A document is written over the older one: when it is shorter, a tail of *)
(* the older one stays behind it.                                          *)
(***************************************************************************)
EXTENDS CannedPolicy

CONSTANTS Procs,        \* goroutines that serve requests
          Buckets,      \* names of buckets (tokens)
          Edits,        \* changes in the browser: pairs of prefix and policy
          Docs,         \* documents sent to PutBucketPolicy
          NoDoc         \* no document, or no entry in memory

ASSUME EditsAssumption == \A e \in Edits : e[2] \in BucketPolicies

\* A document is the sequence of its statements.
ASSUME DocsAssumption == \A d \in Docs : d \in Seq(Range(d))

EditPrefixes == {e[1] : e \in Edits}

VARIABLES buckets,         \* the buckets that exist
          policyFile,      \* per bucket: << >>, or the stored policy document
          bucketPolicyMap, \* PolicySys.bucketPolicyMap
          lockMap,         \* globalBucketObjectLockConfig
          req,             \* per goroutine: the request it serves
          \* history, read by no action:
          canned,          \* per bucket: the canned policies last stored, or
                           \* NoDoc when they are not what the document says
          edited,          \* buckets whose policy was stored or deleted since
                           \* the process started
          raced            \* buckets with two changes at once

stores == <<buckets, policyFile>>
memory == <<bucketPolicyMap, lockMap>>
history == <<canned, edited, raced>>
vars == <<stores, memory, req, history>>

(***************************************************************************)
(* Requests.                                                               *)
(***************************************************************************)
Op(op) == [op |-> op, prefix |-> << >>, policy |-> "none", doc |-> NoDoc]

Requests ==
  {[Op("web_set") EXCEPT !.prefix = e[1], !.policy = e[2]] : e \in Edits}
    \cup {[Op("put_policy") EXCEPT !.doc = d] : d \in Docs}
    \cup {Op("delete_policy"), Op("make"), Op("make_locked"),
          Op("delete_bucket"), Op("force_delete_bucket")}

Idle == [pc |-> "idle", bucket |-> CHOOSE b \in Buckets : TRUE, r |-> Op("none"),
         doc |-> NoDoc, read |-> NoDoc]

\* Only the document is needed after the store was changed.
Goto(p, pc) == req' = [req EXCEPT ![p] = [Idle EXCEPT !.pc = pc, !.bucket = req[p].bucket,
                                                      !.doc = req[p].doc]]
Respond(p) == req' = [req EXCEPT ![p] = Idle]

\* An idle goroutine takes a request and goes on with the step pc, with doc.
Took(p, b, r, pc, doc, read) ==
  req' = [req EXCEPT ![p] = [pc |-> pc, bucket |-> b, r |-> r, doc |-> doc, read |-> read]]

(***************************************************************************)
(* Documents.                                                              *)
(***************************************************************************)
\* saveConfig over what is there.
saveConfig(old, doc) ==
  <<[doc |-> doc, tail |-> /\ old # << >>
                           /\ (old[1].tail \/ Len(old[1].doc) > Len(doc))]>>

\* Mutant of getPolicyConfig: the document has to end where the file does.
getPolicyConfigMutant(content) ==
  IF content = << >> \/ content[1].tail THEN NoDoc
  ELSE dropDuplicateStatements(content[1].doc)

\* ParseConfig decodes the first JSON value and ignores what follows.
getPolicyConfig(content) ==
  IF content = << >> THEN NoDoc ELSE dropDuplicateStatements(content[1].doc)

Statements(doc) == IF doc = NoDoc THEN << >> ELSE doc

Init ==
  /\ buckets = {}
  /\ policyFile = [b \in Buckets |-> << >>]
  /\ bucketPolicyMap = [b \in Buckets |-> NoDoc]
  /\ lockMap = [b \in Buckets |-> FALSE]
  /\ req = [p \in Procs |-> Idle]
  /\ canned = [b \in Buckets |-> [x \in EditPrefixes |-> "none"]]
  /\ edited = {}
  /\ raced = {}

(***************************************************************************)
(* Changes of a policy.                                                    *)
(***************************************************************************)
\* Web SetBucketPolicy: reads the stored policy and edits it.
WebRead(p, b, r) ==
  LET read == getPolicyConfig(policyFile[b])
      new  == SetPolicy(Statements(read), r.policy, b, r.prefix)
  IN /\ req[p].pc = "idle"
     /\ r.op = "web_set"
     /\ \/ /\ new = << >>
           /\ Took(p, b, r, "delete", NoDoc, read)
        \/ /\ new # << >>
           /\ PolicyIsValid(new)
           /\ Took(p, b, r, "save", dropDuplicateStatements(new), read)
     /\ UNCHANGED <<stores, memory, history>>

\* PutBucketPolicyHandler and DeleteBucketPolicyHandler up to the document.
GetBucketInfo(p, b, r) ==
  /\ req[p].pc = "idle"
  /\ b \in buckets
  /\ \/ /\ r.op = "delete_policy"
        /\ Took(p, b, r, "delete", NoDoc, NoDoc)
     \/ /\ r.op = "put_policy"
        /\ ValidFor(r.doc, b)
        /\ Took(p, b, r, "save", dropDuplicateStatements(r.doc), NoDoc)
  /\ UNCHANGED <<stores, memory, history>>

Pending(b, q) == req[q].bucket = b /\ req[q].pc \in {"set", "unset"}

\* What the history keeps of a change of the stored policy of b by p.
Changed(p, b) ==
  /\ canned' = [canned EXCEPT ![b] =
       CASE req[p].r.op = "delete_policy" -> [x \in EditPrefixes |-> "none"]
         [] req[p].r.op = "put_policy"    -> NoDoc
         [] OTHER -> IF \/ canned[b] = NoDoc
                        \/ req[p].read # getPolicyConfig(policyFile[b])
                     THEN NoDoc
                     ELSE [@ EXCEPT ![req[p].r.prefix] = req[p].r.policy]]
  /\ edited' = edited \cup {b}
  /\ raced' = IF \E q \in Procs \ {p} : Pending(b, q) THEN raced \cup {b}
              ELSE raced \ {b}

SavePolicy(p) ==
  LET b == req[p].bucket
  IN /\ req[p].pc = "save"
     /\ policyFile' = [policyFile EXCEPT ![b] = saveConfig(@, req[p].doc)]
     /\ Goto(p, "set")
     /\ Changed(p, b)
     /\ UNCHANGED <<buckets, memory>>

DeletePolicy(p) ==
  LET b == req[p].bucket
  IN /\ req[p].pc = "delete"
     /\ \/ /\ policyFile[b] = << >>
           /\ Respond(p)
           /\ UNCHANGED <<policyFile, history>>
        \/ /\ policyFile[b] # << >>
           /\ policyFile' = [policyFile EXCEPT ![b] = << >>]
           /\ Goto(p, "unset")
           /\ Changed(p, b)
     /\ UNCHANGED <<buckets, memory>>

\* The object layer fails to write or to delete a document.
ConfigFails(p) ==
  /\ req[p].pc \in {"save", "delete", "setlock"}
  /\ Respond(p)
  /\ UNCHANGED <<stores, memory, history>>

\* PolicySys.Set
PolicySet(p) ==
  /\ req[p].pc = "set"
  /\ bucketPolicyMap' =
       [bucketPolicyMap EXCEPT ![req[p].bucket] =
          IF req[p].doc = << >> THEN NoDoc ELSE req[p].doc]
  /\ Respond(p)
  /\ UNCHANGED <<stores, lockMap, history>>

\* PolicySys.Remove
PolicyRemove(p) ==
  /\ req[p].pc = "unset"
  /\ bucketPolicyMap' = [bucketPolicyMap EXCEPT ![req[p].bucket] = NoDoc]
  /\ Respond(p)
  /\ UNCHANGED <<stores, lockMap, history>>

(***************************************************************************)
(* Buckets.                                                                *)
(***************************************************************************)
\* PutBucketHandler: MakeBucketWithLocation, then the lock's document, then
\* the map.
MakeBucket(p, b, r) ==
  /\ req[p].pc = "idle"
  /\ r.op \in {"make", "make_locked"}
  /\ b \notin buckets
  /\ buckets' = buckets \cup {b}
  /\ IF r.op = "make_locked" THEN Took(p, b, r, "setlock", NoDoc, NoDoc)
     ELSE UNCHANGED req
  /\ UNCHANGED <<policyFile, memory, history>>

\* The document of the lock is written, which nothing reads again, and the map.
LockSet(p) ==
  /\ req[p].pc = "setlock"
  /\ lockMap' = [lockMap EXCEPT ![req[p].bucket] = TRUE]
  /\ Respond(p)
  /\ UNCHANGED <<stores, bucketPolicyMap, history>>

\* DeleteBucketHandler; the documents and the entries of the maps stay.
DeleteBucket(p, b, r) ==
  /\ req[p].pc = "idle"
  /\ \/ r.op = "delete_bucket"
     \/ r.op = "force_delete_bucket" /\ ~lockMap[b]
  /\ b \in buckets
  /\ buckets' = buckets \ {b}
  /\ UNCHANGED <<policyFile, memory, req, history>>

\* A new process: newAllSubsystems makes empty maps, and nothing loads them.
Restart ==
  /\ req' = [p \in Procs |-> Idle]
  /\ bucketPolicyMap' = [b \in Buckets |-> NoDoc]
  /\ lockMap' = [b \in Buckets |-> FALSE]
  /\ edited' = {}
  /\ raced' = {}
  /\ UNCHANGED <<stores, canned>>

Next ==
  \/ \E p \in Procs :
       \/ \E b \in Buckets, r \in Requests :
            \/ WebRead(p, b, r) \/ GetBucketInfo(p, b, r)
            \/ MakeBucket(p, b, r) \/ DeleteBucket(p, b, r)
       \/ SavePolicy(p) \/ DeletePolicy(p) \/ PolicySet(p) \/ PolicyRemove(p)
       \/ LockSet(p) \/ ConfigFails(p)
  \/ Restart

Spec == Init /\ [][Next]_vars
-----------------------------------------------------------------------------
(***************************************************************************)
(* Properties.                                                             *)
(***************************************************************************)
\* A request of somebody without an account.
Anonymous(action, b, object, prefix) ==
  [account |-> "", action |-> action, bucket |-> b, object |-> object,
   owner |-> FALSE, header |-> << >>, values |-> [k \in {"prefix"} |-> <<prefix>>]]

\* An object below a prefix.
Below(prefix) == prefix \o <<"z">>

\* Memory agrees with the store: a bucket whose policy was changed since the
\* process started is governed by exactly what can be read back from the
\* store, old tails or not, except while a change is on its way from the
\* store to memory and after two changes overtook each other; a bucket that
\* was not changed since then has no policy in force (PolicySys.Set and
\* Remove after saveConfig and DeleteObject).
MemoryMatchesStore ==
  \A b \in Buckets :
    /\ (b \in edited \ raced /\ \A q \in Procs : ~Pending(b, q))
         => Statements(bucketPolicyMap[b]) = Statements(getPolicyConfig(policyFile[b]))
    /\ b \notin edited => bucketPolicyMap[b] = NoDoc

\* Object access is only what was set: whoever has no account can read or
\* write the objects below a prefix only if that was set, in the browser, for
\* the prefix or one above it, whatever was set for other prefixes and taken
\* back since.  (SetPolicy merges and splits the statements of all prefixes.)
GrantedWasSet ==
  \A b \in Buckets : \A x \in EditPrefixes :
    LET above == {canned[b][y] : y \in {z \in EditPrefixes : IsPrefix(z, x)}}
        allowed(action) == PolicyIsAllowed(Statements(getPolicyConfig(policyFile[b])),
                             Anonymous(action, b, Below(x), << >>))
    IN canned[b] # NoDoc =>
         /\ allowed("GetObject") => above \cap {"readonly", "readwrite"} # {}
         /\ allowed("PutObject") => above \cap {"writeonly", "readwrite"} # {}

\* What the browser shows for a prefix (GetPolicy) is granted by the policy
\* that is in force (Policy.IsAllowed), for documents of the browser.
ShownIsGranted ==
  \A b \in Buckets : \A x \in EditPrefixes :
    LET statements == Statements(bucketPolicyMap[b])
        shown == GetPolicy(statements, b, x)
        allowed(action, object) ==
          PolicyIsAllowed(statements, Anonymous(action, b, object, x))
    IN (canned[b] # NoDoc /\ b \notin raced) =>
         /\ shown \in {"readonly", "readwrite"} =>
              allowed("GetObject", Below(x)) /\ allowed("ListBucket", << >>)
         /\ shown \in {"writeonly", "readwrite"} => allowed("PutObject", Below(x))

\* An edit in the browser is shown: when a policy other than none is stored for
\* a prefix, and the stored policy was not changed since it was read, GetPolicy
\* finds that policy for the prefix; this also holds when documents of
\* PutBucketPolicy were there before.
EditIsShown ==
  [][\A p \in Procs :
       ( /\ req[p].pc = "save" /\ req'[p].pc = "set"
         /\ req[p].r.op = "web_set" /\ req[p].r.policy # "none" )
       => GetPolicy(Statements(getPolicyConfig(policyFile'[req[p].bucket])),
                    req[p].bucket, req[p].r.prefix) = req[p].r.policy]_vars

\* Reading a document keeps its statements: of the statements of a document
\* sent to PutBucketPolicy, each is in the policy that is stored for it
\* (dropDuplicateStatements drops duplicates).
ParsingKeepsStatements ==
  \A p \in Procs :
    (req[p].r.op = "put_policy" /\ req[p].pc = "save") =>
      Range(req[p].doc) = Range(req[p].r.doc)
=============================================================================

----------------------------- MODULE IAMPolicy -----------------------------
(***************************************************************************)
(* Decisions by the policies of users and groups (pkg/iam/policy and the   *)
(* evaluation half of iam.go).                                             *)
(*                                                                         *)
(* An evaluation reads the maps of IAMSys in several critical sections of  *)
(* the read lock: is the account a temporary user, is it a service         *)
(* account, which policies has it, and then the documents.  In the last    *)
(* section the statements of the policies are appended to the slice of the *)
(* first one.  A slice that json.Unmarshal made has room behind its end,   *)
(* so that append writes into the array that every evaluation with the     *)
(* same first policy appends to, and the read lock keeps none of them out. *)
(*                                                                         *)
(* The changes of the maps are those of module IAM; here they are any      *)
(* change under the write lock.  Actions are pairs such as <<"s3", "*">>;  *)
(* patterns and requests are those of module Policy, without principals.   *)
(* Names of objects have no empty, "." or ".." parts.                      *)
(***************************************************************************)
EXTENDS Policy

CONSTANTS Evaluators,   \* goroutines of requests
          Arguments,    \* the arguments of evaluations
          Accounts,
          PolicyDocs,   \* per name, the documents SetPolicy may be given
          UserMaps,     \* the values of the account maps
          Capacity,     \* of a slice that json.Unmarshal made
          MaxChanges    \* bound on changes of the maps

\* The name of no policy.
NoPolicyName == ""

\* An account as the maps of IAMSys have it; AddUsersToGroup refuses temporary users.
AccountFits(u) ==
  /\ u = [kind |-> u.kind, status |-> u.status, policy |-> u.policy, groups |-> u.groups]
  /\ u.kind \in {"user", "temp", "service", "none"}
  /\ u.groups \in Seq(Range(u.groups))
  /\ u.kind = "temp" => u.groups = << >>

ASSUME IAMPolicyAssumption ==
  /\ Capacity \in Nat
  /\ \A n \in DOMAIN PolicyDocs : \A doc \in PolicyDocs[n] :
       doc.statements \in Seq(Range(doc.statements))
  /\ \A m \in UserMaps :
       m = [a \in Accounts |-> m[a]] /\ \A a \in Accounts : AccountFits(m[a])
  /\ \A r \in Arguments : /\ r.op \in {"IsAllowed", "GetAccountAccess"}
                          /\ r.account \in Accounts /\ r.owner \in BOOLEAN
                          /\ {"account", "action"} \subseteq DOMAIN r

VARIABLES docsMap,   \* iamPolicyDocsMap: per name, statements and room behind them
          userMap,   \* per account: its kind, status and policies
          spare,     \* per name: the array behind the statements
          eval,      \* per evaluator
          changes,
          \* history, read by no action:
          disturbed  \* evaluators whose evaluation a change or another one met

iamPolicyVars == <<docsMap, userMap, spare, eval, changes, disturbed>>

(***************************************************************************)
(* Statements.                                                             *)
(***************************************************************************)
AdminActions ==
  {<<"admin", a>> : a \in
     {"*", "Heal", "ServerInfo", "StorageInfo", "DataUsageInfo", "TopLocksInfo",
      "Profiling", "ServerTrace", "OBDInfo", "ConsoleLog", "KMSKeyStatus",
      "ServerUpdate", "ConfigUpdate", "CreateUser", "DeleteUser", "ListUsers",
      "EnableUser", "DisableUser", "GetUser", "AddUserToGroup",
      "RemoveUserFromGroup", "ListGroups", "EnableGroup", "DisableGroup",
      "CreatePolicy", "DeletePolicy", "GetPolicy", "AttachUserOrGroupPolicy",
      "ListUserPolicies"}}

ReadAccess ==
  {<<"s3", a>> : a \in {"ListMultipartUploadParts", "ListBucketMultipartUploads",
     "ListBucket", "HeadBucket", "GetObject", "GetBucketLocation"}}

WriteAccess ==
  {<<"s3", a>> : a \in {"AbortMultipartUpload", "CreateBucket", "PutObject",
     "DeleteObject", "DeleteBucket"}}

OtherAccess ==
  {<<"s3", a>> : a \in {"BypassGovernanceRetention", "PutObjectRetention",
     "GetObjectRetention", "GetObjectLegalHold", "PutObjectLegalHold",
     "GetBucketObjectLockConfiguration", "PutBucketObjectLockConfiguration",
     "ListenBucketNotification", "PutBucketLifecycle", "GetBucketLifecycle",
     "PutBucketNotification", "GetBucketNotification", "PutBucketPolicy",
     "DeleteBucketPolicy", "GetBucketPolicy", "PutEncryptionConfiguration",
     "GetEncryptionConfiguration"}}

S3Actions ==
  ReadAccess \cup WriteAccess \cup OtherAccess \cup
  {<<"s3", a>> : a \in {"*", "ForceDeleteBucket", "ListAllMyBuckets",
     "GetObjectTagging", "PutObjectTagging", "DeleteObjectTagging"}}

RetentionKeys ==
  {"object-lock-remaining-retention-days", "object-lock-retain-until-date",
   "object-lock-mode"}

\* actionConditionKeyMap and adminActionConditionKeyMap
IAMConditionKeys(action) ==
  IF action[1] = "admin" THEN {"Referer", "SourceIp", "UserAgent", "SecureTransport",
                               "CurrentTime", "EpochTime"}
  ELSE CASE action[2] \in {"GetObject", "ListBucket", "PutObject"} ->
              ActionConditionKeys(action[2])
         [] action[2] = "*" -> RetentionKeys \cup {"location-constraint"} \cup
              UNION {ActionConditionKeys(a) : a \in {"GetObject", "ListBucket", "PutObject"}}
         [] action[2] = "PutObjectRetention" -> CommonKeys \cup RetentionKeys
         [] action[2] = "BypassGovernanceRetention" ->
              CommonKeys \cup RetentionKeys \cup {"object-lock-legal-hold"}
         [] action[2] = "PutObjectLegalHold" -> CommonKeys \cup {"object-lock-legal-hold"}
         [] action[2] \in {"DeleteBucket", "ForceDeleteBucket", "PutBucketLifecycle",
                           "GetBucketLifecycle", "PutEncryptionConfiguration",
                           "GetEncryptionConfiguration"} -> {}
         [] OTHER -> CommonKeys

isAdmin(s) == s.actions \subseteq AdminActions

\* The statement applies to the request.  A request for a bucket asks for
\* "bucket/", and path.Clean takes the slash away.
IAMStatementMatches(s, r) ==
  LET name == <<r.bucket, "/">> \o r.object
      clean == IF r.object = << >> THEN <<r.bucket>> ELSE name
      Matches(p) == p = clean \/ Match(p, name)
  IN /\ \E a \in s.actions : Match(a, r.action)
     /\ \/ \E p \in s.resources : Matches(substFuncFromValues(p, r))
        \/ isAdmin(s)
     /\ Evaluate(s.conditions, r)

IAMStatementIsAllowed(s, r) ==
  IF s.effect = "Allow" THEN IAMStatementMatches(s, r) ELSE ~IAMStatementMatches(s, r)

\* Every resource with a name is one of a bucket or of an object.
IAMStatementIsValid(s) ==
  /\ s.effect \in {"Allow", "Deny"}
  /\ s.actions # {}
  /\ s.actions \subseteq S3Actions \cup AdminActions
  /\ \A f \in s.conditions : ValidFunc(f)
  /\ ~isAdmin(s) => s.resources # {} /\ \A p \in s.resources : p # << >> /\ p[1] # "/"
  /\ \A a \in s.actions : {f.key : f \in s.conditions} \subseteq IAMConditionKeys(a)

SameIAMStatement(s, t) ==
  /\ s.effect = t.effect
  /\ s.actions = t.actions
  /\ s.resources = t.resources
  /\ SameConditions(s.conditions, t.conditions)

(***************************************************************************)
(* Policies.                                                               *)
(***************************************************************************)
IAMPolicyIsAllowed(statements, r) ==
  /\ \A s \in Range(statements) : s.effect = "Deny" => IAMStatementIsAllowed(s, r)
  /\ \/ r.owner
     \/ \E s \in Range(statements) : s.effect = "Allow" /\ IAMStatementIsAllowed(s, r)

NoVersion == ""

IAMParses(doc) ==
  /\ doc.version \in {DefaultVersion, NoVersion}
  /\ \A s \in Range(doc.statements) : IAMStatementIsValid(s)

Canned(actions) ==
  [statements |-> <<[effect |-> "Allow", actions |-> actions,
                     resources |-> {<<"*">>}, conditions |-> {}]>>,
   cap |-> 1]

CannedDocs ==
  [readwrite   |-> Canned({<<"s3", "*">>}),
   readonly    |-> Canned({<<"s3", "GetBucketLocation">>, <<"s3", "GetObject">>}),
   writeonly   |-> Canned({<<"s3", "PutObject">>}),
   diagnostics |-> Canned({<<"admin", a>> : a \in
                     {"Profiling", "ServerTrace", "ConsoleLog", "ServerInfo",
                      "TopLocksInfo", "OBDInfo"}})]

\* A parsed document keeps the array it was decoded into.
Parsed(doc) ==
  LET all  == Range(doc.statements)
      same == {st \in all \X all : SameIAMStatement(st[1], st[2])}
  IN  [statements |-> DropDuplicates(doc.statements, same),
       cap |-> IF Len(doc.statements) > Capacity THEN Len(doc.statements) ELSE Capacity]

(***************************************************************************)
(* Changes, under the write lock: no evaluation is in its last section.    *)
(***************************************************************************)
NotEvaluating == [pc |-> "idle"]
ReadLocked == \E e \in Evaluators : eval[e].pc \in {"append", "decide"}
Running == {e \in Evaluators : eval[e].pc \notin {"idle", "done"}}

ChangeMaps(docs, users) ==
  /\ ~ReadLocked
  /\ changes < MaxChanges
  /\ changes' = changes + 1
  /\ docsMap' = docs
  /\ userMap' = users
  /\ disturbed' = disturbed \cup Running
  /\ spare' = [n \in DOMAIN docs |->
                 IF n \in DOMAIN docsMap /\ docs[n] = docsMap[n] THEN spare[n] ELSE << >>]
  /\ UNCHANGED eval

SetPolicyDoc ==
  \E n \in DOMAIN PolicyDocs : \E doc \in PolicyDocs[n] :
    /\ IAMParses(doc)
    /\ ChangeMaps([m \in DOMAIN docsMap \cup {n} |->
                     IF m = n THEN Parsed(doc) ELSE docsMap[m]], userMap)

\* DeletePolicy also takes the policy from who is mapped to it.
DeletePolicyDoc ==
  \E n \in DOMAIN docsMap :
    ChangeMaps([m \in DOMAIN docsMap \ {n} |-> docsMap[m]],
               [a \in Accounts |-> [userMap[a] EXCEPT
                  !.policy = IF @ = n THEN NoPolicyName ELSE @,
                  !.groups = [g \in DOMAIN @ |->
                                IF @[g].policy = n THEN [@[g] EXCEPT !.policy = NoPolicyName] ELSE @[g]]]])

SetUserMap == \E m \in UserMaps : m # userMap /\ ChangeMaps(docsMap, m)

(***************************************************************************)
(* Evaluation.                                                             *)
(***************************************************************************)
\* The loops that append some of the names.
Picked(names, wanted) ==
  FoldLeft(LAMBDA picked, n : IF n \in wanted THEN Append(picked, n) ELSE picked,
           << >>, names)

\* policyDBGet: the user's policy, then those of the enabled groups.
PolicyNames(u) ==
  LET names == <<u.policy>> \o
               [i \in DOMAIN u.groups |->
                  IF u.groups[i].status = "disabled" THEN NoPolicyName ELSE u.groups[i].policy]
  IN IF u.status = "disabled" THEN << >> ELSE Picked(names, Range(names) \ {NoPolicyName})

Answer(e, a) == [pc |-> "done", args |-> eval[e].args, answer |-> a]

Goes(e, next) ==
  /\ eval' = [eval EXCEPT ![e] = next]
  /\ UNCHANGED <<docsMap, userMap, changes>>

\* IsAllowed or GetAccountAccess is called.
Begin(e) ==
  /\ eval[e].pc = "idle"
  /\ \E r \in Arguments :
       Goes(e, IF r.op = "IsAllowed" /\ r.owner
               THEN [pc |-> "done", args |-> r, answer |-> TRUE]
               ELSE [pc |-> IF r.op = "IsAllowed" THEN "temp" ELSE "names", args |-> r])
  /\ disturbed' = disturbed \ {e}
  /\ UNCHANGED spare

IsTempUser(e) ==
  LET u == userMap[eval[e].args.account]
  IN /\ eval[e].pc = "temp"
     /\ Goes(e, CASE u.kind = "none" -> Answer(e, FALSE)
                  [] u.kind = "temp" -> [eval[e] EXCEPT !.pc = "sts"]
                  [] OTHER           -> [eval[e] EXCEPT !.pc = "service"])
     /\ UNCHANGED <<spare, disturbed>>

\* The first policy of the claim has to be the mapped one; a session policy
\* can only take from what that one allows.
STSAllows(r) ==
  LET name == userMap[r.account].policy
  IN /\ r.claim # << >>
     /\ name # NoPolicyName /\ r.claim[1] = name
     /\ \A doc \in r.session :
          /\ IAMParses(doc) /\ doc.version # NoVersion
          /\ IAMPolicyIsAllowed(Parsed(doc).statements, r)
     /\ name \in DOMAIN docsMap
     /\ IAMPolicyIsAllowed(docsMap[name].statements, r)

IsAllowedSTS(e) ==
  /\ eval[e].pc = "sts"
  /\ Goes(e, Answer(e, STSAllows(eval[e].args)))
  /\ UNCHANGED <<spare, disturbed>>

\* IsAllowedServiceAccount allows nothing.
IsServiceAccount(e) ==
  /\ eval[e].pc = "service"
  /\ Goes(e, IF userMap[eval[e].args.account].kind \in {"none", "service"}
             THEN Answer(e, FALSE) ELSE [eval[e] EXCEPT !.pc = "names"])
  /\ UNCHANGED <<spare, disturbed>>

No(r) == IF r.op = "IsAllowed" THEN FALSE ELSE {}

PolicyDBGet(e) ==
  LET r == eval[e].args
      u == userMap[r.account]
      names == PolicyNames(u)
  IN /\ eval[e].pc = "names"
     /\ Goes(e, IF u.kind = "none" \/ names = << >> THEN Answer(e, No(r))
                ELSE [pc |-> "lookup", args |-> r, names |-> names])
     /\ UNCHANGED <<spare, disturbed>>

\* The read lock is taken and the documents are looked up.
Lookup(e) ==
  LET names == Picked(eval[e].names, DOMAIN docsMap)
      r == eval[e].args
  IN /\ eval[e].pc = "lookup"
     /\ Goes(e, IF names = << >> THEN Answer(e, No(r))
                ELSE [pc |-> "append", args |-> r, names |-> names, shared |-> 0,
                      own |-> << >>])
     /\ UNCHANGED <<spare, disturbed>>

\* The statements of the combined policy: those of the first policy and the
\* part of the array behind them, or an array of the evaluation's own.
Combined(e) ==
  LET v == eval[e]
  IN IF v.own # << >> THEN v.own
     ELSE docsMap[v.names[1]].statements \o SubSeq(spare[v.names[1]], 1, v.shared)

\* The evaluations that appended to the same array and have not decided.
Sharers(e, n) ==
  {f \in Evaluators \ {e} : /\ eval[f].pc \in {"append", "decide"}
                            /\ eval[f].names[1] = n
                            /\ eval[f].own = << >> /\ eval[f].shared > 0}

\* The next policy is appended: behind the first one while there is room, to
\* an array of its own from then on.
Append1(e) ==
  LET v == eval[e]
      base == v.names[1]
      more == docsMap[v.names[2]].statements
      first == Len(docsMap[base].statements)
      rest == [v EXCEPT !.names = RemoveAt(@, 2)]
      written == SubSeq(spare[base], 1, v.shared) \o more
  IN /\ v.pc = "append" /\ Len(v.names) > 1
     /\ IF v.own # << >> \/ first + v.shared + Len(more) > docsMap[base].cap
        THEN /\ Goes(e, [rest EXCEPT !.own = Combined(e) \o more])
             /\ UNCHANGED <<spare, disturbed>>
        ELSE /\ spare' = [spare EXCEPT ![base] =
                            written \o SubSeq(@, Len(written) + 1, Len(@))]
             /\ disturbed' = disturbed \cup
                  (IF Sharers(e, base) = {} THEN {} ELSE Sharers(e, base) \cup {e})
             /\ Goes(e, [rest EXCEPT !.shared = @ + Len(more)])

\* Mutant of LastAppended: the loop ends before the last policy.
LastAppendedMutant(e) ==
  /\ eval[e].pc = "append" /\ Len(eval[e].names) \in {1, 2}
  /\ Goes(e, [eval[e] EXCEPT !.pc = "decide"])
  /\ UNCHANGED <<spare, disturbed>>

LastAppended(e) ==
  /\ eval[e].pc = "append" /\ Len(eval[e].names) = 1
  /\ Goes(e, [eval[e] EXCEPT !.pc = "decide"])
  /\ UNCHANGED <<spare, disturbed>>

\* GetAccountAccess looks at the actions of the Allow statements by name.
AccountAccess(statements) ==
  LET actions == UNION {s.actions : s \in {t \in Range(statements) : t.effect = "Allow"}}
      all == <<"s3", "*">> \in actions
  IN {x \in {"read", "write", "other"} :
        all \/ actions \cap (CASE x = "read" -> ReadAccess [] x = "write" -> WriteAccess
                               [] OTHER -> OtherAccess) # {}}

\* The decision.  What another evaluation wrote over the statements while
\* they are read may be torn: then any answer is possible.
Torn(e) == eval[e].own = << >> /\ eval[e].shared > 0 /\ Sharers(e, eval[e].names[1]) # {}

Decide(e) ==
  LET r == eval[e].args
      answer == IF r.op = "IsAllowed" THEN IAMPolicyIsAllowed(Combined(e), r)
                ELSE AccountAccess(Combined(e))
      answers == IF r.op = "IsAllowed" THEN BOOLEAN ELSE SUBSET {"read", "write", "other"}
  IN /\ eval[e].pc = "decide"
     /\ \E a \in IF Torn(e) THEN answers ELSE {answer} : Goes(e, Answer(e, a))
     /\ UNCHANGED <<spare, disturbed>>

Return(e) ==
  /\ eval[e].pc = "done"
  /\ Goes(e, NotEvaluating)
  /\ UNCHANGED <<spare, disturbed>>

Evaluation(e) ==
  \/ Begin(e) \/ IsTempUser(e) \/ IsAllowedSTS(e) \/ IsServiceAccount(e)
  \/ PolicyDBGet(e) \/ Lookup(e) \/ Append1(e) \/ LastAppended(e)
  \/ Decide(e) \/ Return(e)

\* loadAll: the documents of the store, and the canned ones where there are
\* none.
LoadedDocs ==
  LET names == DOMAIN PolicyDocs
      stored == {f \in [names -> UNION {PolicyDocs[n] : n \in names}] :
                   \A n \in names : f[n] \in PolicyDocs[n] /\ IAMParses(f[n])}
  IN {[n \in names \cup DOMAIN CannedDocs |->
         IF n \in names THEN Parsed(f[n]) ELSE CannedDocs[n]] : f \in stored}

IAMPolicyInit ==
  /\ docsMap \in LoadedDocs
  /\ userMap \in UserMaps
  /\ spare = [n \in DOMAIN docsMap |-> << >>]
  /\ eval = [e \in Evaluators |-> NotEvaluating]
  /\ changes = 0
  /\ disturbed = {}

IAMPolicyNext ==
  \/ SetPolicyDoc \/ DeletePolicyDoc \/ SetUserMap
  \/ \E e \in Evaluators : Evaluation(e)

IAMPolicySpec == IAMPolicyInit /\ [][IAMPolicyNext]_iamPolicyVars

(***************************************************************************)
(* Properties.                                                             *)
(***************************************************************************)
\* What the policies of an account say: a request is allowed if some Allow
\* of one of them applies to it and no Deny of any.
PoliciesAllow(r) ==
  LET u == userMap[r.account]
      statements == UNION {Range(docsMap[n].statements) :
                             n \in Range(PolicyNames(u)) \cap DOMAIN docsMap}
      Applies(effect) == \E s \in statements : s.effect = effect /\ IAMStatementMatches(s, r)
  IN Applies("Allow") /\ ~Applies("Deny")

\* Answers are read off when they come: a later change may make them old.
AnswerIsRight(e) ==
  LET v == eval'[e]
      r == v.args
      kind == userMap[r.account].kind
  IN IF r.op = "IsAllowed"
     THEN IF r.owner THEN v.answer
          ELSE CASE kind = "user" -> v.answer = PoliciesAllow(r)
                 [] kind = "temp" ->
                      v.answer => PoliciesAllow(r) \/ userMap[r.account].status = "disabled"
                 [] OTHER -> ~v.answer
     ELSE kind = "user" =>
            \A a \in (ReadAccess \cup WriteAccess \cup OtherAccess) :
              PoliciesAllow([r EXCEPT !.action = a]) =>
                (CASE a \in ReadAccess -> "read" [] a \in WriteAccess -> "write"
                   [] OTHER -> "other") \in v.answer

\* An evaluation that no change and no evaluation with the same first policy
\* met answers by all the policies of the account and by nothing else,
\* whatever evaluations left in the arrays before it: users are allowed what
\* their policies and their groups' allow and nobody denies, temporary users
\* no more than that, service accounts nothing, and GetAccountAccess shows
\* every access that IsAllowed would grant (IsAllowed, IsAllowedSTS,
\* GetAccountAccess).
DecidesByOwnPolicies ==
  [][\A e \in Evaluators :
       (eval'[e].pc = "done" /\ eval[e].pc # "done" /\ e \notin disturbed')
         => AnswerIsRight(e)]_iamPolicyVars
=============================================================================

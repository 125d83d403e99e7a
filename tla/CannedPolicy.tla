---------------------------- MODULE CannedPolicy ----------------------------
(***************************************************************************)
(* Policies as the browser shows and edits them (pkg/policy): none, read   *)
(* only, write only or read and write, for the objects of a bucket that    *)
(* begin with a prefix.  Each is a few statements of the bucket's policy,  *)
(* which SetPolicy takes out, merges and puts in, and which GetPolicy      *)
(* recognises.                                                             *)
(***************************************************************************)
EXTENDS Policy

BucketPolicies == {"none", "readonly", "readwrite", "writeonly"}

commonBucketActions == {"GetBucketLocation"}
readOnlyBucketActions == {"ListBucket"}
writeOnlyBucketActions == {"ListBucketMultipartUploads"}
readOnlyObjectActions == {"GetObject"}
writeOnlyObjectActions ==
  {"AbortMultipartUpload", "DeleteObject", "ListMultipartUploadParts", "PutObject"}
readWriteObjectActions == readOnlyObjectActions \cup writeOnlyObjectActions
validActions ==
  commonBucketActions \cup readOnlyBucketActions \cup writeOnlyBucketActions
    \cup readWriteObjectActions

BucketResource(bucket) == <<bucket>>
ObjectResource(bucket, prefix) == <<bucket, "/">> \o prefix \o <<"*">>
InBucket(bucket, resource) == IsPrefix(<<bucket, "/">>, resource)

PrefixValues(conditions, name) ==
  UNION {f.values : f \in {g \in conditions : g.name = name /\ g.key = "prefix"}}

PublicAllow(s) == s.effect = "Allow" /\ "*" \in s.principal

IsValidStatement(s, bucket) ==
  /\ s.actions \cap validActions # {}
  /\ PublicAllow(s)
  /\ \/ BucketResource(bucket) \in s.resources
     \/ \E r \in s.resources : InBucket(bucket, r)

(***************************************************************************)
(* The statements of a canned policy.                                      *)
(***************************************************************************)
NewStatement(actions, resource, conditions) ==
  [effect |-> "Allow", principal |-> {"*"}, actions |-> actions,
   resources |-> {resource}, conditions |-> conditions]

newBucketStatement(policy, bucket, prefix) ==
  LET only == IF prefix = << >> THEN {}
              ELSE {[name |-> "StringEquals", key |-> "prefix", values |-> {prefix}]}
      st(acts, cond) == NewStatement(acts, BucketResource(bucket), cond)
  IN IF policy = "none" THEN << >>
     ELSE <<st(commonBucketActions, {})>>
       \o (IF policy \in {"readonly", "readwrite"}
           THEN <<st(readOnlyBucketActions, only)>> ELSE << >>)
       \o (IF policy \in {"writeonly", "readwrite"}
           THEN <<st(writeOnlyBucketActions, {})>> ELSE << >>)

newObjectStatement(policy, bucket, prefix) ==
  IF policy = "none" THEN << >>
  ELSE <<NewStatement(CASE policy = "readonly"  -> readOnlyObjectActions
                        [] policy = "writeonly" -> writeOnlyObjectActions
                        [] OTHER                -> readWriteObjectActions,
                      ObjectResource(bucket, prefix), {})>>

newStatements(policy, bucket, prefix) ==
  newBucketStatement(policy, bucket, prefix)
    \o newObjectStatement(policy, bucket, prefix)

(***************************************************************************)
(* Taking the statements of a prefix out.                                  *)
(***************************************************************************)
\* getInUsePolicy: do other object resources of the bucket still need the
\* actions?
InUse(statements, bucket, prefix, actions) ==
  \E s \in Range(statements) :
    /\ ObjectResource(bucket, prefix) \notin s.resources
    /\ \E r \in s.resources : InBucket(bucket, r)
    /\ actions \subseteq s.actions

\* Mutant of removeObjectActions: only the actions that read are taken out.
removeObjectActionsMutant(s, resource) ==
  IF s.conditions # {} THEN s
  ELSE IF Cardinality(s.resources) > 1
       THEN [s EXCEPT !.resources = @ \ {resource}]
       ELSE [s EXCEPT !.actions = @ \ readOnlyObjectActions]

removeObjectActions(s, resource) ==
  IF s.conditions # {} THEN s
  ELSE IF Cardinality(s.resources) > 1
       THEN [s EXCEPT !.resources = @ \ {resource}]
       ELSE [s EXCEPT !.actions = @ \ readWriteObjectActions]

WithoutPrefix(conditions, prefix) ==
  LET less(f) == IF f.name = "StringEquals" /\ f.key = "prefix"
                 THEN [f EXCEPT !.values = @ \ {prefix}] ELSE f
  IN {f \in {less(g) : g \in conditions} : f.values # {}}

removeReadOnly(s, prefix) ==
  LET rest == WithoutPrefix(s.conditions, prefix)
  IN IF ~(readOnlyBucketActions \subseteq s.actions) THEN s
     ELSE IF s.conditions = {}
          THEN [s EXCEPT !.actions = @ \ readOnlyBucketActions]
     ELSE IF prefix = << >> THEN s
     ELSE [s EXCEPT !.conditions = rest,
                    !.actions = IF rest = {} THEN @ \ readOnlyBucketActions ELSE @]

removeWriteOnly(s) ==
  IF s.conditions = {} THEN [s EXCEPT !.actions = @ \ writeOnlyBucketActions] ELSE s

removeBucketActions(s, bucket, prefix, readOnlyInUse, writeOnlyInUse) ==
  LET less == IF readOnlyInUse THEN s ELSE removeReadOnly(s, prefix)
  IN IF Cardinality(s.resources) > 1
     THEN [s EXCEPT !.resources = @ \ {BucketResource(bucket)}]
     ELSE IF writeOnlyInUse THEN less ELSE removeWriteOnly(less)

\* What is left of a statement.
Removed(s, statements, bucket, prefix) ==
  LET inUse(actions) == InUse(statements, bucket, prefix, actions)
      free == s.conditions # {}
  IN IF ~IsValidStatement(s, bucket) THEN s
     ELSE IF BucketResource(bucket) \in s.resources
          THEN removeBucketActions(s, bucket, prefix,
                 ~free /\ inUse(readOnlyObjectActions),
                 ~free /\ inUse(writeOnlyObjectActions))
     ELSE IF ObjectResource(bucket, prefix) \in s.resources
          THEN removeObjectActions(s, ObjectResource(bucket, prefix))
     ELSE s

ListsBucket(s, bucket) ==
  /\ BucketResource(bucket) \in s.resources
  /\ readOnlyBucketActions \subseteq s.actions
  /\ PublicAllow(s)

removeStatements(statements, bucket, prefix) ==
  LET keep(acc, s) ==
        LET t == Removed(s, statements, bucket, prefix)
            listed == {ObjectResource(bucket, v) :
                         v \in PrefixValues(t.conditions, "StringEquals")}
        IN IF ~IsValidStatement(s, bucket) THEN [acc EXCEPT !.out = Append(@, t)]
           ELSE IF t.actions = {} THEN acc
           ELSE IF ListsBucket(t, bucket) /\ t.conditions # {}
                THEN [acc EXCEPT !.out = Append(@, t), !.listed = @ \cup listed]
           ELSE IF ListsBucket(t, bucket) /\ acc.listed # {}
                THEN [acc EXCEPT !.held = Append(@, t)]
           ELSE [acc EXCEPT !.out = Append(@, t)]
      acc == FoldLeft(keep, [out |-> << >>, held |-> << >>, listed |-> {}], statements)
      needed == \E s \in Range(acc.out) :
                  /\ \E r \in s.resources : InBucket(bucket, r)
                  /\ acc.listed \cap s.resources = {}
      \* what is held lists the bucket without conditions
      out == acc.out \o (IF needed THEN acc.held ELSE << >>)
  IN IF /\ Len(out) = 1
        /\ BucketResource(bucket) \in out[1].resources
        /\ commonBucketActions \subseteq out[1].actions
        /\ PublicAllow(out[1])
        /\ out[1].conditions = {}
     THEN << >>
     ELSE out

(***************************************************************************)
(* Putting the statements of a policy in.                                  *)
(***************************************************************************)
mergeConditionMap(c, d) ==
  LET of(e, f) == UNION {g.values : g \in {h \in e : h.name = f.name /\ h.key = f.key}}
  IN {[f EXCEPT !.values = of(c, f) \cup of(d, f)] : f \in c \cup d}

\* Mutant of Absorbs: whether the conditions are the same is not looked at.
AbsorbsMutant(s, t) ==
  IF /\ t.resources \subseteq s.resources
     /\ t.actions \subseteq s.actions
     /\ s.effect = t.effect
  THEN {s}
  ELSE {}

\* s takes statement t in: the statement it becomes, in a set, or none.
Absorbs(s, t) ==
  LET same == s.effect = t.effect /\ s.conditions = t.conditions
  IN IF s.actions = t.actions /\ s.principal = t.principal /\ same
     THEN {[s EXCEPT !.resources = @ \cup t.resources]}
     ELSE IF s.resources = t.resources /\ s.principal = t.principal /\ same
     THEN {[s EXCEPT !.actions = @ \cup t.actions]}
     ELSE IF /\ t.resources \subseteq s.resources
             /\ t.actions \subseteq s.actions
             /\ s.effect = t.effect
             /\ t.principal \subseteq s.principal
          THEN IF same THEN {s}
               ELSE IF /\ s.conditions # {} /\ t.conditions # {}
                       /\ s.resources = t.resources
               THEN {[s EXCEPT !.conditions = mergeConditionMap(@, t.conditions)]}
               ELSE {}
     ELSE {}

appendStatement(statements, t) ==
  LET at == {i \in DOMAIN statements : Absorbs(statements[i], t) # {}}
      i  == CHOOSE j \in at : \A k \in at : j <= k
  IN IF at = {} THEN Append(statements, t)
     ELSE [statements EXCEPT ![i] = CHOOSE s \in Absorbs(@, t) : TRUE]

SetPolicy(statements, policy, bucket, prefix) ==
  FoldLeft(appendStatement, removeStatements(statements, bucket, prefix),
           newStatements(policy, bucket, prefix))

(***************************************************************************)
(* Recognising a policy.                                                   *)
(***************************************************************************)
\* resourceMatch, of patterns that end in a star.
resourceMatch(pattern, resource) ==
  \/ pattern = resource
  \/ /\ Last(pattern) = "*"
     /\ IsPrefix(Front(pattern), resource)

\* Mutant of BucketReadOnly: conditions are not looked at.
BucketReadOnlyMutant(s, prefix) ==
  PublicAllow(s) /\ readOnlyBucketActions \subseteq s.actions

\* getBucketPolicy: listing the prefix is allowed.
BucketReadOnly(s, prefix) ==
  /\ PublicAllow(s)
  /\ readOnlyBucketActions \subseteq s.actions
  /\ \/ s.conditions = {}
     \/ /\ prefix # << >>
        /\ IF \E f \in s.conditions : f.name = "StringEquals"
           THEN prefix \in PrefixValues(s.conditions, "StringEquals")
           ELSE \E f \in s.conditions :
                  /\ f.name = "StringNotEquals" /\ f.key = "prefix"
                  /\ prefix \notin f.values

Unconditional(s, actions) ==
  PublicAllow(s) /\ s.conditions = {} /\ actions \subseteq s.actions

GetPolicy(statements, bucket, prefix) ==
  LET object == ObjectResource(bucket, prefix)
      matched(s) == IF object \in s.resources THEN {object}
                    ELSE {r \in s.resources : resourceMatch(r, object)}
      lengths == {Len(r) : r \in UNION {matched(s) : s \in Range(statements)}}
      \* the statements that match with the longest resource
      closest == {s \in Range(statements) :
                    \E r \in matched(s) : \A n \in lengths : n <= Len(r)}
      onBucket == {s \in Range(statements) : BucketResource(bucket) \in s.resources}
      common == \E s \in onBucket : Unconditional(s, commonBucketActions)
      read == /\ \E s \in onBucket : BucketReadOnly(s, prefix)
              /\ \E s \in closest : Unconditional(s, readOnlyObjectActions)
      write == /\ \E s \in onBucket : Unconditional(s, writeOnlyBucketActions)
               /\ \E s \in closest : Unconditional(s, writeOnlyObjectActions)
  IN CASE common /\ read /\ write -> "readwrite"
       [] common /\ read /\ ~write -> "readonly"
       [] common /\ ~read /\ write -> "writeonly"
       [] OTHER -> "none"
=============================================================================

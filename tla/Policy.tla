------------------------------- MODULE Policy -------------------------------
(***************************************************************************)
(* Bucket policies: the documents, their validation and their evaluation   *)
(* (pkg/bucket/policy, pkg/bucket/policy/condition, pkg/wildcard).         *)
(*                                                                         *)
(* A string that patterns look into is a sequence of tokens: the name of a *)
(* bucket, "/", a part of an object's name, "*", "?", a variable such as   *)
(* "${username}".  The values of numeric and date keys are integers;       *)
(* Malformed is a value that does not parse.  A network is the set of its  *)
(* addresses.                                                              *)
(*                                                                         *)
(* A statement is a record of effect, principal, actions, resources and    *)
(* conditions; a condition is a record of name, key and values.  A request *)
(* is a record of account, action, bucket, object, owner and the values of *)
(* the condition keys, from its headers and from elsewhere.                *)
(***************************************************************************)
EXTENDS Integers, Sequences, FiniteSets, Functions, SequencesExt

Malformed == -1

DefaultVersion == "2012-10-17"

(***************************************************************************)
(* Patterns.                                                               *)
(***************************************************************************)
\* "*" stands for any number of tokens, "?" for one.
Match(pattern, name) ==
  LET m[at \in (1..Len(pattern) + 1) \X (1..Len(name) + 1)] ==
        LET i == at[1]
            j == at[2]
        IN IF i > Len(pattern) THEN j > Len(name)
           ELSE IF pattern[i] = "*"
                THEN m[<<i + 1, j>>] \/ (j <= Len(name) /\ m[<<i, j + 1>>])
                ELSE /\ j <= Len(name)
                     /\ pattern[i] \in {"?", name[j]}
                     /\ m[<<i + 1, j + 1>>]
  IN m[<<1, 1>>]

\* MatchSimple, of principals that are names or "*".
MatchSimple(pattern, name) == pattern \in {"*", name}

(***************************************************************************)
(* Conditions.                                                             *)
(***************************************************************************)
CommonKeys ==
  {"Referer", "SourceIp", "UserAgent", "SecureTransport", "CurrentTime",
   "EpochTime", "principaltype", "userid", "username", "x-amz-content-sha256"}

Variables == [v \in {"${username}", "${userid}"} |->
                IF v = "${username}" THEN "username" ELSE "userid"]

\* A header of the key's name goes before the value from elsewhere.
RequestValue(key, r) ==
  IF key \in DOMAIN r.header THEN r.header[key]
  ELSE IF key \in DOMAIN r.values THEN r.values[key] ELSE << >>

substFuncFromValues(v, r) ==
  [i \in DOMAIN v |->
     IF /\ v[i] \in DOMAIN Variables
        /\ Variables[v[i]] \in DOMAIN r.values
        /\ r.values[Variables[v[i]]] # << >>
     THEN Head(r.values[Variables[v[i]]])
     ELSE v[i]]

Subst(f, r) == {substFuncFromValues(v, r) : v \in f.values}

Fold(v) == [i \in DOMAIN v |-> IF v[i] = "A" THEN "a" ELSE v[i]]

StringEquals(f, r) == Subst(f, r) \cap Range(RequestValue(f.key, r)) # {}

StringEqualsIgnoreCase(f, r) ==
  \E v \in Range(RequestValue(f.key, r)), w \in Subst(f, r) : Fold(v) = Fold(w)

BinaryEquals(f, r) == Subst(f, r) \cap Range(RequestValue(f.key, r)) # {}

StringLike(f, r) ==
  \E v \in Range(RequestValue(f.key, r)), w \in Subst(f, r) : Match(w, v)

IPAddress(f, r) ==
  \E ip \in Range(RequestValue(f.key, r)), net \in f.values : ip \in net

Null(f, r) == (TRUE \in f.values) = (RequestValue(f.key, r) = << >>)

Bool(f, r) ==
  /\ RequestValue(f.key, r) # << >>
  /\ Head(RequestValue(f.key, r)) \in f.values

Order(v, w) == IF v < w THEN "<" ELSE IF v = w THEN "=" ELSE ">"

\* Numeric and date conditions have one value, and look at the first one of
\* the request.
Compares(f, r, orders) ==
  LET v == RequestValue(f.key, r)
  IN /\ v # << >>
     /\ Head(v) # Malformed
     /\ \E w \in f.values : Order(Head(v), w) \in orders

NumericEquals(f, r) == Compares(f, r, {"="})
NumericLessThan(f, r) == Compares(f, r, {"<"})
NumericLessThanEquals(f, r) == Compares(f, r, {"<", "="})
NumericGreaterThan(f, r) == Compares(f, r, {">"})
NumericGreaterThanEquals(f, r) == Compares(f, r, {">", "="})
DateEquals(f, r) == Compares(f, r, {"="})
DateLessThan(f, r) == Compares(f, r, {"<"})
DateLessThanEquals(f, r) == Compares(f, r, {"<", "="})
DateGreaterThan(f, r) == Compares(f, r, {">"})
DateGreaterThanEquals(f, r) == Compares(f, r, {">", "="})

EvaluateFunc(f, r) ==
  CASE f.name = "StringEquals"              -> StringEquals(f, r)
    [] f.name = "StringNotEquals"           -> ~StringEquals(f, r)
    [] f.name = "StringEqualsIgnoreCase"    -> StringEqualsIgnoreCase(f, r)
    [] f.name = "StringNotEqualsIgnoreCase" -> ~StringEqualsIgnoreCase(f, r)
    [] f.name = "BinaryEquals"              -> BinaryEquals(f, r)
    [] f.name = "StringLike"                -> StringLike(f, r)
    [] f.name = "StringNotLike"             -> ~StringLike(f, r)
    [] f.name = "IpAddress"                 -> IPAddress(f, r)
    [] f.name = "NotIpAddress"              -> ~IPAddress(f, r)
    [] f.name = "Null"                      -> Null(f, r)
    [] f.name = "Bool"                      -> Bool(f, r)
    [] f.name = "NumericEquals"             -> NumericEquals(f, r)
    [] f.name = "NumericNotEquals"          -> ~NumericEquals(f, r)
    [] f.name = "NumericLessThan"           -> NumericLessThan(f, r)
    [] f.name = "NumericLessThanEquals"     -> NumericLessThanEquals(f, r)
    [] f.name = "NumericGreaterThan"        -> NumericGreaterThan(f, r)
    [] f.name = "NumericGreaterThanEquals"  -> NumericGreaterThanEquals(f, r)
    [] f.name = "DateEquals"                -> DateEquals(f, r)
    [] f.name = "DateNotEquals"             -> ~DateEquals(f, r)
    [] f.name = "DateLessThan"              -> DateLessThan(f, r)
    [] f.name = "DateLessThanEquals"        -> DateLessThanEquals(f, r)
    [] f.name = "DateGreaterThan"           -> DateGreaterThan(f, r)
    [] f.name = "DateGreaterThanEquals"     -> DateGreaterThanEquals(f, r)

Evaluate(conditions, r) == \A f \in conditions : EvaluateFunc(f, r)

\* The constructors' checks: which keys and how many values a name takes.
ValidFunc(f) ==
  /\ f.values # {}
  /\ f.name \in {"IpAddress", "NotIpAddress"} => f.key = "SourceIp"
  /\ f.name = "Bool" => f.key = "SecureTransport"
  /\ f.name \in {"Null", "Bool", "NumericEquals", "NumericNotEquals",
                 "NumericLessThan", "NumericLessThanEquals",
                 "NumericGreaterThan", "NumericGreaterThanEquals",
                 "DateEquals", "DateNotEquals", "DateLessThan",
                 "DateLessThanEquals", "DateGreaterThan",
                 "DateGreaterThanEquals"} => Cardinality(f.values) = 1

(***************************************************************************)
(* Statements.                                                             *)
(***************************************************************************)
ObjectActions ==
  {"AbortMultipartUpload", "DeleteObject", "GetObject",
   "ListMultipartUploadParts", "PutObject", "BypassGovernanceRetention",
   "PutObjectRetention", "GetObjectRetention", "PutObjectLegalHold",
   "GetObjectLegalHold", "GetObjectTagging", "PutObjectTagging",
   "DeleteObjectTagging"}

\* actionConditionKeyMap: the keys that conditions on an action may use.
ActionConditionKeys(action) ==
  CASE action = "GetObject"  ->
         CommonKeys \cup {"x-amz-server-side-encryption", "x-amz-storage-class"}
    [] action = "ListBucket" -> CommonKeys \cup {"prefix", "delimiter", "max-keys"}
    [] action = "PutObject"  ->
         CommonKeys \cup {"x-amz-copy-source", "x-amz-metadata-directive",
                          "x-amz-server-side-encryption", "x-amz-storage-class",
                          "object-lock-retain-until-date", "object-lock-mode",
                          "object-lock-legal-hold"}
    [] action \in {"PutBucketPolicy", "GetBucketPolicy", "DeleteBucketPolicy",
                   "DeleteBucket", "ForceDeleteBucket"} -> {}
    [] OTHER -> CommonKeys

IsObjectPattern(resource) == "/" \in Range(resource) \/ resource[1] = "*"
IsBucketPattern(resource) == "/" \notin Range(resource)

ResourceMatch(resources, name, r) ==
  \E p \in resources : Match(substFuncFromValues(p, r), name)

ResourceName(r) ==
  IF r.object = << >> THEN <<r.bucket>> ELSE <<r.bucket, "/">> \o r.object

StatementMatches(s, r) ==
  /\ \E p \in s.principal : MatchSimple(p, r.account)
  /\ r.action \in s.actions
  /\ ResourceMatch(s.resources, ResourceName(r), r)
  /\ Evaluate(s.conditions, r)

StatementIsAllowed(s, r) ==
  IF s.effect = "Allow" THEN StatementMatches(s, r) ELSE ~StatementMatches(s, r)

StatementIsValid(s) ==
  /\ s.effect \in {"Allow", "Deny"}
  /\ s.principal # {}
  /\ s.actions # {}
  /\ s.resources # {}
  /\ \A f \in s.conditions : ValidFunc(f)
  /\ \A a \in s.actions :
       /\ \E p \in s.resources :
            IF a \in ObjectActions THEN IsObjectPattern(p) ELSE IsBucketPattern(p)
       /\ {f.key : f \in s.conditions} \subseteq ActionConditionKeys(a)

\* The name under which String shows a condition.
StringName(n) ==
  IF n \in {"DateGreaterThanEquals", "DateLessThanEquals"} THEN "DateNotEquals"
  ELSE n

\* Equal strings of two lists of conditions.
SameConditions(c, d) ==
  LET Shown(f) == [f EXCEPT !.name = StringName(@)]
      Count(e, g) == Cardinality({f \in e : Shown(f) = g})
  IN \A g \in {Shown(f) : f \in c \cup d} : Count(c, g) = Count(d, g)

SameStatement(s, t) ==
  /\ s.effect = t.effect
  /\ s.principal = t.principal
  /\ s.actions = t.actions
  /\ s.resources = t.resources
  /\ SameConditions(s.conditions, t.conditions)

(***************************************************************************)
(* Policies.                                                               *)
(***************************************************************************)
PolicyIsAllowed(policy, r) ==
  /\ \A s \in Range(policy) : s.effect = "Deny" => StatementIsAllowed(s, r)
  /\ \/ r.owner
     \/ \E s \in Range(policy) : s.effect = "Allow" /\ StatementIsAllowed(s, r)

\* One round of dropDuplicateStatements, for statements that are the same by
\* the relation "same".  The inner loop counts from the statement after i, and
\* the statement at its count is removed.
DropOne(policy, same) ==
  LET pairs == {p \in (DOMAIN policy) \X (DOMAIN policy) :
                  p[1] < p[2] /\ <<policy[p[1]], policy[p[2]]>> \in same}
      first == CHOOSE p \in pairs :
                 \A q \in pairs : p[1] < q[1] \/ (p[1] = q[1] /\ p[2] <= q[2])
  IN IF pairs = {} THEN policy ELSE RemoveAt(policy, first[2] - first[1])

DropDuplicates(policy, same) ==
  LET rounds[n \in 0..Len(policy)] ==
        IF n = 0 THEN policy ELSE DropOne(rounds[n - 1], same)
  IN rounds[Len(policy)]

dropDuplicateStatements(policy) ==
  DropDuplicates(policy, {st \in Range(policy) \X Range(policy) : SameStatement(st[1], st[2])})

\* Policy.UnmarshalJSON succeeds.
PolicyIsValid(policy) == \A s \in Range(policy) : StatementIsValid(s)

\* ParseConfig: also the resources have to be of the bucket.
ValidFor(policy, bucket) ==
  /\ PolicyIsValid(policy)
  /\ \A s \in Range(policy) : \A p \in s.resources : p[1] \in {"*", bucket}
=============================================================================

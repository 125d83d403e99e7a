---------------------------- MODULE WebSessions ----------------------------
(***************************************************************************)
(* Who a request speaks for and what it may do: the web handlers with      *)
(* their tokens (web-handlers.go, jwt.go) and the bucket handlers of the   *)
(* S3 API (bucket-handlers.go).                                            *)
(*                                                                         *)
(* A handler is the sequence of its steps: every question to the policies  *)
(* is a step, every effect on the object layer is one, and rights, secrets *)
(* and users change between them.  No handler holds a lock across a        *)
(* question and the effect it is asked for.                                *)
(***************************************************************************)
EXTENDS Integers, Sequences, FiniteSets, SequencesExt

CONSTANTS Browsers,     \* clients, each with one request at a time
          Holders,      \* access keys of users
          TempHolders,  \* access keys of temporary users (STS)
          Owner,        \* globalActiveCred
          Anybody,
          Secrets,      \* secret keys of users
          OwnerSecret,
          Bucket,
          Objects,
          Folders,      \* names that end in "/"
          Selections,   \* sequences of names a request may carry
          OpsOf,        \* per client: the handlers it calls
          NoToken,
          WebLife,      \* defaultJWTExpiry
          URLLife,      \* defaultURLJWTExpiry
          PresignLife,  \* 604800 s
          MaxClock,     \* bound on the clock
          MaxWebChanges,\* bound on changes of rights, users and secrets
          MaxWebRequests

ASSUME HoldersAssumption ==
  /\ Owner \notin Holders \cup TempHolders /\ Anybody \notin Holders \cup TempHolders
  /\ Holders \cap TempHolders = {} /\ OwnerSecret \notin Secrets
  /\ Owner # Anybody /\ Secrets # {}
  /\ 0 < URLLife /\ URLLife <= WebLife /\ WebLife <= PresignLife
  /\ {WebLife, URLLife, PresignLife} \subseteq Nat

ASSUME SelectionsAssumption == Selections \subseteq Seq(Objects \cup Folders)

VARIABLES accounts,    \* per user: secret and status, "on", "off" or "gone"
          rights,      \* what IAMSys.IsAllowed and PolicySys.IsAllowed answer with yes
          tokens,      \* tokens and presigned URLs that were handed out
          clock,
          web,         \* per client: its request
          webChanges,
          webRequests

webVars == <<accounts, rights, tokens, clock, web, webChanges, webRequests>>

AllHolders == Holders \cup TempHolders

WebToken(key, secret, until) == [key |-> key, secret |-> secret, until |-> until]

WebTokens ==
  [key : {Owner} \cup AllHolders, secret : Secrets \cup {OwnerSecret}, until : Nat]

ASSUME NoTokenAssumption == NoToken \notin WebTokens

(***************************************************************************)
(* The steps of handlers.                                                  *)
(***************************************************************************)
Does(kind, action, name) == [do |-> kind, action |-> action, name |-> name]

NoName == ""

MustHave(action, name) == Does("ask", action, name)   \* refused without the right
May(action, name)      == Does("may", action, name)   \* noted
Need(name)             == Does("need", NoName, name)  \* one of the noted rights
Got(action, name)      == Does("got", action, name)   \* a noted right
DoIt(action, name)     == Does("act", action, name)   \* an effect
Try(action, name)      == Does("try", action, name)   \* an effect that may be passed over
Show(action, name)     == Does("show", action, name)  \* an effect if the right was noted
Session(kind)          == Does(kind, NoName, NoName)

Asking(action, name) == <<MustHave(action, name), DoIt(action, name)>>

Each(names, steps(_)) == FlattenSeq([i \in DOMAIN names |-> steps(names[i])])

ListBucketsWeb ==
  <<May("ListAllMyBuckets", Bucket), Show("ListAllMyBuckets", Bucket)>>

\* The prefix stands for the bucket with its conditions and for the objects
\* below it; a list that may not be read tells at least whether it may be
\* written.
ListObjectsWeb(prefix) ==
  <<May("ListBucket", prefix), May("PutObject", prefix), Need(prefix),
    Show("PutObject", prefix), Show("ListBucket", prefix)>>

\* Walk is not implemented by IPFSObjects: a folder ends the request.
RemoveOne(name) ==
  IF name \in Folders THEN <<MustHave("DeleteObject", name), Session("walk")>>
  ELSE <<MustHave("DeleteObject", name), May("BypassGovernanceRetention", name),
         May("GetBucketObjectLockConfiguration", name), Need(name),
         Try("DeleteObject", name)>>

\* Mutant of RemoveObject: only requests without a token are asked for rights.
RemoveObjectMutant(who, names) ==
  (IF who = Anybody THEN Each(names, LAMBDA n : <<MustHave("DeleteObject", n)>>) ELSE << >>)
    \o Each(names, LAMBDA n : <<Try("DeleteObject", n)>>)

RemoveObject(who, names) ==
  (IF who = Anybody THEN Each(names, LAMBDA n : <<MustHave("DeleteObject", n)>>) ELSE << >>)
    \o Each(names, RemoveOne)

\* checkPutObjectLockAllowed asks for the right to set a retention only, for
\* legal holds too.
Upload(who, name, locked) ==
  <<MustHave("PutObject", name)>>
    \o (IF who = Anybody THEN << >>
        ELSE <<May("PutObjectRetention", name), May("PutObjectLegalHold", name)>>)
    \o (IF locked THEN <<Got("PutObjectRetention", name)>> ELSE << >>)
    \o <<DoIt("PutObject", name)>>
    \o (IF locked THEN <<Show("PutObjectRetention", name)>> ELSE << >>)

AskForDownload(name) ==
  <<MustHave("GetObject", name), May("GetObjectRetention", name), May("GetObjectLegalHold", name)>>

Download(name) ==
  AskForDownload(name)
    \o <<DoIt("GetObject", name), Show("GetObjectRetention", name),
         Show("GetObjectLegalHold", name)>>

\* All names are asked for before the first is read; a folder, which cannot be
\* walked, is left out.
DownloadZip(names) ==
  Each(names, AskForDownload)
    \o Each(names, LAMBDA n : IF n \in Folders THEN << >> ELSE <<DoIt("GetObject", n)>>)

GenerateAuth == <<Session("owner"), DoIt("GenerateAuth", Bucket)>>

SetAuth ==
  <<Session("notOwner"), Session("user"), Session("current"), Session("setSecret"),
    Session("sign")>>

CreateURLToken == <<Session("user"), Session("urlToken")>>

PresignedGet == <<Session("user"), Session("presign")>>

\* checkRequestAuthType: the signature is verified with every question.
SignedRequest(steps) == <<Session("verify")>> \o steps

\* A bucket is listed with the right to list all, or to list it.
ListBucketsS3 ==
  SignedRequest(<<May("ListAllMyBuckets", Bucket), May("ListBucket", Bucket), Need(Bucket),
           Show("ListAllMyBuckets", Bucket), Show("ListBucket", Bucket)>>)

\* An object that may not be deleted is reported and the others are deleted,
\* each of them once.
DeleteMultipleObjects(names) ==
  Each(names, LAMBDA n : SignedRequest(<<May("DeleteObject", n)>>))
    \o Each(SetToSeq(Range(names)), LAMBDA n : <<Show("DeleteObject", n)>>)

WebOps ==
  {"ServerInfo", "StorageInfo", "MakeBucket", "DeleteBucket", "ListBuckets", "ListObjects",
   "RemoveObject", "Upload", "UploadLocked", "Download", "DownloadZip", "GetBucketPolicy",
   "ListAllBucketPolicies", "SetBucketPolicy", "Login", "GenerateAuth", "SetAuth",
   "CreateURLToken", "PresignedGet"}
S3Ops ==
  {"s3GetBucketLocation", "s3ListBuckets", "s3DeleteMultipleObjects", "s3PutBucket",
   "s3HeadBucket", "s3DeleteBucket", "s3ForceDeleteBucket"}

ASSUME OpsAssumption == \A b \in Browsers : OpsOf[b] \subseteq WebOps \cup S3Ops

WebHandler(r, who) ==
  CASE r.op \in {"ServerInfo", "StorageInfo"} -> <<DoIt("ServerInfo", Bucket)>>
    [] r.op = "MakeBucket"    -> Asking("CreateBucket", Bucket)
    [] r.op = "DeleteBucket"  -> Asking("DeleteBucket", Bucket)
    [] r.op = "ListBuckets"   -> ListBucketsWeb
    [] r.op = "ListObjects"   -> ListObjectsWeb(r.names[1])
    [] r.op = "RemoveObject"  -> RemoveObject(who, r.names)
    [] r.op = "Upload"        -> Upload(who, r.names[1], FALSE)
    [] r.op = "UploadLocked"  -> Upload(who, r.names[1], TRUE)
    [] r.op = "Download"      -> Download(r.names[1])
    [] r.op = "DownloadZip"   -> DownloadZip(r.names)
    [] r.op \in {"GetBucketPolicy", "ListAllBucketPolicies"}
                              -> Asking("GetBucketPolicy", Bucket)
    [] r.op = "SetBucketPolicy" -> Asking("PutBucketPolicy", Bucket)
    [] r.op = "Login"         -> <<Session("sign")>>
    [] r.op = "GenerateAuth"  -> GenerateAuth
    [] r.op = "SetAuth"       -> SetAuth
    [] r.op = "CreateURLToken" -> CreateURLToken
    [] r.op = "PresignedGet"  -> PresignedGet

S3Handler(r) ==
  CASE r.op = "s3GetBucketLocation" -> SignedRequest(Asking("GetBucketLocation", Bucket))
    [] r.op = "s3ListBuckets" -> ListBucketsS3
    [] r.op = "s3DeleteMultipleObjects" -> DeleteMultipleObjects(r.names)
    [] r.op = "s3PutBucket"   -> SignedRequest(Asking("CreateBucket", Bucket))
    [] r.op = "s3HeadBucket"  -> SignedRequest(Asking("ListBucket", Bucket))
    [] r.op = "s3DeleteBucket" -> SignedRequest(Asking("DeleteBucket", Bucket))
    [] r.op = "s3ForceDeleteBucket" -> SignedRequest(Asking("ForceDeleteBucket", Bucket))

\* getReqAccessKeyV4: the account that a request is decided for is the one that its
\* query names, although the signature is of the other; nobody's query is looked at.
Speaker(op, token, args) ==
  IF op = "Login" THEN args.key
  ELSE IF token = NoToken THEN Anybody
  ELSE IF op \in S3Ops /\ args.key # Anybody THEN args.key
  ELSE token.key

Handler(r, who) == IF r.op \in S3Ops THEN S3Handler(r) ELSE WebHandler(r, who)

\* Handlers that take a request without a token for one of anybody.
Public == {"ListObjects", "RemoveObject", "Upload", "UploadLocked", "Download", "DownloadZip"}

\* Handlers that look at the names of the request.
Named == Public \cup {"s3DeleteMultipleObjects"}

(***************************************************************************)
(* Users.                                                                  *)
(***************************************************************************)
Usable(key) == key \in AllHolders /\ accounts[key].status = "on"

\* webTokenCallback: the tokens of temporary users are signed with the secret
\* of the server, whatever their status.
TokenSecrets(key) ==
  CASE key = Owner -> {OwnerSecret}
    [] key \in TempHolders /\ accounts[key].status # "gone" -> {OwnerSecret}
    [] key \in Holders /\ Usable(key) -> {accounts[key].secret}
    [] OTHER -> {}

\* webTokenAuthenticate, webRequestAuthenticate
Authentic(token) == token.secret \in TokenSecrets(token.key) /\ clock <= token.until

\* checkKeyValid: the secret a signature of the S3 API is made with.
KeySecrets(key) ==
  IF key = Owner THEN {OwnerSecret} ELSE IF Usable(key) THEN {accounts[key].secret} ELSE {}

(***************************************************************************)
(* Requests.  History, at any moment since the request came: "unseen", the *)
(* effects it never had the right to; "vouched", whether its token was     *)
(* good; "changed", whether its user was changed by others.                *)
(***************************************************************************)
NoWebRequest == [op |-> "none"]

Busy(b) == web[b].op # "none"

Effects(r) ==
  {<<r.who, s.action, s.name>> : s \in {x \in Range(r.plan) : x.do \in {"act", "try", "show"}}}

Questions(r) ==
  {<<r.who, s.action, s.name>> : s \in {x \in Range(r.plan) : x.do \in {"ask", "may"}}}

\* What the token of a request is worth, whoever looks at it; with a signature, the
\* account that the request names must be one that may be used, too.
Vouched(r, accts, time) ==
  LET t     == r.token
      named == r.who = Owner \/ accts[r.who].status = "on"
  IN \/ t = NoToken
     \/ /\ t.key = Owner /\ t.secret = OwnerSecret
        /\ IF r.op \in S3Ops THEN named ELSE time <= t.until
     \/ /\ t.key \in AllHolders /\ r.op \in S3Ops /\ named
        /\ accts[t.key].status = "on" /\ t.secret = accts[t.key].secret
     \/ /\ t.key \in Holders /\ r.op \in WebOps /\ time <= t.until
        /\ accts[t.key].status = "on" /\ t.secret = accts[t.key].secret
     \/ /\ t.key \in TempHolders /\ r.op \in WebOps /\ time <= t.until
        /\ accts[t.key].status # "gone" /\ t.secret = OwnerSecret

\* The requests, when the world becomes what the arguments say.
Watched(accts, held, time) ==
  [b \in Browsers |->
     IF ~Busy(b) THEN web[b]
     ELSE [web[b] EXCEPT
             !.unseen = @ \ held,
             !.vouched = @ \/ Vouched(web[b], accts, time),
             !.changed = @ \/ (web[b].who \in AllHolders
                               /\ accts[web[b].who] # accounts[web[b].who])]]

Actions ==
  {"CreateBucket", "DeleteBucket", "ForceDeleteBucket", "GetBucketLocation", "GetBucketPolicy",
   "PutBucketPolicy", "ListAllMyBuckets", "ListBucket", "PutObject", "PutObjectRetention",
   "PutObjectLegalHold", "GetObject", "GetObjectRetention", "GetObjectLegalHold",
   "DeleteObject", "BypassGovernanceRetention", "GetBucketObjectLockConfiguration"}

AllRights ==
  (AllHolders \cup {Anybody}) \X Actions \X ({Bucket} \cup Objects \cup Folders)

\* Everybody has logged in.
SessionsInit ==
  /\ accounts = [k \in AllHolders |-> [secret |-> CHOOSE s \in Secrets : TRUE, status |-> "on"]]
  /\ rights \in {{}, AllRights}
  /\ tokens = {WebToken(Owner, OwnerSecret, WebLife)}
       \cup {WebToken(k, OwnerSecret, WebLife) : k \in TempHolders}
       \cup {WebToken(k, accounts[k].secret, WebLife) : k \in Holders}
  /\ clock = 0
  /\ web = [b \in Browsers |-> NoWebRequest]
  /\ webChanges = 0
  /\ webRequests = 0

\* What a client may send: nothing, a token that was handed out or, to a handler
\* of the S3 API, a signature with any secret.
Credentials(op) ==
  {NoToken} \cup
  (CASE op = "Login" -> {}
     [] op \in S3Ops -> {WebToken(Owner, OwnerSecret, 0)}
                          \cup {WebToken(k, s, 0) : k \in AllHolders, s \in Secrets}
     [] OTHER -> tokens)

\* Login takes a name and a secret, SetAuth the current secret and a new one; the
\* query of a signed request may name an account.
Parameters(op) ==
  CASE op = "Login" -> {[key |-> k, current |-> s, secret |-> s] :
                          k \in {Owner} \cup AllHolders, s \in Secrets \cup {OwnerSecret}}
    [] op = "SetAuth" -> [key : {Owner}, current : Secrets, secret : Secrets]
    [] op \in S3Ops ->
         [key : {Anybody, Owner} \cup AllHolders, current : {OwnerSecret}, secret : {OwnerSecret}]
    [] OTHER -> [key : {Owner}, current : {OwnerSecret}, secret : {OwnerSecret}]

SendRequest(b, op, names, token, args) ==
  /\ ~Busy(b) /\ webRequests < MaxWebRequests
  /\ op \in OpsOf[b] /\ token \in Credentials(op) /\ args \in Parameters(op)
  /\ LET who  == Speaker(op, token, args)
         plan == (IF op \in WebOps \ {"Login"} THEN <<Session("auth")>> ELSE << >>)
                   \o Handler([op |-> op, names |-> names], who)
         r == [op |-> op, token |-> token, args |-> args, who |-> who, plan |-> plan,
               got |-> {}, creds |-> WebToken(who, args.secret, 0), served |-> {}, issued |-> {},
               unseen |-> {}, vouched |-> FALSE, changed |-> FALSE]
     IN web' = [web EXCEPT ![b] = [r EXCEPT !.unseen = Effects(r) \ rights,
                                           !.vouched = Vouched(r, accounts, clock)]]
  /\ webRequests' = webRequests + 1
  /\ UNCHANGED <<accounts, rights, tokens, clock, webChanges>>

(***************************************************************************)
(* One step of a handler.                                                  *)
(***************************************************************************)
At(b, kind) == Busy(b) /\ web[b].plan # << >> /\ Head(web[b].plan).do = kind

Continues(b, changed) ==
  web' = [web EXCEPT ![b] = [changed EXCEPT !.plan = Tail(@)]]
GoesOn(b) == Continues(b, web[b])
EndsNow(b) == web' = [web EXCEPT ![b].plan = << >>]
GoesOnIf(b, condition) == IF condition THEN GoesOn(b) ELSE EndsNow(b)

Noted(b) == <<Head(web[b].plan).action, Head(web[b].plan).name>>
Right(b) == <<web[b].who, Head(web[b].plan).action, Head(web[b].plan).name>>

World == <<accounts, rights, tokens, clock, webChanges, webRequests>>

Authenticate(b) ==
  /\ At(b, "auth")
  /\ GoesOnIf(b, IF web[b].token = NoToken THEN web[b].op \in Public
                 ELSE Authentic(web[b].token))
  /\ UNCHANGED World

\* checkRequestAuthType without the question: the signature is verified with the
\* secret of its account, and the account that is decided for is looked up again.
VerifySignature(b) ==
  /\ At(b, "verify")
  /\ GoesOnIf(b, web[b].token # NoToken =>
                   /\ web[b].token.secret \in KeySecrets(web[b].token.key)
                   /\ KeySecrets(web[b].who) # {})
  /\ UNCHANGED World

Question(b) ==
  /\ UNCHANGED World
  /\ LET allowed == web[b].who = Owner \/ Right(b) \in rights
     IN \/ At(b, "ask") /\ GoesOnIf(b, allowed)
        \/ /\ At(b, "may")
           /\ Continues(b, [web[b] EXCEPT !.got = IF allowed THEN @ \cup {Noted(b)} ELSE @])

Decision(b) ==
  /\ UNCHANGED World
  /\ \/ /\ At(b, "need")
        /\ GoesOnIf(b, \E g \in web[b].got : g[2] = Head(web[b].plan).name)
     \/ At(b, "got") /\ GoesOnIf(b, Noted(b) \in web[b].got)
     \/ At(b, "owner") /\ GoesOnIf(b, web[b].who = Owner)
     \/ At(b, "notOwner") /\ GoesOnIf(b, web[b].who # Owner)
     \/ At(b, "walk") /\ EndsNow(b)

\* An error of the object layer ends the request.  RemoveObject passes over an
\* object that is gone from a bucket with object locks.
Effect(b) ==
  /\ UNCHANGED World
  /\ LET served == Continues(b, [web[b] EXCEPT !.served = @ \cup {Right(b)}])
     IN \/ At(b, "act") /\ (served \/ EndsNow(b))
        \/ At(b, "try") /\ (served \/ GoesOn(b) \/ EndsNow(b))
        \/ At(b, "show") /\ IF Noted(b) \in web[b].got THEN served ELSE GoesOn(b)

\* The reply is sent.
Reply(b) ==
  /\ Busy(b) /\ web[b].plan = << >>
  /\ web' = [web EXCEPT ![b] = NoWebRequest]
  /\ UNCHANGED World

(***************************************************************************)
(* The steps of the handlers of sessions.                                  *)
(***************************************************************************)
CredsOf(key) ==
  IF key = Owner THEN {WebToken(Owner, OwnerSecret, 0)}
  ELSE IF Usable(key) THEN {WebToken(key, accounts[key].secret, 0)} ELSE {}

Issue(b, token) ==
  /\ Continues(b, [web[b] EXCEPT !.issued = @ \cup {token}])
  /\ tokens' = tokens \cup {token}
  /\ UNCHANGED <<accounts, rights, clock, webChanges, webRequests>>

\* globalActiveCred or GetUser
ReadUser(b) ==
  /\ At(b, "user")
  /\ IF CredsOf(web[b].who) = {} THEN EndsNow(b)
     ELSE \E c \in CredsOf(web[b].who) : Continues(b, [web[b] EXCEPT !.creds = c])
  /\ UNCHANGED World

\* SetAuth compares with what it read, and then signs with the new secret.
CompareCurrent(b) ==
  /\ At(b, "current")
  /\ IF web[b].creds.secret # web[b].args.current THEN EndsNow(b)
     ELSE Continues(b, [web[b] EXCEPT !.creds.secret = web[b].args.secret])
  /\ UNCHANGED World

\* SetUserSecretKey
StoreSecret(b) ==
  /\ At(b, "setSecret")
  /\ IF accounts[web[b].who].status = "gone" THEN EndsNow(b) /\ UNCHANGED accounts
     ELSE /\ accounts' = [accounts EXCEPT ![web[b].who].secret = web[b].args.secret]
          /\ web' = [Watched(accounts', rights, clock) EXCEPT
                       ![b] = [web[b] EXCEPT !.plan = Tail(@)]]
  /\ UNCHANGED <<rights, tokens, clock, webChanges, webRequests>>

\* authenticateJWTUsers: the credentials that are passed have no session token,
\* so those of a temporary user are never equal to them.
Signs(b, life) ==
  LET c == web[b].creds
  IN IF c.secret \in KeySecrets(c.key) /\ c.key \notin TempHolders
     THEN Issue(b, WebToken(c.key, c.secret, clock + life))
     ELSE EndsNow(b) /\ UNCHANGED World

AuthenticateWeb(b) == At(b, "sign") /\ Signs(b, WebLife)

\* authenticateURL, or the session token of a temporary user.
AuthenticateURL(b) ==
  /\ At(b, "urlToken")
  /\ IF web[b].creds.key \in TempHolders
     THEN Issue(b, WebToken(web[b].creds.key, OwnerSecret, WebLife))
     ELSE Signs(b, URLLife)

\* presignedGet: signed with the secret that was read.
Presign(b) ==
  /\ At(b, "presign")
  /\ Continues(b, [web[b] EXCEPT !.issued = @ \cup
                     {WebToken(web[b].creds.key, web[b].creds.secret, clock + PresignLife)}])
  /\ UNCHANGED World

HandlerStep(b) ==
  \/ Authenticate(b) \/ VerifySignature(b) \/ Question(b) \/ Decision(b) \/ Effect(b)
  \/ ReadUser(b) \/ CompareCurrent(b) \/ StoreSecret(b)
  \/ AuthenticateWeb(b) \/ AuthenticateURL(b) \/ Presign(b) \/ Reply(b)

(***************************************************************************)
(* Others: administrators and time.  A right that no running request asks  *)
(* for changes nothing before the next request, and is given or taken      *)
(* before it in the initial states only.                                   *)
(***************************************************************************)
ChangesWorld(accts, held, time) ==
  /\ webChanges < MaxWebChanges
  /\ accounts' = accts /\ rights' = held /\ clock' = time
  /\ web' = Watched(accts, held, time)
  /\ webChanges' = webChanges + 1
  /\ UNCHANGED <<tokens, webRequests>>

Grant(right) == right \notin rights /\ ChangesWorld(accounts, rights \cup {right}, clock)
Revoke(right) == right \in rights /\ ChangesWorld(accounts, rights \ {right}, clock)

\* SetUser and SetUserSecretKey, SetUserStatus, DeleteUser
ChangeUser(key, account) ==
  account # accounts[key] /\ ChangesWorld([accounts EXCEPT ![key] = account], rights, clock)

ClockTicks == clock < MaxClock /\ ChangesWorld(accounts, rights, clock + 1)

ClientStep(b) ==
  \/ \E op \in OpsOf[b] :
       \E names \in IF op \in Named THEN Selections ELSE {<<Bucket>>},
          token \in Credentials(op), args \in Parameters(op) :
         SendRequest(b, op, names, token, args)
  \/ HandlerStep(b)

OthersStep ==
  \/ \E b \in {x \in Browsers : Busy(x)} :
       \E right \in Questions(web[b]) \cap AllRights : Grant(right) \/ Revoke(right)
  \/ \E key \in AllHolders, account \in [secret : Secrets, status : {"on", "off", "gone"}] :
       ChangeUser(key, account)
  \/ ClockTicks

SessionsNext == (\E b \in Browsers : ClientStep(b)) \/ OthersStep

SessionsSpec == SessionsInit /\ [][SessionsNext]_webVars

(***************************************************************************)
(* Property.                                                               *)
(***************************************************************************)
\* What a request did, the account that it is decided for had the right to do at
\* some moment of its life, with a token or signature that was good at some moment of
\* its life: rights and users change while a handler asks for one name after the
\* other and acts on one after the other (RemoveObject, DownloadZip,
\* DeleteMultipleObjects, ListObjects).  The account is the one of the token or
\* signature, unless a signed request names another in its query (Speaker).
EffectsAllowed(r) ==
  /\ r.served # {} => r.vouched
  /\ \A e \in r.served :
       CASE e[2] = "ServerInfo" -> r.who # Anybody
         [] e[2] = "GenerateAuth" -> r.who = Owner
         [] OTHER -> r.who = Owner \/ e \notin r.unseen

\* A token is handed out under a secret the client has shown, by a token or in
\* the request, unless the user was changed since the request came:
\* CreateURLToken and PresignedGet sign with the secret they read after the
\* token was verified with an older one.
IssuesAllowed(r) ==
  \A t \in r.issued :
    /\ t.key = r.who
    /\ r.op # "Login" => r.vouched /\ r.token # NoToken
    /\ \/ r.changed \/ t.key \in TempHolders \/ t.secret = r.args.secret
       \/ t.secret = r.token.secret

\* Every handler does only what the account it decides for may (EffectsAllowed), which
\* need not be the signer's (getReqAccessKeyV4), and hands out
\* tokens only to whom they name (IssuesAllowed), whatever rights, secrets,
\* users and times change between its steps (web-handlers.go, jwt.go).
ServedAsAllowed == \A b \in Browsers : Busy(b) => EffectsAllowed(web[b]) /\ IssuesAllowed(web[b])
=============================================================================

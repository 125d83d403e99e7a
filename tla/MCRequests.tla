----------------------------- MODULE MCRequests -----------------------------
(***************************************************************************)
(* Instances of what a request meets before the object layer: signatures,  *)
(* chunked bodies, policies of users, encryption, object locks, the        *)
(* distributed lock and the handlers with their tokens.  They do not       *)
(* interact: "instance" chooses the one that moves, and the others stay in *)
(* one of their initial states.                                            *)
(***************************************************************************)
EXTENDS ChunkedUpload, Signatures, DARE, Encryption, IAMPolicy, Retention, DSync,
        WebSessions

VARIABLE instance

MCPayloads == {<< >>, <<1>>, <<1, 2>>, <<1, 1, 2>>}

\* Policies: one that depends on who asks, and two versions of another.
Rule(effect, action, resource) ==
  [effect |-> effect, actions |-> {<<"s3", action>>}, resources |-> {resource},
   conditions |-> {}]
PolicyDoc(statement) == [version |-> DefaultVersion, statements |-> <<statement>>]

MCPolicyDocs ==
  [n \in {"p", "q"} |->
     IF n = "p" THEN {PolicyDoc(Rule("Allow", "GetObject", <<"b", "/", "${username}">>))}
     ELSE {PolicyDoc(Rule("Deny", "*", <<"b", "/", "x">>)),
           PolicyDoc(Rule("Allow", "Get", <<"b">>))}]

MCAccounts == {"u", "v", "t", "s"}

Mapped(kind, policy, groups) ==
  [kind |-> kind, status |-> "enabled", policy |-> policy,
   groups |-> [i \in DOMAIN groups |-> [status |-> "enabled", policy |-> groups[i]]]]

\* "u" and "v" have the same first policy and other ones after it.
MCUsers ==
  [a \in MCAccounts |->
     CASE a = "u" -> Mapped("user", "p", <<"q", "readonly">>)
       [] a = "v" -> Mapped("user", "p", <<"readwrite">>)
       [] a = "t" -> Mapped("temp", "p", << >>)
       [] a = "s" -> Mapped("service", "", << >>)]
MCUserMaps ==
  {MCUsers, [MCUsers EXCEPT !["u"].kind = "none", !["v"].groups[1].status = "disabled"]}

Args(op, account, object) ==
  [op |-> op, account |-> account, action |-> <<"s3", "GetObject">>, bucket |-> "b",
   object |-> object, owner |-> FALSE, header |-> << >>,
   values |-> [username |-> <<account>>], claim |-> << >>, session |-> {}]
MCArguments ==
  {Args("IsAllowed", "u", <<"x">>), Args("IsAllowed", "v", <<"x">>),
   Args("GetAccountAccess", "v", << >>), Args("IsAllowed", "s", <<"x">>),
   [Args("IsAllowed", "t", <<"t">>) EXCEPT
      !.claim = <<"p">>, !.session = {PolicyDoc(Rule("Allow", "*", <<"*">>))}],
   [Args("IsAllowed", "u", <<"x">>) EXCEPT !.owner = TRUE]}

\* Locks: requests with and without lock headers, by a caller who is allowed
\* everything.
LockHeader(mode, until, hold, bypass) ==
  [mode |-> mode, until |-> until, hold |-> hold, bypass |-> bypass]
PlainHeader == LockHeader("", NoDate, "", FALSE)
LockRequest(op, header) ==
  [op |-> op, header |-> header, names |-> LockedNames,
   perms |-> {"PutObject", "DeleteObject", "PutObjectRetention",
              "BypassGovernanceRetention"}]
MCLockRequests ==
  {LockRequest("put", LockHeader("", NoDate, "ON", FALSE)),
   LockRequest("put", LockHeader("COMPLIANCE", 3, "", FALSE)),
   LockRequest("put", PlainHeader), LockRequest("upload", PlainHeader),
   LockRequest("delete", LockHeader("", NoDate, "", TRUE)),
   LockRequest("multi", PlainHeader), LockRequest("remove", PlainHeader),
   LockRequest("prefix", PlainHeader),
   LockRequest("retention", LockHeader("GOVERNANCE", 2, "", TRUE))}
MCLockConfigs ==
  {[worm |-> TRUE, mode |-> "", validity |-> 0],
   [worm |-> TRUE, mode |-> "GOVERNANCE", validity |-> 1]}
MCLifecycles ==
  {<<[status |-> "Enabled", names |-> LockedNames, days |-> 1, date |-> NoDate]>>}

\* Handlers: one client that calls every handler, once, while one thing
\* changes; sessions: one client asks for tokens while another changes the
\* secret and one more thing changes.
MCSelections == {<<"a">>, <<"a", "d">>, <<"a", "b">>}
MCOpsOf ==
  [b \in Browsers |->
     CASE b = 1 -> WebOps \cup S3Ops
       [] b = 2 -> {"SetAuth", "CreateURLToken", "PresignedGet"}
       [] b = 3 -> {"SetAuth"}]

\* The initial states of an instance that does not move.
AnyJob == CHOOSE j \in Jobs : ValidJob(j)

MCInit ==
  /\ instance \in {"chunks", "signatures", "streams", "encryption", "policies", "locks", "dsync",
                  "handlers", "sessions"}
  /\ IF instance = "chunks" THEN TRUE ELSE payload = << >> /\ intact = TRUE
  /\ IF instance = "streams" THEN TRUE ELSE job = AnyJob
  /\ IF instance = "encryption" THEN TRUE ELSE globalKMS = None /\ objects = << >>
  /\ IF instance = "policies" THEN TRUE ELSE userMap = MCUsers
  /\ ChunkInit /\ SignaturesInit /\ DAREInit /\ EncryptionInit /\ IAMPolicyInit
  /\ RetentionInit /\ DSyncInit /\ SessionsInit
  /\ instance # "handlers" => rights = {}
  /\ instance # "signatures" => \A k \in Keys : creds[k].token = ""

MCNext ==
  /\ UNCHANGED instance
  /\ \/ /\ instance = "chunks" /\ ChunkNext
        /\ UNCHANGED <<signatureVars, dareVars, encryptionVars, iamPolicyVars, retentionVars, dsyncVars, webVars>>
     \/ /\ instance = "signatures" /\ SignaturesNext
        /\ UNCHANGED <<chunkVars, dareVars, encryptionVars, iamPolicyVars, retentionVars, dsyncVars, webVars>>
     \/ /\ instance = "streams" /\ DARENext
        /\ UNCHANGED <<chunkVars, signatureVars, encryptionVars, iamPolicyVars, retentionVars, dsyncVars, webVars>>
     \/ /\ instance = "encryption" /\ EncryptionNext
        /\ UNCHANGED <<chunkVars, signatureVars, dareVars, iamPolicyVars, retentionVars, dsyncVars, webVars>>
     \/ /\ instance = "policies" /\ IAMPolicyNext
        /\ UNCHANGED <<chunkVars, signatureVars, dareVars, encryptionVars, retentionVars, dsyncVars, webVars>>
     \/ /\ instance = "locks" /\ RetentionNext
        /\ UNCHANGED <<chunkVars, signatureVars, dareVars, encryptionVars, iamPolicyVars, dsyncVars, webVars>>
     \/ /\ instance = "dsync" /\ DSyncNext
        /\ UNCHANGED <<chunkVars, signatureVars, dareVars, encryptionVars, iamPolicyVars, retentionVars, webVars>>
     \/ /\ instance = "handlers"
        /\ \/ (Busy(1) \/ webRequests = 0) /\ ClientStep(1)
           \/ OthersStep
        /\ UNCHANGED <<chunkVars, signatureVars, dareVars, encryptionVars, iamPolicyVars, retentionVars, dsyncVars>>
     \/ /\ instance = "sessions"
        /\ \/ \E b \in Browsers \ {1} : ClientStep(b)
           \/ OthersStep
        /\ UNCHANGED <<chunkVars, signatureVars, dareVars, encryptionVars, iamPolicyVars, retentionVars, dsyncVars>>

mcVars ==
  <<instance, chunkVars, signatureVars, dareVars, encryptionVars, iamPolicyVars, retentionVars,
    dsyncVars, webVars>>

MCSpec == MCInit /\ [][MCNext]_mcVars
=============================================================================

----------------------------- MODULE Signatures -----------------------------
(***************************************************************************)
(* Who a request comes from: the signatures of clients (pkg/signer), their *)
(* verification (signature-v4*.go, signature-v2.go, auth-handler.go) and   *)
(* web tokens (jwt.go, jwt/parser.go).                                     *)
(*                                                                         *)
(* A signature is a free term of the secret, the scope and the signed text *)
(* and a hash is what it was made of.  A message has one signature, which  *)
(* no key but the signer's can have made; it may be changed on its way.    *)
(***************************************************************************)
EXTENDS Integers, FiniteSets

CONSTANTS Users,          \* access keys of the IAM system, beside Root
          Root,           \* globalActiveCred
          Bodies,
          ServerRegion,
          Expiry,         \* how long presigned requests and tokens are for
          SkewTime,       \* globalMaxSkewTime
          DayLength, MaxTime

ASSUME SignaturesAssumption ==
  /\ Root \notin Users
  /\ Expiry \in Nat /\ SkewTime \in Nat /\ DayLength \in Nat \ {0} /\ MaxTime \in Nat

\* The value of a header, parameter, token or account that is not there.
Absent == ""

Keys == Users \cup {Root}

\* The seconds for which a presigned request may be valid.
Week == 604800

\* A body stands for its digest, so it is not what stands for the lack of one; the
\* clients' region is the server's when it has one; and no presigned request is for
\* longer than the week that parsePreSignV4 lets through.  A query that is an access
\* key is one with a valid X-Amz-Credential that names it.
ASSUME RequestsAssumption ==
  /\ Keys \cap {Absent, "v", "changed"} = {}
  /\ Bodies \cap {Absent, "UNSIGNED-PAYLOAD"} = {}
  /\ ServerRegion \in {Absent, "us"}
  /\ Expiry <= Week

VARIABLES creds,    \* per access key: its credentials; Gone when there is none
          now,
          message,  \* the request on its way
          original, \* history: the message that was signed, and its credentials
          verdict   \* of the server

signatureVars == <<creds, now, message, original, verdict>>

(***************************************************************************)
(* Messages.                                                               *)
(***************************************************************************)
HeaderNames == {"host", "content-type", "user-agent", "x-amz-content-sha256", "x-amz-security-token"}

V4Schemes == {"V4", "V4STS", "PresignV4", "PostPolicyV4"}
Schemes == V4Schemes \cup {"V2", "PresignV2", "JWT"}

NoSecret == <<Absent, 0>>

NoSignature == [secret |-> NoSecret, scope |-> <<-1, Absent, Absent>>, text |-> <<>>]

Request(method, body, value, query, hasSha, ctype) ==
  [scheme |-> "none", method |-> method, path |-> value, resource |-> value,
   query |-> query, body |-> body,
   header |-> [h \in HeaderNames |->
     CASE h = "host" -> "ipos"
       [] h = "user-agent" -> "any"
       [] h = "content-type" -> ctype
       [] h = "x-amz-content-sha256" -> IF hasSha THEN body ELSE Absent
       [] OTHER -> Absent],
   date |-> 0, expires |-> 0, key |-> Absent, day |-> 0, region |-> Absent, service |-> Absent,
   signedHeaders |-> {}, signature |-> NoSignature]

NoHash == {Absent, "UNSIGNED-PAYLOAD"}

Day(t) == t \div DayLength

Sum(secret, scope, text) == [secret |-> secret, scope |-> scope, text |-> text]

Present(m) == {h \in HeaderNames : m.header[h] # Absent}
Select(m, names) == [h \in names |-> m.header[h]]

\* getCanonicalRequest and getStringToSign, the same for client and server.
TextV4(m, names, payload) ==
  <<m.method, m.path, m.resource, m.query, Select(m, names), payload, m.date>>

\* The presigned request's query has its date, credential and expiry, and its
\* session token, which is no header here.
TextPresignV4(m, names, payload) ==
  <<TextV4(m, names, payload), m.expires, m.key, m.header["x-amz-security-token"]>>

\* Only the parameters of resourceList are signed, and x-amz headers.
TextV2(m, date) ==
  <<m.method, m.header["content-type"], date,
    Select(m, {h \in Present(m) : h \in {"x-amz-content-sha256", "x-amz-security-token"}}),
    m.path, m.resource>>

Scope(m) == <<m.day, m.region, m.service>>
NoScope == <<-1, Absent, Absent>>

(***************************************************************************)
(* The client.                                                             *)
(***************************************************************************)
GetHashedPayload(m) ==
  IF m.header["x-amz-content-sha256"] = Absent THEN "UNSIGNED-PAYLOAD"
  ELSE m.header["x-amz-content-sha256"]

V4IgnoredHeaders == {"user-agent"}

\* The fields a client sets before it signs.
Prepared(m, scheme, key, cred, t) ==
  [m EXCEPT !.scheme = scheme, !.key = key, !.date = t, !.day = Day(t),
     !.region = IF scheme \in V4Schemes THEN "us" ELSE Absent,
     !.service = IF scheme = "V4STS" THEN "sts" ELSE IF scheme \in V4Schemes THEN "s3" ELSE Absent,
     !.expires = IF scheme \in {"PresignV2", "JWT"} THEN t + Expiry
                 ELSE IF scheme = "PresignV4" THEN Expiry ELSE 0,
     !.header["x-amz-security-token"] =
       IF scheme \in {"V4", "PresignV4"} THEN cred.token ELSE Absent]

SignV4(m, secret) ==
  LET payload == GetHashedPayload(m)
      sent    == [m EXCEPT !.header["x-amz-content-sha256"] =
                    IF m.scheme = "V4STS" THEN Absent ELSE @]
      names   == Present(sent) \ V4IgnoredHeaders
  IN  [sent EXCEPT !.signedHeaders = names,
                   !.signature = Sum(secret, Scope(m), TextV4(sent, names, payload))]

PreSignV4(m, secret) ==
  LET names == Present(m) \ (V4IgnoredHeaders \cup {"x-amz-security-token"})
  IN  [m EXCEPT !.signedHeaders = names,
                !.signature = Sum(secret, Scope(m), TextPresignV4(m, names, GetHashedPayload(m)))]

PostPresignSignatureV4(m, secret) ==
  [m EXCEPT !.signature = Sum(secret, Scope(m), <<m.body>>)]

SignV2(m, secret) == [m EXCEPT !.signature = Sum(secret, NoScope, TextV2(m, m.date))]

PreSignV2(m, secret) == [m EXCEPT !.signature = Sum(secret, NoScope, TextV2(m, m.expires))]

\* authenticateJWTUsersWithCredentials; the server makes the token.
SignJWT(m, secret) == [m EXCEPT !.signature = Sum(secret, NoScope, <<m.key, m.expires>>)]

Signed(m, secret) ==
  CASE m.scheme \in {"V4", "V4STS"} -> SignV4(m, secret)
    [] m.scheme = "PresignV4"       -> PreSignV4(m, secret)
    [] m.scheme = "PostPolicyV4"    -> PostPresignSignatureV4(m, secret)
    [] m.scheme = "V2"              -> SignV2(m, secret)
    [] m.scheme = "PresignV2"       -> PreSignV2(m, secret)
    [] m.scheme = "JWT"             -> SignJWT(m, secret)

(***************************************************************************)
(* The server: credentials.                                                *)
(***************************************************************************)
Gone == [secret |-> NoSecret, token |-> Absent, off |-> TRUE, expiration |-> 0]

IsTemp(cred) == cred.token # Absent
IsExpired(cred) == cred.expiration # 0 /\ cred.expiration < now

\* GetUser, for checkKeyValid: root is always there.
CheckKeyValid(key) == key = Root \/ (key \in Users /\ ~creds[key].off /\ ~IsExpired(creds[key]))

\* webTokenCallback: tokens of temporary users are signed with root's secret.
WebTokenKey(key) == IF IsTemp(creds[key]) THEN creds[Root].secret ELSE creds[key].secret

(***************************************************************************)
(* The server: signatures.                                                 *)
(***************************************************************************)
IsValidRegion(region) == ServerRegion = Absent \/ region = ServerRegion

\* parseCredentialHeader
ValidCredential(m, service) ==
  IsValidRegion(m.region) /\ m.service = service /\ CheckKeyValid(m.key)

ExtractSignedHeaders(m) == "host" \in m.signedHeaders /\ m.signedHeaders \subseteq Present(m)

\* The query of such a request has X-Amz-Credential, also when its header is signed.
IsRequestPresignedSignatureV4(m) == m.scheme = "PresignV4" \/ m.query \in Keys

\* Without the header a presigned request is unsigned and another is empty.
GetContentSha256Cksum(m) ==
  IF m.service = "sts" THEN m.body
  ELSE IF m.header["x-amz-content-sha256"] # Absent THEN m.header["x-amz-content-sha256"]
  ELSE IF IsRequestPresignedSignatureV4(m) THEN "UNSIGNED-PAYLOAD"
  ELSE "emptySHA256"

\* The date is signed and not compared with the clock.
DoesSignatureMatch(m, service) ==
  /\ ValidCredential(m, service)
  /\ ExtractSignedHeaders(m)
  /\ m.signature = Sum(creds[m.key].secret, Scope(m),
                       TextV4(m, m.signedHeaders, GetContentSha256Cksum(m)))

\* Mutant of DoesPresignedSignatureMatch: its age is not looked at.
DoesPresignedSignatureMatchMutant(m) ==
  /\ m.expires \in 0..Week
  /\ ValidCredential(m, "s3")
  /\ ExtractSignedHeaders(m)
  /\ m.header["x-amz-security-token"] \in {Absent, creds[m.key].token}
  /\ m.date <= now + SkewTime
  /\ m.signature = Sum(creds[m.key].secret, Scope(m),
                       TextPresignV4(m, m.signedHeaders, GetContentSha256Cksum(m)))

DoesPresignedSignatureMatch(m) ==
  /\ m.expires \in 0..Week
  /\ ValidCredential(m, "s3")
  /\ ExtractSignedHeaders(m)
  /\ m.header["x-amz-security-token"] \in {Absent, creds[m.key].token}
  /\ m.date <= now + SkewTime
  /\ now - m.date <= m.expires
  /\ m.signature = Sum(creds[m.key].secret, Scope(m),
                       TextPresignV4(m, m.signedHeaders, GetContentSha256Cksum(m)))

DoesPolicySignatureV4Match(m) ==
  ValidCredential(m, "s3") /\ m.signature = Sum(creds[m.key].secret, Scope(m), <<m.body>>)

DoesSignV2Match(m) ==
  CheckKeyValid(m.key) /\ m.signature = Sum(creds[m.key].secret, NoScope, TextV2(m, m.date))

\* Mutant of DoesPresignV2SignatureMatch: what expires now has expired.
DoesPresignV2SignatureMatchMutant(m) ==
  /\ CheckKeyValid(m.key)
  /\ m.expires > now
  /\ m.signature = Sum(creds[m.key].secret, NoScope, TextV2(m, m.expires))

DoesPresignV2SignatureMatch(m) ==
  /\ CheckKeyValid(m.key)
  /\ m.expires >= now
  /\ m.signature = Sum(creds[m.key].secret, NoScope, TextV2(m, m.expires))

\* ParseWithClaims and MapClaims.Valid; of a temporary user the status is not asked.
WebTokenAuthenticate(m) ==
  /\ CheckKeyValid(m.key) \/ (m.key \in Users /\ IsTemp(creds[m.key]))
  /\ m.signature = Sum(WebTokenKey(m.key), NoScope, <<m.key, m.expires>>)
  /\ now <= m.expires

Matches(m) ==
  CASE m.scheme = "V4"           -> DoesSignatureMatch(m, "s3")
    [] m.scheme = "V4STS"        -> DoesSignatureMatch(m, "sts")
    [] m.scheme = "PresignV4"    -> DoesPresignedSignatureMatch(m)
    [] m.scheme = "PostPolicyV4" -> DoesPolicySignatureV4Match(m)
    [] m.scheme = "V2"           -> DoesSignV2Match(m)
    [] m.scheme = "PresignV2"    -> DoesPresignV2SignatureMatch(m)
    [] m.scheme = "JWT"          -> WebTokenAuthenticate(m)

\* checkClaimsFromToken: the session token is the account's; an account that
\* has none must not send one.
CheckClaims(m, key) ==
  m.header["x-amz-security-token"] = IF key = Absent THEN Absent ELSE creds[key].token

\* hash.Reader compares the body with the signed hash when it is read; for what
\* counts as presigned the hash would have to be in the query.
BodyVerified(m) ==
  \/ IsRequestPresignedSignatureV4(m)
  \/ m.header["x-amz-content-sha256"] \in NoHash \cup {m.body}

\* getReqAccessKeyV4: the account that the query names, before the one whose
\* signature the header has.
ReqAccessKey(m) == IF m.query \in Keys THEN m.query ELSE m.key

\* checkRequestAuthTypeToAccessKey and webRequestAuthenticate: only header
\* signatures and web tokens tell who it is, the others count as anonymous.
Account(m) ==
  IF m.scheme = "V4"
  THEN IF /\ DoesSignatureMatch(m, "s3")
          /\ CheckKeyValid(ReqAccessKey(m)) /\ CheckClaims(m, ReqAccessKey(m))
       THEN ReqAccessKey(m) ELSE "refused"
  ELSE IF m.scheme = "JWT"
  THEN IF WebTokenAuthenticate(m) THEN m.key ELSE "refused"
  ELSE IF CheckClaims(m, Absent) THEN Absent ELSE "refused"

(***************************************************************************)
(* The system.                                                             *)
(***************************************************************************)
NotYet == [done |-> FALSE, matches |-> FALSE, account |-> Absent, bodyVerified |-> FALSE]

\* Users have a session token or not.
SignaturesInit ==
  /\ \E temps \in SUBSET Users :
       creds = [k \in Keys |-> [secret |-> <<k, 1>>, token |-> IF k \in temps THEN k ELSE Absent,
                                off |-> FALSE, expiration |-> 0]]
  /\ now = 0
  /\ message = Request("GET", Absent, Absent, Absent, FALSE, Absent)
  /\ original = [message |-> message, cred |-> Gone, hasSha |-> FALSE]
  /\ verdict = NotYet

OnItsWay == message.scheme # "none" /\ ~verdict.done

\* A client signs a request with the credentials it has, and may name an account in
\* the query of one that it signs in its header; tokens are made by the server after
\* a login, which has no session token.
Sign(key, scheme, body, query, hasSha, ctype) ==
  /\ message.scheme = "none"
  /\ scheme = "JWT" => ~IsTemp(creds[key])
  /\ query \in Keys => scheme = "V4"
  /\ LET m == Prepared(Request("PUT", body, "v", query, hasSha, ctype),
                       scheme, key, creds[key], now)
     IN /\ message' = Signed(m, creds[key].secret)
        /\ original' = [message |-> Signed(m, creds[key].secret), cred |-> creds[key],
                        hasSha |-> hasSha]
  /\ UNCHANGED <<creds, now, verdict>>

\* One part of the message changes on its way.
ChangeText(field) ==
  /\ OnItsWay /\ message = original.message
  /\ message' = [message EXCEPT ![field] = "changed"]
  /\ UNCHANGED <<creds, now, original, verdict>>

ChangeNumber(field) ==
  /\ OnItsWay /\ message = original.message
  /\ message' = [message EXCEPT ![field] = @ + 1]
  /\ UNCHANGED <<creds, now, original, verdict>>

ChangeHeader(h) ==
  /\ OnItsWay /\ message = original.message
  /\ message' \in {[message EXCEPT !.header[h] = "changed"], [message EXCEPT !.header[h] = Absent],
                   [message EXCEPT !.signedHeaders = @ \ {h}]}
  /\ UNCHANGED <<creds, now, original, verdict>>

\* The account that it says it is from, in the signature or in the query.
ChangeKey(key) ==
  /\ OnItsWay /\ message = original.message
  /\ \/ message' = [message EXCEPT !.key = key]
     \/ message.scheme = "V4" /\ message' = [message EXCEPT !.query = key]
  /\ UNCHANGED <<creds, now, original, verdict>>

Tick ==
  /\ now < MaxTime /\ ~verdict.done
  /\ now' = now + 1
  /\ UNCHANGED <<creds, message, original, verdict>>

\* SetUserSecretKey, SetUserStatus, DeleteUser, the end of a session.
ChangeCreds(key) ==
  /\ OnItsWay /\ key \in Users /\ creds[key].secret = <<key, 1>> /\ ~creds[key].off
  /\ \E cred \in {[creds[key] EXCEPT !.secret = <<key, 2>>], [creds[key] EXCEPT !.off = TRUE],
                  [creds[key] EXCEPT !.expiration = 1], Gone} :
       creds' = [creds EXCEPT ![key] = cred]
  /\ UNCHANGED <<now, message, original, verdict>>

Verify ==
  /\ OnItsWay
  /\ verdict' = [done |-> TRUE, matches |-> Matches(message), account |-> Account(message),
                 bodyVerified |-> BodyVerified(message)]
  /\ UNCHANGED <<creds, now, message, original>>

SignaturesNext ==
  \/ \E key \in Keys, scheme \in Schemes, body \in Bodies, hasSha \in BOOLEAN,
        query \in {"v"} \cup Keys, ctype \in {Absent, "v"} :
       Sign(key, scheme, body, query, hasSha, ctype)
  \/ \E field \in {"method", "path", "resource", "query", "body", "region"} : ChangeText(field)
  \/ \E field \in {"date", "expires", "day"} : ChangeNumber(field)
  \/ \E h \in HeaderNames : ChangeHeader(h)
  \/ \E key \in Keys : ChangeKey(key) \/ ChangeCreds(key)
  \/ Tick \/ Verify

SignaturesSpec == SignaturesInit /\ [][SignaturesNext]_signatureVars
-----------------------------------------------------------------------------
\* What each scheme vouches for: headers may be added, not changed.
Covered(m) ==
  CASE m.scheme \in {"V4", "V4STS", "PresignV4"} ->
         <<m.method, m.path, m.resource, m.query, m.date,
           IF m.scheme = "PresignV4" THEN m.expires ELSE 0,
           Select(m, original.message.signedHeaders)>>
    [] m.scheme = "PostPolicyV4" -> <<m.body>>
    [] m.scheme = "V2"           -> TextV2(m, m.date)
    [] m.scheme = "PresignV2"    -> TextV2(m, m.expires)
    [] m.scheme = "JWT"          -> <<m.expires>>

InTime(m) ==
  /\ m.scheme \in {"PresignV2", "JWT"} => now <= m.expires
  /\ m.scheme = "PresignV4" => now <= m.date + m.expires

\* A message that is accepted is the one its account signed, with the secret
\* that the account has now, in all that the scheme covers, and has not expired
\* (doesSignatureMatch, doesPresignedSignatureMatch, doesSignV2Match, ...); its
\* body too once it is read, when the hash was signed (isReqAuthenticated) and the
\* query names no account.  The account that is decided upon is the one that the
\* signed query names, and the signer when it names none (getReqAccessKeyV4).
AcceptedAsSigned ==
  (verdict.done /\ verdict.matches) =>
    /\ message.key = original.message.key
    /\ creds[message.key].secret = original.cred.secret
    /\ InTime(original.message)
    /\ Covered(message) = Covered(original.message)
    /\ message.scheme = "V4" =>
         verdict.account \in {ReqAccessKey(original.message), "refused"}
    /\ ( /\ \/ message.scheme = "V4STS"
            \/ message.scheme = "V4" /\ original.hasSha /\ message.query \notin Keys
         /\ verdict.bodyVerified ) => message.body = original.message.body

\* What pkg/signer signs is accepted when nothing happened to it, the account is
\* what it was and the time has not run out, up to the last moment; a request
\* signed in its header needs the hash of its body, for which the two sides have
\* different defaults (getHashedPayload, getContentSha256Cksum).  The account is the
\* signer, unless the query names one.
SignedIsAccepted ==
  ( /\ verdict.done
    /\ message = original.message
    /\ creds[message.key] = original.cred
    /\ InTime(message)
    /\ message.scheme \in {"V4", "V4STS"} => original.hasSha )
  => /\ verdict.matches
     /\ message.scheme \in {"V4", "JWT"} /\ message.query \notin Keys =>
          verdict.account = message.key

\* Verification decides as signing does, in both directions: what is accepted was
\* signed (AcceptedAsSigned), and what was signed is accepted (SignedIsAccepted).
SignaturesDecide == AcceptedAsSigned /\ SignedIsAccepted
=============================================================================

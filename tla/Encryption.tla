----------------------------- MODULE Encryption -----------------------------
(***************************************************************************)
(* Server-side encryption (cmd/ipos/crypto, encryption-v1.go): every       *)
(* object has a key of its own, sealed under the customer's key (SSE-C) or *)
(* under a data key of the key management service (SSE-S3) and kept in the *)
(* object's metadata; keys are rotated, and the service may be configured  *)
(* anew or be out of reach.                                                *)
(*                                                                         *)
(* The handlers reach this code only for an object layer that supports     *)
(* encryption: this is how it serves one.  A sealed value is a free term   *)
(* of what it was sealed under; DARE says that the streams behave so.      *)
(***************************************************************************)
EXTENDS Integers

CONSTANTS ObjectNames, CustomerKeys,
          MasterKeys,  \* with which the service may be configured
          MaxRandom    \* bound: random values drawn

ASSUME EncryptionAssumption == MaxRandom \in Nat

VARIABLES objects,    \* stored, with their metadata
          globalKMS,  \* the key management service
          random,     \* random values drawn so far
          promise,    \* what a client may expect of an object
          answer      \* to the last request for an object

encryptionVars == <<objects, globalKMS, random, promise, answer>>

None == "none"
NoKey == 0
ZeroKey == "zero"
KeyID == "kms key"
Down == "unreachable"

SealAlgorithm == "DAREv2-HMAC-SHA256"
InsecureSealAlgorithm == "DARE-SHA256"

NoAnswer == [name |-> None]

With(f, x, v) == [y \in DOMAIN f \cup {x} |-> IF y = x THEN v ELSE f[y]]

(***************************************************************************)
(* What a request asks for.  A customer's headers are sound when the       *)
(* algorithm is known and the key is complete and has the given MD5.       *)
(***************************************************************************)
NoCustomer == [key |-> None, sound |-> FALSE]
Customer == [key : CustomerKeys, sound : {TRUE}] \cup [key : {ZeroKey, None}, sound : {FALSE}]
NoAlgorithm == [key |-> "bare", sound |-> FALSE]  \* the header with the algorithm is left out
Headers ==
  [sse : {None, "AES256", "aws:kms", "other"}, ssec : Customer, copy : Customer \cup {NoAlgorithm}]

S3IsRequested(h) == h.sse \notin {None, "aws:kms"}
S3KMSIsRequested(h) == h.sse \notin {None, "AES256"}
SSECIsRequested(h) == h.ssec # NoCustomer
SSECopyIsRequested(h) == h.copy # NoCustomer
CopySource(h) == h.copy \notin {NoCustomer, NoAlgorithm}
IsRequested(h) == S3IsRequested(h) \/ SSECIsRequested(h) \/ SSECopyIsRequested(h) \/ S3KMSIsRequested(h)

ParseHTTP(customer) == customer.sound

(***************************************************************************)
(* Keys.                                                                   *)
(***************************************************************************)
SealingKey(algorithm, extKey, iv, domain, name) ==
  IF algorithm = SealAlgorithm THEN <<algorithm, extKey, iv, domain, name>>
  ELSE <<algorithm, extKey, iv>>

Seal(key, extKey, iv, domain, name) ==
  [key |-> key, iv |-> iv, algorithm |-> SealAlgorithm,
   under |-> SealingKey(SealAlgorithm, extKey, iv, domain, name)]

\* The object's key, or no key.
Unseal(sealed, extKey, domain, name) ==
  IF sealed.under = SealingKey(sealed.algorithm, extKey, sealed.iv, domain, name)
  THEN sealed.key ELSE NoKey

KMSAnswers == globalKMS \notin {None, Down}

\* A data key of the service, sealed for this object.
GenerateKey(key, name) == [key |-> key, under |-> <<globalKMS, KeyID, name>>]
UnsealKey(kmsKey, name) ==
  IF KMSAnswers /\ kmsKey.under = <<globalKMS, KeyID, name>> THEN kmsKey.key ELSE NoKey

(***************************************************************************)
(* Metadata.                                                               *)
(***************************************************************************)
NoMetadata == <<>>

S3IsEncrypted(metadata) == DOMAIN metadata \cap {"s3", "kms"} # {}
SSECIsEncrypted(metadata) == "ssec" \in DOMAIN metadata
IsEncrypted(metadata) == S3IsEncrypted(metadata) \/ SSECIsEncrypted(metadata)

SSECMetadata(sealed) == [ssec |-> sealed]
S3Metadata(sealed, kmsKey) == [s3 |-> sealed, kms |-> kmsKey]

\* The key of an object: S3 first.
DecryptObjectKey(extKey, name, metadata) ==
  IF S3IsEncrypted(metadata) THEN
    LET dataKey == UnsealKey(metadata.kms, name)
    IN  IF dataKey = NoKey THEN NoKey ELSE Unseal(metadata.s3, dataKey, "SSE-S3", name)
  ELSE IF SSECIsEncrypted(metadata) THEN Unseal(metadata.ssec, extKey, "SSE-C", name)
  ELSE NoKey

(***************************************************************************)
(* ETags: of 32 digits; sealed under the object's key; without an MD5      *)
(* random, cut to 32 digits and "-1"; and the last 32 digits of one.       *)
(***************************************************************************)
MD5Of(data) == [form |-> "md5", of |-> data, key |-> NoKey]
SealedMD5(data, key) == [form |-> "sealed", of |-> data, key |-> key]
CutETag(n) == [form |-> "cut", of |-> n, key |-> NoKey]
LastDigits(etag) == [etag EXCEPT !.form = IF @ = "sealed" THEN "end of sealed" ELSE "end of cut"]

Short(etag) == etag.form \notin {"sealed", "cut"}

MD5CurrentHexString(data, hasMD5, key) ==
  IF ~hasMD5 THEN CutETag(data)
  ELSE IF key = NoKey THEN MD5Of(data) ELSE SealedMD5(data, key)

TryDecryptETag(key, etag) ==
  IF etag.form = "sealed" /\ etag.key = key THEN MD5Of(etag.of) ELSE etag

GetDecryptedETag(h, o, name, copySource) ==
  IF Short(o.etag) \/ (SSECopyIsRequested(h) /\ ~ParseHTTP(h.copy)) THEN o.etag
  ELSE IF SSECIsEncrypted(o.metadata) /\ ~copySource THEN LastDigits(o.etag)
  ELSE LET extKey == IF SSECopyIsRequested(h) THEN h.copy.key ELSE ZeroKey
           key    == DecryptObjectKey(extKey, name, o.metadata)
       IN  IF key = NoKey THEN o.etag ELSE TryDecryptETag(key, o.etag)

\* What PutObjectHandler answers.
PutETag(o, key) ==
  IF S3IsEncrypted(o.metadata) THEN TryDecryptETag(key, o.etag)
  ELSE IF SSECIsEncrypted(o.metadata) /\ o.etag.form # "cut" THEN LastDigits(o.etag)
  ELSE o.etag

(***************************************************************************)
(* Put, by the S3 API or the browser.  Only the API refuses to encrypt     *)
(* with a key of the service's, and the headers of a copy: what else asks  *)
(* for encryption and is neither SSE-S3 nor SSE-C gets the key of zeros.   *)
(***************************************************************************)
PutRefused(via, h) ==
  \/ via = "api" /\ (S3KMSIsRequested(h) \/ SSECopyIsRequested(h))
  \/ SSECIsRequested(h) /\ (S3IsRequested(h) \/ ~ParseHTTP(h.ssec))
  \/ S3IsRequested(h) /\ ~KMSAnswers

\* A data key, the object's key and the IV are random.
NewEncryptMetadata(h, name) ==
  IF S3IsRequested(h)
  THEN S3Metadata(Seal(random + 2, random + 1, random + 3, "SSE-S3", name), GenerateKey(random + 1, name))
  ELSE SSECMetadata(Seal(random + 2, IF SSECIsRequested(h) THEN h.ssec.key ELSE ZeroKey,
                         random + 3, "SSE-C", name))

PutObject(via, name, h, hasMD5) ==
  LET key == IF IsRequested(h) THEN random + 2 ELSE NoKey
      o   == [metadata |-> IF IsRequested(h) THEN NewEncryptMetadata(h, name) ELSE NoMetadata,
              data |-> random, key |-> key, etag |-> MD5CurrentHexString(random, hasMD5, key)]
  IN /\ random + 4 <= MaxRandom /\ ~PutRefused(via, h)
     /\ objects' = With(objects, name, o)
     /\ random' = random + 4
     /\ promise' = With(promise, name,
          [data |-> random, etag |-> PutETag(o, key), hasMD5 |-> hasMD5,
           mode |-> IF ~IsRequested(h) THEN "plain" ELSE IF S3IsRequested(h) THEN "SSE-S3"
                    ELSE IF SSECIsRequested(h) THEN "SSE-C" ELSE "neither",
           key |-> IF S3IsRequested(h) THEN globalKMS
                   ELSE IF SSECIsRequested(h) THEN h.ssec.key ELSE ZeroKey])
     /\ answer' = NoAnswer
     /\ UNCHANGED globalKMS

(***************************************************************************)
(* Get: the reader first (NewGetObjectReader), then DecryptObjectInfo.     *)
(***************************************************************************)
GetRefused(via, h) ==
  via = "api" /\ (S3IsRequested(h) \/ S3KMSIsRequested(h)
                  \/ (SSECIsRequested(h) /\ ~ParseHTTP(h.ssec)))

DecryptBlocksKey(h, name, metadata) ==
  IF CopySource(h)
  THEN IF S3IsEncrypted(metadata) \/ ~ParseHTTP(h.copy) THEN NoKey
       ELSE DecryptObjectKey(h.copy.key, name, metadata)
  ELSE IF S3IsEncrypted(metadata) THEN DecryptObjectKey(ZeroKey, name, metadata)
  ELSE IF (S3IsRequested(h) /\ SSECIsRequested(h)) \/ ~ParseHTTP(h.ssec) THEN NoKey
  ELSE DecryptObjectKey(h.ssec.key, name, metadata)

DecryptObjectInfoFails(h, metadata) ==
  \/ S3IsRequested(h)
  \/ ~IsEncrypted(metadata) /\ SSECIsRequested(h)
  \/ SSECIsEncrypted(metadata) /\ ~SSECIsRequested(h)
  \/ S3IsEncrypted(metadata) /\ SSECIsRequested(h)

GetObject(via, name, h) ==
  LET o     == objects[name]
      read  == [o EXCEPT !.etag = GetDecryptedETag(h, o, name, CopySource(h))]
      found == IF IsEncrypted(o.metadata) THEN DecryptBlocksKey(h, name, o.metadata) ELSE NoKey
      ok    == /\ ~GetRefused(via, h) /\ ~DecryptObjectInfoFails(h, o.metadata)
               /\ found = o.key
  IN /\ answer' = [name |-> name, headers |-> h, ok |-> ok, data |-> o.data,
                   etag |-> IF IsEncrypted(o.metadata) THEN GetDecryptedETag(h, read, name, FALSE)
                            ELSE o.etag]
     /\ UNCHANGED <<objects, globalKMS, random, promise>>

(***************************************************************************)
(* Rotation of keys, and of the service's configuration.                   *)
(***************************************************************************)
\* Mutant of RotatedSSEC: the object's key is sealed again under the old key.
RotatedSSECMutant(sealed, key, oldKey, newKey, name) ==
  Seal(key, oldKey, sealed.iv, "SSE-C", name)

\* The IV stays.  Nothing is done for the same key, unless the algorithm is old.
RotatedSSEC(sealed, key, oldKey, newKey, name) ==
  IF oldKey = newKey /\ sealed.algorithm = SealAlgorithm THEN sealed
  ELSE Seal(key, newKey, sealed.iv, "SSE-C", name)

RotateKey(name, oldKey, newKey) ==
  LET o   == objects[name]
      key == DecryptObjectKey(oldKey, name, o.metadata)
  IN /\ key # NoKey
     /\ answer' = NoAnswer
     /\ \/ /\ SSECIsEncrypted(o.metadata)
           /\ objects' = [objects EXCEPT ![name].metadata =
                SSECMetadata(RotatedSSEC(o.metadata.ssec, key, oldKey, newKey, name))]
           /\ promise' = [promise EXCEPT ![name].key = newKey]
           /\ UNCHANGED random
        \/ /\ S3IsEncrypted(o.metadata) /\ random + 2 <= MaxRandom
           /\ objects' = [objects EXCEPT ![name].metadata =
                S3Metadata(Seal(key, random + 1, random + 2, "SSE-S3", name), GenerateKey(random + 1, name))]
           /\ random' = random + 2
           /\ UNCHANGED promise
     /\ UNCHANGED globalKMS

Configure ==
  /\ globalKMS' \in (MasterKeys \cup {None, Down}) \ {globalKMS}
  /\ answer' = NoAnswer
  /\ UNCHANGED <<objects, random, promise>>

(***************************************************************************)
(* The system.  An object may be there from before the sealing of keys     *)
(* took the object's name into account.                                    *)
(***************************************************************************)
OldObject(key) ==
  [metadata |-> SSECMetadata([key |-> -2, iv |-> -3, algorithm |-> InsecureSealAlgorithm,
                              under |-> SealingKey(InsecureSealAlgorithm, key, -3, "SSE-C", None)]),
   data |-> -1, key |-> -2, etag |-> SealedMD5(-1, -2)]

OldPromise(key) ==
  [data |-> -1, etag |-> LastDigits(SealedMD5(-1, -2)), hasMD5 |-> TRUE, mode |-> "SSE-C", key |-> key]

EncryptionInit ==
  /\ globalKMS \in MasterKeys \cup {None}
  /\ random = 0
  /\ answer = NoAnswer
  /\ \E name \in ObjectNames, key \in CustomerKeys, old \in BOOLEAN :
       /\ objects = [n \in IF old THEN {name} ELSE {} |-> OldObject(key)]
       /\ promise = [n \in IF old THEN {name} ELSE {} |-> OldPromise(key)]

\* A read changes nothing, so nothing needs to follow one.
EncryptionNext ==
  /\ answer = NoAnswer
  /\ \/ \E via \in {"api", "web"}, h \in Headers :
          \/ \E name \in ObjectNames, hasMD5 \in BOOLEAN : PutObject(via, name, h, hasMD5)
          \/ \E name \in DOMAIN objects : GetObject(via, name, h)
     \/ \E name \in DOMAIN objects, oldKey, newKey \in CustomerKeys : RotateKey(name, oldKey, newKey)
     \/ Configure

EncryptionSpec == EncryptionInit /\ [][EncryptionNext]_encryptionVars
-----------------------------------------------------------------------------
\* The request of a client who knows how the object was put.
FitsPromise(h, p) ==
  /\ h.sse = None /\ ~SSECopyIsRequested(h)
  /\ CASE p.mode = "plain"   -> h.ssec = NoCustomer
       [] p.mode = "SSE-C"   -> h.ssec = [key |-> p.key, sound |-> TRUE]
       [] p.mode = "SSE-S3"  -> h.ssec = NoCustomer /\ globalKMS = p.key
       [] p.mode = "neither" -> FALSE

\* An object is read back as the last put left it, with the ETag the put was
\* answered, by whoever has the customer's key it was last sealed under, or while
\* the service has the same master key, through rotations, and by nobody else
\* (newEncryptMetadata, rotateKey, decryptObjectInfo, getDecryptedETag).  The
\* ETag of an SSE-C object that was put without an MD5 is read back cut.
ReadBackAsPut ==
  answer # NoAnswer =>
    LET p == promise[answer.name]
        h == answer.headers
    IN  /\ answer.ok =>
             /\ answer.data = p.data
             /\ p.mode = "SSE-C" =>
                  \/ SSECIsRequested(h) /\ h.ssec.key = p.key
                  \/ SSECopyIsRequested(h) /\ h.copy.key = p.key
             /\ p.mode = "SSE-S3" => globalKMS = p.key
        /\ FitsPromise(h, p) =>
             /\ answer.ok
             /\ (p.mode = "SSE-C" => p.hasMD5) => answer.etag = p.etag
=============================================================================

---------------------------- MODULE IPFSObjects ----------------------------
(***************************************************************************)
(* The object layer: IPFSObjects (cmd/ipos/cmd/ipfs.go) under the S3 and   *)
(* web handlers that call it, over the mutable file system (MFS) of an     *)
(* IPFS daemon.                                                            *)
(*                                                                         *)
(* IPFSObjects.NewNSLock returns nil and nothing else serialises requests, *)
(* so a request is a sequence of MFS calls that interleaves with those of  *)
(* every other request.  One MFS call is one action, together with what    *)
(* the handler does up to its next call.                                   *)
(*                                                                         *)
(* Every request comes from an authorised client, has passed the checks of *)
(* its headers and names valid buckets and objects; no bucket is in        *)
(* globalBucketObjectLockConfig.  A byte of an object stands for a chunk   *)
(* of a stream.  ETags are IPFS hashes: the hash of an object is modelled  *)
(* by the object itself.                                                   *)
(***************************************************************************)
EXTENDS Integers, Sequences, FiniteSets

CONSTANTS
    Procs,      \* request goroutines
    Buckets,
    Objects,    \* object names: paths inside a bucket
    Ancestors,  \* Ancestors[o]: the objects that are directories above o
    Payloads,   \* what clients upload
    Ranges,     \* what clients ask for: NoRange, <<start, length>> or, for the
                \* last n bytes, <<-n, n>>
    NoRange,
    ObjectLists,\* what clients ask to delete in one request
    NoNode,     \* nothing is there
    DirNode     \* a directory is there

ASSUME AncestorsAssumption ==
    /\ Ancestors \in [Objects -> SUBSET Objects]
    /\ \A o \in Objects : o \notin Ancestors[o]
    /\ \A o \in Objects : \A a \in Ancestors[o] : Ancestors[a] \subseteq Ancestors[o]
ASSUME PayloadsAssumption == Payloads \subseteq Seq(Nat)
ASSUME RangesAssumption ==
    /\ Ranges \subseteq {NoRange} \cup (Int \X Nat)
    /\ \A r \in Ranges \ {NoRange} : r[1] < 0 => r[2] = -r[1]
ASSUME ObjectListsAssumption ==
    \A l \in ObjectLists : l \in Seq(Objects) /\ l # << >>

\* What may be at a path: nothing, a directory, or a file with its bytes.
Nodes == {NoNode, DirNode} \cup Seq(Nat)

ASSUME NodesAssumption ==
    /\ NoNode # DirNode /\ NoNode \notin Seq(Nat) /\ DirNode \notin Seq(Nat)
    /\ NoNode \notin [Objects -> Nodes]

VARIABLES
    tree,       \* the MFS: bucket -> NoNode, or object -> NoNode, DirNode, bytes
    pc,         \* the MFS call a request makes next
    req,        \* the request of a goroutine
    info,       \* GetObjectNInfo: what the first FilesStat found
    errs,       \* DeleteObjects: the errors of the objects dealt with
    reply,      \* the response
    before,     \* history: the tree when the request began
    touched     \* history: another request changed the tree since then

vars == <<tree, pc, req, info, errs, reply, before, touched>>

-----------------------------------------------------------------------------
(* The MFS (external): what the calls of the IPFS shell do to a tree t *)

IsFile(n) == n \notin {NoNode, DirNode}

Lookup(t, b, o) == IF t[b] = NoNode THEN NoNode ELSE t[b][o]

\* A component of the path is a file.
NotADirectory(t, b, o) == \E a \in Ancestors[o] : IsFile(Lookup(t, b, a))

\* FilesStat of an object.
FilesStat(t, b, o) ==
    IF NotADirectory(t, b, o) THEN "other error"
    ELSE IF Lookup(t, b, o) = NoNode THEN "file does not exist" ELSE "ok"

\* FilesRead of an object, which fails on a directory.
FilesRead(t, b, o) ==
    IF Lookup(t, b, o) = DirNode THEN "other error" ELSE FilesStat(t, b, o)

\* stat.Blocks = 0 of a directory.
NoBlocks(t, b, o) == \A x \in Objects : o \in Ancestors[x] => Lookup(t, b, x) = NoNode

\* What is left at the end of old when new is written over it.
OldTail(old, new) ==
    IF IsFile(old) /\ Len(old) > Len(new) THEN SubSeq(old, Len(new) + 1, Len(old))
                                          ELSE << >>

CanWrite(t, b, o) == Lookup(t, b, o) # DirNode /\ ~NotADirectory(t, b, o)

\* FilesWrite with Parents and Create, and without Truncate: the bucket and the
\* directories above o are made when they are missing.
FilesWrite(t, b, o, data) ==
    [t EXCEPT ![b] = [x \in Objects |->
        IF x = o THEN data \o OldTail(Lookup(t, b, o), data)
        ELSE IF x \in Ancestors[o] THEN DirNode ELSE Lookup(t, b, x)]]

FilesMkdir(t, b) == [t EXCEPT ![b] = [o \in Objects |-> NoNode]]

\* FilesRm with force: recursive, and no error when only the entry is missing.
CanRm(t, b, o) ==
    t[b] # NoNode /\ \A a \in Ancestors[o] : t[b][a] = DirNode

FilesRm(t, b, o) ==
    [t EXCEPT ![b] = [x \in Objects |->
        IF x = o \/ o \in Ancestors[x] THEN NoNode ELSE t[b][x]]]

FilesRmBucket(t, b) == [t EXCEPT ![b] = NoNode]

-----------------------------------------------------------------------------
(* Requests and responses *)

Requests ==
    [op : {"MakeBucket"}, bucket : Buckets]
    \cup [op : {"DeleteBucket"}, bucket : Buckets, force : BOOLEAN]
    \cup [op : {"PutObject"}, bucket : Buckets, object : Objects, data : Payloads]
    \cup [op : {"GetObject"}, bucket : Buckets, object : Objects, range : Ranges]
    \cup {r \in [op : {"DeleteObject", "DeleteObjects", "RemoveObject"},
                 bucket : Buckets, objects : ObjectLists] :
              r.op = "DeleteObject" => Len(r.objects) = 1}

NoRequest == [op |-> "none"]

\* ipfsToObjectError for an object.
ObjectError(e) == IF e = "file does not exist" THEN "ObjectNotFound" ELSE e

\* toAPIErrorCode, and toWebAPIError: ErrNoSuchKey and
\* ErrBucketAlreadyOwnedByYou are not in errorCodes.
ToAPIErr(e) ==
    CASE e = "ok" -> "ok"
      [] e = "BucketNotFound" -> "NoSuchBucket"
      [] OTHER -> "InternalError"

\* The status, and the bytes of the body or the content that the ETag is of.
Response(code, body) == [code |-> code, body |-> body]

\* The first call of each handler.
FirstCall(r) ==
    CASE r.op = "MakeBucket" -> "mkdir"
      [] r.op = "DeleteBucket" -> "rbStat"
      [] r.op = "PutObject" -> "putStat"
      [] r.op = "GetObject" -> "getStat"
      [] OTHER -> "delBucket"

Init ==
    /\ tree = [b \in Buckets |-> NoNode]
    /\ pc = [p \in Procs |-> "idle"]
    /\ req = [p \in Procs |-> NoRequest]
    /\ info = [p \in Procs |-> NoNode]
    /\ errs = [p \in Procs |-> << >>]
    /\ reply = [p \in Procs |-> Response("none", << >>)]
    /\ before = [p \in Procs |-> tree]
    /\ touched = [p \in Procs |-> FALSE]

\* A request arrives.
Begin(p) ==
    /\ pc[p] = "idle"
    /\ \E r \in Requests :
        /\ req' = [req EXCEPT ![p] = r]
        /\ pc' = [pc EXCEPT ![p] = FirstCall(r)]
    /\ before' = [before EXCEPT ![p] = tree]
    /\ touched' = [touched EXCEPT ![p] = FALSE]
    /\ UNCHANGED <<tree, info, errs, reply>>

\* The client has read the response.
Return(p) ==
    /\ pc[p] = "done"
    /\ pc' = [pc EXCEPT ![p] = "idle"]
    /\ req' = [req EXCEPT ![p] = NoRequest]
    /\ info' = [info EXCEPT ![p] = NoNode]
    /\ errs' = [errs EXCEPT ![p] = << >>]
    /\ reply' = [reply EXCEPT ![p] = Response("none", << >>)]
    /\ before' = [before EXCEPT ![p] = [b \in Buckets |-> NoNode]]
    /\ touched' = [touched EXCEPT ![p] = FALSE]
    /\ UNCHANGED tree

\* p leaves the tree as t, or alone.
Write(p, t) ==
    /\ tree' = t
    /\ touched' = [q \in Procs |->
           touched[q] \/ (q # p /\ pc[q] # "idle" /\ t # tree)]
    /\ UNCHANGED before

NoWrite == UNCHANGED <<tree, touched, before>>

\* p goes on to its next call, or responds.
Goto(p, call) ==
    /\ pc' = [pc EXCEPT ![p] = call]
    /\ UNCHANGED <<req, reply>>

Respond(p, code, body) ==
    /\ pc' = [pc EXCEPT ![p] = "done"]
    /\ reply' = [reply EXCEPT ![p] = Response(code, body)]
    /\ UNCHANGED req

-----------------------------------------------------------------------------
(* MakeBucketWithLocation under PutBucketHandler and web MakeBucket *)

MakeBucket(p) ==
    /\ pc[p] = "mkdir"
    /\ LET b == req[p].bucket IN
       IF tree[b] = NoNode
       THEN Write(p, FilesMkdir(tree, b)) /\ Respond(p, "ok", << >>)
       ELSE NoWrite /\ Respond(p, ToAPIErr("BucketAlreadyExists"), << >>)
    /\ UNCHANGED <<info, errs>>

-----------------------------------------------------------------------------
(* DeleteBucket under DeleteBucketHandler and web DeleteBucket *)

DeleteBucketStat(p) ==
    /\ pc[p] = "rbStat"
    /\ IF tree[req[p].bucket] = NoNode
       THEN Respond(p, ToAPIErr("BucketNotFound"), << >>)
       ELSE Goto(p, "rbRm")
    /\ NoWrite
    /\ UNCHANGED <<info, errs>>

DeleteBucketRm(p) ==
    /\ pc[p] = "rbRm"
    /\ Write(p, FilesRmBucket(tree, req[p].bucket))
    /\ Respond(p, "ok", << >>)
    /\ UNCHANGED <<info, errs>>

-----------------------------------------------------------------------------
(* PutObject under PutObjectHandler and web Upload *)

\* Mutant: the bucket is not looked up.
PutObjectStatUnchecked(p) ==
    /\ pc[p] = "putStat"
    /\ Goto(p, "putWrite")
    /\ NoWrite
    /\ UNCHANGED <<info, errs>>

PutObjectStat(p) ==
    /\ pc[p] = "putStat"
    /\ IF tree[req[p].bucket] = NoNode
       THEN Respond(p, ToAPIErr("BucketNotFound"), << >>)
       ELSE Goto(p, "putWrite")
    /\ NoWrite
    /\ UNCHANGED <<info, errs>>

PutObjectWrite(p) ==
    /\ pc[p] = "putWrite"
    /\ LET r == req[p] IN
       IF CanWrite(tree, r.bucket, r.object)
       THEN Write(p, FilesWrite(tree, r.bucket, r.object, r.data)) /\ Goto(p, "putEtag")
       ELSE NoWrite /\ Respond(p, ToAPIErr("other error"), << >>)
    /\ UNCHANGED <<info, errs>>

\* Mutant: the error of FilesWrite is dropped.
PutObjectStreamErrorDropped(p) ==
    /\ pc[p] = "putWrite"
    /\ LET r == req[p] IN
       /\ CanWrite(tree, r.bucket, r.object)
       /\ \E n \in 0 .. Len(r.data) :
              Write(p, FilesWrite(tree, r.bucket, r.object, SubSeq(r.data, 1, n)))
       /\ Goto(p, "putEtag")
    /\ UNCHANGED <<info, errs>>

\* The body of the request ends early or fails the check of its hash: what was
\* streamed to the daemon until then stays.
PutObjectStreamFails(p) ==
    /\ pc[p] = "putWrite"
    /\ LET r == req[p] IN
       /\ CanWrite(tree, r.bucket, r.object)
       /\ \E n \in 0 .. Len(r.data) :
              Write(p, FilesWrite(tree, r.bucket, r.object, SubSeq(r.data, 1, n)))
       /\ Respond(p, ToAPIErr("other error"), << >>)
    /\ UNCHANGED <<info, errs>>

\* The ETag of the response is the hash of what is there now.
PutObjectEtag(p) ==
    /\ pc[p] = "putEtag"
    /\ LET r == req[p]
           s == FilesStat(tree, r.bucket, r.object) IN
       IF s = "ok" THEN Respond(p, "ok", Lookup(tree, r.bucket, r.object))
                   ELSE Respond(p, ToAPIErr(ObjectError(s)), << >>)
    /\ NoWrite
    /\ UNCHANGED <<info, errs>>

-----------------------------------------------------------------------------
(* GetObjectNInfo and its goroutine GetObject under GetObjectHandler *)

SizeOf(n) == IF IsFile(n) THEN Len(n) ELSE 0

\* HTTPRangeSpec.GetLength: 0 when the range starts behind the end, which is
\* an error, or the bytes of the range that exist.
GetLength(range, size) ==
    IF range = NoRange THEN size
    ELSE IF range[1] < 0 THEN IF range[2] > size THEN size ELSE range[2]
    ELSE IF range[1] >= size THEN 0
    ELSE IF range[1] + range[2] > size THEN size - range[1] ELSE range[2]

InvalidRange(range, size) == range # NoRange /\ range[1] >= size

\* GetObjectInfo, whose size and ETag become the headers of the response.
GetObjectStat(p) ==
    /\ pc[p] = "getStat"
    /\ LET r == req[p]
           s == FilesStat(tree, r.bucket, r.object)
           n == Lookup(tree, r.bucket, r.object) IN
       IF s # "ok"
       THEN Respond(p, ToAPIErr(ObjectError(s)), << >>) /\ UNCHANGED info
       ELSE IF InvalidRange(r.range, SizeOf(n))
       THEN Respond(p, ToAPIErr("errInvalidRange"), << >>) /\ UNCHANGED info
       ELSE Goto(p, "getBucket") /\ info' = [info EXCEPT ![p] = n]
    /\ NoWrite
    /\ UNCHANGED errs

\* The goroutine fails before its first byte: status 206 is already sent when a
\* range was asked for.
GetObjectFails(p, e) ==
    IF req[p].range = NoRange THEN Respond(p, ToAPIErr(e), << >>)
                              ELSE Respond(p, "Aborted", << >>)

GetObjectBucket(p) ==
    /\ pc[p] = "getBucket"
    /\ IF tree[req[p].bucket] = NoNode THEN GetObjectFails(p, "BucketNotFound")
                                       ELSE Goto(p, "getRead")
    /\ NoWrite
    /\ UNCHANGED <<info, errs>>

\* FilesRead from the first byte, whatever the range; the response writer takes
\* at most Content-Length bytes and a shorter body ends in an aborted response.
GetObjectRead(p) ==
    /\ pc[p] = "getRead"
    /\ LET r == req[p]
           s == FilesRead(tree, r.bucket, r.object)
           c == Lookup(tree, r.bucket, r.object)
           declared == GetLength(r.range, SizeOf(info[p])) IN
       IF s # "ok"
       THEN GetObjectFails(p, ObjectError(s))
       ELSE IF Len(c) <= declared
       THEN Respond(p, IF Len(c) = declared THEN "ok" ELSE "Aborted", c)
       ELSE \E n \in 0 .. declared :
              Respond(p, IF n = declared THEN "ok" ELSE "Aborted", SubSeq(c, 1, n))
    /\ NoWrite
    /\ UNCHANGED <<info, errs>>

-----------------------------------------------------------------------------
(* DeleteObject under DeleteObjectHandler, DeleteMultipleObjectsHandler and *)
(* web RemoveObject                                                         *)

DeleteObjectName(p) == req[p].objects[Len(errs[p]) + 1]

\* What the handler answers once every object has an error or "ok", or, in web
\* RemoveObject, at the first error.  The response to DeleteObjects also lists
\* ToAPIErr of each element of errs.
DeleteResponse(r, es) ==
    LET last == es[Len(es)] IN
    CASE r.op = "DeleteObject" ->
            Response(IF last = "BucketNotFound" THEN "NoSuchBucket" ELSE "ok", << >>)
      [] r.op = "DeleteObjects" ->
            Response("ok", << >>)
      [] r.op = "RemoveObject" ->
            Response(IF last = "ObjectNotFound" THEN "ok" ELSE ToAPIErr(last), << >>)

\* DeleteObject returns e for the current object.
DeleteObjectReturns(p, e) ==
    LET es == Append(errs[p], e)
        over == \/ Len(es) = Len(req[p].objects)
                \/ req[p].op = "RemoveObject" /\ e # "ok"
        response == DeleteResponse(req[p], es) IN
    /\ errs' = [errs EXCEPT ![p] = es]
    /\ IF over THEN Respond(p, response.code, response.body)
               ELSE Goto(p, "delBucket")

DeleteObjectBucket(p) ==
    /\ pc[p] = "delBucket"
    /\ IF tree[req[p].bucket] = NoNode
       THEN DeleteObjectReturns(p, "BucketNotFound")
       ELSE Goto(p, "delStat") /\ UNCHANGED errs
    /\ NoWrite
    /\ UNCHANGED info

\* Mutant: stat.Blocks is not looked at.
DeleteObjectStatAnyDirectory(p) ==
    /\ pc[p] = "delStat"
    /\ LET s == FilesStat(tree, req[p].bucket, DeleteObjectName(p)) IN
       IF s # "ok"
       THEN DeleteObjectReturns(p, ObjectError(s))
       ELSE Goto(p, "delRm") /\ UNCHANGED errs
    /\ NoWrite
    /\ UNCHANGED info

\* A directory that is not empty is left alone, without an error.
DeleteObjectStat(p) ==
    /\ pc[p] = "delStat"
    /\ LET b == req[p].bucket
           o == DeleteObjectName(p)
           s == FilesStat(tree, b, o) IN
       IF s # "ok"
       THEN DeleteObjectReturns(p, ObjectError(s))
       ELSE IF Lookup(tree, b, o) = DirNode /\ ~NoBlocks(tree, b, o)
       THEN DeleteObjectReturns(p, "ok")
       ELSE Goto(p, "delRm") /\ UNCHANGED errs
    /\ NoWrite
    /\ UNCHANGED info

DeleteObjectRm(p) ==
    /\ pc[p] = "delRm"
    /\ LET b == req[p].bucket
           o == DeleteObjectName(p) IN
       IF CanRm(tree, b, o)
       THEN /\ Write(p, FilesRm(tree, b, o))
            /\ DeleteObjectReturns(p, "ok")
       ELSE /\ NoWrite
            /\ DeleteObjectReturns(p, IF NotADirectory(tree, b, o) THEN "other error"
                                                                   ELSE "ObjectNotFound")
    /\ UNCHANGED info

-----------------------------------------------------------------------------
Step(p) ==
    \/ MakeBucket(p)
    \/ DeleteBucketStat(p)
    \/ DeleteBucketRm(p)
    \/ PutObjectStat(p)
    \/ PutObjectWrite(p)
    \/ PutObjectStreamFails(p)
    \/ PutObjectEtag(p)
    \/ GetObjectStat(p)
    \/ GetObjectBucket(p)
    \/ GetObjectRead(p)
    \/ DeleteObjectBucket(p)
    \/ DeleteObjectStat(p)
    \/ DeleteObjectRm(p)

Next == \E p \in Procs : Begin(p) \/ Return(p) \/ Step(p)

Spec == Init /\ [][Next]_vars

-----------------------------------------------------------------------------
(* Properties *)

Calls == {"idle", "done", "mkdir", "rbStat", "rbRm", "putStat", "putWrite", "putEtag",
          "getStat", "getBucket", "getRead", "delBucket", "delStat", "delRm"}

Trees == [Buckets -> {NoNode} \cup [Objects -> Nodes]]

\* The handler of a request makes the calls of its operation.
CallsOf(op) ==
    CASE op = "none" -> {"idle"}
      [] op = "MakeBucket" -> {"mkdir", "done"}
      [] op = "DeleteBucket" -> {"rbStat", "rbRm", "done"}
      [] op = "PutObject" -> {"putStat", "putWrite", "putEtag", "done"}
      [] op = "GetObject" -> {"getStat", "getBucket", "getRead", "done"}
      [] OTHER -> {"delBucket", "delStat", "delRm", "done"}

Codes == {"none", "ok", "NoSuchBucket", "InternalError", "Aborted"}

DeleteErrors == {"ok", "BucketNotFound", "ObjectNotFound", "other error"}

\* The type invariant.
TypeOK ==
    /\ tree \in Trees
    /\ before \in [Procs -> Trees]
    /\ pc \in [Procs -> Calls]
    /\ req \in [Procs -> Requests \cup {NoRequest}]
    /\ \A p \in Procs : pc[p] \in CallsOf(req[p].op)
    /\ info \in [Procs -> Nodes]
    /\ errs \in [Procs -> Seq(DeleteErrors)]
    /\ reply \in [Procs -> [code : Codes, body : Nodes]]
    /\ \A p \in Procs :
        /\ pc[p] = "idle" => errs[p] = << >>
        /\ pc[p] \in {"delBucket", "delStat", "delRm"} => Len(errs[p]) < Len(req[p].objects)
    /\ touched \in [Procs -> BOOLEAN]

\* Above an object there are only directories, in a bucket that exists.
IsTree(t) ==
    \A b \in Buckets : t[b] # NoNode =>
        \A o \in Objects : t[b][o] # NoNode =>
            \A a \in Ancestors[o] : t[b][a] = DirNode

\* The MFS stays a tree whatever the requests do to it.
TreeOK == IsTree(tree)

\* What a request learnt from a FilesStat and acts on in a later call still holds
\* when no other request has changed the tree in between.
CheckCurrent(p) ==
    ~touched[p] =>
        /\ pc[p] \in {"rbRm", "putWrite"} => tree[req[p].bucket] # NoNode
        /\ pc[p] \in {"getBucket", "getRead"} =>
              /\ info[p] # NoNode
              /\ info[p] = Lookup(tree, req[p].bucket, req[p].object)
        /\ pc[p] = "delRm" =>
              /\ Lookup(tree, req[p].bucket, DeleteObjectName(p)) # NoNode
              /\ \/ IsFile(Lookup(tree, req[p].bucket, DeleteObjectName(p)))
                 \/ NoBlocks(tree, req[p].bucket, DeleteObjectName(p))

\* No request acts on a check that is stale unless it was overtaken.
ChecksCurrent == \A p \in Procs : CheckCurrent(p)

\* The inductive invariant: the MFS is a tree and requests act on what is true
\* unless they were overtaken.
ObjectsInv == TypeOK /\ TreeOK /\ ChecksCurrent

\* The objects other than those of S are in tree t2 as in tree t1, but for
\* directories made above one of S.
OthersKept(t1, t2, b, S) ==
    /\ \A c \in Buckets \ {b} : t1[c] = t2[c]
    /\ \A o \in Objects \ S : \/ Lookup(t1, b, o) = Lookup(t2, b, o)
                              \/ /\ Lookup(t2, b, o) = DirNode
                                 /\ Lookup(t1, b, o) = NoNode
                                 /\ \E s \in S : o \in Ancestors[s]

\* What the response rep to request r promises when t1 is the tree before the
\* request and t2 the tree after it.
PutContract(r, t1, t2, rep) ==
    /\ OthersKept(t1, t2, r.bucket, {r.object})
    /\ t1[r.bucket] = NoNode => rep.code = "NoSuchBucket" /\ t1 = t2
    /\ rep.code = "ok" =>
          /\ IsFile(Lookup(t2, r.bucket, r.object))
          /\ rep.body = Lookup(t2, r.bucket, r.object)
          /\ Len(rep.body) >= Len(r.data) /\ SubSeq(rep.body, 1, Len(r.data)) = r.data

GetContract(r, t1, t2, rep) ==
    LET n == Lookup(t1, r.bucket, r.object) IN
    /\ t1 = t2
    /\ ~IsFile(n) => rep.code # "ok"
    /\ IsFile(n) /\ r.range = NoRange => rep.code = "ok" /\ rep.body = n
    /\ rep.code = "ok" /\ r.range # NoRange =>
          Len(rep.body) <= r.range[2] /\ rep.body = SubSeq(n, 1, Len(rep.body))

BucketContract(r, t1, t2, rep) ==
    /\ OthersKept(t1, t2, r.bucket, Objects)
    /\ (rep.code = "ok") = ((t1[r.bucket] = NoNode) = (r.op = "MakeBucket"))
    /\ rep.code = "ok" => (t2[r.bucket] = NoNode) = (r.op = "DeleteBucket")
    /\ rep.code # "ok" => t1 = t2

\* An object of r was dealt with unless web RemoveObject stopped before it, at a
\* name that was missing or that it had itself removed a moment before.
Reached(r, t1, i) ==
    r.op = "RemoveObject" =>
        \A j \in 1 .. i - 1 :
            /\ Lookup(t1, r.bucket, r.objects[j]) # NoNode
            /\ \A k \in 1 .. j - 1 : r.objects[k] # r.objects[j]

DeleteContract(r, t1, t2, rep, es) ==
    LET named == {r.objects[i] : i \in 1 .. Len(r.objects)} IN
    /\ OthersKept(t1, t2, r.bucket, named)
    /\ \A o \in named : Lookup(t2, r.bucket, o) \in {NoNode, Lookup(t1, r.bucket, o)}
    /\ \A o \in named : Lookup(t1, r.bucket, o) = DirNode /\ Lookup(t2, r.bucket, o) = NoNode =>
          \A x \in Objects \ named : o \in Ancestors[x] => Lookup(t1, r.bucket, x) = NoNode
    /\ rep.code = "ok" => \A i \in 1 .. Len(r.objects) :
          Reached(r, t1, i) => ~IsFile(Lookup(t2, r.bucket, r.objects[i]))
    /\ \A i \in 1 .. Len(es) : es[i] = "ok" => Lookup(t1, r.bucket, r.objects[i]) # NoNode

Contract(r, t1, t2, rep, es) ==
    CASE r.op \in {"MakeBucket", "DeleteBucket"} -> BucketContract(r, t1, t2, rep)
      [] r.op = "PutObject" -> PutContract(r, t1, t2, rep)
      [] r.op = "GetObject" -> GetContract(r, t1, t2, rep)
      [] OTHER -> DeleteContract(r, t1, t2, rep, es)

\* A request that no other request's change overlapped did what its response
\* says, and nothing else, however many calls it took.
UndisturbedKeepContract ==
    \A p \in Procs : pc[p] = "done" /\ ~touched[p] =>
        Contract(req[p], before[p], tree, reply[p], errs[p])

\* A step that loses a file is one of a request that deletes its bucket or names
\* it, or of one that names a directory above it and was overtaken.
LostByDelete ==
    \A b \in Buckets, o \in Objects :
        IsFile(Lookup(tree, b, o)) /\ ~IsFile(Lookup(tree', b, o)) =>
            \E p \in Procs :
                /\ req[p].op # "none" /\ req[p].bucket = b
                /\ \/ pc[p] = "rbRm"
                   \/ pc[p] = "delRm" /\ DeleteObjectName(p) = o
                   \/ /\ pc[p] = "delRm" /\ DeleteObjectName(p) \in Ancestors[o]
                      /\ touched[p]

\* An object is lost only to a request that deletes its bucket or names it, or
\* to one that names an empty directory into which another request wrote after
\* deleteObject had looked.
LossOnlyByDelete == [][LostByDelete]_vars

\* A step that makes a bucket is one of MakeBucket or of an overtaken upload.
BucketMade ==
    \A b \in Buckets : tree[b] = NoNode /\ tree'[b] # NoNode =>
        \E p \in Procs :
            /\ req[p].op # "none" /\ req[p].bucket = b
            /\ \/ pc[p] = "mkdir"
               \/ pc[p] = "putWrite" /\ touched[p]

\* A bucket comes into being by MakeBucket, or by an upload that found it
\* before another request deleted it: FilesWrite makes the parents.
BucketMadeKnowingly == [][BucketMade]_vars

\* "Bucket not empty: " (BucketNotEmpty): DeleteBucket without x-ipos-force-delete
\* refuses a bucket with objects in it.
DeleteBucketRefusesNonEmpty ==
    \A p \in Procs :
        pc[p] = "done" /\ ~touched[p] /\ req[p].op = "DeleteBucket" /\ reply[p].code = "ok" =>
            req[p].force \/ before[p][req[p].bucket] = [o \in Objects |-> NoNode]

\* "The specified key %s does not exist" (toJSONError): an object that is not in
\* an existing bucket is answered with NoSuchKey.
MissingKeyIsNoSuchKey ==
    \A p \in Procs :
        /\ pc[p] = "done" /\ ~touched[p] /\ req[p].op = "GetObject"
        /\ before[p][req[p].bucket] # NoNode
        /\ FilesStat(before[p], req[p].bucket, req[p].object) = "file does not exist"
        => reply[p].code = "NoSuchKey"

=============================================================================

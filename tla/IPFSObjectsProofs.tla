------------------------- MODULE IPFSObjectsProofs -------------------------
(***************************************************************************)
(* Proofs about the object layer, for any number of requests, buckets,     *)
(* objects and uploads: ObjectsInv is inductive, from it follow the two    *)
(* statements about what requests may destroy and may create, and on top   *)
(* of it KeptSoFar gives the contract of every undisturbed request.        *)
(***************************************************************************)
EXTENDS IPFSObjects, TLAPS

\* The fields of a request, by operation.
LEMMA RequestFields ==
  ASSUME NEW r \in Requests
  PROVE  /\ r.op \in {"MakeBucket", "DeleteBucket", "PutObject", "GetObject",
                      "DeleteObject", "DeleteObjects", "RemoveObject"}
         /\ r.bucket \in Buckets
         /\ r.op \in {"PutObject", "GetObject"} => r.object \in Objects
         /\ r.op = "PutObject" => r.data \in Seq(Nat)
         /\ r.op = "GetObject" => r.range \in {NoRange} \cup (Int \X Nat)
         /\ r.op \in {"DeleteObject", "DeleteObjects", "RemoveObject"} =>
               r.objects \in Seq(Objects) /\ r.objects # << >>
  <1>1. CASE r \in [op : {"MakeBucket"}, bucket : Buckets]
    BY <1>1
  <1>2. CASE r \in [op : {"DeleteBucket"}, bucket : Buckets, force : BOOLEAN]
    BY <1>2
  <1>3. CASE r \in [op : {"PutObject"}, bucket : Buckets, object : Objects, data : Payloads]
    BY <1>3, PayloadsAssumption
  <1>4. CASE r \in [op : {"GetObject"}, bucket : Buckets, object : Objects, range : Ranges]
    BY <1>4, RangesAssumption
  <1>5. CASE r \in [op : {"DeleteObject", "DeleteObjects", "RemoveObject"},
                    bucket : Buckets, objects : ObjectLists]
    BY <1>5, ObjectListsAssumption
  <1>6. QED BY <1>1, <1>2, <1>3, <1>4, <1>5 DEF Requests

\* Where a goroutine is tells what its request is.
LEMMA RequestAt ==
  ASSUME TypeOK, NEW p \in Procs, pc[p] # "idle"
  PROVE  /\ req[p] \in Requests
         /\ req[p].op # "none"
         /\ pc[p] = "mkdir" => req[p].op = "MakeBucket"
         /\ pc[p] \in {"rbStat", "rbRm"} => req[p].op = "DeleteBucket"
         /\ pc[p] \in {"putStat", "putWrite", "putEtag"} => req[p].op = "PutObject"
         /\ pc[p] \in {"getStat", "getBucket", "getRead"} => req[p].op = "GetObject"
         /\ pc[p] \in {"delBucket", "delStat", "delRm"} =>
               req[p].op \in {"DeleteObject", "DeleteObjects", "RemoveObject"}
  <1>1. NoRequest.op = "none"
    BY DEF NoRequest
  <1>2. pc[p] \in CallsOf(req[p].op) /\ req[p] \in Requests \cup {NoRequest}
    BY DEF TypeOK
  <1>3. req[p] \in Requests
    BY <1>1, <1>2 DEF CallsOf
  <1>4. req[p].op \in {"MakeBucket", "DeleteBucket", "PutObject", "GetObject",
                      "DeleteObject", "DeleteObjects", "RemoveObject"}
    BY <1>3, RequestFields
  <1>5. QED BY <1>2, <1>3, <1>4 DEF CallsOf

\* The object that a deletion deals with is one of its list.
LEMMA DeleteName ==
  ASSUME TypeOK, NEW p \in Procs, pc[p] \in {"delBucket", "delStat", "delRm"}
  PROVE  DeleteObjectName(p) \in Objects
  <1>1. req[p].objects \in Seq(Objects)
    BY RequestAt, RequestFields
  <1>2. errs[p] \in Seq(DeleteErrors) /\ Len(errs[p]) < Len(req[p].objects)
    BY DEF TypeOK
  <1>3. QED BY <1>1, <1>2 DEF DeleteObjectName

-----------------------------------------------------------------------------
(* The calls of the MFS *)

\* A bucket that exists maps objects to nodes.
LEMMA LookupType ==
  ASSUME NEW t \in Trees, NEW b \in Buckets, NEW o \in Objects
  PROVE  Lookup(t, b, o) \in Nodes
  BY DEF Lookup, Trees, Nodes

\* FilesMkdir makes an empty bucket.
LEMMA MkdirTree ==
  ASSUME NEW t \in Trees, IsTree(t), NEW b \in Buckets
  PROVE  FilesMkdir(t, b) \in Trees /\ IsTree(FilesMkdir(t, b))
  BY DEF Trees, IsTree, FilesMkdir, Nodes

\* FilesRm of a bucket leaves the other buckets.
LEMMA RmBucketTree ==
  ASSUME NEW t \in Trees, IsTree(t), NEW b \in Buckets
  PROVE  FilesRmBucket(t, b) \in Trees /\ IsTree(FilesRmBucket(t, b))
  BY DEF Trees, IsTree, FilesRmBucket, Nodes

\* FilesRm of an object removes all that is below it.
LEMMA RmTree ==
  ASSUME NEW t \in Trees, IsTree(t), NEW b \in Buckets, NEW o \in Objects, CanRm(t, b, o)
  PROVE  FilesRm(t, b, o) \in Trees /\ IsTree(FilesRm(t, b, o))
  <1>1. t[b] \in [Objects -> Nodes]
    BY DEF CanRm, Trees
  <1>2. FilesRm(t, b, o) \in Trees
    BY <1>1 DEF FilesRm, Trees, Nodes
  <1>3. ASSUME NEW c \in Buckets, FilesRm(t, b, o)[c] # NoNode,
               NEW x \in Objects, FilesRm(t, b, o)[c][x] # NoNode,
               NEW a \in Ancestors[x]
        PROVE  FilesRm(t, b, o)[c][a] = DirNode
    <2>1. a \in Objects /\ Ancestors[a] \subseteq Ancestors[x]
      BY AncestorsAssumption
    <2>2. CASE c # b
      BY <1>3, <2>1, <2>2 DEF FilesRm, IsTree, Trees
    <2>3. CASE c = b
      <3>1. x # o /\ o \notin Ancestors[x] /\ t[b][x] # NoNode
        BY <1>3, <2>3 DEF FilesRm, Trees
      <3>2. t[b][a] = DirNode
        BY <3>1 DEF IsTree, CanRm
      <3>3. a # o /\ o \notin Ancestors[a]
        BY <3>1, <2>1
      <3>4. QED BY <2>1, <2>3, <3>2, <3>3 DEF FilesRm, Trees
    <2>4. QED BY <2>2, <2>3
  <1>4. QED BY <1>2, <1>3 DEF IsTree

\* What FilesWrite leaves at o.
LEMMA WrittenType ==
  ASSUME NEW old \in Nodes, NEW data \in Seq(Nat)
  PROVE  data \o OldTail(old, data) \in Seq(Nat)
  <1>1. CASE IsFile(old) /\ Len(old) > Len(data)
    <2>1. old \in Seq(Nat)
      BY <1>1 DEF IsFile, Nodes
    <2>2. Len(data) + 1 \in Int /\ Len(data) + 1 >= 1 /\ Len(old) \in Nat
      BY <2>1
    <2>3. SubSeq(old, Len(data) + 1, Len(old)) \in Seq(Nat)
      BY <2>1, <2>2
    <2>4. QED BY <1>1, <2>3 DEF OldTail
  <1>2. CASE ~(IsFile(old) /\ Len(old) > Len(data))
    BY <1>2 DEF OldTail
  <1>3. QED BY <1>1, <1>2

\* FilesWrite makes the bucket, the directories above o, and the file o.
LEMMA WriteTree ==
  ASSUME NEW t \in Trees, IsTree(t), NEW b \in Buckets, NEW o \in Objects,
         NEW data \in Seq(Nat), CanWrite(t, b, o)
  PROVE  /\ FilesWrite(t, b, o, data) \in Trees
         /\ IsTree(FilesWrite(t, b, o, data))
         /\ \A c \in Buckets : c # b => FilesWrite(t, b, o, data)[c] = t[c]
         /\ FilesWrite(t, b, o, data)[b] # NoNode
         /\ FilesWrite(t, b, o, data)[b][o] \in Seq(Nat)
         /\ \A a \in Ancestors[o] : FilesWrite(t, b, o, data)[b][a] = DirNode
         /\ \A x \in Objects : x # o /\ x \notin Ancestors[o] =>
               FilesWrite(t, b, o, data)[b][x] = Lookup(t, b, x)
  <1> DEFINE new == data \o OldTail(Lookup(t, b, o), data)
             f == [x \in Objects |-> IF x = o THEN new
                       ELSE IF x \in Ancestors[o] THEN DirNode ELSE Lookup(t, b, x)]
             u == FilesWrite(t, b, o, data)
  <1>1. new \in Seq(Nat)
    BY LookupType, WrittenType
  <1>2. f \in [Objects -> Nodes] /\ f # NoNode
    BY <1>1, LookupType, NodesAssumption, ZenonT(60) DEF Nodes
  <1>3. u = [t EXCEPT ![b] = f]
    BY DEF FilesWrite
  <1> HIDE DEF new
  <1>4. /\ u \in Trees /\ u[b] = f /\ \A c \in Buckets : c # b => u[c] = t[c]
    <2> HIDE DEF f, u
    <2> QED BY <1>2, <1>3 DEF Trees
  <1>5. ASSUME NEW c \in Buckets, u[c] # NoNode, NEW x \in Objects, u[c][x] # NoNode,
               NEW a \in Ancestors[x]
        PROVE  u[c][a] = DirNode
    <2> HIDE DEF u
    <2>1. a \in Objects /\ Ancestors[a] \subseteq Ancestors[x] /\ a # x
      BY AncestorsAssumption
    <2>2. CASE c # b
      BY <1>4, <1>5, <2>1, <2>2 DEF IsTree
    <2>3. CASE c = b /\ (x = o \/ x \in Ancestors[o])
      <3>1. a \in Ancestors[o] /\ a # o
        BY <2>3, AncestorsAssumption
      <3>2. QED BY <1>4, <2>1, <2>3, <3>1
    <2>4. CASE c = b /\ x # o /\ x \notin Ancestors[o]
      <3>1. Lookup(t, b, x) # NoNode
        BY <1>4, <1>5, <2>4
      <3>2. Lookup(t, b, a) = DirNode
        BY <2>1, <3>1 DEF Lookup, IsTree
      <3>3. a # o
        BY <3>2 DEF CanWrite
      <3>4. QED BY <1>4, <2>1, <2>4, <3>2, <3>3
    <2>5. QED BY <2>2, <2>3, <2>4
  <1>6. IsTree(u)
    <2> HIDE DEF u
    <2> QED BY <1>5 DEF IsTree
  <1>7. /\ f[o] \in Seq(Nat)
        /\ \A a \in Ancestors[o] : f[a] = DirNode
        /\ \A x \in Objects : x # o /\ x \notin Ancestors[o] => f[x] = Lookup(t, b, x)
    BY <1>1, AncestorsAssumption
  <1> HIDE DEF f
  <1>8. QED BY <1>2, <1>4, <1>6, <1>7


-----------------------------------------------------------------------------
(* The parts that every step of a handler has *)

\* The variables that say where the handlers are have their types.
ControlOK ==
    /\ pc \in [Procs -> Calls]
    /\ req \in [Procs -> Requests \cup {NoRequest}]
    /\ \A p \in Procs : pc[p] \in CallsOf(req[p].op)
    /\ reply \in [Procs -> [code : Codes, body : Nodes]]

\* p leaves the tree alone, or makes it another tree and marks the others.
TreeStep(p) == NoWrite \/ \E t \in Trees : IsTree(t) /\ Write(p, t)

\* Only p's own local state changes.
LocalStep(p) ==
    \A q \in Procs \ {p} : pc'[q] = pc[q] /\ info'[q] = info[q] /\ errs'[q] = errs[q]

\* A response ends the calls of a handler.
LEMMA RespondStep ==
  ASSUME TypeOK, NEW p \in Procs, pc[p] # "idle", NEW code \in Codes, NEW body \in Nodes,
         Respond(p, code, body)
  PROVE  /\ ControlOK' /\ req' = req /\ pc'[p] = "done"
         /\ \A q \in Procs \ {p} : pc'[q] = pc[q]
  <1>1. "done" \in CallsOf(req[p].op) /\ "done" \in Calls
    BY RequestAt, RequestFields DEF CallsOf, Calls
  <1>2. pc' = [pc EXCEPT ![p] = "done"] /\ req' = req
    BY DEF Respond
  <1>3. reply' \in [Procs -> [code : Codes, body : Nodes]]
    BY DEF Respond, Response, TypeOK
  <1>4. /\ pc' \in [Procs -> Calls] /\ pc'[p] = "done"
        /\ \A q \in Procs \ {p} : pc'[q] = pc[q]
    BY <1>1, <1>2 DEF TypeOK
  <1>5. \A q \in Procs : pc'[q] \in CallsOf(req'[q].op)
    BY <1>1, <1>2, <1>4 DEF TypeOK
  <1>6. QED BY <1>2, <1>3, <1>4, <1>5 DEF ControlOK, TypeOK

\* A handler goes on with a call of its operation.
LEMMA GotoStep ==
  ASSUME TypeOK, NEW p \in Procs, NEW call \in Calls, call \in CallsOf(req[p].op),
         Goto(p, call)
  PROVE  /\ ControlOK' /\ req' = req /\ pc'[p] = call
         /\ \A q \in Procs \ {p} : pc'[q] = pc[q]
  <1>1. pc' = [pc EXCEPT ![p] = call] /\ req' = req /\ reply' = reply
    BY DEF Goto
  <1>2. /\ pc' \in [Procs -> Calls] /\ pc'[p] = call
        /\ \A q \in Procs \ {p} : pc'[q] = pc[q]
    BY <1>1 DEF TypeOK
  <1>3. \A q \in Procs : pc'[q] \in CallsOf(req'[q].op)
    BY <1>1, <1>2 DEF TypeOK
  <1>4. QED BY <1>1, <1>2, <1>3 DEF ControlOK, TypeOK

\* The tree and the histories keep their types, and p does not mark itself.
LEMMA TreeStepTypes ==
  ASSUME TypeOK, TreeOK, NEW p \in Procs, TreeStep(p)
  PROVE  /\ tree' \in Trees /\ TreeOK'
         /\ before' \in [Procs -> Trees]
         /\ touched' \in [Procs -> BOOLEAN]
         /\ touched'[p] = touched[p]
         /\ \A q \in Procs \ {p} :
               pc[q] # "idle" /\ ~touched'[q] => tree' = tree /\ ~touched[q]
  <1>1. CASE NoWrite
    BY <1>1 DEF NoWrite, TypeOK, TreeOK
  <1>2. ASSUME NEW t \in Trees, IsTree(t), Write(p, t)
        PROVE  /\ tree' \in Trees /\ TreeOK'
               /\ before' \in [Procs -> Trees]
               /\ touched' \in [Procs -> BOOLEAN]
               /\ touched'[p] = touched[p]
               /\ \A q \in Procs \ {p} :
                     pc[q] # "idle" /\ ~touched'[q] => tree' = tree /\ ~touched[q]
    <2>1. tree' = t /\ before' = before
      BY <1>2 DEF Write
    <2>2. touched' = [q \in Procs |->
              touched[q] \/ (q # p /\ pc[q] # "idle" /\ t # tree)]
      BY <1>2 DEF Write
    <2>3. touched' \in [Procs -> BOOLEAN] /\ touched'[p] = touched[p]
      BY <2>2, Zenon DEF TypeOK
    <2>4. \A q \in Procs \ {p} :
              pc[q] # "idle" /\ ~touched'[q] => tree' = tree /\ ~touched[q]
      BY <2>1, <2>2
    <2>5. TreeOK'
      BY <1>2, <2>1 DEF TreeOK
    <2>6. QED BY <2>1, <2>3, <2>4, <2>5 DEF TypeOK
  <1>3. QED BY <1>1, <1>2 DEF TreeStep

\* What another request learnt stays true, or it is marked.
LEMMA OthersCurrent ==
  ASSUME TypeOK, TreeOK, ChecksCurrent, NEW p \in Procs, TreeStep(p), LocalStep(p),
         req' = req, NEW q \in Procs \ {p}
  PROVE  CheckCurrent(q)'
  <1>1. pc'[q] = pc[q] /\ info'[q] = info[q] /\ errs'[q] = errs[q]
    BY DEF LocalStep
  <1>2. CASE pc[q] = "idle"
    BY <1>1, <1>2 DEF CheckCurrent
  <1>3. CASE pc[q] # "idle"
    <2>1. ~touched'[q] => tree' = tree /\ ~touched[q]
      BY <1>3, TreeStepTypes
    <2>2. CheckCurrent(q)
      BY DEF ChecksCurrent
    <2>3. DeleteObjectName(q)' = DeleteObjectName(q)
      BY <1>1 DEF DeleteObjectName
    <2>4. QED BY <1>1, <2>1, <2>2, <2>3 DEF CheckCurrent, Lookup, NoBlocks
  <1>4. QED BY <1>2, <1>3

\* The invariant after a step of p's handler, from what the step does.
LEMMA StepInv ==
  ASSUME ObjectsInv, NEW p \in Procs, TreeStep(p), LocalStep(p), ControlOK', req' = req,
         info' \in [Procs -> Nodes], errs' \in [Procs -> Seq(DeleteErrors)],
         pc'[p] # "idle",
         pc'[p] \in {"delBucket", "delStat", "delRm"} => Len(errs'[p]) < Len(req[p].objects),
         CheckCurrent(p)'
  PROVE  ObjectsInv'
  <1>1. /\ tree' \in Trees /\ TreeOK'
        /\ before' \in [Procs -> Trees]
        /\ touched' \in [Procs -> BOOLEAN]
    BY TreeStepTypes DEF ObjectsInv
  <1>2. \A q \in Procs :
            /\ pc'[q] = "idle" => errs'[q] = << >>
            /\ pc'[q] \in {"delBucket", "delStat", "delRm"} =>
                  Len(errs'[q]) < Len(req'[q].objects)
    BY DEF ObjectsInv, TypeOK, LocalStep
  <1>3. TypeOK'
    BY <1>1, <1>2 DEF TypeOK, ControlOK
  <1>4. ChecksCurrent'
    BY OthersCurrent DEF ChecksCurrent, ObjectsInv
  <1>5. QED BY <1>1, <1>3, <1>4 DEF ObjectsInv


\* The codes and the empty body of a response.
LEMMA ResponseTypes ==
  /\ \A e : ToAPIErr(e) \in Codes
  /\ "ok" \in Codes /\ "Aborted" \in Codes /\ "NoSuchBucket" \in Codes
  /\ << >> \in Nodes
  BY DEF ToAPIErr, Codes, Nodes

\* The invariant after a step that responds.
LEMMA RespondInv ==
  ASSUME ObjectsInv, NEW p \in Procs, pc[p] # "idle", NEW code \in Codes, NEW body \in Nodes,
         Respond(p, code, body), TreeStep(p), info' = info,
         errs' \in [Procs -> Seq(DeleteErrors)], \A q \in Procs \ {p} : errs'[q] = errs[q]
  PROVE  ObjectsInv'
  <1>1. /\ ControlOK' /\ req' = req /\ pc'[p] = "done"
        /\ \A q \in Procs \ {p} : pc'[q] = pc[q]
    BY RespondStep DEF ObjectsInv
  <1>2. CheckCurrent(p)'
    BY <1>1 DEF CheckCurrent
  <1>3. LocalStep(p) /\ info' \in [Procs -> Nodes]
    BY <1>1 DEF LocalStep, ObjectsInv, TypeOK
  <1>4. QED BY <1>1, <1>2, <1>3, StepInv

\* The invariant after a step that goes on with another call, outside deletions.
LEMMA GotoInv ==
  ASSUME ObjectsInv, NEW p \in Procs, NEW call \in Calls \ {"idle"}, call \in CallsOf(req[p].op),
         Goto(p, call), TreeStep(p), info' = info,
         errs' \in [Procs -> Seq(DeleteErrors)], \A q \in Procs \ {p} : errs'[q] = errs[q],
         call \in {"delBucket", "delStat", "delRm"} => Len(errs'[p]) < Len(req[p].objects),
         CheckCurrent(p)'
  PROVE  ObjectsInv'
  <1>1. /\ ControlOK' /\ req' = req /\ pc'[p] = call
        /\ \A q \in Procs \ {p} : pc'[q] = pc[q]
    BY GotoStep DEF ObjectsInv
  <1>2. LocalStep(p) /\ info' \in [Procs -> Nodes]
    BY <1>1 DEF LocalStep, ObjectsInv, TypeOK
  <1>3. QED BY <1>1, <1>2, StepInv

\* UNCHANGED errs, in the form that RespondInv and GotoInv take.
LEMMA ErrsKept ==
  ASSUME ObjectsInv, NEW p \in Procs, errs' = errs
  PROVE  /\ errs' \in [Procs -> Seq(DeleteErrors)]
         /\ \A q \in Procs \ {p} : errs'[q] = errs[q]
  BY DEF ObjectsInv, TypeOK

-----------------------------------------------------------------------------
(* One lemma for each action *)

\* The empty MFS satisfies the invariant.
LEMMA InitInv == Init => ObjectsInv
  <1> SUFFICES ASSUME Init PROVE ObjectsInv
    OBVIOUS
  <1>1. tree \in Trees /\ before \in [Procs -> Trees] /\ TreeOK
    BY DEF Init, Trees, TreeOK, IsTree
  <1>2. reply \in [Procs -> [code : Codes, body : Nodes]]
    BY DEF Init, Response, Codes, Nodes
  <1>3. /\ pc \in [Procs -> Calls] /\ req \in [Procs -> Requests \cup {NoRequest}]
        /\ \A p \in Procs : pc[p] \in CallsOf(req[p].op)
    BY DEF Init, Calls, CallsOf, NoRequest
  <1>4. /\ info \in [Procs -> Nodes] /\ errs \in [Procs -> Seq(DeleteErrors)]
        /\ touched \in [Procs -> BOOLEAN]
    BY DEF Init, Nodes
  <1>5. \A p \in Procs : pc[p] = "idle" /\ errs[p] = << >>
    BY DEF Init
  <1>6. TypeOK
    BY <1>1, <1>2, <1>3, <1>4, <1>5 DEF TypeOK
  <1>7. ChecksCurrent
    BY <1>5 DEF ChecksCurrent, CheckCurrent
  <1>8. QED BY <1>1, <1>6, <1>7 DEF ObjectsInv

\* The first call of a handler is one of its operation.
LEMMA FirstCallOf ==
  ASSUME NEW r \in Requests
  PROVE  /\ FirstCall(r) \in CallsOf(r.op)
         /\ FirstCall(r) \in {"mkdir", "rbStat", "putStat", "getStat", "delBucket"}
         /\ FirstCall(r) = "delBucket" => r.objects \in Seq(Objects) /\ r.objects # << >>
  BY RequestFields DEF FirstCall, CallsOf

\* Requests that did not move, over a tree that did not change, are as current
\* as before.
LEMMA QuietCurrent ==
  ASSUME ChecksCurrent, tree' = tree, NEW q \in Procs, pc'[q] = pc[q], req'[q] = req[q],
         info'[q] = info[q], errs'[q] = errs[q], touched'[q] = touched[q]
  PROVE  CheckCurrent(q)'
  <1>1. CheckCurrent(q)
    BY DEF ChecksCurrent
  <1>2. DeleteObjectName(q)' = DeleteObjectName(q)
    BY DEF DeleteObjectName
  <1>3. QED BY <1>1, <1>2 DEF CheckCurrent, Lookup, NoBlocks

\* A request arrives: nothing has been checked yet.
LEMMA BeginInv ==
  ASSUME ObjectsInv, NEW p \in Procs, Begin(p)
  PROVE  ObjectsInv'
  <1> USE DEF ObjectsInv
  <1>1. PICK r \in Requests : /\ req' = [req EXCEPT ![p] = r]
                              /\ pc' = [pc EXCEPT ![p] = FirstCall(r)]
    BY DEF Begin
  <1>2. /\ before' = [before EXCEPT ![p] = tree] /\ touched' = [touched EXCEPT ![p] = FALSE]
        /\ tree' = tree /\ info' = info /\ errs' = errs /\ reply' = reply /\ pc[p] = "idle"
    BY DEF Begin
  <1>3. req' \in [Procs -> Requests \cup {NoRequest}] /\ req'[p] = r
    BY <1>1 DEF TypeOK
  <1>4. pc' \in [Procs -> Calls] /\ pc'[p] = FirstCall(r)
    BY <1>1, FirstCallOf DEF TypeOK, Calls
  <1>5. \A q \in Procs \ {p} : pc'[q] = pc[q] /\ req'[q] = req[q] /\ touched'[q] = touched[q]
    BY <1>1, <1>2 DEF TypeOK
  <1>6. \A q \in Procs : pc'[q] \in CallsOf(req'[q].op)
    BY <1>3, <1>4, <1>5, FirstCallOf DEF TypeOK
  <1>7. errs[p] = << >>
    BY <1>2 DEF TypeOK
  <1>8. /\ pc'[p] # "idle"
        /\ pc'[p] \in {"delBucket", "delStat", "delRm"} => Len(errs'[p]) < Len(req'[p].objects)
    <2>1. pc'[p] \in {"delBucket", "delStat", "delRm"} => r.objects \in Seq(Objects) /\ r.objects # << >>
      BY <1>4, FirstCallOf
    <2>2. QED BY <1>2, <1>3, <1>4, <1>7, <2>1, FirstCallOf
  <1>9. /\ before' \in [Procs -> Trees] /\ touched' \in [Procs -> BOOLEAN]
    BY <1>2 DEF TypeOK
  <1>10. TypeOK'
    BY <1>2, <1>3, <1>4, <1>5, <1>6, <1>8, <1>9 DEF TypeOK
  <1>11. \A q \in Procs \ {p} : CheckCurrent(q)'
    BY <1>2, <1>5, QuietCurrent
  <1>12. CheckCurrent(p)'
    BY <1>4, FirstCallOf DEF CheckCurrent
  <1>13. QED BY <1>2, <1>10, <1>11, <1>12 DEF ChecksCurrent, TreeOK

\* A response was read: the goroutine is free again.
LEMMA ReturnInv ==
  ASSUME ObjectsInv, NEW p \in Procs, Return(p)
  PROVE  ObjectsInv'
  <1> USE DEF ObjectsInv
  <1>1. /\ pc' = [pc EXCEPT ![p] = "idle"]
        /\ req' = [req EXCEPT ![p] = NoRequest]
        /\ info' = [info EXCEPT ![p] = NoNode]
        /\ errs' = [errs EXCEPT ![p] = << >>]
        /\ reply' = [reply EXCEPT ![p] = Response("none", << >>)]
        /\ before' = [before EXCEPT ![p] = [b \in Buckets |-> NoNode]]
        /\ touched' = [touched EXCEPT ![p] = FALSE]
        /\ tree' = tree
    BY DEF Return
  <1>2. /\ pc' \in [Procs -> Calls] /\ req' \in [Procs -> Requests \cup {NoRequest}]
        /\ info' \in [Procs -> Nodes] /\ errs' \in [Procs -> Seq(DeleteErrors)]
        /\ touched' \in [Procs -> BOOLEAN]
    BY <1>1 DEF TypeOK, Calls, Nodes
  <1>3. reply' \in [Procs -> [code : Codes, body : Nodes]]
    BY <1>1 DEF TypeOK, Response, Codes, Nodes
  <1>4. before' \in [Procs -> Trees]
    BY <1>1 DEF TypeOK, Trees
  <1>5. pc'[p] = "idle" /\ req'[p] = NoRequest /\ errs'[p] = << >>
    BY <1>1 DEF TypeOK
  <1>6. \A q \in Procs \ {p} : /\ pc'[q] = pc[q] /\ req'[q] = req[q] /\ info'[q] = info[q]
                                /\ errs'[q] = errs[q] /\ touched'[q] = touched[q]
    BY <1>1 DEF TypeOK
  <1>7. "idle" \in CallsOf(NoRequest.op)
    BY DEF CallsOf, NoRequest
  <1>8. TypeOK'
    BY <1>1, <1>2, <1>3, <1>4, <1>5, <1>6, <1>7 DEF TypeOK
  <1>9. \A q \in Procs \ {p} : CheckCurrent(q)'
    BY <1>1, <1>6, QuietCurrent
  <1>10. CheckCurrent(p)'
    BY <1>5 DEF CheckCurrent
  <1>11. QED BY <1>1, <1>8, <1>9, <1>10 DEF ChecksCurrent, TreeOK

\* MakeBucketWithLocation keeps the invariant.
LEMMA MakeBucketInv ==
  ASSUME ObjectsInv, NEW p \in Procs, MakeBucket(p)
  PROVE  ObjectsInv'
  <1>1. pc[p] = "mkdir" /\ req[p].bucket \in Buckets
    BY RequestAt, RequestFields DEF MakeBucket, ObjectsInv
  <1>2. errs' = errs /\ info' = info
    BY DEF MakeBucket
  <1>3. CASE tree[req[p].bucket] = NoNode
    <2>1. Write(p, FilesMkdir(tree, req[p].bucket)) /\ Respond(p, "ok", << >>)
      BY <1>3 DEF MakeBucket
    <2>2. TreeStep(p)
      BY <1>1, <2>1, MkdirTree DEF TreeStep, ObjectsInv, TypeOK, TreeOK
    <2>3. QED BY <1>1, <1>2, <2>1, <2>2, ResponseTypes, ErrsKept, RespondInv
  <1>4. CASE tree[req[p].bucket] # NoNode
    <2>1. NoWrite /\ Respond(p, ToAPIErr("BucketAlreadyExists"), << >>)
      BY <1>4 DEF MakeBucket
    <2>2. QED BY <1>1, <1>2, <2>1, ResponseTypes, ErrsKept, RespondInv DEF TreeStep
  <1>5. QED BY <1>3, <1>4


\* DeleteBucket keeps the invariant: what FilesStat found is there at FilesRm.
LEMMA DeleteBucketInv ==
  ASSUME ObjectsInv, NEW p \in Procs, DeleteBucketStat(p) \/ DeleteBucketRm(p)
  PROVE  ObjectsInv'
  <1>1. CASE DeleteBucketStat(p) /\ tree[req[p].bucket] = NoNode
    <2>1. /\ Respond(p, ToAPIErr("BucketNotFound"), << >>) /\ NoWrite
          /\ errs' = errs /\ info' = info /\ pc[p] = "rbStat"
      BY <1>1 DEF DeleteBucketStat
    <2>2. QED BY <2>1, ResponseTypes, ErrsKept, RespondInv DEF TreeStep
  <1>2. CASE DeleteBucketStat(p) /\ tree[req[p].bucket] # NoNode
    <2>1. /\ Goto(p, "rbRm") /\ NoWrite
          /\ errs' = errs /\ info' = info /\ pc[p] = "rbStat"
      BY <1>2 DEF DeleteBucketStat
    <2>2. "rbRm" \in CallsOf(req[p].op) /\ "rbRm" \in Calls \ {"idle"}
      BY <2>1, RequestAt DEF CallsOf, Calls, ObjectsInv
    <2>3. pc'[p] = "rbRm" /\ req' = req /\ tree' = tree
      BY <2>1, <2>2, GotoStep DEF ObjectsInv, NoWrite
    <2>4. CheckCurrent(p)'
      BY <1>2, <2>3 DEF CheckCurrent
    <2>5. QED BY <2>1, <2>2, <2>4, ErrsKept, GotoInv DEF TreeStep
  <1>3. CASE DeleteBucketRm(p)
    <2>1. /\ Write(p, FilesRmBucket(tree, req[p].bucket)) /\ Respond(p, "ok", << >>)
          /\ errs' = errs /\ info' = info /\ pc[p] = "rbRm"
      BY <1>3 DEF DeleteBucketRm
    <2>2. req[p].bucket \in Buckets
      BY <2>1, RequestAt, RequestFields DEF ObjectsInv
    <2>3. TreeStep(p)
      BY <2>1, <2>2, RmBucketTree DEF TreeStep, ObjectsInv, TypeOK, TreeOK
    <2>4. QED BY <2>1, <2>3, ResponseTypes, ErrsKept, RespondInv
  <1>4. QED BY <1>1, <1>2, <1>3

\* PutObject's check of the bucket keeps the invariant.
LEMMA PutObjectStatInv ==
  ASSUME ObjectsInv, NEW p \in Procs, PutObjectStat(p)
  PROVE  ObjectsInv'
  <1>1. NoWrite /\ errs' = errs /\ info' = info /\ pc[p] = "putStat"
    BY DEF PutObjectStat
  <1>2. CASE tree[req[p].bucket] = NoNode
    <2>1. Respond(p, ToAPIErr("BucketNotFound"), << >>)
      BY <1>2 DEF PutObjectStat
    <2>2. QED BY <1>1, <2>1, ResponseTypes, ErrsKept, RespondInv DEF TreeStep
  <1>3. CASE tree[req[p].bucket] # NoNode
    <2>1. Goto(p, "putWrite")
      BY <1>3 DEF PutObjectStat
    <2>2. "putWrite" \in CallsOf(req[p].op) /\ "putWrite" \in Calls \ {"idle"}
      BY <1>1, RequestAt DEF CallsOf, Calls, ObjectsInv
    <2>3. pc'[p] = "putWrite" /\ req' = req /\ tree' = tree
      BY <1>1, <2>1, <2>2, GotoStep DEF ObjectsInv, NoWrite
    <2>4. CheckCurrent(p)'
      BY <1>3, <2>3 DEF CheckCurrent
    <2>5. QED BY <1>1, <2>1, <2>2, <2>4, ErrsKept, GotoInv DEF TreeStep
  <1>4. QED BY <1>2, <1>3

\* The request of an upload, and the parts of its data.
LEMMA UploadRequest ==
  ASSUME TypeOK, NEW p \in Procs, pc[p] \in {"putWrite", "putEtag"}
  PROVE  /\ req[p].bucket \in Buckets /\ req[p].object \in Objects
         /\ req[p].data \in Seq(Nat)
         /\ \A n \in 0 .. Len(req[p].data) : SubSeq(req[p].data, 1, n) \in Seq(Nat)
  <1>1. /\ req[p].bucket \in Buckets /\ req[p].object \in Objects
        /\ req[p].data \in Seq(Nat)
    BY RequestAt, RequestFields
  <1>2. QED BY <1>1

\* FilesWrite, whole or cut short, keeps the invariant.
LEMMA PutObjectWriteInv ==
  ASSUME ObjectsInv, NEW p \in Procs, PutObjectWrite(p) \/ PutObjectStreamFails(p)
  PROVE  ObjectsInv'
  <1> DEFINE r == req[p]
  <1>1. errs' = errs /\ info' = info /\ pc[p] = "putWrite"
    BY DEF PutObjectWrite, PutObjectStreamFails
  <1>2. /\ r.bucket \in Buckets /\ r.object \in Objects /\ r.data \in Seq(Nat)
        /\ \A n \in 0 .. Len(r.data) : SubSeq(r.data, 1, n) \in Seq(Nat)
    BY <1>1, UploadRequest DEF ObjectsInv
  <1>3. ASSUME NEW d \in Seq(Nat), CanWrite(tree, r.bucket, r.object),
               Write(p, FilesWrite(tree, r.bucket, r.object, d))
        PROVE  TreeStep(p)
    BY <1>2, <1>3, WriteTree DEF TreeStep, ObjectsInv, TypeOK, TreeOK
  <1>4. CASE PutObjectStreamFails(p)
    <2>1. PICK n \in 0 .. Len(r.data) :
            Write(p, FilesWrite(tree, r.bucket, r.object, SubSeq(r.data, 1, n)))
      BY <1>4 DEF PutObjectStreamFails
    <2>2. CanWrite(tree, r.bucket, r.object) /\ Respond(p, ToAPIErr("other error"), << >>)
      BY <1>4 DEF PutObjectStreamFails
    <2>3. TreeStep(p)
      BY <1>2, <1>3, <2>1, <2>2
    <2>4. QED BY <1>1, <2>2, <2>3, ResponseTypes, ErrsKept, RespondInv
  <1>5. CASE PutObjectWrite(p) /\ CanWrite(tree, r.bucket, r.object)
    <2>1. Write(p, FilesWrite(tree, r.bucket, r.object, r.data)) /\ Goto(p, "putEtag")
      BY <1>5 DEF PutObjectWrite
    <2>2. "putEtag" \in CallsOf(req[p].op) /\ "putEtag" \in Calls \ {"idle"}
      BY <1>1, RequestAt DEF CallsOf, Calls, ObjectsInv
    <2>3. pc'[p] = "putEtag"
      BY <2>1, <2>2, GotoStep DEF ObjectsInv
    <2>4. CheckCurrent(p)'
      BY <2>3 DEF CheckCurrent
    <2>5. TreeStep(p)
      BY <1>2, <1>3, <1>5, <2>1
    <2>6. QED BY <1>1, <2>1, <2>2, <2>4, <2>5, ErrsKept, GotoInv
  <1>6. CASE PutObjectWrite(p) /\ ~CanWrite(tree, r.bucket, r.object)
    <2>1. NoWrite /\ Respond(p, ToAPIErr("other error"), << >>)
      BY <1>6 DEF PutObjectWrite
    <2>2. QED BY <1>1, <2>1, ResponseTypes, ErrsKept, RespondInv DEF TreeStep
  <1>7. QED BY <1>4, <1>5, <1>6

\* The ETag of an upload is of whatever node is there.
LEMMA PutObjectEtagInv ==
  ASSUME ObjectsInv, NEW p \in Procs, PutObjectEtag(p)
  PROVE  ObjectsInv'
  <1> DEFINE r == req[p]
             s == FilesStat(tree, r.bucket, r.object)
  <1>1. NoWrite /\ errs' = errs /\ info' = info /\ pc[p] = "putEtag"
    BY DEF PutObjectEtag
  <1>2. Lookup(tree, r.bucket, r.object) \in Nodes
    BY <1>1, UploadRequest, LookupType DEF ObjectsInv, TypeOK
  <1>3. \/ Respond(p, "ok", Lookup(tree, r.bucket, r.object))
        \/ Respond(p, ToAPIErr(ObjectError(s)), << >>)
    BY DEF PutObjectEtag
  <1>4. QED BY <1>1, <1>2, <1>3, ResponseTypes, ErrsKept, RespondInv DEF TreeStep


\* FilesStat finds a node exactly where Lookup has one, unless a path above it
\* is a file.
LEMMA StatFinds ==
  ASSUME NEW t, NEW b, NEW o, FilesStat(t, b, o) = "ok"
  PROVE  Lookup(t, b, o) # NoNode
  BY DEF FilesStat

\* GetObjectNInfo keeps the invariant: info is the node that FilesStat found.
LEMMA GetObjectStatInv ==
  ASSUME ObjectsInv, NEW p \in Procs, GetObjectStat(p)
  PROVE  ObjectsInv'
  <1> DEFINE r == req[p]
             s == FilesStat(tree, r.bucket, r.object)
             n == Lookup(tree, r.bucket, r.object)
  <1>1. NoWrite /\ errs' = errs /\ pc[p] = "getStat"
    BY DEF GetObjectStat
  <1>2. r.bucket \in Buckets /\ r.object \in Objects
    BY <1>1, RequestAt, RequestFields DEF ObjectsInv
  <1>3. \/ \E e : Respond(p, ToAPIErr(e), << >>) /\ info' = info
        \/ s = "ok" /\ Goto(p, "getBucket") /\ info' = [info EXCEPT ![p] = n]
    BY DEF GetObjectStat
  <1>4. CASE \E e : Respond(p, ToAPIErr(e), << >>) /\ info' = info
    BY <1>1, <1>4, ResponseTypes, ErrsKept, RespondInv DEF TreeStep
  <1>5. CASE s = "ok" /\ Goto(p, "getBucket") /\ info' = [info EXCEPT ![p] = n]
    <2>1. "getBucket" \in CallsOf(req[p].op) /\ "getBucket" \in Calls
      BY <1>1, RequestAt DEF CallsOf, Calls, ObjectsInv
    <2>2. /\ ControlOK' /\ req' = req /\ pc'[p] = "getBucket"
          /\ \A q \in Procs \ {p} : pc'[q] = pc[q]
      BY <1>5, <2>1, GotoStep DEF ObjectsInv
    <2>3. n \in Nodes /\ n # NoNode
      BY <1>2, <1>5, LookupType, StatFinds DEF ObjectsInv, TypeOK
    <2>4. /\ info' \in [Procs -> Nodes] /\ info'[p] = n
          /\ \A q \in Procs \ {p} : info'[q] = info[q]
      <3> HIDE DEF n
      <3> QED BY <1>5, <2>3 DEF ObjectsInv, TypeOK
    <2>5. tree' = tree
      BY <1>1 DEF NoWrite
    <2>6. CheckCurrent(p)'
      BY <2>2, <2>3, <2>4, <2>5 DEF CheckCurrent, Lookup
    <2>7. LocalStep(p)
      BY <1>1, <2>2, <2>4 DEF LocalStep
    <2>8. QED BY <1>1, <2>2, <2>4, <2>6, <2>7, ErrsKept, StepInv DEF TreeStep
  <1>6. QED BY <1>3, <1>4, <1>5

\* GetObject's check of the bucket keeps the invariant.
LEMMA GetObjectBucketInv ==
  ASSUME ObjectsInv, NEW p \in Procs, GetObjectBucket(p)
  PROVE  ObjectsInv'
  <1>1. NoWrite /\ errs' = errs /\ info' = info /\ pc[p] = "getBucket"
    BY DEF GetObjectBucket
  <1>2. CASE GetObjectFails(p, "BucketNotFound")
    <2>1. \/ Respond(p, ToAPIErr("BucketNotFound"), << >>)
          \/ Respond(p, "Aborted", << >>)
      BY <1>2 DEF GetObjectFails
    <2>2. QED BY <1>1, <2>1, ResponseTypes, ErrsKept, RespondInv DEF TreeStep
  <1>3. CASE Goto(p, "getRead")
    <2>1. "getRead" \in CallsOf(req[p].op) /\ "getRead" \in Calls \ {"idle"}
      BY <1>1, RequestAt DEF CallsOf, Calls, ObjectsInv
    <2>2. pc'[p] = "getRead" /\ req' = req /\ tree' = tree /\ touched' = touched
      BY <1>1, <1>3, <2>1, GotoStep DEF ObjectsInv, NoWrite
    <2>3. CheckCurrent(p)
      BY DEF ObjectsInv, ChecksCurrent
    <2>4. CheckCurrent(p)'
      BY <1>1, <2>2, <2>3 DEF CheckCurrent, Lookup
    <2>5. QED BY <1>1, <1>3, <2>1, <2>4, ErrsKept, GotoInv DEF TreeStep
  <1>4. QED BY <1>2, <1>3 DEF GetObjectBucket

\* A whole object or the first bytes of it are bytes.
LEMMA BodyType ==
  ASSUME NEW c \in Nodes, c # NoNode, c # DirNode
  PROVE  c \in Seq(Nat) /\ \A n \in Nat : n <= Len(c) => SubSeq(c, 1, n) \in Seq(Nat)
  <1>1. c \in Seq(Nat)
    BY DEF Nodes
  <1>2. QED BY <1>1

\* The length that GetObject declares is a number of bytes.
LEMMA DeclaredLength ==
  ASSUME NEW n \in Nodes, NEW range \in {NoRange} \cup (Int \X Nat)
  PROVE  GetLength(range, SizeOf(n)) \in Nat
  <1>1. SizeOf(n) \in Nat
    BY DEF SizeOf, IsFile, Nodes
  <1>2. QED BY <1>1 DEF GetLength

\* GetObject's FilesRead keeps the invariant.
LEMMA GetObjectReadInv ==
  ASSUME ObjectsInv, NEW p \in Procs, GetObjectRead(p)
  PROVE  ObjectsInv'
  <1> DEFINE r == req[p]
             s == FilesRead(tree, r.bucket, r.object)
             c == Lookup(tree, r.bucket, r.object)
             declared == GetLength(r.range, SizeOf(info[p]))
  <1>1. NoWrite /\ errs' = errs /\ info' = info /\ pc[p] = "getRead"
    BY DEF GetObjectRead
  <1>2. /\ r.bucket \in Buckets /\ r.object \in Objects
        /\ r.range \in {NoRange} \cup (Int \X Nat)
    BY <1>1, RequestAt, RequestFields DEF ObjectsInv
  <1>3. declared \in Nat
    BY <1>2, DeclaredLength DEF ObjectsInv, TypeOK
  <1>4. CASE s # "ok"
    <2>1. GetObjectFails(p, ObjectError(s))
      BY <1>4 DEF GetObjectRead
    <2>2. \/ Respond(p, ToAPIErr(ObjectError(s)), << >>)
          \/ Respond(p, "Aborted", << >>)
      BY <2>1 DEF GetObjectFails
    <2>3. QED BY <1>1, <2>2, ResponseTypes, ErrsKept, RespondInv DEF TreeStep
  <1>5. CASE s = "ok"
    <2>1. c \in Nodes /\ c # NoNode /\ c # DirNode
      <3>1. c # DirNode /\ FilesStat(tree, r.bucket, r.object) = "ok"
        BY <1>5 DEF FilesRead
      <3>2. QED BY <1>2, <3>1, LookupType, StatFinds DEF ObjectsInv, TypeOK
    <2>2. c \in Seq(Nat) /\ \A n \in Nat : n <= Len(c) => SubSeq(c, 1, n) \in Seq(Nat)
      BY <2>1, BodyType
    <2>3. \E code \in Codes, body \in Nodes : Respond(p, code, body)
      <3>1. CASE Len(c) <= declared
        <4>1. Respond(p, IF Len(c) = declared THEN "ok" ELSE "Aborted", c)
          BY <1>5, <3>1 DEF GetObjectRead
        <4>2. QED BY <2>1, <4>1, ResponseTypes
      <3>2. CASE ~(Len(c) <= declared)
        <4>1. PICK n \in 0 .. declared :
                Respond(p, IF n = declared THEN "ok" ELSE "Aborted", SubSeq(c, 1, n))
          BY <1>5, <3>2 DEF GetObjectRead
        <4>2. n \in Nat /\ n <= Len(c)
          BY <1>3, <2>2, <3>2
        <4>3. SubSeq(c, 1, n) \in Nodes
          BY <2>2, <4>2 DEF Nodes
        <4>4. QED BY <4>1, <4>3, ResponseTypes
      <3>3. QED BY <3>1, <3>2
    <2>4. QED BY <1>1, <2>3, ErrsKept, RespondInv DEF TreeStep
  <1>6. QED BY <1>4, <1>5

\* The response to a deletion.
LEMMA DeleteResponseTypes ==
  ASSUME NEW r, r.op \in {"DeleteObject", "DeleteObjects", "RemoveObject"}, NEW es
  PROVE  DeleteResponse(r, es).code \in Codes /\ DeleteResponse(r, es).body \in Nodes
  BY ResponseTypes DEF DeleteResponse, Response

\* DeleteObject returns for one object: the next one begins or the request ends.
LEMMA DeleteReturnsInv ==
  ASSUME ObjectsInv, NEW p \in Procs, pc[p] \in {"delBucket", "delStat", "delRm"},
         NEW e \in DeleteErrors, DeleteObjectReturns(p, e), TreeStep(p), info' = info
  PROVE  ObjectsInv'
  <1> DEFINE es == Append(errs[p], e)
             over == \/ Len(es) = Len(req[p].objects)
                     \/ req[p].op = "RemoveObject" /\ e # "ok"
             response == DeleteResponse(req[p], es)
  <1>1. errs[p] \in Seq(DeleteErrors) /\ Len(errs[p]) < Len(req[p].objects)
    BY DEF ObjectsInv, TypeOK
  <1>2. es \in Seq(DeleteErrors) /\ Len(es) = Len(errs[p]) + 1
    BY <1>1
  <1>3. errs' = [errs EXCEPT ![p] = es]
    BY DEF DeleteObjectReturns
  <1> HIDE DEF es
  <1>4. /\ errs' \in [Procs -> Seq(DeleteErrors)] /\ errs'[p] = es
        /\ \A q \in Procs \ {p} : errs'[q] = errs[q]
    BY <1>2, <1>3 DEF ObjectsInv, TypeOK
  <1>5. CASE over
    <2>1. Respond(p, response.code, response.body)
      BY <1>5 DEF DeleteObjectReturns, es
    <2>2. response.code \in Codes /\ response.body \in Nodes
      BY RequestAt, DeleteResponseTypes DEF ObjectsInv
    <2>3. QED BY <1>4, <2>1, <2>2, RespondInv
  <1>6. CASE ~over
    <2>1. Goto(p, "delBucket")
      BY <1>6 DEF DeleteObjectReturns, es
    <2>2. "delBucket" \in CallsOf(req[p].op) /\ "delBucket" \in Calls \ {"idle"}
      BY RequestAt DEF CallsOf, Calls, ObjectsInv
    <2>3. req[p].objects \in Seq(Objects)
      BY RequestAt, RequestFields DEF ObjectsInv
    <2>4. Len(errs'[p]) < Len(req[p].objects)
      BY <1>1, <1>2, <1>4, <1>6, <2>3
    <2>5. pc'[p] = "delBucket"
      BY <2>1, <2>2, GotoStep DEF ObjectsInv
    <2>6. CheckCurrent(p)'
      BY <2>5 DEF CheckCurrent
    <2>7. QED BY <1>4, <2>1, <2>2, <2>4, <2>6, GotoInv
  <1>7. QED BY <1>5, <1>6

\* The errors of FilesStat as deletions report them.
LEMMA DeleteErrorTypes ==
  ASSUME NEW t, NEW b, NEW o, FilesStat(t, b, o) # "ok"
  PROVE  ObjectError(FilesStat(t, b, o)) \in DeleteErrors
  BY DEF FilesStat, ObjectError, DeleteErrors

\* A deletion goes on to its next call for the same object.
LEMMA DeleteGotoInv ==
  ASSUME ObjectsInv, NEW p \in Procs, pc[p] \in {"delBucket", "delStat"},
         NEW call \in {"delStat", "delRm"}, Goto(p, call), NoWrite, errs' = errs, info' = info,
         call = "delRm" => LET n == Lookup(tree, req[p].bucket, DeleteObjectName(p)) IN
             /\ n # NoNode
             /\ IsFile(n) \/ NoBlocks(tree, req[p].bucket, DeleteObjectName(p))
  PROVE  ObjectsInv'
  <1>1. call \in CallsOf(req[p].op) /\ call \in Calls \ {"idle"}
    BY RequestAt DEF CallsOf, Calls, ObjectsInv
  <1>2. pc'[p] = call /\ req' = req /\ tree' = tree
    BY <1>1, GotoStep DEF ObjectsInv, NoWrite
  <1>3. Len(errs'[p]) < Len(req[p].objects)
    BY DEF ObjectsInv, TypeOK
  <1>4. DeleteObjectName(p)' = DeleteObjectName(p)
    BY <1>2 DEF DeleteObjectName
  <1>5. CheckCurrent(p)'
    BY <1>2, <1>4 DEF CheckCurrent, Lookup, NoBlocks
  <1>6. QED BY <1>1, <1>3, <1>5, ErrsKept, GotoInv DEF TreeStep

\* DeleteObject keeps the invariant, in each of its calls.
LEMMA DeleteObjectInv ==
  ASSUME ObjectsInv, NEW p \in Procs,
         DeleteObjectBucket(p) \/ DeleteObjectStat(p) \/ DeleteObjectRm(p)
  PROVE  ObjectsInv'
  <1> DEFINE b == req[p].bucket
             o == DeleteObjectName(p)
             s == FilesStat(tree, b, o)
  <1>1. info' = info /\ pc[p] \in {"delBucket", "delStat", "delRm"}
    BY DEF DeleteObjectBucket, DeleteObjectStat, DeleteObjectRm
  <1>2. b \in Buckets /\ o \in Objects
    BY <1>1, RequestAt, RequestFields, DeleteName DEF ObjectsInv
  <1>3. {"ok", "BucketNotFound", "ObjectNotFound", "other error"} \subseteq DeleteErrors
    BY DEF DeleteErrors
  <1>4. CASE DeleteObjectBucket(p)
    <2>1. NoWrite /\ pc[p] = "delBucket"
      BY <1>4 DEF DeleteObjectBucket
    <2>2. \/ DeleteObjectReturns(p, "BucketNotFound")
          \/ Goto(p, "delStat") /\ errs' = errs
      BY <1>4 DEF DeleteObjectBucket
    <2>3. QED BY <1>1, <1>3, <2>1, <2>2, DeleteReturnsInv, DeleteGotoInv DEF TreeStep
  <1>5. CASE DeleteObjectStat(p)
    <2>1. NoWrite /\ pc[p] = "delStat"
      BY <1>5 DEF DeleteObjectStat
    <2>2. CASE s # "ok"
      <3>1. DeleteObjectReturns(p, ObjectError(s))
        BY <1>5, <2>2 DEF DeleteObjectStat
      <3>2. ObjectError(s) \in DeleteErrors
        BY <2>2, DeleteErrorTypes
      <3>3. QED BY <1>1, <2>1, <3>1, <3>2, DeleteReturnsInv DEF TreeStep
    <2>3. CASE s = "ok" /\ Lookup(tree, b, o) = DirNode /\ ~NoBlocks(tree, b, o)
      <3>1. DeleteObjectReturns(p, "ok")
        BY <1>5, <2>3 DEF DeleteObjectStat
      <3>2. QED BY <1>1, <1>3, <2>1, <3>1, DeleteReturnsInv DEF TreeStep
    <2>4. CASE s = "ok" /\ ~(Lookup(tree, b, o) = DirNode /\ ~NoBlocks(tree, b, o))
      <3>1. Goto(p, "delRm") /\ errs' = errs
        BY <1>5, <2>4 DEF DeleteObjectStat
      <3>2. Lookup(tree, b, o) # NoNode
        BY <2>4, StatFinds
      <3>3. IsFile(Lookup(tree, b, o)) \/ NoBlocks(tree, b, o)
        BY <2>4, <3>2 DEF IsFile
      <3>4. QED BY <1>1, <2>1, <3>1, <3>2, <3>3, DeleteGotoInv
    <2>5. QED BY <2>2, <2>3, <2>4
  <1>6. CASE DeleteObjectRm(p) /\ CanRm(tree, b, o)
    <2>1. Write(p, FilesRm(tree, b, o)) /\ DeleteObjectReturns(p, "ok")
      BY <1>6 DEF DeleteObjectRm
    <2>2. TreeStep(p)
      BY <1>2, <1>6, <2>1, RmTree DEF TreeStep, ObjectsInv, TypeOK, TreeOK
    <2>3. QED BY <1>1, <1>3, <2>1, <2>2, DeleteReturnsInv
  <1>7. CASE DeleteObjectRm(p) /\ ~CanRm(tree, b, o)
    <2>1. NoWrite /\ \E e \in {"other error", "ObjectNotFound"} : DeleteObjectReturns(p, e)
      BY <1>7 DEF DeleteObjectRm
    <2>2. QED BY <1>1, <1>3, <2>1, DeleteReturnsInv DEF TreeStep
  <1>8. QED BY <1>4, <1>5, <1>6, <1>7

-----------------------------------------------------------------------------
(* The theorems *)

\* ObjectsInv is inductive.
LEMMA NextInv == ObjectsInv /\ [Next]_vars => ObjectsInv'
  <1> SUFFICES ASSUME ObjectsInv, [Next]_vars PROVE ObjectsInv'
    OBVIOUS
  <1>1. CASE UNCHANGED vars
    BY <1>1, SMTT(60) DEF vars, ObjectsInv, TypeOK, TreeOK, IsTree, ChecksCurrent, CheckCurrent,
                DeleteObjectName, Lookup, NoBlocks, IsFile
  <1>2. ASSUME NEW p \in Procs, Begin(p) \/ Return(p) \/ Step(p)
        PROVE  ObjectsInv'
    BY <1>2, BeginInv, ReturnInv, MakeBucketInv, DeleteBucketInv, PutObjectStatInv,
       PutObjectWriteInv, PutObjectEtagInv, GetObjectStatInv, GetObjectBucketInv,
       GetObjectReadInv, DeleteObjectInv DEF Step
  <1>3. QED BY <1>1, <1>2 DEF Next

\* Whatever requests do at the same time, the MFS stays a tree, and a request
\* acts on what it found unless another one changed the tree since.
THEOREM ObjectsInvariant == Spec => []ObjectsInv
  <1>1. Init => ObjectsInv
    BY InitInv
  <1>2. ObjectsInv /\ [Next]_vars => ObjectsInv'
    BY NextInv
  <1>3. QED BY <1>1, <1>2, PTL DEF Spec


\* TypeOK, for every value of the constants.
THEOREM TypeCorrect == Spec => []TypeOK
  <1>1. ObjectsInv => TypeOK
    BY DEF ObjectsInv
  <1>2. QED BY <1>1, ObjectsInvariant, PTL

\* The steps that change the tree, and how.
LEMMA TreeChanges ==
  ASSUME ObjectsInv, NEW p \in Procs, Begin(p) \/ Return(p) \/ Step(p), tree' # tree
  PROVE  LET b == req[p].bucket IN
         /\ b \in Buckets /\ req[p].op # "none"
         /\ \/ pc[p] = "mkdir" /\ tree[b] = NoNode /\ tree' = FilesMkdir(tree, b)
            \/ pc[p] = "rbRm" /\ tree' = FilesRmBucket(tree, b)
            \/ /\ pc[p] = "putWrite" /\ req[p].object \in Objects
               /\ CanWrite(tree, b, req[p].object)
               /\ \E d \in Seq(Nat) : tree' = FilesWrite(tree, b, req[p].object, d)
            \/ /\ pc[p] = "delRm" /\ DeleteObjectName(p) \in Objects
               /\ CanRm(tree, b, DeleteObjectName(p))
               /\ tree' = FilesRm(tree, b, DeleteObjectName(p))
  <1> DEFINE b == req[p].bucket
  <1>1. MakeBucket(p) \/ DeleteBucketRm(p) \/ PutObjectWrite(p) \/ PutObjectStreamFails(p)
          \/ DeleteObjectRm(p)
    BY DEF Begin, Return, Step, NoWrite, DeleteBucketStat, PutObjectStat, PutObjectEtag,
           GetObjectStat, GetObjectBucket, GetObjectRead, DeleteObjectBucket, DeleteObjectStat
  <1>2. pc[p] \in {"mkdir", "rbRm", "putWrite", "delRm"}
    BY <1>1 DEF MakeBucket, DeleteBucketRm, PutObjectWrite, PutObjectStreamFails, DeleteObjectRm
  <1>3. b \in Buckets /\ req[p].op # "none"
    BY <1>2, RequestAt, RequestFields DEF ObjectsInv
  <1>4. CASE MakeBucket(p)
    BY <1>3, <1>4 DEF MakeBucket, Write, NoWrite
  <1>5. CASE DeleteBucketRm(p)
    BY <1>3, <1>5 DEF DeleteBucketRm, Write
  <1>6. CASE PutObjectWrite(p) \/ PutObjectStreamFails(p)
    <2>1. pc[p] = "putWrite"
      BY <1>6 DEF PutObjectWrite, PutObjectStreamFails
    <2>2. /\ req[p].object \in Objects /\ req[p].data \in Seq(Nat)
          /\ \A n \in 0 .. Len(req[p].data) : SubSeq(req[p].data, 1, n) \in Seq(Nat)
      BY <2>1, UploadRequest DEF ObjectsInv
    <2>3. CanWrite(tree, b, req[p].object)
      BY <1>6 DEF PutObjectWrite, PutObjectStreamFails, NoWrite
    <2>4. CASE PutObjectWrite(p)
      BY <1>3, <2>1, <2>2, <2>3, <2>4 DEF PutObjectWrite, Write, NoWrite
    <2>5. CASE PutObjectStreamFails(p)
      BY <1>3, <2>1, <2>2, <2>3, <2>5 DEF PutObjectStreamFails, Write, NoWrite
    <2>6. QED BY <1>6, <2>4, <2>5
  <1>7. CASE DeleteObjectRm(p)
    <2>1. pc[p] = "delRm"
      BY <1>7 DEF DeleteObjectRm
    <2>2. DeleteObjectName(p) \in Objects
      BY <2>1, DeleteName DEF ObjectsInv
    <2>3. QED BY <1>3, <1>7, <2>1, <2>2 DEF DeleteObjectRm, Write, NoWrite
  <1>8. QED BY <1>1, <1>4, <1>5, <1>6, <1>7

\* FilesRm inside a bucket does not make a bucket.
LEMMA BucketMadeStep ==
  ASSUME ObjectsInv, NEW p \in Procs, Begin(p) \/ Return(p) \/ Step(p), tree' # tree
  PROVE  BucketMade
  <1> DEFINE c == req[p].bucket
  <1>1. c \in Buckets /\ req[p].op # "none" /\ tree \in Trees
    BY TreeChanges DEF ObjectsInv, TypeOK
  <1> SUFFICES ASSUME NEW b \in Buckets, tree[b] = NoNode, tree'[b] # NoNode
               PROVE  /\ req[p].op # "none" /\ req[p].bucket = b
                      /\ pc[p] = "mkdir" \/ (pc[p] = "putWrite" /\ touched[p])
    BY DEF BucketMade
  <1>2. b = c
    BY <1>1, TreeChanges DEF Trees, FilesMkdir, FilesRmBucket, FilesWrite, FilesRm
  <1>3. pc[p] \in {"mkdir", "putWrite"}
    BY <1>1, <1>2, TreeChanges DEF Trees, FilesRmBucket, CanRm
  <1>4. CASE pc[p] = "putWrite"
    <2>1. CheckCurrent(p)
      BY DEF ObjectsInv, ChecksCurrent
    <2>2. touched[p]
      BY <1>2, <1>4, <2>1 DEF CheckCurrent
    <2>3. QED BY <1>1, <1>2, <1>4, <2>2
  <1>5. CASE pc[p] = "mkdir"
    BY <1>1, <1>2, <1>5
  <1>6. QED BY <1>3, <1>4, <1>5

\* Only MakeBucket, or an upload that another request overtook, makes a bucket.
THEOREM BucketsMadeKnowingly == Spec => BucketMadeKnowingly
  <1>1. ObjectsInv /\ [Next]_vars => [BucketMade]_vars
    <2> SUFFICES ASSUME ObjectsInv, Next PROVE BucketMade
      OBVIOUS
    <2>1. PICK p \in Procs : Begin(p) \/ Return(p) \/ Step(p)
      BY DEF Next
    <2>2. CASE tree' = tree
      BY <2>2 DEF BucketMade
    <2>3. CASE tree' # tree
      BY <2>1, <2>3, BucketMadeStep
    <2>4. QED BY <2>2, <2>3
  <1>2. QED BY <1>1, ObjectsInvariant, PTL DEF Spec, BucketMadeKnowingly

\* What a deletion or an upload does to the files of its bucket.
LEMMA LostByDeleteStep ==
  ASSUME ObjectsInv, NEW p \in Procs, Begin(p) \/ Return(p) \/ Step(p), tree' # tree
  PROVE  LostByDelete
  <1> DEFINE c == req[p].bucket
  <1>1. c \in Buckets /\ req[p].op # "none" /\ tree \in Trees /\ IsTree(tree)
    BY TreeChanges DEF ObjectsInv, TypeOK, TreeOK
  <1> SUFFICES ASSUME NEW b \in Buckets, NEW o \in Objects,
                      IsFile(Lookup(tree, b, o)), ~IsFile(Lookup(tree', b, o))
               PROVE  /\ req[p].op # "none" /\ req[p].bucket = b
                      /\ \/ pc[p] = "rbRm"
                         \/ pc[p] = "delRm" /\ DeleteObjectName(p) = o
                         \/ /\ pc[p] = "delRm" /\ DeleteObjectName(p) \in Ancestors[o]
                            /\ touched[p]
    BY DEF LostByDelete
  <1>2. b = c
    BY <1>1, TreeChanges, ZenonT(60) DEF Trees, FilesMkdir, FilesRmBucket, FilesWrite, FilesRm, Lookup
  <1>3. tree[b] # NoNode /\ tree[b] \in [Objects -> Nodes] /\ IsFile(tree[b][o])
    BY <1>1 DEF Lookup, IsFile, Trees
  <1>4. pc[p] # "mkdir"
    BY <1>2, <1>3, TreeChanges
  <1>5. ASSUME pc[p] = "putWrite" PROVE FALSE
    <2> DEFINE x == req[p].object
    <2>1. PICK d \in Seq(Nat) : tree' = FilesWrite(tree, b, x, d)
      BY <1>2, <1>5, TreeChanges
    <2>2. x \in Objects /\ CanWrite(tree, b, x)
      BY <1>2, <1>5, TreeChanges
    <2>3. /\ tree'[b] # NoNode /\ tree'[b][x] \in Seq(Nat)
          /\ \A y \in Objects : y # x /\ y \notin Ancestors[x] => tree'[b][y] = Lookup(tree, b, y)
      BY <1>1, <2>1, <2>2, WriteTree
    <2>4. CASE o = x
      BY <2>3, <2>4, NodesAssumption DEF Lookup, IsFile
    <2>5. CASE o \in Ancestors[x]
      BY <2>2, <2>5 DEF CanWrite, NotADirectory
    <2>6. CASE o # x /\ o \notin Ancestors[x]
      BY <2>3, <2>6 DEF Lookup
    <2>7. QED BY <2>4, <2>5, <2>6
  <1>6. CASE pc[p] = "delRm"
    <2> DEFINE n == DeleteObjectName(p)
    <2>1. tree' = FilesRm(tree, b, n) /\ n \in Objects
      BY <1>2, <1>6, TreeChanges
    <2>2. o = n \/ n \in Ancestors[o]
      <3> SUFFICES ASSUME o # n, n \notin Ancestors[o] PROVE FALSE
        OBVIOUS
      <3>1. tree'[b] = [x \in Objects |-> IF x = n \/ n \in Ancestors[x] THEN NoNode ELSE tree[b][x]]
        BY <1>1, <2>1 DEF FilesRm, Trees
      <3>2. tree'[b] \in [Objects -> Nodes] /\ tree'[b][o] = tree[b][o]
        BY <1>3, <3>1 DEF Nodes
      <3>3. QED BY <1>3, <3>2, NodesAssumption DEF Lookup
    <2>3. ASSUME n \in Ancestors[o], ~touched[p] PROVE FALSE
      <3>1. CheckCurrent(p)
        BY DEF ObjectsInv, ChecksCurrent
      <3>2. IsFile(Lookup(tree, b, n)) \/ NoBlocks(tree, b, n)
        BY <1>2, <1>6, <2>3, <3>1 DEF CheckCurrent
      <3>3. Lookup(tree, b, n) = DirNode
        BY <1>3, <2>3 DEF IsTree, IsFile, Lookup, TreeOK, ObjectsInv
      <3>4. Lookup(tree, b, o) = NoNode
        BY <2>3, <3>2, <3>3 DEF NoBlocks, IsFile
      <3>5. QED BY <3>4 DEF IsFile
    <2>4. QED BY <1>1, <1>2, <1>6, <2>2, <2>3
  <1>7. CASE pc[p] = "rbRm"
    BY <1>1, <1>2, <1>7
  <1>8. QED BY <1>4, <1>5, <1>6, <1>7, TreeChanges

\* No file is lost but to a request that deletes its bucket, names it, or was
\* overtaken while it deleted an empty directory above it.
THEOREM FilesLostOnlyByDelete == Spec => LossOnlyByDelete
  <1>1. ObjectsInv /\ [Next]_vars => [LostByDelete]_vars
    <2> SUFFICES ASSUME ObjectsInv, Next PROVE LostByDelete
      OBVIOUS
    <2>1. PICK p \in Procs : Begin(p) \/ Return(p) \/ Step(p)
      BY DEF Next
    <2>2. CASE tree' = tree
      BY <2>2 DEF LostByDelete
    <2>3. CASE tree' # tree
      BY <2>1, <2>3, LostByDeleteStep
    <2>4. QED BY <2>2, <2>3
  <1>2. QED BY <1>1, ObjectsInvariant, PTL DEF Spec, LossOnlyByDelete

-----------------------------------------------------------------------------
(* What a request that no other request overtook has done so far *)

\* An upload has written its data into a bucket that was there.
Written(r, t1, t2) ==
    LET n == Lookup(t2, r.bucket, r.object) IN
    /\ OthersKept(t1, t2, r.bucket, {r.object})
    /\ t1[r.bucket] # NoNode
    /\ IsFile(n) /\ Len(n) >= Len(r.data) /\ SubSeq(n, 1, Len(r.data)) = r.data

\* A deletion has removed nothing but objects that it has dealt with, none of
\* which is a file any more; it answers "ok" only for what was there.
Dealt(r, t1, t2, es) ==
    /\ \A c \in Buckets \ {r.bucket} : t1[c] = t2[c]
    /\ \A x \in Objects :
          \/ Lookup(t2, r.bucket, x) = Lookup(t1, r.bucket, x)
          \/ /\ Lookup(t2, r.bucket, x) = NoNode
             /\ \E j \in 1 .. Len(es) : r.objects[j] = x
    /\ \A j \in 1 .. Len(es) :
          /\ ~IsFile(Lookup(t2, r.bucket, r.objects[j]))
          /\ es[j] = "ok" => Lookup(t1, r.bucket, r.objects[j]) # NoNode

\* The calls before which a handler has not changed the tree.
NotYetWritten == {"mkdir", "rbStat", "rbRm", "putStat", "putWrite",
                  "getStat", "getBucket", "getRead"}

DoneSoFar(p) ==
    /\ pc[p] \in NotYetWritten => before[p] = tree
    /\ pc[p] = "putEtag" => Written(req[p], before[p], tree)
    /\ pc[p] \in {"delBucket", "delStat", "delRm"} => Dealt(req[p], before[p], tree, errs[p])
    /\ pc[p] = "done" => Contract(req[p], before[p], tree, reply[p], errs[p])

\* The strengthening of UndisturbedKeepContract: what a request that was not
\* overtaken has done at each of its calls.
KeptSoFar == \A p \in Procs : ~touched[p] => DoneSoFar(p)

\* A handler responds, having kept its contract.
LEMMA RespondDone ==
  ASSUME TypeOK, NEW p \in Procs, pc[p] # "idle", NEW code \in Codes, NEW body \in Nodes,
         Respond(p, code, body), before' = before,
         Contract(req[p], before[p], tree', [code |-> code, body |-> body], errs'[p])
  PROVE  DoneSoFar(p)'
  <1>1. req' = req /\ pc'[p] = "done"
    BY RespondStep
  <1>2. reply'[p] = [code |-> code, body |-> body]
    BY DEF Respond, Response, TypeOK
  <1>3. Contract(req[p], before[p], tree', reply[p]', errs[p]')
    BY <1>2
  <1>4. Contract(req[p], before[p], tree, reply[p], errs[p])'
    BY <1>1, <1>3
  <1>5. QED BY <1>1, <1>4 DEF DoneSoFar, NotYetWritten

\* Handlers that go on without having changed the tree.
LEMMA GotoDone ==
  ASSUME TypeOK, NEW p \in Procs, NEW call \in Calls, call \in CallsOf(req[p].op),
         Goto(p, call), call \in NotYetWritten, before' = before, before[p] = tree'
  PROVE  DoneSoFar(p)'
  <1>1. pc'[p] = call
    BY GotoStep
  <1>2. QED BY <1>1 DEF DoneSoFar, NotYetWritten

\* A file is found, whatever is above it: FilesStat has no error for it.
LEMMA StatOfFile ==
  ASSUME NEW t \in Trees, IsTree(t), NEW b \in Buckets, NEW o \in Objects
  PROVE  /\ IsFile(Lookup(t, b, o)) => FilesStat(t, b, o) = "ok" /\ FilesRead(t, b, o) = "ok"
         /\ NotADirectory(t, b, o) => Lookup(t, b, o) = NoNode
         /\ Lookup(t, b, o) # NoNode => CanRm(t, b, o)
  <1>1. Lookup(t, b, o) # NoNode => t[b] # NoNode /\ \A a \in Ancestors[o] : t[b][a] = DirNode
    BY DEF IsTree, Lookup
  <1>2. Lookup(t, b, o) # NoNode => ~NotADirectory(t, b, o)
    BY <1>1 DEF NotADirectory, Lookup, IsFile
  <1>3. Lookup(t, b, o) # NoNode => CanRm(t, b, o)
    BY <1>1 DEF CanRm
  <1>4. QED BY <1>2, <1>3 DEF FilesStat, FilesRead, IsFile

\* MakeBucketWithLocation makes the bucket, or says that it is there.
LEMMA MakeBucketDone ==
  ASSUME ObjectsInv, NEW p \in Procs, DoneSoFar(p), MakeBucket(p)
  PROVE  DoneSoFar(p)'
  <1> DEFINE b == req[p].bucket
  <1>1. /\ pc[p] = "mkdir" /\ req[p] \in Requests /\ req[p].op = "MakeBucket" /\ b \in Buckets
        /\ tree \in Trees /\ before[p] = tree /\ TypeOK
    BY RequestAt, RequestFields DEF MakeBucket, ObjectsInv, TypeOK, DoneSoFar, NotYetWritten
  <1>2. CASE tree[b] = NoNode
    <2>1. Write(p, FilesMkdir(tree, b)) /\ Respond(p, "ok", << >>)
      BY <1>2 DEF MakeBucket
    <2>2. tree' = FilesMkdir(tree, b) /\ before' = before
      BY <2>1 DEF Write
    <2>3. tree'[b] # NoNode /\ \A c \in Buckets \ {b} : tree'[c] = tree[c]
      <3>1. [o \in Objects |-> NoNode] \in [Objects -> Nodes]
        BY DEF Nodes
      <3>2. QED BY <1>1, <2>2, <3>1, NodesAssumption DEF FilesMkdir, Trees
    <2>4. BucketContract(req[p], tree, tree', [code |-> "ok", body |-> << >>])
      BY <1>1, <1>2, <2>3 DEF BucketContract, OthersKept
    <2>5. Contract(req[p], before[p], tree', [code |-> "ok", body |-> << >>], errs'[p])
      BY <1>1, <2>4 DEF Contract
    <2>6. QED BY <1>1, <2>1, <2>2, <2>5, ResponseTypes, RespondDone
  <1>3. CASE tree[b] # NoNode
    <2>1. NoWrite /\ Respond(p, "InternalError", << >>)
      BY <1>3 DEF MakeBucket, ToAPIErr
    <2>2. tree' = tree /\ before' = before
      BY <2>1 DEF NoWrite
    <2>3. BucketContract(req[p], tree, tree', [code |-> "InternalError", body |-> << >>])
      BY <1>1, <1>3, <2>2 DEF BucketContract, OthersKept
    <2>4. Contract(req[p], before[p], tree', [code |-> "InternalError", body |-> << >>], errs'[p])
      BY <1>1, <2>3 DEF Contract
    <2>5. QED BY <1>1, <2>1, <2>2, <2>4, ResponseTypes, RespondDone DEF Codes
  <1>4. QED BY <1>2, <1>3

\* DeleteBucket removes the bucket, or says that it is missing.
LEMMA DeleteBucketDone ==
  ASSUME ObjectsInv, NEW p \in Procs, ~touched[p], DoneSoFar(p),
         DeleteBucketStat(p) \/ DeleteBucketRm(p)
  PROVE  DoneSoFar(p)'
  <1> DEFINE b == req[p].bucket
  <1>1. pc[p] \in {"rbStat", "rbRm"}
    BY DEF DeleteBucketStat, DeleteBucketRm
  <1>2. /\ req[p] \in Requests /\ req[p].op = "DeleteBucket" /\ b \in Buckets
        /\ tree \in Trees /\ before[p] = tree /\ TypeOK
    BY <1>1, RequestAt, RequestFields DEF ObjectsInv, TypeOK, DoneSoFar, NotYetWritten
  <1>3. CASE DeleteBucketStat(p) /\ tree[b] = NoNode
    <2>1. NoWrite /\ Respond(p, "NoSuchBucket", << >>)
      BY <1>3 DEF DeleteBucketStat, ToAPIErr
    <2>2. tree' = tree /\ before' = before
      BY <2>1 DEF NoWrite
    <2>3. BucketContract(req[p], tree, tree', [code |-> "NoSuchBucket", body |-> << >>])
      BY <1>2, <1>3, <2>2 DEF BucketContract, OthersKept
    <2>4. Contract(req[p], before[p], tree', [code |-> "NoSuchBucket", body |-> << >>], errs'[p])
      BY <1>2, <2>3 DEF Contract
    <2>5. QED BY <1>1, <1>2, <2>1, <2>2, <2>4, ResponseTypes, RespondDone
  <1>4. CASE DeleteBucketStat(p) /\ tree[b] # NoNode
    <2>1. NoWrite /\ Goto(p, "rbRm")
      BY <1>4 DEF DeleteBucketStat
    <2>2. "rbRm" \in Calls /\ "rbRm" \in CallsOf(req[p].op) /\ "rbRm" \in NotYetWritten
      BY <1>2 DEF Calls, CallsOf, NotYetWritten
    <2>3. QED BY <1>2, <2>1, <2>2, GotoDone DEF NoWrite
  <1>5. CASE DeleteBucketRm(p)
    <2>1. Write(p, FilesRmBucket(tree, b)) /\ Respond(p, "ok", << >>) /\ pc[p] = "rbRm"
      BY <1>5 DEF DeleteBucketRm
    <2>2. tree' = FilesRmBucket(tree, b) /\ before' = before
      BY <2>1 DEF Write
    <2>3. tree'[b] = NoNode /\ \A c \in Buckets \ {b} : tree'[c] = tree[c]
      BY <1>2, <2>2 DEF FilesRmBucket, Trees
    <2>4. CheckCurrent(p)
      BY DEF ObjectsInv, ChecksCurrent
    <2>5. tree[b] # NoNode
      BY <2>1, <2>4 DEF CheckCurrent
    <2>6. BucketContract(req[p], tree, tree', [code |-> "ok", body |-> << >>])
      BY <1>2, <2>3, <2>5 DEF BucketContract, OthersKept
    <2>7. Contract(req[p], before[p], tree', [code |-> "ok", body |-> << >>], errs'[p])
      BY <1>2, <2>6 DEF Contract
    <2>8. QED BY <1>1, <1>2, <2>1, <2>2, <2>7, ResponseTypes, RespondDone
  <1>6. QED BY <1>3, <1>4, <1>5

\* FilesWrite changes o and the directories above it, which were not there.
LEMMA WriteKeepsOthers ==
  ASSUME NEW t \in Trees, IsTree(t), NEW b \in Buckets, NEW o \in Objects,
         NEW data \in Seq(Nat), CanWrite(t, b, o)
  PROVE  OthersKept(t, FilesWrite(t, b, o, data), b, {o})
  <1> DEFINE u == FilesWrite(t, b, o, data)
  <1>1. /\ \A c \in Buckets : c # b => u[c] = t[c]
        /\ u[b] # NoNode
        /\ \A a \in Ancestors[o] : u[b][a] = DirNode
        /\ \A x \in Objects : x # o /\ x \notin Ancestors[o] => u[b][x] = Lookup(t, b, x)
    BY WriteTree
  <1> HIDE DEF u
  <1>2. ASSUME NEW x \in Objects \ {o}
        PROVE  \/ Lookup(t, b, x) = Lookup(u, b, x)
               \/ Lookup(u, b, x) = DirNode /\ Lookup(t, b, x) = NoNode /\ x \in Ancestors[o]
    <2>1. Lookup(u, b, x) = u[b][x]
      BY <1>1 DEF Lookup
    <2>2. CASE x \in Ancestors[o]
      <3>1. ~IsFile(Lookup(t, b, x))
        BY <2>2 DEF CanWrite, NotADirectory
      <3>2. QED BY <1>1, <2>1, <2>2, <3>1 DEF IsFile
    <2>3. CASE x \notin Ancestors[o]
      BY <1>1, <2>1, <2>3
    <2>4. QED BY <2>2, <2>3
  <1>3. OthersKept(t, u, b, {o})
    BY <1>1, <1>2 DEF OthersKept
  <1>4. QED BY <1>3 DEF u

\* What is written over an old file begins with the data.
LEMMA WrittenFirst ==
  ASSUME NEW t \in Trees, NEW b \in Buckets, NEW o \in Objects, NEW data \in Seq(Nat)
  PROVE  LET n == Lookup(FilesWrite(t, b, o, data), b, o) IN
         /\ n \in Seq(Nat) /\ Len(n) >= Len(data) /\ SubSeq(n, 1, Len(data)) = data
  <1> DEFINE tail == OldTail(Lookup(t, b, o), data)
             n == data \o tail
             f == [x \in Objects |-> IF x = o THEN n
                       ELSE IF x \in Ancestors[o] THEN DirNode ELSE Lookup(t, b, x)]
  <1>1. tail \in Seq(Nat)
    <2>1. CASE IsFile(Lookup(t, b, o)) /\ Len(Lookup(t, b, o)) > Len(data)
      <3>1. PICK old : old = Lookup(t, b, o) OBVIOUS
      <3>2. old \in Seq(Nat)
        BY <2>1, <3>1, LookupType DEF IsFile, Nodes
      <3>3. Len(data) + 1 \in Int /\ Len(data) + 1 >= 1 /\ Len(old) \in Nat
        BY <3>2
      <3>4. SubSeq(old, Len(data) + 1, Len(old)) \in Seq(Nat)
        BY <3>2, <3>3
      <3>5. QED BY <2>1, <3>1, <3>4 DEF OldTail
    <2>2. CASE ~(IsFile(Lookup(t, b, o)) /\ Len(Lookup(t, b, o)) > Len(data))
      BY <2>2 DEF OldTail
    <2>3. QED BY <2>1, <2>2
  <1>2. f \in [Objects -> Nodes] /\ f[o] = n
    BY <1>1, LookupType DEF Nodes
  <1>3. FilesWrite(t, b, o, data) = [t EXCEPT ![b] = f]
    BY DEF FilesWrite
  <1>4. Lookup(FilesWrite(t, b, o, data), b, o) = n
    <2> HIDE DEF f, n
    <2> QED BY <1>2, <1>3, NodesAssumption DEF Lookup, Trees
  <1>5. n \in Seq(Nat) /\ Len(n) >= Len(data) /\ SubSeq(n, 1, Len(data)) = data
    <2> HIDE DEF tail
    <2>1. n \in Seq(Nat) /\ Len(n) = Len(data) + Len(tail)
      BY <1>1
    <2>2. Len(data) \in Nat /\ Len(tail) \in Nat
      BY <1>1
    <2>3. \A i \in 1 .. Len(data) : n[i] = data[i]
      BY <1>1
    <2> HIDE DEF n
    <2>4. SubSeq(n, 1, Len(data)) = [i \in 1 .. Len(data) |-> n[i]]
      BY <2>1, <2>2
    <2>5. data = [i \in 1 .. Len(data) |-> data[i]] OBVIOUS
    <2>6. SubSeq(n, 1, Len(data)) = data
      BY <2>3, <2>4, <2>5
    <2>7. Len(n) >= Len(data)
      BY <2>1, <2>2
    <2>8. QED BY <2>1, <2>6, <2>7
  <1>6. QED BY <1>4, <1>5

\* PutObject stores the data in a bucket that exists, and says what is stored.
LEMMA PutObjectDone ==
  ASSUME ObjectsInv, NEW p \in Procs, ~touched[p], DoneSoFar(p),
         PutObjectStat(p) \/ PutObjectWrite(p) \/ PutObjectStreamFails(p) \/ PutObjectEtag(p)
  PROVE  DoneSoFar(p)'
  <1> DEFINE r == req[p]
             b == req[p].bucket
             o == req[p].object
  <1>1. pc[p] \in {"putStat", "putWrite", "putEtag"}
    BY DEF PutObjectStat, PutObjectWrite, PutObjectStreamFails, PutObjectEtag
  <1>2. /\ r \in Requests /\ r.op = "PutObject" /\ b \in Buckets /\ o \in Objects
        /\ r.data \in Seq(Nat) /\ tree \in Trees /\ IsTree(tree) /\ TypeOK
    BY <1>1, RequestAt, RequestFields DEF ObjectsInv, TypeOK, TreeOK
  <1>3. ASSUME NEW rep, PutContract(r, before[p], tree', rep)
        PROVE  Contract(r, before[p], tree', rep, errs'[p])
    BY <1>2, <1>3 DEF Contract
  <1>4. pc[p] = "putWrite" => before[p] = tree /\ tree[b] # NoNode
    BY DEF DoneSoFar, NotYetWritten, ObjectsInv, ChecksCurrent, CheckCurrent
  <1>5. "InternalError" \in Codes /\ ToAPIErr("other error") = "InternalError"
    BY DEF Codes, ToAPIErr
  <1>6. CASE PutObjectStat(p)
    <2>1. NoWrite /\ pc[p] = "putStat" /\ tree' = tree /\ before' = before
      BY <1>6 DEF PutObjectStat, NoWrite
    <2>2. before[p] = tree
      BY <2>1 DEF DoneSoFar, NotYetWritten
    <2>3. CASE tree[b] = NoNode
      <3>1. Respond(p, "NoSuchBucket", << >>)
        BY <1>6, <2>3 DEF PutObjectStat, ToAPIErr
      <3>2. PutContract(r, before[p], tree', [code |-> "NoSuchBucket", body |-> << >>])
        BY <2>1, <2>2 DEF PutContract, OthersKept
      <3>3. QED BY <1>1, <1>2, <1>3, <2>1, <3>1, <3>2, ResponseTypes, RespondDone
    <2>4. CASE tree[b] # NoNode
      <3>1. Goto(p, "putWrite")
        BY <1>6, <2>4 DEF PutObjectStat
      <3>2. "putWrite" \in Calls /\ "putWrite" \in CallsOf(r.op) /\ "putWrite" \in NotYetWritten
        BY <1>2 DEF Calls, CallsOf, NotYetWritten
      <3>3. QED BY <1>2, <2>1, <2>2, <3>1, <3>2, GotoDone
    <2>5. QED BY <2>3, <2>4
  <1>7. CASE PutObjectWrite(p) /\ CanWrite(tree, b, o)
    <2>1. /\ Write(p, FilesWrite(tree, b, o, r.data)) /\ Goto(p, "putEtag")
          /\ pc[p] = "putWrite"
      BY <1>7 DEF PutObjectWrite
    <2>2. tree' = FilesWrite(tree, b, o, r.data) /\ before' = before
      BY <2>1 DEF Write
    <2>3. OthersKept(tree, tree', b, {o})
      BY <1>2, <1>7, <2>2, WriteKeepsOthers
    <2>4. LET n == Lookup(tree', b, o) IN
          n \in Seq(Nat) /\ Len(n) >= Len(r.data) /\ SubSeq(n, 1, Len(r.data)) = r.data
      BY <1>2, <2>2, WrittenFirst
    <2>5. Written(r, before[p], tree')
      BY <1>4, <2>1, <2>3, <2>4, NodesAssumption DEF Written, IsFile
    <2>6. "putEtag" \in Calls /\ "putEtag" \in CallsOf(r.op)
      BY <1>2 DEF Calls, CallsOf
    <2>7. pc'[p] = "putEtag" /\ req' = req
      BY <1>2, <2>1, <2>6, GotoStep
    <2>8. Written(req[p], before[p], tree)'
      BY <2>2, <2>5, <2>7
    <2>9. QED BY <2>7, <2>8 DEF DoneSoFar, NotYetWritten
  <1>8. CASE PutObjectWrite(p) /\ ~CanWrite(tree, b, o)
    <2>1. /\ tree' = tree /\ before' = before /\ Respond(p, "InternalError", << >>)
          /\ pc[p] = "putWrite"
      BY <1>5, <1>8 DEF PutObjectWrite, NoWrite
    <2>2. PutContract(r, before[p], tree', [code |-> "InternalError", body |-> << >>])
      BY <1>4, <2>1 DEF PutContract, OthersKept
    <2>3. QED BY <1>1, <1>2, <1>3, <1>5, <2>1, <2>2, ResponseTypes, RespondDone
  <1>9. CASE PutObjectStreamFails(p)
    <2>1. PICK k \in 0 .. Len(r.data) : Write(p, FilesWrite(tree, b, o, SubSeq(r.data, 1, k)))
      BY <1>9 DEF PutObjectStreamFails
    <2>2. PICK d : d = SubSeq(r.data, 1, k) OBVIOUS
    <2>3. d \in Seq(Nat)
      BY <1>2, <2>2
    <2>4. /\ CanWrite(tree, b, o) /\ Respond(p, "InternalError", << >>) /\ pc[p] = "putWrite"
      BY <1>5, <1>9 DEF PutObjectStreamFails
    <2>5. tree' = FilesWrite(tree, b, o, d) /\ before' = before
      BY <2>1, <2>2 DEF Write
    <2>6. OthersKept(tree, tree', b, {o})
      BY <1>2, <2>3, <2>4, <2>5, WriteKeepsOthers
    <2>7. PutContract(r, before[p], tree', [code |-> "InternalError", body |-> << >>])
      BY <1>4, <2>4, <2>6 DEF PutContract
    <2>8. QED BY <1>1, <1>2, <1>3, <1>5, <2>4, <2>5, <2>7, ResponseTypes, RespondDone
  <1>10. CASE PutObjectEtag(p)
    <2> DEFINE n == Lookup(tree, b, o)
    <2>1. tree' = tree /\ before' = before /\ pc[p] = "putEtag"
      BY <1>10 DEF PutObjectEtag, NoWrite
    <2>2. Written(r, before[p], tree)
      BY <2>1 DEF DoneSoFar
    <2>3. IsFile(n) /\ n \in Nodes
      BY <1>2, <2>2, LookupType DEF Written
    <2>4. FilesStat(tree, b, o) = "ok"
      BY <1>2, <2>3, StatOfFile
    <2>5. Respond(p, "ok", n)
      BY <1>10, <2>4 DEF PutObjectEtag
    <2>6. PutContract(r, before[p], tree', [code |-> "ok", body |-> n])
      BY <2>1, <2>2 DEF PutContract, Written
    <2>7. Contract(r, before[p], tree', [code |-> "ok", body |-> n], errs'[p])
      BY <1>3, <2>6
    <2>8. QED BY <1>1, <1>2, <2>1, <2>3, <2>5, <2>7, ResponseTypes, RespondDone
  <1>11. QED BY <1>6, <1>7, <1>8, <1>9, <1>10

\* The length that GetObject declares: all of the object, or no more than was
\* asked for.
LEMMA DeclaredBound ==
  ASSUME NEW c \in Seq(Nat), c \in Nodes, NEW range \in {NoRange} \cup (Int \X Nat)
  PROVE  /\ GetLength(range, SizeOf(c)) \in Nat
         /\ range = NoRange => GetLength(range, SizeOf(c)) = Len(c)
         /\ range # NoRange => GetLength(range, SizeOf(c)) <= range[2]
  <1>1. SizeOf(c) = Len(c) /\ Len(c) \in Nat
    BY NodesAssumption DEF SizeOf, IsFile
  <1>2. CASE range = NoRange
    BY <1>1, <1>2 DEF GetLength
  <1>3. CASE range # NoRange
    <2>1. range[1] \in Int /\ range[2] \in Nat
      BY <1>3
    <2>2. QED BY <1>1, <1>3, <2>1 DEF GetLength
  <1>4. QED BY <1>2, <1>3

\* GetObject answers with the bytes of the object and with no more than asked.
LEMMA GetObjectDone ==
  ASSUME ObjectsInv, NEW p \in Procs, ~touched[p], DoneSoFar(p),
         GetObjectStat(p) \/ GetObjectBucket(p) \/ GetObjectRead(p)
  PROVE  DoneSoFar(p)'
  <1> DEFINE r == req[p]
             b == req[p].bucket
             o == req[p].object
             n == Lookup(tree, b, o)
  <1>1. pc[p] \in {"getStat", "getBucket", "getRead"} /\ tree' = tree /\ before' = before
    BY DEF GetObjectStat, GetObjectBucket, GetObjectRead, NoWrite
  <1>2. /\ r \in Requests /\ r.op = "GetObject" /\ b \in Buckets /\ o \in Objects
        /\ r.range \in {NoRange} \cup (Int \X Nat)
        /\ tree \in Trees /\ IsTree(tree) /\ TypeOK
    BY <1>1, RequestAt, RequestFields DEF ObjectsInv, TypeOK, TreeOK
  <1>3. before[p] = tree
    BY <1>1 DEF DoneSoFar, NotYetWritten
  <1>4. pc[p] \in {"getBucket", "getRead"} => info[p] # NoNode /\ info[p] = n
    BY DEF ObjectsInv, ChecksCurrent, CheckCurrent
  <1>5. n \in Nodes
    BY <1>2, LookupType
  <1>6. ASSUME NEW code \in Codes, NEW body \in Nodes, Respond(p, code, body),
               GetContract(r, tree, tree, [code |-> code, body |-> body])
        PROVE  DoneSoFar(p)'
    <2>1. Contract(r, before[p], tree', [code |-> code, body |-> body], errs'[p])
      BY <1>1, <1>2, <1>3, <1>6 DEF Contract
    <2>2. QED BY <1>1, <1>2, <1>6, <2>1, RespondDone
  <1>7. ASSUME ~IsFile(n) \/ r.range # NoRange, NEW code \in Codes, code # "ok",
               Respond(p, code, << >>)
        PROVE  DoneSoFar(p)'
    <2>1. GetContract(r, tree, tree, [code |-> code, body |-> << >>])
      BY <1>7 DEF GetContract
    <2>2. QED BY <1>6, <1>7, <2>1, ResponseTypes
  <1>8. ASSUME NEW e, e # "ok" PROVE ToAPIErr(ObjectError(e)) \in Codes \ {"ok"}
    BY <1>8 DEF ToAPIErr, ObjectError, Codes
  <1>9. \A call \in {"getBucket", "getRead"} :
          call \in Calls /\ call \in CallsOf(r.op) /\ call \in NotYetWritten
    BY <1>2 DEF Calls, CallsOf, NotYetWritten
  <1>10. CASE GetObjectStat(p)
    <2>1. CASE FilesStat(tree, b, o) # "ok"
      <3>1. Respond(p, ToAPIErr(ObjectError(FilesStat(tree, b, o))), << >>)
        BY <1>10, <2>1 DEF GetObjectStat
      <3>2. ~IsFile(n)
        BY <1>2, <2>1, StatOfFile
      <3>3. QED BY <1>7, <1>8, <2>1, <3>1, <3>2
    <2>2. CASE FilesStat(tree, b, o) = "ok" /\ InvalidRange(r.range, SizeOf(n))
      <3>1. Respond(p, "InternalError", << >>)
        BY <1>10, <2>2 DEF GetObjectStat, ToAPIErr
      <3>2. r.range # NoRange
        BY <2>2 DEF InvalidRange
      <3>3. QED BY <1>7, <3>1, <3>2 DEF Codes
    <2>3. CASE FilesStat(tree, b, o) = "ok" /\ ~InvalidRange(r.range, SizeOf(n))
      <3>1. Goto(p, "getBucket")
        BY <1>10, <2>3 DEF GetObjectStat
      <3>2. QED BY <1>1, <1>2, <1>3, <1>9, <3>1, GotoDone
    <2>4. QED BY <2>1, <2>2, <2>3
  <1>11. CASE GetObjectBucket(p)
    <2>1. n # NoNode
      BY <1>4, <1>11 DEF GetObjectBucket
    <2>2. tree[b] # NoNode
      BY <2>1 DEF Lookup
    <2>3. Goto(p, "getRead")
      BY <1>11, <2>2 DEF GetObjectBucket
    <2>4. QED BY <1>1, <1>2, <1>3, <1>9, <2>3, GotoDone
  <1>12. CASE GetObjectRead(p) /\ FilesRead(tree, b, o) # "ok"
    <2>1. ~IsFile(n)
      BY <1>2, <1>12, StatOfFile
    <2>2. GetObjectFails(p, ObjectError(FilesRead(tree, b, o)))
      BY <1>12 DEF GetObjectRead
    <2>3. \/ Respond(p, ToAPIErr(ObjectError(FilesRead(tree, b, o))), << >>)
          \/ Respond(p, "Aborted", << >>)
      BY <2>2 DEF GetObjectFails
    <2>4. "Aborted" \in Codes /\ "Aborted" # "ok"
      BY DEF Codes
    <2>5. QED BY <1>7, <1>8, <1>12, <2>1, <2>3, <2>4
  <1>13. CASE GetObjectRead(p) /\ FilesRead(tree, b, o) = "ok"
    <2> DEFINE declared == GetLength(r.range, SizeOf(info[p]))
    <2>1. info[p] = n
      BY <1>4, <1>13 DEF GetObjectRead
    <2>2. IsFile(n) /\ n \in Seq(Nat)
      BY <1>5, <1>13, StatFinds DEF FilesRead, IsFile, Nodes
    <2>3. /\ declared \in Nat
          /\ r.range = NoRange => declared = Len(n)
          /\ r.range # NoRange => declared <= r.range[2]
      BY <1>2, <1>5, <2>1, <2>2, DeclaredBound
    <2>4. Len(n) \in Nat /\ SubSeq(n, 1, Len(n)) = n
      BY <2>2
    <2>5. "ok" \in Codes /\ "Aborted" \in Codes
      BY DEF Codes
    <2>6. CASE Len(n) <= declared
      <3>1. Respond(p, IF Len(n) = declared THEN "ok" ELSE "Aborted", n)
        BY <1>13, <2>6 DEF GetObjectRead
      <3>2. PICK code \in Codes : code = IF Len(n) = declared THEN "ok" ELSE "Aborted"
        BY <2>5
      <3>3. GetContract(r, tree, tree, [code |-> code, body |-> n])
        <4> HIDE DEF n, declared
        <4>1. /\ r.range = NoRange => code = "ok"
              /\ code = "ok" /\ r.range # NoRange => Len(n) <= r.range[2]
          BY <2>3, <2>4, <2>6, <3>2
        <4>2. QED BY <2>2, <2>4, <4>1 DEF GetContract, n
      <3>4. QED BY <1>5, <1>6, <3>1, <3>2, <3>3
    <2>7. CASE ~(Len(n) <= declared)
      <3>1. PICK k \in 0 .. declared :
              Respond(p, IF k = declared THEN "ok" ELSE "Aborted", SubSeq(n, 1, k))
        BY <1>13, <2>7 DEF GetObjectRead
      <3>2. PICK code \in Codes : code = IF k = declared THEN "ok" ELSE "Aborted"
        BY <2>5
      <3>3. PICK body : body = SubSeq(n, 1, k) OBVIOUS
      <3>4. body \in Seq(Nat) /\ Len(body) = k
        <4>1. PICK c \in Seq(Nat), d \in Nat : c = n /\ d = declared
          BY <2>2, <2>3
        <4>2. k \in 0 .. d /\ ~(Len(c) <= d) /\ body = SubSeq(c, 1, k)
          BY <2>7, <3>1, <3>3, <4>1
        <4>3. QED BY <4>2
      <3>5. body \in Nodes
        BY <3>4 DEF Nodes
      <3>6. GetContract(r, tree, tree, [code |-> code, body |-> body])
        <4>1. r.range # NoRange
          <5>1. declared # Len(n)
            BY <2>7, <2>4
          <5>2. QED BY <2>3, <5>1
        <4>2. code = "ok" => Len(body) <= r.range[2]
          <5> HIDE DEF n, declared
          <5> QED BY <2>3, <3>2, <3>4, <4>1
        <4>3. QED BY <2>2, <3>3, <3>4, <4>1, <4>2 DEF GetContract
      <3>7. QED BY <1>6, <3>1, <3>2, <3>3, <3>5, <3>6
    <2>8. QED BY <2>6, <2>7
  <1>14. QED BY <1>10, <1>11, <1>12, <1>13

\* The deletion of o, the next object of r, ended with e and left tree t3 of t2.
Settled(r, t2, t3, o, e) ==
    /\ \A c \in Buckets \ {r.bucket} : t3[c] = t2[c]
    /\ \A x \in Objects \ {o} : Lookup(t3, r.bucket, x) = Lookup(t2, r.bucket, x)
    /\ Lookup(t3, r.bucket, o) \in {NoNode, Lookup(t2, r.bucket, o)}
    /\ ~IsFile(Lookup(t3, r.bucket, o))
    /\ e = "ok" => Lookup(t2, r.bucket, o) # NoNode
    /\ e = "ObjectNotFound" => Lookup(t2, r.bucket, o) = NoNode

\* One more object has been dealt with.
LEMMA DealtMore ==
  ASSUME NEW r, r.bucket \in Buckets, r.objects \in Seq(Objects),
         NEW t1, NEW t2, NEW t3, NEW es \in Seq(DeleteErrors), NEW e \in DeleteErrors,
         Len(es) < Len(r.objects), Dealt(r, t1, t2, es),
         Settled(r, t2, t3, r.objects[Len(es) + 1], e)
  PROVE  Dealt(r, t1, t3, Append(es, e))
  <1> DEFINE b == r.bucket
             m == Len(es) + 1
             fs == Append(es, e)
  <1>1. PICK o : o = r.objects[m] OBVIOUS
  <1>2. /\ fs \in Seq(DeleteErrors) /\ Len(fs) = m /\ Len(es) \in Nat /\ m \in 1 .. Len(r.objects)
        /\ fs[m] = e /\ \A j \in 1 .. Len(es) : fs[j] = es[j]
    OBVIOUS
  <1>3. /\ o \in Objects /\ \A j \in 1 .. Len(es) : r.objects[j] \in Objects
    BY <1>1, <1>2
  <1>4. 1 .. Len(es) \subseteq 1 .. m /\ m \in 1 .. m /\ \A j \in 1 .. m : j \in 1 .. Len(es) \/ j = m
    BY <1>2
  <1> HIDE DEF fs, m
  <1>5. \A c \in Buckets \ {b} : t1[c] = t3[c]
    BY DEF Dealt, Settled
  <1>6. ASSUME NEW x \in Objects
        PROVE  \/ Lookup(t3, b, x) = Lookup(t1, b, x)
               \/ Lookup(t3, b, x) = NoNode /\ \E j \in 1 .. m : r.objects[j] = x
    <2>1. \/ Lookup(t2, b, x) = Lookup(t1, b, x)
          \/ Lookup(t2, b, x) = NoNode /\ \E j \in 1 .. Len(es) : r.objects[j] = x
      BY DEF Dealt
    <2>2. CASE x = o
      BY <1>1, <1>4, <2>1, <2>2 DEF Settled, m
    <2>3. CASE x # o
      BY <1>1, <1>4, <2>1, <2>3 DEF Settled, m
    <2>4. QED BY <2>2, <2>3
  <1>7. ASSUME NEW j \in 1 .. m
        PROVE  /\ ~IsFile(Lookup(t3, b, r.objects[j]))
               /\ fs[j] = "ok" => Lookup(t1, b, r.objects[j]) # NoNode
    <2>1. CASE j \in 1 .. Len(es)
      <3>1. /\ ~IsFile(Lookup(t2, b, r.objects[j]))
            /\ es[j] = "ok" => Lookup(t1, b, r.objects[j]) # NoNode
        BY <2>1 DEF Dealt
      <3>2. r.objects[j] = o \/ Lookup(t3, b, r.objects[j]) = Lookup(t2, b, r.objects[j])
        BY <1>1, <1>3, <2>1 DEF Settled, m
      <3>3. ~IsFile(Lookup(t3, b, o))
        BY <1>1 DEF Settled, m
      <3>4. QED BY <1>2, <2>1, <3>1, <3>2, <3>3
    <2>2. CASE j = m
      <3>1. ~IsFile(Lookup(t3, b, o)) /\ (e = "ok" => Lookup(t2, b, o) # NoNode)
        BY <1>1 DEF Settled, m
      <3>2. Lookup(t2, b, o) # NoNode => Lookup(t1, b, o) # NoNode
        BY <1>3 DEF Dealt
      <3>3. QED BY <1>1, <1>2, <2>2, <3>1, <3>2
    <2>3. QED BY <1>4, <2>1, <2>2
  <1>8. Dealt(r, t1, t3, fs)
    BY <1>2, <1>5, <1>6, <1>7 DEF Dealt
  <1>9. QED BY <1>8 DEF fs

\* What a deletion promises follows when it has dealt with all of its objects,
\* or stopped at one that was missing.
LEMMA DealtContract ==
  ASSUME NEW r, r.bucket \in Buckets, r.objects \in Seq(Objects),
         r.op \in {"DeleteObject", "DeleteObjects", "RemoveObject"},
         NEW t1, NEW t2 \in Trees, IsTree(t2),
         NEW es \in Seq(DeleteErrors), es # << >>, Len(es) <= Len(r.objects),
         Dealt(r, t1, t2, es),
         Len(es) = Len(r.objects) \/ (r.op = "RemoveObject" /\ es[Len(es)] # "ok"),
         es[Len(es)] = "ObjectNotFound" =>
             \/ Lookup(t1, r.bucket, r.objects[Len(es)]) = NoNode
             \/ \E j \in 1 .. Len(es) - 1 : r.objects[j] = r.objects[Len(es)]
  PROVE  DeleteContract(r, t1, t2, DeleteResponse(r, es), es)
  <1> DEFINE b == r.bucket
             named == {r.objects[i] : i \in 1 .. Len(r.objects)}
             rep == DeleteResponse(r, es)
  <1>1. Len(es) \in Nat /\ Len(es) >= 1 /\ Len(r.objects) \in Nat OBVIOUS
  <1>2. \A j \in 1 .. Len(es) : r.objects[j] \in named
    BY <1>1
  <1>3. \A x \in Objects \ named : Lookup(t2, b, x) = Lookup(t1, b, x)
    <2> HIDE DEF named
    <2> QED BY <1>2 DEF Dealt
  <1>4. OthersKept(t1, t2, b, named)
    <2> HIDE DEF named
    <2> QED BY <1>3 DEF OthersKept, Dealt
  <1>5. named \subseteq Objects OBVIOUS
  <1>6. \A o \in named : Lookup(t2, b, o) \in {NoNode, Lookup(t1, b, o)}
    <2> HIDE DEF named
    <2> QED BY <1>5 DEF Dealt
  <1>7. ASSUME NEW o \in named, Lookup(t2, b, o) = NoNode,
               NEW x \in Objects \ named, o \in Ancestors[x]
        PROVE  Lookup(t1, b, x) = NoNode
    <2> HIDE DEF named
    <2>1. Lookup(t2, b, x) = NoNode
      <3>1. t2[b] # NoNode /\ t2[b][x] # NoNode => t2[b][o] = DirNode
        BY <1>7 DEF IsTree
      <3>2. QED BY <1>7, <3>1, NodesAssumption DEF Lookup
    <2>2. QED BY <1>3, <2>1
  <1>8. ASSUME rep.code = "ok", NEW i \in 1 .. Len(r.objects), Reached(r, t1, i)
        PROVE  i \in 1 .. Len(es)
    <2> SUFFICES ASSUME i > Len(es) PROVE FALSE
      BY <1>1
    <2>1. r.op = "RemoveObject" /\ es[Len(es)] # "ok"
      BY <1>1
    <2>2. es[Len(es)] \in DeleteErrors
      BY <1>1
    <2>3. es[Len(es)] = "ObjectNotFound"
      BY <1>8, <2>1, <2>2 DEF DeleteResponse, Response, ToAPIErr, DeleteErrors
    <2>4. Len(es) \in 1 .. i - 1
      BY <1>1
    <2>5. /\ Lookup(t1, b, r.objects[Len(es)]) # NoNode
          /\ \A k \in 1 .. Len(es) - 1 : r.objects[k] # r.objects[Len(es)]
      BY <1>8, <2>1, <2>4 DEF Reached
    <2>6. QED BY <2>3, <2>5
  <1>9. rep.code = "ok" => \A i \in 1 .. Len(r.objects) :
            Reached(r, t1, i) => ~IsFile(Lookup(t2, b, r.objects[i]))
    <2> HIDE DEF rep
    <2> QED BY <1>8 DEF Dealt
  <1>10. \A i \in 1 .. Len(es) : es[i] = "ok" => Lookup(t1, b, r.objects[i]) # NoNode
    BY DEF Dealt
  <1>11. QED
    <2>1. \A o \in named : Lookup(t1, b, o) = DirNode /\ Lookup(t2, b, o) = NoNode =>
            \A x \in Objects \ named : o \in Ancestors[x] => Lookup(t1, b, x) = NoNode
      <3> HIDE DEF named
      <3> QED BY <1>7
    <2>2. QED BY <1>4, <1>6, <1>9, <1>10, <2>1 DEF DeleteContract

\* DeleteObject returns for one object, and the request has kept its promise or
\* goes on with the next one.
LEMMA DeleteReturnsDone ==
  ASSUME ObjectsInv, NEW p \in Procs, pc[p] \in {"delBucket", "delStat", "delRm"},
         Dealt(req[p], before[p], tree, errs[p]), before' = before,
         tree' \in Trees, IsTree(tree'), NEW e \in DeleteErrors, DeleteObjectReturns(p, e),
         Settled(req[p], tree, tree', DeleteObjectName(p), e)
  PROVE  DoneSoFar(p)'
  <1> DEFINE r == req[p]
             es == Append(errs[p], e)
             over == Len(es) = Len(r.objects) \/ (r.op = "RemoveObject" /\ e # "ok")
             rep == DeleteResponse(r, es)
  <1>1. /\ r \in Requests /\ r.op \in {"DeleteObject", "DeleteObjects", "RemoveObject"}
        /\ r.bucket \in Buckets /\ r.objects \in Seq(Objects) /\ TypeOK
    BY RequestAt, RequestFields DEF ObjectsInv
  <1>2. errs[p] \in Seq(DeleteErrors) /\ Len(errs[p]) < Len(r.objects)
    BY DEF ObjectsInv, TypeOK
  <1>3. /\ es \in Seq(DeleteErrors) /\ Len(es) = Len(errs[p]) + 1 /\ es # << >>
        /\ es[Len(es)] = e
    BY <1>2
  <1>4. Len(es) \in Nat /\ Len(errs[p]) \in Nat /\ Len(r.objects) \in Nat /\ Len(es) <= Len(r.objects)
    BY <1>1, <1>2, <1>3
  <1>5. errs'[p] = es
    <2>1. errs' = [errs EXCEPT ![p] = es]
      BY DEF DeleteObjectReturns
    <2> HIDE DEF es
    <2>2. QED BY <2>1 DEF ObjectsInv, TypeOK
  <1>6. Dealt(r, before[p], tree', es)
    BY <1>1, <1>2, DealtMore DEF DeleteObjectName
  <1>7. CASE over
    <2>1. Respond(p, rep.code, rep.body)
      BY <1>7 DEF DeleteObjectReturns
    <2>2. rep.code \in Codes /\ rep.body \in Nodes
      BY <1>1, DeleteResponseTypes
    <2>3. rep = [code |-> rep.code, body |-> rep.body]
      BY <1>1 DEF DeleteResponse, Response
    <2>4. e = "ObjectNotFound" =>
            \/ Lookup(before[p], r.bucket, r.objects[Len(es)]) = NoNode
            \/ \E j \in 1 .. Len(es) - 1 : r.objects[j] = r.objects[Len(es)]
      <3> SUFFICES ASSUME e = "ObjectNotFound"
                   PROVE  \/ Lookup(before[p], r.bucket, r.objects[Len(es)]) = NoNode
                          \/ \E j \in 1 .. Len(es) - 1 : r.objects[j] = r.objects[Len(es)]
        OBVIOUS
      <3> HIDE DEF es
      <3>1. DeleteObjectName(p) = r.objects[Len(es)] /\ DeleteObjectName(p) \in Objects
        BY <1>3, DeleteName DEF DeleteObjectName, ObjectsInv
      <3>2. Lookup(tree, r.bucket, DeleteObjectName(p)) = NoNode
        BY DEF Settled
      <3>3. Len(es) - 1 = Len(errs[p])
        BY <1>3, <1>4
      <3>4. QED BY <3>1, <3>2, <3>3 DEF Dealt
    <2>5. DeleteContract(r, before[p], tree', rep, es)
      <3> HIDE DEF es
      <3> QED BY <1>1, <1>3, <1>4, <1>6, <1>7, <2>4, DealtContract
    <2>6. Contract(r, before[p], tree', rep, es)
      BY <1>1, <2>5 DEF Contract
    <2> HIDE DEF rep, es
    <2>7. QED BY <1>1, <1>5, <2>1, <2>2, <2>3, <2>6, RespondDone
  <1>8. CASE ~over
    <2>1. Goto(p, "delBucket")
      BY <1>8 DEF DeleteObjectReturns
    <2>2. "delBucket" \in Calls /\ "delBucket" \in CallsOf(r.op)
      BY <1>1 DEF Calls, CallsOf
    <2>3. pc'[p] = "delBucket" /\ req' = req
      BY <1>1, <2>1, <2>2, GotoStep
    <2> HIDE DEF es
    <2>4. Dealt(req[p], before[p], tree, errs[p])'
      BY <1>5, <1>6, <2>3
    <2>5. QED BY <2>3, <2>4 DEF DoneSoFar, NotYetWritten
  <1>9. QED BY <1>7, <1>8

\* The deletion of an object that was not removed: nothing changed.
LEMMA SettledLeft ==
  ASSUME NEW r, NEW t, NEW o, NEW e,
         ~IsFile(Lookup(t, r.bucket, o)), e = "ok" => Lookup(t, r.bucket, o) # NoNode,
         e = "ObjectNotFound" => Lookup(t, r.bucket, o) = NoNode
  PROVE  Settled(r, t, t, o, e)
  BY DEF Settled

\* The deletion of a file or of an empty directory: nothing else changed.
LEMMA SettledRemoved ==
  ASSUME NEW r, NEW t \in Trees, IsTree(t), r.bucket \in Buckets, NEW o \in Objects,
         CanRm(t, r.bucket, o), Lookup(t, r.bucket, o) # NoNode,
         IsFile(Lookup(t, r.bucket, o)) \/ NoBlocks(t, r.bucket, o)
  PROVE  Settled(r, t, FilesRm(t, r.bucket, o), o, "ok")
  <1> DEFINE b == r.bucket
             u == FilesRm(t, b, o)
             f == [x \in Objects |-> IF x = o \/ o \in Ancestors[x] THEN NoNode ELSE t[b][x]]
  <1>1. t[b] # NoNode /\ t[b] \in [Objects -> Nodes]
    BY DEF CanRm, Trees
  <1>2. \A x \in Objects : o \in Ancestors[x] => t[b][x] = NoNode
    <2>1. \A x \in Objects : o \in Ancestors[x] /\ t[b][x] # NoNode => t[b][o] = DirNode
      BY <1>1 DEF IsTree
    <2>2. QED BY <1>1, <2>1 DEF NoBlocks, Lookup, IsFile
  <1>3. f \in [Objects -> Nodes] /\ f[o] = NoNode /\ \A x \in Objects \ {o} : f[x] = t[b][x]
    BY <1>1, <1>2 DEF Nodes
  <1>4. u = [t EXCEPT ![b] = f]
    BY DEF FilesRm
  <1> HIDE DEF f, u
  <1>5. u[b] = f /\ u[b] # NoNode /\ \A c \in Buckets \ {b} : u[c] = t[c]
    BY <1>3, <1>4, NodesAssumption DEF Trees
  <1>6. /\ Lookup(u, b, o) = NoNode
        /\ \A x \in Objects \ {o} : Lookup(u, b, x) = Lookup(t, b, x)
    BY <1>1, <1>3, <1>5 DEF Lookup
  <1>7. Settled(r, t, u, o, "ok")
    BY <1>5, <1>6 DEF Settled, IsFile
  <1>8. QED BY <1>7 DEF u

\* DeleteObject deals with one object at a time.
LEMMA DeleteObjectDone ==
  ASSUME ObjectsInv, ObjectsInv', NEW p \in Procs, ~touched[p], DoneSoFar(p),
         DeleteObjectBucket(p) \/ DeleteObjectStat(p) \/ DeleteObjectRm(p)
  PROVE  DoneSoFar(p)'
  <1> DEFINE r == req[p]
             b == req[p].bucket
             o == DeleteObjectName(p)
             n == Lookup(tree, b, o)
             s == FilesStat(tree, b, o)
  <1>1. pc[p] \in {"delBucket", "delStat", "delRm"} /\ before' = before
    BY DEF DeleteObjectBucket, DeleteObjectStat, DeleteObjectRm, NoWrite, Write
  <1>2. /\ r \in Requests /\ r.op \in {"DeleteObject", "DeleteObjects", "RemoveObject"}
        /\ b \in Buckets /\ o \in Objects /\ TypeOK
        /\ tree \in Trees /\ IsTree(tree) /\ tree' \in Trees /\ IsTree(tree')
    BY <1>1, RequestAt, RequestFields, DeleteName DEF ObjectsInv, TypeOK, TreeOK
  <1>3. Dealt(r, before[p], tree, errs[p])
    BY <1>1 DEF DoneSoFar
  <1>4. ASSUME NEW e \in DeleteErrors, DeleteObjectReturns(p, e), Settled(r, tree, tree', o, e)
        PROVE  DoneSoFar(p)'
    BY <1>1, <1>2, <1>3, <1>4, DeleteReturnsDone
  <1>5. ASSUME NEW e \in DeleteErrors, DeleteObjectReturns(p, e), tree' = tree, ~IsFile(n),
               e = "ok" => n # NoNode, e = "ObjectNotFound" => n = NoNode
        PROVE  DoneSoFar(p)'
    BY <1>4, <1>5, SettledLeft
  <1>6. ASSUME NEW call \in {"delStat", "delRm"}, Goto(p, call), tree' = tree, errs' = errs
        PROVE  DoneSoFar(p)'
    <2>1. call \in Calls /\ call \in CallsOf(r.op)
      BY <1>2 DEF Calls, CallsOf
    <2>2. pc'[p] = call /\ req' = req
      BY <1>2, <1>6, <2>1, GotoStep
    <2>3. Dealt(req[p], before[p], tree, errs[p])'
      BY <1>1, <1>3, <1>6, <2>2
    <2>4. QED BY <2>2, <2>3 DEF DoneSoFar, NotYetWritten
  <1>7. {"ok", "BucketNotFound", "ObjectNotFound", "other error"} = DeleteErrors
    BY DEF DeleteErrors
  <1>8. CASE DeleteObjectBucket(p)
    <2>1. tree' = tree
      BY <1>8 DEF DeleteObjectBucket, NoWrite
    <2>2. CASE tree[b] = NoNode
      <3>1. DeleteObjectReturns(p, "BucketNotFound") /\ ~IsFile(n)
        BY <1>8, <2>2 DEF DeleteObjectBucket, Lookup, IsFile
      <3>2. QED BY <1>5, <1>7, <2>1, <3>1
    <2>3. CASE tree[b] # NoNode
      BY <1>6, <1>8, <2>1, <2>3 DEF DeleteObjectBucket
    <2>4. QED BY <2>2, <2>3
  <1>9. CASE DeleteObjectStat(p)
    <2>1. tree' = tree
      BY <1>9 DEF DeleteObjectStat, NoWrite
    <2>2. CASE s # "ok"
      <3>1. DeleteObjectReturns(p, ObjectError(s))
        BY <1>9, <2>2 DEF DeleteObjectStat
      <3>2. n = NoNode
        BY <1>2, <2>2, StatOfFile DEF FilesStat
      <3>3. ObjectError(s) \in DeleteErrors /\ ObjectError(s) # "ok"
        BY <2>2 DEF FilesStat, ObjectError, DeleteErrors
      <3>4. ~IsFile(n)
        BY <3>2 DEF IsFile
      <3>5. QED BY <1>5, <2>1, <3>1, <3>2, <3>3, <3>4
    <2>3. CASE s = "ok" /\ n = DirNode /\ ~NoBlocks(tree, b, o)
      <3>1. DeleteObjectReturns(p, "ok")
        BY <1>9, <2>3 DEF DeleteObjectStat
      <3>2. ~IsFile(n) /\ n # NoNode
        BY <2>3, NodesAssumption DEF IsFile
      <3>3. QED BY <1>5, <1>7, <2>1, <3>1, <3>2
    <2>4. CASE s = "ok" /\ ~(n = DirNode /\ ~NoBlocks(tree, b, o))
      <3>1. Goto(p, "delRm") /\ errs' = errs
        BY <1>9, <2>4 DEF DeleteObjectStat
      <3>2. QED BY <1>6, <2>1, <3>1
    <2>5. QED BY <2>2, <2>3, <2>4
  <1>10. CASE DeleteObjectRm(p)
    <2>1. pc[p] = "delRm" /\ CheckCurrent(p)
      BY <1>10 DEF DeleteObjectRm, ObjectsInv, ChecksCurrent
    <2>2. n # NoNode /\ (IsFile(n) \/ NoBlocks(tree, b, o))
      BY <2>1 DEF CheckCurrent
    <2>3. CanRm(tree, b, o)
      BY <1>2, <2>2, StatOfFile
    <2>4. Write(p, FilesRm(tree, b, o)) /\ DeleteObjectReturns(p, "ok")
      BY <1>10, <2>3 DEF DeleteObjectRm
    <2>5. tree' = FilesRm(tree, b, o)
      BY <2>4 DEF Write
    <2>6. Settled(r, tree, tree', o, "ok")
      BY <1>2, <2>2, <2>3, <2>5, SettledRemoved
    <2>7. QED BY <1>4, <1>7, <2>4, <2>6
  <1>11. QED BY <1>8, <1>9, <1>10

\* A request arrives, having done nothing.
LEMMA BeginDone ==
  ASSUME ObjectsInv, ObjectsInv', NEW p \in Procs, Begin(p)
  PROVE  DoneSoFar(p)'
  <1>1. PICK r \in Requests : /\ req' = [req EXCEPT ![p] = r]
                              /\ pc' = [pc EXCEPT ![p] = FirstCall(r)]
    BY DEF Begin
  <1>2. req'[p] = r /\ pc'[p] = FirstCall(r)
    BY <1>1 DEF ObjectsInv, TypeOK
  <1>3. before'[p] = tree /\ tree' = tree /\ errs' = errs /\ errs[p] = << >>
    BY DEF Begin, ObjectsInv, TypeOK
  <1>4. FirstCall(r) \in {"mkdir", "rbStat", "putStat", "getStat", "delBucket"}
    BY FirstCallOf
  <1>5. Dealt(r, tree, tree, << >>)
    BY DEF Dealt
  <1>6. Dealt(req[p], before[p], tree, errs[p])'
    BY <1>2, <1>3, <1>5
  <1>7. QED BY <1>2, <1>3, <1>4, <1>6 DEF DoneSoFar, NotYetWritten

\* Requests that neither move nor are overtaken have done what they had done.
LEMMA QuietDone ==
  ASSUME NEW q \in Procs, DoneSoFar(q), tree' = tree, pc'[q] = pc[q], req'[q] = req[q],
         errs'[q] = errs[q], reply'[q] = reply[q], before'[q] = before[q]
  PROVE  DoneSoFar(q)'
  BY DEF DoneSoFar

\* Begin, Return and the steps of p leave the other requests where they are, and
\* mark those that they overtake.
LEMMA OthersLeft ==
  ASSUME ObjectsInv, ObjectsInv', NEW p \in Procs, Begin(p) \/ Return(p) \/ Step(p),
         NEW q \in Procs \ {p}
  PROVE  /\ pc'[q] = pc[q] /\ req'[q] = req[q] /\ errs'[q] = errs[q]
         /\ reply'[q] = reply[q] /\ before'[q] = before[q]
         /\ pc[q] # "idle" /\ ~touched'[q] => tree' = tree /\ ~touched[q]
  <1> USE DEF ObjectsInv, TypeOK
  <1>1. CASE Begin(p) \/ Return(p)
    BY <1>1 DEF Begin, Return
  <1>2. CASE Step(p)
    <2>1. NoWrite \/ \E t : Write(p, t)
      BY <1>2 DEF Step, MakeBucket, DeleteBucketStat, DeleteBucketRm, PutObjectStat,
                  PutObjectWrite, PutObjectStreamFails, PutObjectEtag, GetObjectStat,
                  GetObjectBucket, GetObjectRead, DeleteObjectBucket, DeleteObjectStat,
                  DeleteObjectRm
    <2>2. /\ before' = before
          /\ pc[q] # "idle" /\ ~touched'[q] => tree' = tree /\ ~touched[q]
      <3>1. CASE NoWrite
        BY <3>1 DEF NoWrite
      <3>2. ASSUME NEW t, Write(p, t)
            PROVE  /\ before' = before
                   /\ pc[q] # "idle" /\ ~touched'[q] => tree' = tree /\ ~touched[q]
        BY <3>2 DEF Write
      <3>3. QED BY <2>1, <3>1, <3>2
    <2>3. /\ errs' = errs \/ \E es : errs' = [errs EXCEPT ![p] = es]
          /\ \/ \E call : Goto(p, call)
             \/ \E code, body : Respond(p, code, body)
      BY <1>2 DEF Step, MakeBucket, DeleteBucketStat, DeleteBucketRm, PutObjectStat,
                  PutObjectWrite, PutObjectStreamFails, PutObjectEtag, GetObjectStat,
                  GetObjectBucket, GetObjectRead, GetObjectFails, DeleteObjectBucket,
                  DeleteObjectStat, DeleteObjectRm, DeleteObjectReturns
    <2>4. pc'[q] = pc[q] /\ req'[q] = req[q] /\ reply'[q] = reply[q]
      BY <2>3 DEF Goto, Respond
    <2>5. errs'[q] = errs[q]
      BY <2>3
    <2>6. QED BY <2>2, <2>4, <2>5
  <1>3. QED BY <1>1, <1>2

\* KeptSoFar is inductive, on top of ObjectsInv.
LEMMA KeptStep ==
  ASSUME ObjectsInv, ObjectsInv', KeptSoFar, NEW p \in Procs,
         Begin(p) \/ Return(p) \/ Step(p)
  PROVE  KeptSoFar'
  <1> SUFFICES ASSUME NEW q \in Procs, ~touched'[q] PROVE DoneSoFar(q)'
    BY DEF KeptSoFar
  <1>1. CASE q # p
    <2>1. /\ pc'[q] = pc[q] /\ req'[q] = req[q] /\ errs'[q] = errs[q]
          /\ reply'[q] = reply[q] /\ before'[q] = before[q]
          /\ pc[q] # "idle" => tree' = tree /\ ~touched[q]
      BY <1>1, OthersLeft
    <2>2. CASE pc[q] = "idle"
      BY <2>1, <2>2 DEF DoneSoFar, NotYetWritten
    <2>3. CASE pc[q] # "idle"
      BY <2>1, <2>3, QuietDone DEF KeptSoFar
    <2>4. QED BY <2>2, <2>3
  <1>2. CASE q = p /\ Begin(p)
    BY <1>2, BeginDone
  <1>3. CASE q = p /\ Return(p)
    <2>1. pc'[p] = "idle"
      BY <1>3 DEF Return, ObjectsInv, TypeOK
    <2>2. QED BY <1>3, <2>1 DEF DoneSoFar, NotYetWritten
  <1>4. CASE q = p /\ Step(p)
    <2>1. ~touched'[p] => ~touched[p]
      <3>1. NoWrite \/ \E t : Write(p, t)
        BY <1>4 DEF Step, MakeBucket, DeleteBucketStat, DeleteBucketRm, PutObjectStat,
                    PutObjectWrite, PutObjectStreamFails, PutObjectEtag, GetObjectStat,
                    GetObjectBucket, GetObjectRead, DeleteObjectBucket, DeleteObjectStat,
                    DeleteObjectRm
      <3>2. ASSUME NEW t, Write(p, t) PROVE ~touched'[p] => ~touched[p]
        BY <3>2 DEF Write
      <3>3. QED BY <3>1, <3>2 DEF NoWrite
    <2>2. ~touched[p] /\ DoneSoFar(p)
      BY <1>4, <2>1 DEF KeptSoFar
    <2>3. QED
      BY <1>4, <2>2, MakeBucketDone, DeleteBucketDone, PutObjectDone, GetObjectDone,
         DeleteObjectDone DEF Step
  <1>5. QED BY <1>1, <1>2, <1>3, <1>4

\* A request that no other request's change overlapped keeps the contract of its
\* response, for any number of buckets, objects, uploads and listed names.
THEOREM UndisturbedContractKept == Spec => []UndisturbedKeepContract
  <1>1. Init => KeptSoFar
    BY DEF Init, KeptSoFar, DoneSoFar, NotYetWritten
  <1>2. ObjectsInv /\ ObjectsInv' /\ KeptSoFar /\ [Next]_vars => KeptSoFar'
    <2> SUFFICES ASSUME ObjectsInv, ObjectsInv', KeptSoFar, [Next]_vars PROVE KeptSoFar'
      OBVIOUS
    <2>1. CASE UNCHANGED vars
      <3>1. ASSUME NEW q \in Procs, ~touched'[q] PROVE DoneSoFar(q)'
        BY <2>1, <3>1, QuietDone DEF vars, KeptSoFar
      <3>2. QED BY <3>1 DEF KeptSoFar
    <2>2. CASE Next
      BY <2>2, KeptStep DEF Next
    <2>3. QED BY <2>1, <2>2
  <1>3. KeptSoFar => UndisturbedKeepContract
    BY DEF KeptSoFar, DoneSoFar, UndisturbedKeepContract
  <1>4. QED BY <1>1, <1>2, <1>3, ObjectsInvariant, PTL DEF Spec

=============================================================================

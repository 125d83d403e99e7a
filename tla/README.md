# A verification project for IPOS

IPOS (`src/`) is an S3 server in Go whose storage is the mutable file system
(MFS) of an IPFS daemon. It comes with a browser user interface. This directory
holds TLA+ specifications of its core, TLC configurations that check them on
small instances, and theorems with proofs that TLAPS checks for all instances.

There are no Go tests in the repository and next to no comments or documents:
what the code promises is taken from its error types and messages, its panics
and the callers of each function. `PROJECT.json` says which lines each
definition models.

## 1. The system

| Component | State | Operations | What makes it hard | What makes it correct |
|---|---|---|---|---|
| Object layer (`cmd/ipos/cmd/ipfs.go`) | the MFS: a directory per bucket, a file per object | MakeBucket, DeleteBucket, PutObject, GetObject, DeleteObject(s), listings | every operation is several calls to the daemon; `NewNSLock` returns nil, so nothing serialises them; writes are in place | responses are true; nothing disappears or appears that nobody asked for |
| Handlers (`object-handlers.go`, `bucket-handlers.go`, `web-handlers.go`, `api-errors.go`) | none of their own | one per S3 or web request | errors in the middle of several objects or of a response | the response says what happened |
| Listings (`object-api-common.go`, `tree-walk.go`, `tree-walk-pool.go`) | a walker goroutine per listing, a channel of `maxObjectList` results, the pool of walks that wait for their next page, a timer goroutine for each | listObjects, Release, Set, startTreeWalk | clients, walkers and timers interleave; names change under a listing; pages resume at a marker | complete listings miss nothing, in order; a walk has one user; walkers end |
| Namespace lock (`namespace-lock.go`, `pkg/lsync`) | map from resource to mutex with a reference count | NewNSLock, GetLock, GetRLock, Unlock, RUnlock | pointers kept across two mutexes; several paths per lock; timeouts and rollback | exclusion; no leak, no panic, no deadlock; GetLock returns |
| Bucket policy (`policy.go`, `bucket-policy-handlers.go`, `config-common.go`, `pkg/bucket/policy`, `pkg/policy`) | a document per bucket in the meta bucket and a map in memory | Set, Remove, load, IsAllowed, and the canned policies the browser edits | store and memory change in two steps; documents are not truncated; nothing is loaded after a restart; statements of several prefixes are merged and split | memory agrees with the store; access is what was set; the browser shows what is granted |
| Object lock (`object-lock.go`, `pkg/bucket/object/lock`, `pkg/bucket/lifecycle`) | settings per bucket in memory, mode, date and hold in the metadata of objects | checks of uploads, deletions, changes of retention, lifecycle rules | the metadata is read, decided on and changed in three calls without a lock | locked objects are kept |
| IAM (`iam.go`, `iam-object-store.go`, `pkg/iam/policy`) | users, groups, policies, memberships, in memory and stored | some twenty, and IsAllowed, IsAllowedSTS, GetAccountAccess | reload against updates; operations in several locked parts; decisions that append to shared slices | memory agrees with the store; no access after deletion; decisions by one's own policies |
| Distributed lock (`pkg/dsync`) | grants of n lock servers | GetLock, Unlock over a quorum | lost and late answers, timeouts | exclusion by quorum; nothing stays locked |
| Dynamic timeouts (`dynamic-timeouts.go`) | a timeout, a log of durations and its counter | LogSuccess, LogFailure, adjust | three shared variables, not under one lock | a full log is adjusted from once |
| Signatures (`signature-v4*.go`, `signature-v2.go`, `auth-handler.go`, `pkg/signer`) | none | signing and verification of seven schemes | each scheme covers other parts and has its own times | accepted is what was signed |
| Chunked uploads (`streaming-signature-v4.go`) | state machine of a reader | Read | chunks of any size, errors at every point | only signed bytes are accepted |
| Web sessions (`web-handlers.go`, `jwt.go`) | tokens in the clients' hands | login, token renewal, every web handler | rights, secrets and users change between a question and the effect it is asked for | effects were allowed; tokens go to whom they name |
| Encryption (`cmd/ipos/crypto`, `encryption-v1.go`, `pkg/sio`) | sealed keys in object metadata | put, read, ranges, key rotation; encrypting and decrypting streams | packages, ranges and ends of streams; metadata kept or replaced by a rotation | what was put is read back, by who has the key |
| HTTP server (`cmd/ipos/http`, `throttling.go`, `handler-utils.go`, `server-main.go`) | listeners, request count, pool of slots | Start, Accept, Shutdown, start-up | shutdown against requests; requests before start-up is over | the books balance; shutdown drains; no connection is left hanging |
| Log (`cmd/ipos/logger`, `consolelogger.go`, `pkg/pubsub`) | targets, a ring, subscribers, a queue, the errors logged once | LogIf, LogOnceIf, Subscribe | subscribers come and go while entries are sent | an entry arrives at most once |

Calls go from the HTTP server through a handler to the object layer, which is
the only one to call the daemon. Listings run in the handler's goroutine, with
a walker per listing and a timer per pooled walk beside it. The components
in front of the object layer (signatures, policies, object locks, sessions) share
no state with each other while a request is served, so each has a module and an
instance of its own.

Several components are complete but not reached in this version of the server:
`IPFSObjects.NewNSLock` returns nil, `globalIAMSys` stays nil, `PolicySys.Init`,
`initBucketObjectLockConfig`, `apiThrottling.init` and `Server.Shutdown` have no
caller, `registerAPIRouter` registers no bucket policy handler, and
`IsEncryptionSupported` is false. They are modelled with their methods as the
operations, as the code that would call them is written. What the missing lock
costs the object layer is the subject of `IPFSObjects.tla`.

The hazards of this code, each at its line and with the properties that cover
it, are in `PROJECT.json`.

## 2. Modules

| Module | Models |
|---|---|
| `NSLock` | nsLockMap, localLockInstance and LRWMutex |
| `RWLockTable` | what a namespace lock promises: the abstract specification that `NSLock` implements |
| `IPFSObjects` | the object layer under its handlers, over the MFS |
| `IPFSObjectsProofs` | theorems about `IPFSObjects` |
| `TreeWalk` | paged listings, walkers, the pool and its timers |
| `TreeWalkProofs` | theorems about `TreeWalk` |
| `Policy` | evaluation of bucket policies: wildcards, conditions, validity, parsing |
| `CannedPolicy` | the policies the browser shows and edits; extends `Policy` |
| `BucketConfig` | policies and lock settings of buckets, in store and memory; extends `CannedPolicy` |
| `PolicyProofs` | theorems about `BucketConfig` and `IAMPolicy` |
| `IAM` | users, groups and policies in memory against the stored documents |
| `IAMProofs` | theorems about `IAM` |
| `IAMPolicy` | decisions by the policies of users and groups; extends `Policy` |
| `DSync` | DRWMutex over its lockers |
| `DynamicTimeout` | dynamicTimeout |
| `HTTPServer` | start-up, listener, wrapper, throttling, statistics, shutdown |
| `Logging` | logger, console target, publisher, HTTP target |
| `ServicesProofs` | theorems about `DynamicTimeout`, `HTTPServer`, `Logging` and `DSync` |
| `ChunkedUpload` | StreamingReader and s3ChunkedReader |
| `Signatures` | signing and verification of requests and tokens |
| `WebSessions` | web handlers with their tokens, and the S3 bucket handlers |
| `WebSessionsProofs` | theorems about `WebSessions` and `ChunkedUpload` |
| `DARE` | encrypted streams of `pkg/sio` and the ranges of objects |
| `Encryption` | object keys, their sealing, metadata and rotation |
| `Retention` | retention, legal holds and lifecycle rules |
| `DAREProofs` | theorems about `DARE` |
| `ProtectionProofs` | theorems about `Retention`, `Encryption`, `Signatures` and `NSLock`, among them that `NSLock` implements `RWLockTable` |
| `MCNSLock`, `MCIPFSObjects`, `MCTreeWalk`, `MCBucketConfig` | the instances for TLC |
| `MCServices` | instances of `DynamicTimeout`, `HTTPServer`, `Logging` and `IAM` |
| `MCRequests` | instances of `ChunkedUpload`, `Signatures`, `DARE`, `Encryption`, `IAMPolicy`, `Retention`, `DSync` and `WebSessions` |

Some definitions marked as mutants stand next to the one they alter. No
specification uses them; they are there to show that a property notices the
mistake they stand for.

### NSLock

One action per critical section of `lockMapMutex` or `LRWMutex.m`: `LockEnter`
finds or makes the entry and counts the reference, `LockSuccess` is the
successful turn of `lockLoop`, `LockTimeout` its end without success, `LockDrop`
takes the reference back, `UnlockFind`, `UnlockRelease` and `UnlockDeref` are
the three parts of `unlock`. A failed turn of `lockLoop` changes nothing.
`lm.id` and `lm.source`, which are only written, are left out. `nsLk` keeps the
pointer that the code keeps in a local variable; an nsLock object is used again
only when nothing refers to it, as the garbage collector guarantees. A wait may
end at any time: the model covers every timeout that `dynamicTimeout` can
arrive at. Cancelling the context has no effect, because its `break` leaves the
`select` and not the loop.

A release that finds the mutex not held leads to `pc = "panic"`; that no
goroutine gets there is a theorem.

### IPFSObjects

One action per call to the daemon, with all that the handler does until its
next call. `tree` is the MFS. The daemon's calls are external and modelled from
how `ipfs.go` uses them and from its options: `FilesWrite` has `Parents` and
`Create` and no `Truncate`, so it makes the bucket and the directories above an
object and leaves the tail of a longer old content; `FilesRm` with force is
recursive. A call is atomic, except that the body of an upload may end early or
fail its hash (`PutObjectStreamFails`) with any part of it written. One element
of a sequence stands for a chunk of an object; the hash of a content is
modelled by the content, so that an ETag tells contents apart.

`touched[p]` records that another request changed the tree while request p ran,
`before[p]` what it found when it began. They occur in no guard.

What a handler asks before its first call is in `WebSessions`, object locks are
in `Retention`, encryption in `Encryption`. Left out: conditional headers, and
removal by prefix from the web interface, where `Walk` returns NotImplemented.

### TreeWalk

Names are numbers in the order of their strings; 0 is the prefix that is
listed. A listing is recursive (no delimiter) or not (delimiter `/`). The work
that is left to a walker is a set of results to send and directories to list,
which the recursion of `doTreeWalk` handles in the order of the names. A timer
that was told to stop may time out all the same: `select` takes either of two
ready cases, and a timer that waits for the pool's lock no longer looks at
`endTimerCh`. Closing `endWalkCh` twice panics in a goroutine without recover,
which ends the process (`crashed`); `Restart` is a new process with an empty
pool. `listDir` is one step here; its calls to the daemon are several. Its
errors do not reach the caller (`ListDirReturns`): a FilesLs that fails is a
directory without entries, and an entry whose FilesStat fails is left out, so
that a listing may report success without them.

Other clients create and delete names at any time. `must` and `alive` record
the names that existed throughout a listing and throughout a walk and that no
failing call hid from it (`Unseen`), `stale` that
a timer closed a walk it no longer owned, `lost` that a failed listing left its
walk. They occur in no guard.

### Policy, CannedPolicy, BucketConfig

A name is a sequence of tokens, so that wildcards and prefixes are real; the
pattern matcher is a recursive function. A policy is a sequence of statements,
as `dropDuplicateStatements` and the order of evaluation need it. `BucketConfig`
has one action per call of the object layer or change of a map: reading the
stored document, saving it, setting the map. A file holds the document that was
written last and whether a tail of a longer one is behind it, which
`getPolicyConfig` ignores: it decodes the first JSON value. A save that fails leaves
the file as it was, though the code may have written a part of it. The lock settings of buckets are a map in memory here,
their use is in `Retention`. `canned`, `edited` and `raced` are history.

Left out: `MatchSimple` of "?" with an empty name and IPAddress with a source
that cannot be parsed, which panic.

### IAM, IAMPolicy

`IAM`: a change is what it checks and writes to the maps under `IAMSys`'s lock,
and `todo`, the documents it still has to write while it holds the lock, each of
which may fail. `loadAll` is one step per kind of document and one that replaces
the maps. A document has a size, and a shorter one leaves its file unreadable: other than
bucket policies these documents are parsed to the end of the file.
`DeleteUser` goes through the groups in critical sections of their own. A service
account that is not stored stays in memory when it is deleted, and the mapping of a
group that is not there stays when its policy is deleted: the first changes nothing,
the second counts as torn.
`overtaken`, `stale`, `torn` and `stained` are history. LDAP users and the
migration of an older layout are left out. A load deletes the documents of expired
temporary users (`LoadUsers`); that LoadUser, which loads one user alone, does so too
is left out.

`IAMPolicy`: an evaluation is one action per critical section. `spare` is the
array behind a slice that `append` writes into; two evaluations with the same
first policy write into the same one, and the answer is then any that the
memory model allows. `disturbed` is history.

### DSync, DynamicTimeout

`DSync`: the client's goroutines, the collector of `lock` and the lockers. A
locker is external: it grants, refuses, fails before or after it had its effect
(`faults`), or answers late (`late`). `lock` takes its decision when enough
answers came or at the timeout, and gives back what it has when it failed.

`DynamicTimeout`: one action per atomic operation or critical section of
`logEntry` and `adjust`. The timeout is cut off at `MaxTimeout`.

### HTTPServer, Logging

`HTTPServer`: `boot` is the next step of `serverMain`; a request is a connection
with one request on it and goes through Accept, the wrapper of `Start`,
`maxClients` and `collectAPIStats`, each a step of its own where another goroutine
can come between, but for taking a slot of `maxClients` and the count of the
request, which are one step, as are their opposites at the end. The error of `Start` goes to a channel that nobody reads.

`Logging`: an entry is one call of `LogIf` in a goroutine; the console target
publishes and then inserts into the ring; a subscriber reads the ring and then
registers. What a filter or a full channel drops is left open. The text of
entries and the audit log are left out.

### ChunkedUpload, Signatures, WebSessions

Signatures are terms of what they are computed from, and nobody but the holder
of the secret makes them. `ChunkedUpload`: the body is a sequence of tokens
(headers, bytes, line ends), one change happens to it or none, and `Read` is a
step per turn of its loop, with buffers of several sizes. `Signatures`: a
message is signed, one part of it is changed or none, time passes, the account
changes, and the server verifies it; the canonical strings are the sets of parts
that each scheme covers. Who a request signed in its header is decided for is read
again after its verification (`getReqAccessKeyV4`, `ReqAccessKey` and `Speaker`
here): from the credential in the query when there is one, and from the header when
there is none, so that it may be another account than the signer.

`WebSessions`: a handler is a sequence of steps (`ask` a question to the
policies, `do` an effect, look up a secret, issue a token), translated from the
handler's body, and one step is one action, so that rights, users and secrets
change between any two. `LoginSTS` is left out: it calls an STS service that is
not in the repository.

### DARE, Encryption, Retention

`DARE`: a stream is a sequence of tokens; packages have a header, data and a tag
that is a term of all it protects. Readers and writers of both versions run with
buffers of several sizes, over streams that are intact, cut, reordered, repeated
or altered, whole or from the package a range begins in. `Encryption`: sealed
values are terms; `objects` has the metadata that `newEncryptMetadata` and
`rotateKey` write; what a copy source is asked of the headers in two ways, by
`SSECopyIsRequested` and by the algorithm alone (`CopySource`). `Retention`: one action per call of the object layer, with
the decision that follows; the clock may fail to answer.
`enforceRetentionBypassForPut`, `enforceRetentionForLifecycle` and `rotateKey`
have no caller in the repository: an operation that does what each allows stands
for the caller. `promise`, `answer` and `outdated` are history.

## 3. Runs

| Run | Instance | Shows |
|---|---|---|
| `nslock` | 3 goroutines, 2 resources, lists of up to 2 paths, among them both orders, one path twice, and none | `LockInv`, `MutualExclusion`, `ReleaseIsSafe`, `EntryIffReferenced`, `NoWaitCycle` |
| `nslock_live` | the same with 2 goroutines, fair | `GetLockReturns`; `RefinesTable`: refinement of `RWLockTable` |
| `objects` | 2 requests, 1 bucket, a name and a name below it, contents of 1 and 2 chunks, ranges from the second chunk and of the last | `ObjectsInv`, `UndisturbedKeepContract`, `LossOnlyByDelete`, `BucketMadeKnowingly` |
| `delete_bucket` | as `objects` | `DeleteBucketRefusesNonEmpty` is violated |
| `missing_key` | as `objects` | `MissingKeyIsNoSuchKey` is violated |
| `treewalk` | 1 client, a directory with an object in it and an object behind it, pages of 1 or 2 names, 2 walks, 2 timers | `TypeOK`, `WalkHasOneUser`, `PoolWalksLive`, `ListingComplete`, `ListingInOrder` |
| `treewalk_shared` | 2 clients, 2 objects, pages of 1 name | `ListingComplete` with a shared pool |
| `treewalk_live` | 1 client, 3 objects, pages of 1 name, 1 walk that is pooled twice, 2 timers, fair | `WalkEnds` |
| `bucketconfig` | 2 handlers, 1 bucket, edits of 2 prefixes, one above the other, 2 documents, one of them invalid; failures, restarts | `MemoryMatchesStore`, `GrantedWasSet`, `ShownIsGranted`, `EditIsShown` |
| `policy_parse` | a document with a statement twice | `ParsingKeepsStatements` is violated |
| `services` | timeouts: 2 goroutines, a log of 2 entries; server: 2 requests, 1 slot, 1 panic; log: 2 entries with 1 subscriber, and 1 entry with 2; IAM: a user, a temporary user, a service account, a group, a policy, 3 changes, 1 failing write | `FullLogIsAdjustedOnce`; `BooksBalance`, `ShutdownDrains`, `EveryConnEnds`; `NoEntryTwice`; `MapsMatchStore`, `PoliciesFollowGroups`, `NoOrphans`, `RefreshHeals` |
| `requests` | chunks of 2 bytes, up to 3 bytes; packages of 2 bytes, up to 4 bytes; 2 evaluators, 4 accounts; 2 handlers and 1 locked object; 2 clients and 2 lockers; 1 object with 2 customer and 2 master keys; handlers: every handler once while one thing changes; sessions: 2 clients with 2 requests | `StreamIsSigned`; `DecryptedAsEncrypted`; `DecidesByOwnPolicies`; `LockedIsKept`; `QuorumsExclude`, `NothingLeftLocked`; `ReadBackAsPut`; `SignaturesDecide`; `ServedAsAllowed` |

In `services` and `requests` the variable `instance`, which never changes, chooses
the component that moves; the others stay in an initial state. The two runs do not
check deadlock, because their components end (an upload is read, a message is
verified, the last allowed change was made). All other runs do.

Bounds. `LockIds` needs one object more than there are resources, so that a
deleted entry is made again while the old object is still referred to. Two
requests are enough for every pair of calls to overtake each other; the proofs
cover any number. `WalkIds` and `TimerIds` bound how many walks and pool timers
exist at once: a request that would need another one waits in the model. With
pages of one name the channel holds one result, so that walkers do block.
`MaxPaths` is the length of the longest list of paths. In `bucketconfig` a prefix
above another one makes SetPolicy merge and split statements, and an edit writes
documents longer and shorter than the ones of PutBucketPolicy. A log of two
entries and two goroutines let one count beyond the log while the other adjusts;
`MaxEntries` bounds the counter. `MaxUpdates`, `MaxFailures`, `MaxFaults`,
`MaxLate`, `MaxPanics`, `MaxRandom`, `MaxChanges`, `MaxWebChanges`,
`MaxWebRequests` bound how often something happens, `MaxTime`, `LastTime` and
`MaxClock` the clocks: each lets the case happen before, between and after the
steps of a request. Three changes of IAM are enough to make, use and delete
something. With 2 lockers one failed or late answer decides whether a quorum is
met. Streams have no, one, exactly two and more than one full package.

Symmetry is used in the safety runs, over goroutines, clients, walks and
timers, which the specifications only compare for equality; not in the runs
with temporal formulas other than those of the form `[][A]_vars`.

Fairness. `NSLock`: a goroutine inside GetLock or Unlock is scheduled again;
nothing is assumed of the caller, so a lock may be held for ever. `TreeWalk`:
goroutines are scheduled and the timeout of the pool elapses; clients need not
come back. A process that panicked is started again. `HTTPServer`: the
goroutine that hands a connection on goes on when it can, and Shutdown closes
the listener; that a handler returns is not assumed. `IAM`: the watcher's ticker goes on (LoadStep) and a
holder of the lock goes on (Continue); nobody need make changes.

What the properties say, beyond the obvious:

- `UndisturbedKeepContract` is the specification of each request: when no other
  request changed the tree meanwhile, the response agrees with what the request
  found and left, and nothing else was changed. RemoveObject stops at the first
  name that is missing, which a name that is listed twice is the second time. For
  PutObject it promises only
  that the object begins with the upload, and for a range only that the body is
  no longer than the range and consists of the first bytes of the object:
  that is what the code does.
- `LossOnlyByDelete` and `BucketMadeKnowingly` hold for overtaken requests too.
  They name the two races of the code: an object written into an empty directory
  that is being deleted is lost, and an upload makes a bucket again that is being
  deleted.
- `ListingComplete` and `ListingInOrder` except the names that a failing FilesLs or
  FilesStat hid from the walk of a listing, and no others.
- `ListingComplete` and `PoolWalksLive` except walks that a late timer closed
  (`stale`): such a listing is cut short and called complete, and the second
  close panics. `treewalk` reaches the first, `treewalk_live` both.
- `WalkEnds` excepts walks of failed listings (`lost`), which nothing ends.

- `MemoryMatchesStore` excepts buckets with two changes at once (`raced`), whose
  memory and store may differ for ever. `GrantedWasSet` speaks of read and write
  access to objects: SetPolicy does not always keep the policies of other
  prefixes, nor always revoke the listing of a prefix, so nothing is said there.
- `MapsMatchStore`, `NoOrphans` and `PoliciesFollowGroups` except what a load that
  raced with a change and a failed write leave; their comments name the cases in
  which memory and store differ without any: for instance the mapping of a
  temporary user is stored below `users/` and deleted below `sts-users/`.
  `RefreshHeals` says that loads repair the rest, unless a document became
  unreadable, which a shorter document written over a longer one does.
- `QuorumsExclude` holds with failing and late calls; `NothingLeftLocked` only
  without failing ones: a lost release leaves a locker locked for ever, and a
  grant whose answer is an error is never given back. It excepts a single locker:
  its grant for writing is no quorum (2 of 1), and `lock` gives back what it has
  only after a refusal or a timeout.
- `ShutdownDrains` excepts requests that passed the test of inShutdown and were
  not counted yet. `BooksBalance` counts a panicked handler for ever in the
  statistics, whose Dec is not deferred.
- `NoEntryTwice` allows an entry once for every time the console is in Targets:
  it is a target from init, and Subscribe adds it again whenever there are no
  listeners. An entry between the subscriber's reading of the ring and its
  registration is lost.
- `SignaturesDecide`: the date of a request signed in its header is compared with
  no clock. The account it is decided for is the one that the signed query names or,
  without one there, the signer. `SignedIsAccepted` asks for the hash header, for which client and
  server have different defaults.
- `StreamIsSigned` allows the bytes of the chunk in progress to be handed out
  before its signature is verified.
- `DecryptedAsEncrypted` excepts what the code does not notice: the end of a
  version 1.0 stream that was cut between packages, and of a version 2.0 stream
  that a writer decrypts.
- `DecidesByOwnPolicies` excepts evaluations that ran together with another one
  of the same first policy (`disturbed`): both append to one array under a read
  lock. GetAccountAccess may show more than IsAllowed grants, as it ignores Deny.
- `LockedIsKept` excepts decisions that were overtaken (`outdated`), Upload
  without lock headers and RemoveObject of a folder, which do not ask, and
  buckets whose settings are not in memory after a restart.
- `ReadBackAsPut`: the ETag of an SSE-C object that was put without an MD5 is read
  back as its last 32 characters only.
- `ServedAsAllowed`: the account that a request is decided for had the right to every
  effect, and its sender a good token or key, at some moment of the request; the two
  are the same user unless a signed request names another account in its query. No
  handler acts on rights that this account never had during the request: no more can be said, as no lock is held from a
  question to the effect it is asked for. CreateURLToken and PresignedGet sign
  with the secret of a later moment than the one that verified the token. A URL
  token can be renewed again and again before it expires.

Findings. `delete_bucket`: a bucket with objects in it is deleted without force,
although BucketNotEmpty and a separate permission for deletion by force say that
it is refused. `missing_key`: a GET of a missing key is answered with
InternalError, although several callers test for NoSuchKey. `policy_parse`:
`dropDuplicateStatements` removes the statement at the index of the rest of the
list in the whole list, so that A, B, A loses B; `pkg/iam/policy` has the same
code.

## 4. Proofs

Each theorem holds for every value of the constants that fulfils the modules'
assumptions: any number of goroutines, names, lockers, changes and failures. For
none of the properties is the formula itself inductive; what had to be added, and
why, is said below. Every inductive invariant was checked with TLC on small
instances before it was proved.

`ProtectionProofs` on `NSLock`: `LockInvariant`, `TypeCorrect`, `LocksExclude`,
`UnlockNeverPanics`, `NoEntryLeaks`, `NoWaitCycleAlways`, `ImplementsTable`.
Whether the map's entry may be deleted depends on its reference count, that on
who refers to it, and whether the mutex may be released on its state, which only
means something while every pointer in use is the map's entry. `LockInv` puts
these together: `Progress` (a goroutine's position fits what it acquired and
released), `PointersCurrent`, `EntryIffReferenced` (the count is the number of
references) and `StateMatchesHolders`. A reference or a hold is a slot: a
goroutine and a position in its list of paths; the proof counts slots with the
library's theorems on finite sets, one lemma per action. `NoWaitCycleAlways`: a
goroutine holds the paths before the one it waits for in its sorted list. In a
circle, the one that waits for the last resource of all waits for a goroutine
that holds it and waits for a later one. `ImplementsTable`: the abstract table
has an entry where a goroutine holds a path; `LockSuccess` is a grant of the
table because the mutex's state says who holds it, `UnlockRelease` and the
rollback are releases, all other steps leave the table alone.

`IPFSObjectsProofs`: `ObjectsInvariant`, `TypeCorrect`, `FilesLostOnlyByDelete`,
`BucketsMadeKnowingly`, `UndisturbedContractKept`. `ObjectsInv` consists of the
types, of `TreeOK` (above an object there are directories) and of `ChecksCurrent`
(what a request found out is still true unless it was touched). The two action
properties rest on the last part: a write that loses a file in a directory nobody
named, or makes a bucket, contradicts what was checked, so the request was
touched. For the contract the invariant also says, for every step of a request
that was not touched, how the tree differs from the one it began with.

`TreeWalkProofs`: `TypeCorrect`, `WalkHasOneUserAlways`, `PoolWalksLiveAlways`,
`ListInvAlways`, `ListingInOrderAlways`, `ListingCompleteAlways`.
A walk changes hands three ways (Release, Set, the timer), so the invariant
(`TreeInv`) says where every walk and every timer is: `Owned` has each pooled walk
with one armed timer of its own, and no client using it. What a timer does that
fired late is in it as well, since such a timer is what the properties except.
What a client has listed says nothing of what its walk will still send. `ListInv`
follows a name along the whole way: the work that is left to a walk is a set of
directories and names, none inside another (`WorkFits`), what is in the channel is
in order and before that work (`ChannelFits`), and a walk that goes on behind a
marker has, in its channel or in its work, every lasting name behind the marker
and none at or before it (`GoesOn`). The pool and the client have the walk at their
marker (`PoolFits`, `ClientsFit`), which is why a walk can be handed over. That a
directory may be replaced by its entries (`DoTreeWalkPassed`, `DoTreeWalkToCome`,
`DoTreeWalkInside`) rests on the name tree: a directory's names are before the next
name outside of it, and on the way to a name there is one entry of the directory,
which `MarkerDir` finds. What was created or deleted while the walk ran, or was hidden
from it by a failing call, is not owed: a listing that fails takes the names below its
directory out of `must` and `alive` in the same step, so that what is left to come
still covers what is owed.

`ServicesProofs` on `DSync`: `QuorumsExcludeAlways`, `NothingLeftLockedAlways`. For exclusion
the invariant (`DSyncInv`) says that a client counts only grants that the locker
still has, each of them once, and that it holds the lock only with a quorum;
two quorums of writers, and one of a reader and one of a writer, have a locker in
common, which is a lemma about cardinalities. For `NothingLeftLocked` it says more
(`ExactInv`): every grant of a locker is accounted for by a client that counts it,
gives it back or has not taken its answer.

`ServicesProofs`: `FullLogIsAdjustedOnceAlways` (`TimeoutInv`: one goroutine, and
no other, is on its way to copy a full log), `BooksBalanceAlways` and
`ShutdownDrainsAlways` (`ServerInv`: the counters are cardinalities of sets of
requests, so that every step changes both sides by one), `NoEntryTwiceAlways`
(`LogInv`: what a subscriber got, what is on its way to it and what the ring holds
add up to no more than the sends that were made).

`PolicyProofs`: `PolicyInvAlways`, `MemoryMatchesStoreAlways`. Memory holds what a
handler parsed, and the store what it wrote, which is parsed again after a restart:
they agree only if a document that was parsed once is parsed as itself. That is
`ReadingTwice`: what `dropDuplicateStatements` leaves has no two equal statements.
`PolicyInv` says that every document in the store or on its way is one of these
(`ReadDoc`, `CarriesDoc`), and that, unless a change was raced, one request at most
is between its write to the store and to memory, and carries what is stored
(`FollowsStore`). Both loops over statements are
folds, so the proofs go by induction on the length of the list (`FoldExists`,
`FoldKeeps`), and SetPolicy's result is a document again (`SetPolicyIsSequence`).

`PolicyProofs` on `IAMPolicy`: `DecisionInvAlways`, `DecidesByOwnPoliciesAlways`. An
evaluation takes the read lock up to four times and acts on what it found out before.
`DecisionInv` says that this still holds (`Knows`) unless a change of the maps or
another evaluation's append met it: whether the account is temporary or a service
account, and the names of its policies, in the order that `policyDBGet` returns them.
While the statements of several policies are appended to those of the first, those
that are gathered and those still to append are exactly the statements of the
account's policies. They are gathered in the array behind the first policy, which
other evaluations read and append to as well: that nobody else has appended there,
or the evaluation is one that was met, is part of what it knows, and `GatherFits` has
the lengths. What is then decided depends on the set of statements only
(`IsAllowedMeans`). GetAccountAccess asks for the actions of a class one by one and
shows the class: this is right because an action of an IAM statement is a pair, or a
pair with a wildcard, which `Match` compares in its parts (`MatchOfPairs`), and
because no action is in two classes.

`ProtectionProofs` on `Retention`: `DecisionsStayRight`, `LockedIsKeptAlways`. A handler acts on
what it read one call before. `RetentionInv` says that a decision which nobody
overtook is right for the object there is now; the clock only goes forward, so
that an expired retention stays expired.

`IAMProofs`: `IAMInvAlways`, `MapsMatchStoreAlways`,
`PoliciesFollowGroupsAlways`, `OrphanInvAlways`, `NoOrphansAlways`. The maps are not what is stored while a change still
has documents to write (`todo`), and the maps of a load not while it is under way.
`IAMInv` says what the stored documents will be when `todo` is done (`SysAgrees`,
`TodoFits`), the same of the maps that a load has read so far (`LoadAgrees`), and
that every name and every path has only documents of its kind (`DocsFit`,
`UsersFit`), without which a document of another kind could be taken for a user.
`GroupsFit` ties the memberships to the groups.
`NoOrphans` speaks of moments at which no change is under way, and the documents of
a user, its mapping, its groups and its service accounts are deleted one after the
other. `OrphanInv` says, unless the change counts as torn, what holds between any
two of these steps: the stored documents fit together but for mappings and accounts
that are still among the steps to do (`NobodyInherits`, `PoliciesThere`,
`AccountsFit`), the maps do too unless a load put older ones there
(`MemoryThere`), the steps left only take something away and the next one is
allowed (`TodoReady`), and DeleteUser, which gives the lock back between the
groups, knows every group that the user has still to leave (`LeavesAll`).

`ProtectionProofs` on `Encryption`: `PromisesKept`, `ReadBackAsPutAlways`. That an object is read
back does not say how it is stored, and a rotation starts from what is stored.
`EncryptionInv` says it for each kind of promise: a plain object has no key
(`PlainKept`), one of SSE-C has its own sealed under the customer's (`SSECKept`),
one of SSE-S3 under a data key that is sealed under a key of the service, with an
ETag that belongs to the data (`S3Kept`), and an object whose rotation left
metadata of the wrong kind promises less. Since sealed values are terms, a key opens
only what was sealed under it; that the ciphers have this property is assumed.

`ProtectionProofs` on `Signatures`: `SignaturesInvAlways`, `SignaturesDecideAlways`.
The verdict compares terms that were made at two times from two states: by the client,
and by the server from what arrived and from the credentials of that moment.
`SignaturesInv` keeps what the client signed and with what (`OriginalFits`, made of
`FieldsFit`, `HeadersFit` and `SignatureFits`), what no change on the way touches
(`KeptOnItsWay`), that no secret belongs to two keys (`CredsFit`), and that a verdict
speaks of the message that is there (`VerdictFits`). One lemma per scheme then compares
the two texts field by field, in both directions: a request that is let in is the one
that was signed as far as its scheme covers it, and one that nobody changed is let in.
The query is covered, so the account it names is the one that the client signed.

`DAREProofs`: `StreamInvAlways`, `DecryptedAsEncryptedAlways`. A job fixes its packages:
`Package(j, k)` has the data from `Edge(j, k)` on and begins at `Start(j, k)` of the
stream. The invariant has three parts. `EncInv`: the stream and what its maker still
buffers are the packages up to its sequence number, in order (`Made`), and what is left
to encrypt is the rest of the data. `DecInv`, whatever happened to the stream: what came
out and what is still in the buffer end where the next package begins (`Aligned`). A
package that opens continues it because its tag is a term of its number and of all its
data, so it is the next one whatever stands around it (`OpensIs`). The header of version
2.0 does not show a number: there the proof needs that an altered stream either has no
package that pretends one (`Uncounted`) or has every tag where it was made (`Placed`),
so that a change of the nonce moves all numbers or none (`Numbered`); and that the mark
of the last package is part of the tag (`Ended`). `IntactInv`, of a stream nobody
touched: what is ahead of the reader or writer is the packages from its number to the
one it needs last (`Intact`), so that each opens, and when none is left everything asked
for has come out. For `ReadAt` and ranges this needs that `GetDecryptedRange` cuts at
packages and far enough (`RangeIs`), and for the sizes that the division of the length
counts the packages (`SizesIs`).

`WebSessionsProofs`: `SessionsInvAlways`, `ServedAsAllowedAlways`. A request has
its whole plan when it is sent, and steps only shorten it. `SessionsInv` says of
what is left of a plan that every effect is asked for before it or was seen to be a
right (`PlanFits`, `Covered`), and that a step of a session comes after the one it
relies on; of the request, that it has done nothing and asked for nothing before
its token or signature was looked at (`Unchecked`), what is known of that token
(`TokenFits`) and of the credentials it signs with (`CredsFit`), and that its
history agrees with the world (`HistoryFits`). Rights, users and time that change
only let the history grow. That the plans are such is proved for each handler: a
handler over many names is a concatenation of its steps for each of them, and what
a concatenation contains (`FlattenSeqConsists`) needs an induction.

In the same module, by the same lemmas about sequences: `ChunkInvAlways`,
`StreamIsSignedAlways`. A signature is a term of the data of all chunks before it, so
two invariants are enough. `IntegrityInv`, of any body: what is verified is the data of
the client's first chunks (`First`), every signature that occurs on the way is of such
(`Tokens`), so a chunk that is verified is the next one (`NextFirst`); what was handed
out and what the call has read is what is verified and the part of the chunk in
progress (`Handed`); and the last chunk is the only one without data, so that the end
is reached behind all of them. `TrackInv`, of a body that was left alone: each state of
the reader says how much of the stream is left (`Track`, `Rest`), from where every
chunk begins (`Place`); this needs what `getStreamLength` announces to be the whole
stream (`SentIs`), for which the division is looked at.

Assumptions on the constants are those stated in the modules: `Ancestors` is
transitive and irreflexive, and in the order of the strings the names with the same
directory as their prefix are not interrupted by others, contents are sequences of numbers, markers such as
`NoDoc` or `NoWalk` are different from what they stand beside, the lists of paths
are bounded, sets that are counted are finite, and requests carry the values that
the parsers of the code let through: a body is not one of the marks for a missing hash,
the clients' region is the server's, a presigned request is valid for a week at most,
a document of a policy is a sequence of statements, and a temporary user is in no
group (`AddUsersToGroup` refuses it). TLC evaluates them on every run.

What the proofs brought to light about earlier versions of the model: the
contract of RemoveObject is not kept when a name is listed twice;
a single locker keeps a grant for writing; two definitions of `IAMPolicy` and
`Retention` had CASE arms that overlap, so that the result was an arbitrary choice
where the code takes the first; and DeleteUser, on maps that a racing load had put
back, writes the members of old maps into the groups it leaves, so that a member
deleted meanwhile comes back: that counts as a change on stale maps (`torn`). The
formulas and definitions now say what the code does.

Induction. The library's induction theorems take an operator as a parameter, which
the provers cannot instantiate. `SetInduction` of `WebSessionsProofs` states the
principle with a set, and is proved from the theorem that every set of numbers has
a least one; `PolicyProofs` has its own, which it can reach.

Only model-checked: liveness (`GetLockReturns`, `WalkEnds`, `EveryConnEnds`,
`RefreshHeals`), which is out of the prover's reach; and, not attempted yet, what
needs an induction over data: `Policy`'s matcher on names of any length and the
policies `CannedPolicy` makes, so `GrantedWasSet`, `ShownIsGranted` and
`EditIsShown`.

## 5. Plan

Proofs that are left, in this order:

1. `BucketConfig`: `GrantedWasSet`, for which the matcher has to be shown to accept a
   name that a resource of the policy stands for.
2. `CannedPolicy`: `ShownIsGranted` and `EditIsShown`.

Not modelled, and why:

- Multipart uploads: every operation returns NotImplemented.
- Cryptography, digests and the parsers of tokens and dates: signatures, sealed
  values and hashes are terms of what they are made from.
- `LoginSTS` and LDAP users: they depend on services that are not in the
  repository. The migration of an older IAM layout runs once, before any request.
- Listings with a delimiter other than `/` (`listObjectsNonSlash`): one pass over
  a walk without the pool.
- Parsing of the Range header, conditional headers and the layout of responses.
- Transitions and non-current versions of lifecycles, which are parsed and refused.
- TLS, options of sockets, trace output and the audit log.
- The command line, the administration client and the browser's JavaScript.

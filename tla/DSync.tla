------------------------------- MODULE DSync -------------------------------
(***************************************************************************)
(* The distributed lock (pkg/dsync): a client asks every locker at once    *)
(* and has the lock when a quorum grants it; what it got otherwise, and    *)
(* what arrives after the decision, is given back.                         *)
(*                                                                         *)
(* Lockers are services behind the interface NetLocker.  A call of one may *)
(* fail before or after it had its effect.                                 *)
(***************************************************************************)
EXTENDS Integers, FiniteSets

CONSTANTS Clients,     \* goroutines with a DRWMutex each, of the same names
          Lockers,
          Offline,     \* lockers for which the client list holds nil
          MaxFaults,   \* bound on calls that fail
          MaxLate      \* bound on the late grants of a client at a locker

ASSUME LockersAssumption ==
  /\ IsFiniteSet(Lockers) /\ Offline \subseteq Lockers /\ Lockers # Offline
  /\ MaxFaults \in Nat /\ MaxLate \in Nat \ {0}

VARIABLES writer,    \* per locker: the clients that it locked the names for
          readers,   \* per locker and client: how often for reading
          mutex,     \* per client: the call of lock or unlock it is in
          late,      \* per client and locker, for writing and for reading:
                     \* late grants that the goroutine of lock still gives back
          faults

dsyncVars == <<writer, readers, mutex, late, faults>>

(***************************************************************************)
(* Quorums.                                                                *)
(***************************************************************************)
N == Cardinality(Lockers)

dquorumReads == (N + 1) \div 2

\* Mutant of dquorum: half of the lockers are enough.
dquorumMutant == dquorumReads

dquorum == dquorumReads + 1

Quorum(isReadLock) == IF isReadLock THEN dquorumReads ELSE dquorum

quorumMet(m) == Cardinality(m.locks) >= Quorum(m.isReadLock)

\* Enough lockers refused to rule the quorum out.
QuorumLost(m) == m.locksFailed > N - Quorum(m.isReadLock)

NoCall == [l \in Lockers |-> "done"]

Kind(isReadLock) == IF isReadLock THEN "read" ELSE "write"
NoneLate == [kind \in {"read", "write"} |-> 0]

Unlocked == [pc |-> "idle", isReadLock |-> FALSE, call |-> NoCall,
             locks |-> {}, locksFailed |-> 0]

DSyncInit ==
  /\ writer = [l \in Lockers |-> {}]
  /\ readers = [l \in Lockers |-> [c \in Clients |-> 0]]
  /\ mutex = [c \in Clients |-> Unlocked]
  /\ late = [c \in Clients |-> [l \in Lockers |-> NoneLate]]
  /\ faults = 0

(***************************************************************************)
(* The lockers, behind NetLocker.                                          *)
(***************************************************************************)
Fault ==
  /\ faults < MaxFaults
  /\ faults' = faults + 1

CanGrant(l, isReadLock) ==
  /\ writer[l] = {}
  /\ ~isReadLock => \A c \in Clients : readers[l][c] = 0

Grants(c, l, isReadLock) ==
  IF isReadLock
  THEN readers' = [readers EXCEPT ![l][c] = @ + 1] /\ UNCHANGED writer
  ELSE writer' = [writer EXCEPT ![l] = {c}] /\ UNCHANGED readers

Frees(c, l, isReadLock) ==
  IF isReadLock
  THEN /\ readers' = [readers EXCEPT ![l][c] = IF @ = 0 THEN 0 ELSE @ - 1]
       /\ UNCHANGED writer
  ELSE writer' = [writer EXCEPT ![l] = @ \ {c}] /\ UNCHANGED readers

\* sendRelease: its errors are logged.
sendRelease(c, l, isReadLock) ==
  \/ Frees(c, l, isReadLock) /\ UNCHANGED faults
  \/ Fault /\ UNCHANGED <<writer, readers>>

(***************************************************************************)
(* lockBlocking and lock.                                                  *)
(***************************************************************************)
Asked(isReadLock) ==
  [Unlocked EXCEPT !.pc = "collect", !.isReadLock = isReadLock,
     !.call = [l \in Lockers |-> IF l \in Offline THEN "no" ELSE "asked"]]

Ask(c, isReadLock) ==
  /\ \A l \in Lockers : late[c][l][Kind(isReadLock)] < MaxLate
  /\ mutex' = [mutex EXCEPT ![c] = Asked(isReadLock)]
  /\ UNCHANGED <<writer, readers, late, faults>>

GetLock(c, isReadLock) == mutex[c].pc = "idle" /\ Ask(c, isReadLock)

Says(c, l, answer) == mutex' = [mutex EXCEPT ![c].call[l] = answer]

\* The call of a locker returns.
LockerAnswers(c, l) ==
  LET read == mutex[c].isReadLock
  IN /\ mutex[c].call[l] = "asked"
     /\ \/ CanGrant(l, read) /\ Grants(c, l, read) /\ Says(c, l, "yes") /\ UNCHANGED faults
        \/ ~CanGrant(l, read) /\ Says(c, l, "no") /\ UNCHANGED <<writer, readers, faults>>
        \/ Fault /\ Says(c, l, "no") /\ UNCHANGED <<writer, readers>>
        \/ Fault /\ CanGrant(l, read) /\ Grants(c, l, read) /\ Says(c, l, "no")
     /\ UNCHANGED late

\* The collector takes an answer from the channel.
Take(c, l) ==
  LET m == mutex[c]
      n == [m EXCEPT !.call[l] = "done",
                     !.locks = IF m.call[l] = "yes" THEN @ \cup {l} ELSE @,
                     !.locksFailed = IF m.call[l] = "yes" THEN @ ELSE @ + 1]
  IN /\ m.pc = "collect"
     /\ m.call[l] \in {"yes", "no"}
     /\ mutex' = [mutex EXCEPT ![c] =
          IF m.call[l] = "no" /\ QuorumLost(n) THEN [n EXCEPT !.pc = "release"]
          ELSE IF n.call = NoCall THEN [n EXCEPT !.pc = "decided"] ELSE n]
     /\ UNCHANGED <<writer, readers, late, faults>>

\* DRWMutexAcquireTimeout
AcquireTimeout(c) ==
  /\ mutex[c].pc = "collect"
  /\ mutex' = [mutex EXCEPT ![c].pc = IF quorumMet(mutex[c]) THEN "decided" ELSE "release"]
  /\ UNCHANGED <<writer, readers, late, faults>>

\* releaseAll and unlock: one locker after the other.
Release(c, l) ==
  /\ mutex[c].pc \in {"release", "unlock"}
  /\ l \in mutex[c].locks
  /\ mutex' = [mutex EXCEPT ![c].locks = @ \ {l}]
  /\ sendRelease(c, l, mutex[c].isReadLock)
  /\ UNCHANGED late

Released(c) ==
  /\ mutex[c].pc \in {"release", "unlock"}
  /\ mutex[c].locks = {}
  /\ mutex' = [mutex EXCEPT ![c] =
       IF mutex[c].pc = "unlock" THEN Unlocked ELSE [@ EXCEPT !.pc = "decided"]]
  /\ UNCHANGED <<writer, readers, late, faults>>

\* Mutant of TakeLate: what is late is dropped.
TakeLateMutant(c, l) ==
  /\ mutex[c].pc = "decided"
  /\ mutex[c].call[l] \in {"yes", "no"}
  /\ mutex' = [mutex EXCEPT ![c].call[l] = "done"]
  /\ UNCHANGED <<late, writer, readers, faults>>

\* After the decision the collector takes the other answers.
TakeLate(c, l) ==
  /\ mutex[c].pc = "decided"
  /\ mutex[c].call[l] \in {"yes", "no"}
  /\ mutex' = [mutex EXCEPT ![c].call[l] = "done"]
  /\ late' = IF mutex[c].call[l] = "no" THEN late
             ELSE [late EXCEPT ![c][l][Kind(mutex[c].isReadLock)] = @ + 1]
  /\ UNCHANGED <<writer, readers, faults>>

ReleaseLate(c, l, isReadLock) ==
  /\ late[c][l][Kind(isReadLock)] > 0
  /\ late' = [late EXCEPT ![c][l][Kind(isReadLock)] = @ - 1]
  /\ sendRelease(c, l, isReadLock)
  /\ UNCHANGED mutex

\* lock waits for every locker's answer, also after the decision; then
\* lockBlocking has the lock, tries again or has run out of time.
LockReturns(c) ==
  LET m == mutex[c]
  IN /\ m.pc = "decided"
     /\ m.call = NoCall
     /\ \/ /\ quorumMet(m)
           /\ mutex' = [mutex EXCEPT ![c].pc = "held"]
           /\ UNCHANGED <<writer, readers, late, faults>>
        \/ /\ ~quorumMet(m)
           /\ Ask(c, m.isReadLock)
        \/ /\ ~quorumMet(m)
           /\ mutex' = [mutex EXCEPT ![c] = Unlocked]
           /\ UNCHANGED <<writer, readers, late, faults>>

\* Unlock and RUnlock
Unlock(c) ==
  /\ mutex[c].pc = "held"
  /\ mutex' = [mutex EXCEPT ![c].pc = "unlock"]
  /\ UNCHANGED <<writer, readers, late, faults>>

DSyncNext ==
  \E c \in Clients :
    \/ \E isReadLock \in BOOLEAN : GetLock(c, isReadLock)
    \/ \E l \in Lockers :
         \/ LockerAnswers(c, l) \/ Take(c, l) \/ TakeLate(c, l) \/ Release(c, l)
         \/ \E isReadLock \in BOOLEAN : ReleaseLate(c, l, isReadLock)
    \/ AcquireTimeout(c) \/ Released(c) \/ LockReturns(c) \/ Unlock(c)

DSyncSpec == DSyncInit /\ [][DSyncNext]_dsyncVars
-----------------------------------------------------------------------------
\* Whoever has the lock for writing has it alone, whatever calls failed, timed
\* out or were answered late (lock, quorumMet).
QuorumsExclude ==
  \A c, d \in Clients :
    (mutex[c].pc = "held" /\ ~mutex[c].isReadLock /\ mutex[d].pc = "held") => c = d

\* Nothing stays locked behind: once every client is done, late grants were
\* given back and no call failed, every locker is free (releaseAll, unlock and
\* the end of lock's collector).  A single locker is left out: its grant for
\* writing is no quorum, and as it did not refuse either, lock returns without
\* releaseAll and the locker stays locked.
NothingLeftLocked ==
  ( /\ N > 1
    /\ faults = 0
    /\ \A c \in Clients : mutex[c] = Unlocked /\ \A l \in Lockers : late[c][l] = NoneLate )
  => \A l \in Lockers : writer[l] = {} /\ \A c \in Clients : readers[l][c] = 0
=============================================================================

---------------------------- MODULE RWLockTable ----------------------------
(***************************************************************************)
(* What the namespace lock promises: a table of readers/writer locks, one  *)
(* per resource, whose acquisitions and releases are atomic.  A holder is  *)
(* one acquisition (a lock instance may hold a resource more than once).   *)
(***************************************************************************)
CONSTANTS Holders, Resources

VARIABLES readers, writers

tableVars == <<readers, writers>>

TableInit ==
    /\ readers = [r \in Resources |-> {}]
    /\ writers = [r \in Resources |-> {}]

AcquireRead(h, r) ==
    /\ writers[r] = {}
    /\ h \notin readers[r]
    /\ readers' = [readers EXCEPT ![r] = @ \cup {h}]
    /\ UNCHANGED writers

AcquireWrite(h, r) ==
    /\ writers[r] = {}
    /\ readers[r] = {}
    /\ writers' = [writers EXCEPT ![r] = {h}]
    /\ UNCHANGED readers

Release(h, r) ==
    /\ h \in readers[r] \cup writers[r]
    /\ readers' = [readers EXCEPT ![r] = @ \ {h}]
    /\ writers' = [writers EXCEPT ![r] = @ \ {h}]

TableNext ==
    \E h \in Holders, r \in Resources :
        AcquireRead(h, r) \/ AcquireWrite(h, r) \/ Release(h, r)

TableSpec == TableInit /\ [][TableNext]_tableVars

=============================================================================

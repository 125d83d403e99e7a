------------------------------ MODULE Logging ------------------------------
(***************************************************************************)
(* The log: logger.LogIf sends an entry to every target (logger.go), the   *)
(* console target publishes it to the subscribers (pubsub.go) and keeps it *)
(* in a ring (consolelogger.go), an HTTP target puts it in a bounded queue *)
(* (target/http/http.go); LogOnceIf leaves out repetitions (logonce.go).   *)
(*                                                                         *)
(* An entry is one call of LogIf or LogOnceIf, in a goroutine of its own.  *)
(* What a filter or the full channel of a subscriber drops is left open.   *)
(***************************************************************************)
EXTENDS Integers, Sequences, FiniteSets

CONSTANTS Entries,      \* calls of LogIf and LogOnceIf
          Errors,       \* their errors
          Subscribers,
          RingSize,     \* defaultLogBufferCount
          LogChSize     \* capacity of the HTTP target's logCh

ASSUME LoggingAssumption ==
  RingSize \in Nat \ {0} /\ LogChSize \in Nat /\ "http" \notin Subscribers

VARIABLES targets,      \* how often Targets holds the console
          entry,        \* per entry: pc, the console sends left, all of them
          logBuf,       \* the ring
          logCh,        \* the HTTP target's queue
          idMap,        \* logOnce.IDMap for one id: the error, or none
          sub,          \* per subscriber: pc and the length of Targets it read
          got           \* how often each subscriber, and the HTTP endpoint, got an entry

logVars == <<targets, entry, logBuf, logCh, idMap, sub, got>>

NoError == "nil"
Receivers == Subscribers \cup {"http"}

LogInit ==
  /\ targets = 1        \* init of common-main.go
  /\ entry = [e \in Entries |-> [pc |-> "none", left |-> 0, sends |-> 0]]
  /\ logBuf = <<>>
  /\ logCh = <<>>
  /\ idMap = NoError
  /\ sub = [s \in Subscribers |-> [pc |-> "off", read |-> 0]]
  /\ got = [r \in Receivers |-> [e \in Entries |-> 0]]

Registered == {s \in Subscribers : sub[s].pc = "on"}

\* Every receiver of R gets each entry of E.
Delivers(R, E) ==
  got' = [r \in Receivers |-> [e \in Entries |->
            IF r \in R /\ e \in E THEN got[r][e] + 1 ELSE got[r][e]]]

(***************************************************************************)
(* Logging an error.                                                       *)
(***************************************************************************)
\* logIf reads Targets once.
LogIf(e) ==
  /\ entry[e].pc \in {"none", "shouldLog"}
  /\ entry' = [entry EXCEPT ![e] = [pc |-> "first", left |-> targets, sends |-> targets]]
  /\ UNCHANGED <<targets, logBuf, logCh, idMap, sub, got>>

\* The error that is already in the map is not logged again.
LogOnceIf(e) ==
  /\ entry[e].pc = "none"
  /\ \E err \in Errors :
       /\ idMap' = err
       /\ entry' = [entry EXCEPT ![e].pc = IF idMap = err THEN "skipped" ELSE "shouldLog"]
  /\ UNCHANGED <<targets, logBuf, logCh, sub, got>>

CleanupRoutine ==
  /\ idMap # NoError
  /\ idMap' = NoError
  /\ UNCHANGED <<targets, entry, logBuf, logCh, sub, got>>

Publishes(e) ==
  /\ \E S \in SUBSET Registered : Delivers(S, {e})
  /\ UNCHANGED logBuf

Inserts(e) ==
  /\ LET all == Append(logBuf, e)
     IN  logBuf' = IF Len(all) > RingSize THEN Tail(all) ELSE all
  /\ UNCHANGED got

\* Mutant of Send: the ring first.
SendMutant(e) ==
  /\ \/ /\ entry[e].pc = "first"
        /\ Inserts(e)
        /\ entry' = [entry EXCEPT ![e].pc = "second"]
     \/ /\ entry[e].pc = "second"
        /\ Publishes(e)
        /\ entry' = [entry EXCEPT ![e].left = @ - 1,
                                  ![e].pc = IF entry[e].left = 1 THEN "http" ELSE "first"]
  /\ UNCHANGED <<targets, logCh, idMap, sub>>

\* HTTPConsoleLoggerSys.Send, once for each time Targets holds the console.
Send(e) ==
  /\ \/ /\ entry[e].pc = "first"
        /\ Publishes(e)
        /\ entry' = [entry EXCEPT ![e].pc = "second"]
     \/ /\ entry[e].pc = "second"
        /\ Inserts(e)
        /\ entry' = [entry EXCEPT ![e].left = @ - 1,
                                  ![e].pc = IF entry[e].left = 1 THEN "http" ELSE "first"]
  /\ UNCHANGED <<targets, logCh, idMap, sub>>

\* The HTTP target's Send never waits: a full buffer drops the entry.
HTTPSend(e) ==
  /\ entry[e].pc = "http"
  /\ entry' = [entry EXCEPT ![e].pc = "done"]
  /\ logCh' = IF Len(logCh) < LogChSize THEN Append(logCh, e) ELSE logCh
  /\ UNCHANGED <<targets, logBuf, idMap, sub, got>>

\* startHTTPLogger posts an entry; one that cannot be posted is not retried.
HTTPPost ==
  /\ logCh # <<>>
  /\ logCh' = Tail(logCh)
  /\ \E R \in SUBSET {"http"} : Delivers(R, {Head(logCh)})
  /\ UNCHANGED <<targets, entry, logBuf, idMap, sub>>

(***************************************************************************)
(* Subscribing.                                                            *)
(***************************************************************************)
SubGoes(s, pc) == sub' = [sub EXCEPT ![s].pc = pc]

\* The console is added again whenever nobody listens.
Subscribe(s) ==
  /\ sub[s].pc = "off"
  /\ SubGoes(s, IF Registered = {} THEN "add" ELSE "last")
  /\ UNCHANGED <<targets, entry, logBuf, logCh, idMap, got>>

\* AddTarget takes no lock: of two at once one may be lost.
AddTarget(s) ==
  /\ \/ /\ sub[s].pc = "add"
        /\ sub' = [sub EXCEPT ![s] = [pc |-> "append", read |-> targets]]
        /\ UNCHANGED targets
     \/ /\ sub[s].pc = "append"
        /\ targets' = sub[s].read + 1
        /\ SubGoes(s, "last")
  /\ UNCHANGED <<entry, logBuf, logCh, idMap, got>>

\* The last entries of the ring; doneCh may end it before it is registered.
LastN(s) ==
  /\ sub[s].pc = "last"
  /\ \E last \in 0..Len(logBuf) :
       LET times(e) == Cardinality({i \in Len(logBuf) - last + 1 .. Len(logBuf) : logBuf[i] = e})
       IN  got' = [got EXCEPT ![s] = [e \in Entries |-> @[e] + times(e)]]
  /\ \E pc \in {"register", "gone"} : SubGoes(s, pc)
  /\ UNCHANGED <<targets, entry, logBuf, logCh, idMap>>

PubSubSubscribe(s) ==
  /\ sub[s].pc = "register"
  /\ SubGoes(s, "on")
  /\ UNCHANGED <<targets, entry, logBuf, logCh, idMap, got>>

Unsubscribe(s) ==
  /\ sub[s].pc = "on"
  /\ SubGoes(s, "gone")
  /\ UNCHANGED <<targets, entry, logBuf, logCh, idMap, got>>

EntryStep(e) == LogIf(e) \/ LogOnceIf(e) \/ Send(e) \/ HTTPSend(e)

SubscriberStep(s) ==
  Subscribe(s) \/ AddTarget(s) \/ LastN(s) \/ PubSubSubscribe(s) \/ Unsubscribe(s)

LogNext ==
  \/ \E e \in Entries : EntryStep(e)
  \/ \E s \in Subscribers : SubscriberStep(s)
  \/ CleanupRoutine \/ HTTPPost

LogSpec == LogInit /\ [][LogNext]_logVars
-----------------------------------------------------------------------------
\* No entry reaches a subscriber both from the ring and by publication: each
\* subscriber gets it at most once for every time the console was a target, the
\* HTTP endpoint at most once (Subscribe registers after it read the ring, Send
\* publishes before it inserts).
NoEntryTwice ==
  \A e \in Entries :
    /\ \A s \in Subscribers : got[s][e] <= entry[e].sends
    /\ got["http"][e] <= 1
=============================================================================

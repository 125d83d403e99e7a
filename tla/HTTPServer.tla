----------------------------- MODULE HTTPServer -----------------------------
(***************************************************************************)
(* The process: serverMain brings up the HTTP server, then the object      *)
(* layer, then the subsystems, while requests already arrive               *)
(* (server-main.go, http/server.go, http/listener.go); each request goes   *)
(* through the wrapper of Server.Start, maxClients (throttling.go) and     *)
(* collectAPIStats (handler-utils.go).                                     *)
(*                                                                         *)
(* A request stands for a connection with one request on it.               *)
(***************************************************************************)
EXTENDS Integers, FiniteSets

CONSTANTS Requests,
          MaxClients,   \* size of requestsPool; 0: apiThrottling is not enabled
          MaxPanics     \* bound on handlers that panic

ASSUME ServerAssumption ==
  IsFiniteSet(Requests) /\ MaxClients \in Nat /\ MaxPanics \in Nat

VARIABLES boot,         \* the next step of serverMain
          ready,        \* what is set: "objectAPI", "policySys"
          listener,     \* the TCP listener and doneCh
          serve,        \* http.Server.Serve
          shutdown,     \* Server.Shutdown
          req,          \* per request: where it is
          requestCount,
          requestsPool, \* tokens taken
          current,      \* currentS3Requests
          panics        \* history: handlers that panicked

serverVars == <<boot, ready, listener, serve, shutdown, req, requestCount,
                requestsPool, current, panics>>
counters == <<requestCount, requestsPool, current, panics>>
process  == <<boot, ready, listener, serve, shutdown>>

ServerInit ==
  /\ boot = "start"
  /\ ready = {}
  /\ listener = "none"
  /\ serve = "off"
  /\ shutdown = "none"
  /\ req = [r \in Requests |-> [pc |-> "none", late |-> FALSE]]
  /\ requestCount = 0
  /\ requestsPool = 0
  /\ current = 0
  /\ panics = 0

At(r, pc) == req[r].pc = pc
Goes(r, pc) == req' = [req EXCEPT ![r].pc = pc]

(***************************************************************************)
(* serverMain.                                                             *)
(***************************************************************************)
\* go Start; then the object layer, whose error is ignored.
NewObjectLayer ==
  /\ boot = "start"
  /\ boot' = "subsystems"
  /\ ready' \in {ready, ready \cup {"objectAPI"}}
  /\ UNCHANGED <<listener, serve, shutdown, req, counters>>

NewAllSubsystems ==
  /\ boot = "subsystems"
  /\ boot' = "signals"
  /\ ready' = ready \cup {"policySys"}
  /\ UNCHANGED <<listener, serve, shutdown, req, counters>>

\* Start, in a goroutine of its own: newHTTPListener may fail, which nobody
\* takes notice of.
Start ==
  /\ boot # "exited"
  /\ serve = "off"
  /\ \/ listener' = "open" /\ serve' = "accepting"
     \/ listener' = "none" /\ serve' = "failed"
  /\ UNCHANGED <<boot, ready, shutdown, req, counters>>

\* handleSignals: a signal that came earlier waited in its channel.  The
\* process ends without a Shutdown.
HandleSignal ==
  /\ boot = "signals"
  /\ boot' = "exited"
  /\ req' = [r \in Requests |-> IF At(r, "none") THEN req[r] ELSE [req[r] EXCEPT !.pc = "cut"]]
  /\ listener' = "closed" /\ serve' = "returned"
  /\ UNCHANGED <<ready, shutdown, counters>>

Running == boot # "exited"

(***************************************************************************)
(* The listener.                                                           *)
(***************************************************************************)
\* handleListener accepts; handleConn offers the connection.
Dial(r) ==
  /\ Running
  /\ listener = "open"
  /\ At(r, "none")
  /\ Goes(r, "dialed")
  /\ UNCHANGED <<process, counters>>

Accept(r) ==
  /\ Running
  /\ serve = "accepting"
  /\ At(r, "dialed")
  /\ Goes(r, "accepted")
  /\ UNCHANGED <<process, counters>>

\* Mutant of SendDone: the connection waits for Accept.
SendDoneMutant(r) ==
  /\ Running
  /\ listener = "closed" /\ serve = "accepting"
  /\ At(r, "dialed")
  /\ Goes(r, "closed")
  /\ UNCHANGED <<process, counters>>

\* send, when doneCh is closed; when Accept is waiting too, either happens.
SendDone(r) ==
  /\ Running
  /\ listener = "closed"
  /\ At(r, "dialed")
  /\ Goes(r, "closed")
  /\ UNCHANGED <<process, counters>>

\* AcceptTCP fails and Accept gets the error: Serve returns and closes the
\* listener.
AcceptError ==
  /\ Running
  /\ serve = "accepting"
  /\ serve' = "returned"
  /\ listener' = "closed"
  /\ UNCHANGED <<boot, ready, shutdown, req, counters>>

(***************************************************************************)
(* Shutdown.                                                               *)
(***************************************************************************)
\* inShutdown is set; a second call, or one before Start, changes nothing.
Shutdown ==
  /\ Running
  /\ listener # "none"
  /\ shutdown = "none"
  /\ shutdown' = "close"
  /\ UNCHANGED <<boot, ready, listener, serve, req, counters>>

\* httpListener.Close, in two steps: the TCP listeners, then doneCh.
CloseListener ==
  /\ Running
  /\ shutdown = "close"
  /\ \/ listener = "open" /\ listener' = "closing" /\ UNCHANGED shutdown
     \/ listener # "open" /\ listener' = "closed" /\ shutdown' = "poll"
  /\ UNCHANGED <<boot, ready, serve, req, counters>>

\* Mutant of Poll: one request does not count.
PollMutant ==
  /\ Running
  /\ shutdown = "poll"
  /\ requestCount <= 1
  /\ shutdown' = "drained"
  /\ req' = [r \in Requests |-> [req[r] EXCEPT !.late = At(r, "checked")]]
  /\ UNCHANGED <<boot, ready, listener, serve, counters>>

Poll ==
  /\ Running
  /\ shutdown = "poll"
  /\ requestCount <= 0
  /\ shutdown' = "drained"
  /\ req' = [r \in Requests |-> [req[r] EXCEPT !.late = At(r, "checked")]]
  /\ UNCHANGED <<boot, ready, listener, serve, counters>>

ShutdownTimer ==
  /\ Running
  /\ shutdown = "poll"
  /\ shutdown' = "timedout"
  /\ UNCHANGED <<boot, ready, listener, serve, req, counters>>

(***************************************************************************)
(* A request.                                                              *)
(***************************************************************************)
\* The wrapper: the check and the count are two steps.
Check(r) ==
  /\ Running
  /\ At(r, "accepted")
  /\ Goes(r, IF shutdown = "none" THEN "checked" ELSE "forbidden")
  /\ UNCHANGED <<process, counters>>

Count(r) ==
  /\ Running
  /\ At(r, "checked")
  /\ Goes(r, "counted")
  /\ requestCount' = requestCount + 1
  /\ UNCHANGED <<process, requestsPool, current, panics>>

Counted(r) == req[r].pc \in {"counted", "handling", "leaving"}

\* The statistics of requests in progress.
Inc == current' = current + 1
Dec == current' = IF current > 0 THEN current - 1 ELSE current

\* maxClients, then collectAPIStats counts the request.
Enter(r) ==
  /\ Running
  /\ At(r, "counted")
  /\ MaxClients # 0 => requestsPool < MaxClients
  /\ requestsPool' = IF MaxClients = 0 THEN requestsPool ELSE requestsPool + 1
  /\ Goes(r, "handling")
  /\ Inc
  /\ UNCHANGED <<process, requestCount, panics>>

\* The deadline passed, or the client went away.
MaxedOut(r) ==
  /\ Running
  /\ At(r, "counted")
  /\ MaxClients # 0
  /\ Goes(r, "leaving")
  /\ UNCHANGED <<process, counters>>

\* Mutant of HandlerPanics: the token is only given back by a return.
HandlerPanicsMutant(r) ==
  /\ Running
  /\ At(r, "handling")
  /\ panics < MaxPanics
  /\ Goes(r, "leaving")
  /\ panics' = panics + 1
  /\ UNCHANGED <<process, requestCount, requestsPool, current>>

GivesBack == requestsPool' = IF MaxClients = 0 THEN requestsPool ELSE requestsPool - 1

\* A handler answers, ErrServerNotInitialized when there is no object layer.
HandlerReturns(r) ==
  /\ Running
  /\ At(r, "handling")
  /\ Goes(r, "leaving")
  /\ GivesBack
  /\ Dec
  /\ UNCHANGED <<process, requestCount, panics>>

\* It panics: when it asks for a policy between the object layer and the
\* subsystems, by CriticalIf, or by a defect.  Deferred calls are made, the
\* statistics are not.
HandlerPanics(r) ==
  /\ Running
  /\ At(r, "handling")
  /\ "objectAPI" \in ready
  /\ panics < MaxPanics
  /\ Goes(r, "leaving")
  /\ GivesBack
  /\ panics' = panics + 1
  /\ UNCHANGED <<process, requestCount, current>>

Leave(r) ==
  /\ Running
  /\ At(r, "leaving")
  /\ Goes(r, "done")
  /\ requestCount' = requestCount - 1
  /\ UNCHANGED <<process, requestsPool, current, panics>>

\* The connection is used for another request, or another client comes.
Again(r) ==
  /\ Running
  /\ req[r].pc \in {"done", "forbidden", "closed"}
  /\ req' = [req EXCEPT ![r] = [pc |-> "none", late |-> FALSE]]
  /\ UNCHANGED <<process, counters>>

ConnStep(r) == Accept(r) \/ SendDone(r)

ServerNext ==
  \/ NewObjectLayer \/ NewAllSubsystems \/ Start \/ HandleSignal
  \/ AcceptError \/ Shutdown \/ CloseListener \/ Poll \/ ShutdownTimer
  \/ \E r \in Requests :
       \/ Dial(r) \/ ConnStep(r) \/ Check(r) \/ Count(r) \/ Enter(r) \/ MaxedOut(r)
       \/ HandlerReturns(r) \/ HandlerPanics(r) \/ Leave(r) \/ Again(r)

\* Goroutines that wait in a select go on when they can, and Shutdown does.
ServerFairness ==
  /\ \A r \in Requests : WF_serverVars(ConnStep(r))
  /\ WF_serverVars(CloseListener)

ServerSpec == ServerInit /\ [][ServerNext]_serverVars /\ ServerFairness
-----------------------------------------------------------------------------
\* The books balance: requestCount, the tokens of requestsPool and the requests
\* in progress agree at every moment, whether handlers return, panic, are
\* refused or time out; only the statistics keep a request for ever whose
\* handler panicked (collectAPIStats does not defer its Dec).
BooksBalance ==
  Running =>
    /\ requestCount = Cardinality({r \in Requests : Counted(r)})
    /\ requestsPool = IF MaxClients = 0 THEN 0
                      ELSE Cardinality({r \in Requests : At(r, "handling")})
    /\ current = Cardinality({r \in Requests : At(r, "handling")}) + panics

\* A shutdown that found nothing to wait for really drained the server: what
\* runs after it are only requests that were between the check of inShutdown
\* and the count when it looked (Start's wrapper, Shutdown).
ShutdownDrains ==
  (Running /\ shutdown = "drained") => \A r \in Requests : Counted(r) => req[r].late

\* No connection is left hanging: one that was taken from the TCP listener is
\* handed to Serve or closed, also when Serve or Shutdown closes the listener
\* meanwhile (httpListener.start).
EveryConnEnds ==
  \A r \in Requests : At(r, "dialed") ~> ~At(r, "dialed")
=============================================================================

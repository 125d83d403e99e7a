--------------------------- MODULE ServicesProofs ---------------------------
(***************************************************************************)
(* Proofs about the services that a request meets beside the object layer: *)
(* the dynamic timeout, the HTTP server and the log, each for any number   *)
(* of goroutines, requests, entries and subscribers; and the distributed   *)
(* lock, for any finite set of lockers and any clients.                    *)
(***************************************************************************)
EXTENDS DynamicTimeout, HTTPServer, Logging, DSync, FiniteSetTheorems, TLAPS

(***************************************************************************)
(* The dynamic timeout.                                                    *)
(***************************************************************************)
LoggerStates ==
  [pc : {"idle", "store", "full", "adjust", "write"}, index : Slots, value : Nat,
   copy : [Slots -> Nat] \cup {<< >>}]

TimeoutTypeOK ==
  /\ entries \in Nat
  /\ log \in [Slots -> Nat]
  /\ timeout \in Nat
  /\ logger \in [Loggers -> LoggerStates]

\* On the way to copy the log.
Adjusting(p) ==
  \/ logger[p].pc = "full"
  \/ logger[p].pc = "store" /\ logger[p].index = LogSize - 1

\* Nobody while the log has room, one goroutine and no other once it is full.
OneAdjusts ==
  /\ entries < LogSize => \A p \in Loggers : ~Adjusting(p)
  /\ entries >= LogSize => \E p \in Loggers : Adjusting(p) /\ \A q \in Loggers \ {p} : ~Adjusting(q)

\* A copy is there to be averaged, and what is about to be stored is no less
\* than the minimum.
AdjustmentsSound ==
  /\ timeout >= Minimum
  /\ \A p \in Loggers :
       /\ logger[p].pc = "adjust" => logger[p].copy \in [Slots -> Nat]
       /\ logger[p].pc = "write" => logger[p].value >= Minimum

TimeoutInv == TimeoutTypeOK /\ OneAdjusts /\ AdjustmentsSound

LEMMA AtRestType == AtRest \in LoggerStates /\ AtRest.pc = "idle"
  BY TimeoutAssumption DEF AtRest, LoggerStates, Slots

LEMMA TimeoutInitInv == TimeoutInit => TimeoutInv
  <1> SUFFICES ASSUME TimeoutInit PROVE TimeoutInv
    OBVIOUS
  <1>1. TimeoutTypeOK
    BY AtRestType, TimeoutAssumption DEF TimeoutInit, TimeoutTypeOK
  <1>2. OneAdjusts /\ AdjustmentsSound
    BY AtRestType, TimeoutAssumption DEF TimeoutInit, OneAdjusts, AdjustmentsSound, Adjusting
  <1>3. QED BY <1>1, <1>2 DEF TimeoutInv

LEMMA AverageType ==
  ASSUME NEW copy \in [Slots -> Nat]
  PROVE  Average(copy) \in Nat /\ Failures(copy) \in Nat
  <1>1. IsFiniteSet(Slots) /\ IsFiniteSet(1 .. MaxDuration)
    BY TimeoutAssumption, FS_Interval DEF Slots
  <1>2. IsFiniteSet(Successes(copy)) /\ IsFiniteSet({i \in Slots : copy[i] = MaxDuration})
    BY <1>1, FS_Subset DEF Successes
  <1>3. Failures(copy) \in Nat /\ Cardinality(Successes(copy)) \in Nat
    BY <1>2, FS_CardinalityType DEF Failures
  <1>4. Total(copy) \in Nat
    <2> DEFINE P == Successes(copy) \X (1 .. MaxDuration)
               U == {unit \in P : unit[2] <= copy[unit[1]]}
    <2>1. IsFiniteSet(P)
      BY <1>1, <1>2, FS_Product
    <2>2. IsFiniteSet(U)
      BY <2>1, FS_Subset
    <2>3. QED BY <2>2, FS_CardinalityType DEF Total
  <1>5. Successes(copy) # {} => Cardinality(Successes(copy)) # 0
    BY <1>2, FS_EmptySet
  <1>6. Average(copy) \in Nat
    BY <1>3, <1>4, <1>5 DEF Average
  <1>7. QED BY <1>3, <1>6

LEMMA AdjustedTimeoutMinimum ==
  ASSUME NEW copy \in [Slots -> Nat], NEW t \in Nat, t >= Minimum
  PROVE  AdjustedTimeout(copy, t) \in Nat /\ AdjustedTimeout(copy, t) >= Minimum
  <1>1. Average(copy) \in Nat /\ Failures(copy) \in Nat
    BY AverageType
  <1>2. (t * 125) \div 100 \in Nat /\ (t * 125) \div 100 >= t OBVIOUS
  <1>3. (t + (Average(copy) * 125) \div 100) \div 2 \in Nat
    BY <1>1
  <1>4. QED BY <1>1, <1>2, <1>3, TimeoutAssumption DEF AdjustedTimeout

\* One goroutine's record is replaced.
LEMMA ReplaceLogger ==
  ASSUME TimeoutTypeOK, NEW p \in Loggers, NEW m \in LoggerStates,
         logger' = [logger EXCEPT ![p] = m]
  PROVE  /\ logger' \in [Loggers -> LoggerStates]
         /\ \A q \in Loggers : logger'[q] = IF q = p THEN m ELSE logger[q]
  BY DEF TimeoutTypeOK

LEMMA TimeoutInvStep ==
  ASSUME TimeoutInv, [TimeoutNext]_timeoutVars
  PROVE  TimeoutInv'
  <1>0. TimeoutTypeOK
    BY DEF TimeoutInv
  <1>1. CASE UNCHANGED timeoutVars
    BY <1>1 DEF timeoutVars, TimeoutInv, TimeoutTypeOK, OneAdjusts, AdjustmentsSound, Adjusting
  <1>2. ASSUME NEW p \in Loggers, NEW d \in Durations \cup {MaxDuration}, LogEntry(p, d)
        PROVE  TimeoutInv'
    <2> DEFINE m == [AtRest EXCEPT !.pc = IF entries < LogSize THEN "store" ELSE "idle",
                                   !.index = IF entries < LogSize THEN entries ELSE 0,
                                   !.value = IF entries < LogSize THEN d ELSE 0]
    <2>1. /\ m \in LoggerStates /\ m.pc = (IF entries < LogSize THEN "store" ELSE "idle")
          /\ m.index = IF entries < LogSize THEN entries ELSE 0
      <3>1. d \in Nat /\ entries \in Nat /\ LogSize \in Nat \ {0}
        BY <1>0, TimeoutAssumption DEF TimeoutTypeOK
      <3>2. /\ (IF entries < LogSize THEN entries ELSE 0) \in Slots
            /\ (IF entries < LogSize THEN d ELSE 0) \in Nat
        BY <3>1 DEF Slots
      <3>3. QED BY <3>2, AtRestType DEF LoggerStates
    <2>2. /\ logger' = [logger EXCEPT ![p] = m] /\ entries' = entries + 1
          /\ UNCHANGED <<log, timeout>> /\ logger[p].pc = "idle"
      BY <1>2 DEF LogEntry
    <2> HIDE DEF m
    <2>3. /\ logger' \in [Loggers -> LoggerStates]
          /\ \A q \in Loggers : logger'[q] = IF q = p THEN m ELSE logger[q]
      BY <1>0, <2>1, <2>2, ReplaceLogger
    <2>4. TimeoutTypeOK'
      BY <1>0, <2>2, <2>3 DEF TimeoutTypeOK
    <2>5. AdjustmentsSound'
      BY <2>1, <2>2, <2>3 DEF TimeoutInv, AdjustmentsSound
    <2>6. \A q \in Loggers \ {p} : Adjusting(q)' <=> Adjusting(q)
      BY <2>3 DEF Adjusting
    <2>7. ~Adjusting(p) /\ (Adjusting(p)' <=> entries = LogSize - 1)
      BY <1>0, <2>1, <2>2, <2>3, TimeoutAssumption DEF Adjusting, TimeoutTypeOK
    <2>8. entries \in Nat /\ LogSize \in Nat
      BY <1>0, TimeoutAssumption DEF TimeoutTypeOK
    <2>9. OneAdjusts'
      <3>1. CASE entries < LogSize - 1
        BY <2>2, <2>6, <2>7, <2>8, <3>1 DEF TimeoutInv, OneAdjusts
      <3>2. CASE entries = LogSize - 1
        BY <2>2, <2>6, <2>7, <2>8, <3>2 DEF TimeoutInv, OneAdjusts
      <3>3. CASE entries >= LogSize
        <4>1. PICK q \in Loggers : Adjusting(q) /\ \A o \in Loggers \ {q} : ~Adjusting(o)
          BY <3>3 DEF TimeoutInv, OneAdjusts
        <4>2. q # p /\ Adjusting(q)' /\ \A o \in Loggers \ {q} : ~Adjusting(o)'
          BY <2>6, <2>7, <2>8, <3>3, <4>1
        <4>3. QED BY <2>2, <2>8, <3>3, <4>2 DEF OneAdjusts
      <3>4. QED BY <2>8, <3>1, <3>2, <3>3
    <2>10. QED BY <2>4, <2>5, <2>9 DEF TimeoutInv
  <1>3. ASSUME NEW p \in Loggers, StoreEntry(p)
        PROVE  TimeoutInv'
    <2> DEFINE m == IF logger[p].index = LogSize - 1 THEN [AtRest EXCEPT !.pc = "full"] ELSE AtRest
    <2>1. /\ m \in LoggerStates
          /\ m.pc = IF logger[p].index = LogSize - 1 THEN "full" ELSE "idle"
      BY AtRestType DEF LoggerStates
    <2>2. /\ logger' = [logger EXCEPT ![p] = m] /\ logger[p].pc = "store"
          /\ log' = [log EXCEPT ![logger[p].index] = logger[p].value]
          /\ UNCHANGED <<entries, timeout>>
      BY <1>3 DEF StoreEntry
    <2> HIDE DEF m
    <2>3. /\ logger' \in [Loggers -> LoggerStates]
          /\ \A q \in Loggers : logger'[q] = IF q = p THEN m ELSE logger[q]
      BY <1>0, <2>1, <2>2, ReplaceLogger
    <2>4. TimeoutTypeOK'
      BY <1>0, <2>2, <2>3 DEF TimeoutTypeOK, LoggerStates
    <2>5. AdjustmentsSound'
      BY <2>1, <2>2, <2>3 DEF TimeoutInv, AdjustmentsSound
    <2>6. \A q \in Loggers : Adjusting(q)' <=> Adjusting(q)
      BY <2>1, <2>2, <2>3 DEF Adjusting
    <2>7. OneAdjusts'
      BY <2>2, <2>6 DEF TimeoutInv, OneAdjusts
    <2>8. QED BY <2>4, <2>5, <2>7 DEF TimeoutInv
  <1>4. ASSUME NEW p \in Loggers, CopyLog(p)
        PROVE  TimeoutInv'
    <2> DEFINE m == [AtRest EXCEPT !.pc = "adjust", !.copy = log]
    <2>1. m \in LoggerStates /\ m.pc = "adjust" /\ m.copy = log
      BY <1>0, AtRestType DEF LoggerStates, TimeoutTypeOK
    <2>2. /\ logger' = [logger EXCEPT ![p] = m] /\ logger[p].pc = "full" /\ entries' = 0
          /\ UNCHANGED <<log, timeout>>
      BY <1>4 DEF CopyLog
    <2> HIDE DEF m
    <2>3. /\ logger' \in [Loggers -> LoggerStates]
          /\ \A q \in Loggers : logger'[q] = IF q = p THEN m ELSE logger[q]
      BY <1>0, <2>1, <2>2, ReplaceLogger
    <2>4. TimeoutTypeOK'
      BY <1>0, <2>2, <2>3 DEF TimeoutTypeOK
    <2>5. AdjustmentsSound'
      BY <1>0, <2>1, <2>2, <2>3 DEF TimeoutInv, AdjustmentsSound, TimeoutTypeOK
    <2>6. entries \in Nat /\ LogSize \in Nat \ {0}
      BY <1>0, TimeoutAssumption DEF TimeoutTypeOK
    <2>7. Adjusting(p)
      BY <2>2 DEF Adjusting
    <2>8. \A q \in Loggers \ {p} : ~Adjusting(q)
      BY <2>6, <2>7 DEF TimeoutInv, OneAdjusts
    <2>9. \A q \in Loggers : ~Adjusting(q)'
      BY <2>1, <2>3, <2>8 DEF Adjusting
    <2>10. OneAdjusts'
      BY <2>2, <2>6, <2>9 DEF OneAdjusts
    <2>11. QED BY <2>4, <2>5, <2>10 DEF TimeoutInv
  <1>5. ASSUME NEW p \in Loggers, LoadTimeout(p)
        PROVE  TimeoutInv'
    <2> DEFINE v == AdjustedTimeout(logger[p].copy, timeout)
               m == [AtRest EXCEPT !.pc = "write", !.value = v]
    <2>1. v \in Nat /\ v >= Minimum
      BY <1>0, <1>5, AdjustedTimeoutMinimum DEF TimeoutInv, AdjustmentsSound, TimeoutTypeOK, LoadTimeout
    <2>2. /\ logger' = [logger EXCEPT ![p] = m] /\ logger[p].pc = "adjust"
          /\ UNCHANGED <<entries, log, timeout>>
      BY <1>5 DEF LoadTimeout
    <2> HIDE DEF v
    <2>3. m \in LoggerStates /\ m.pc = "write" /\ m.value = v
      BY <2>1, AtRestType DEF LoggerStates
    <2> HIDE DEF m
    <2>4. /\ logger' \in [Loggers -> LoggerStates]
          /\ \A q \in Loggers : logger'[q] = IF q = p THEN m ELSE logger[q]
      BY <1>0, <2>2, <2>3, ReplaceLogger
    <2>5. TimeoutTypeOK'
      BY <1>0, <2>2, <2>4 DEF TimeoutTypeOK
    <2>6. AdjustmentsSound'
      BY <2>1, <2>2, <2>3, <2>4 DEF TimeoutInv, AdjustmentsSound
    <2>7. \A q \in Loggers : Adjusting(q)' <=> Adjusting(q)
      BY <2>2, <2>3, <2>4 DEF Adjusting
    <2>8. OneAdjusts'
      BY <2>2, <2>7 DEF TimeoutInv, OneAdjusts
    <2>9. QED BY <2>5, <2>6, <2>8 DEF TimeoutInv
  <1>6. ASSUME NEW p \in Loggers, StoreTimeout(p)
        PROVE  TimeoutInv'
    <2>1. /\ logger' = [logger EXCEPT ![p] = AtRest] /\ logger[p].pc = "write"
          /\ timeout' = logger[p].value /\ UNCHANGED <<entries, log>>
      BY <1>6 DEF StoreTimeout
    <2>2. /\ logger' \in [Loggers -> LoggerStates]
          /\ \A q \in Loggers : logger'[q] = IF q = p THEN AtRest ELSE logger[q]
      BY <1>0, <2>1, AtRestType, ReplaceLogger
    <2>3. TimeoutTypeOK'
      BY <1>0, <2>1, <2>2 DEF TimeoutTypeOK, LoggerStates
    <2>4. AdjustmentsSound'
      BY <2>1, <2>2, AtRestType DEF TimeoutInv, AdjustmentsSound
    <2>5. \A q \in Loggers : Adjusting(q)' <=> Adjusting(q)
      BY <2>1, <2>2, AtRestType DEF Adjusting
    <2>6. OneAdjusts'
      BY <2>1, <2>5 DEF TimeoutInv, OneAdjusts
    <2>7. QED BY <2>3, <2>4, <2>6 DEF TimeoutInv
  <1>7. QED BY <1>1, <1>2, <1>3, <1>4, <1>5, <1>6 DEF TimeoutNext

LEMMA TimeoutInvImplies == TimeoutInv => FullLogIsAdjustedOnce
  <1> SUFFICES ASSUME TimeoutInv PROVE FullLogIsAdjustedOnce
    OBVIOUS
  <1> DEFINE A == {p \in Loggers : \/ logger[p].pc = "full"
                                   \/ logger[p].pc = "store" /\ logger[p].index = LogSize - 1}
  <1>1. entries \in Nat /\ LogSize \in Nat
    BY TimeoutAssumption DEF TimeoutInv, TimeoutTypeOK
  <1>2. CASE entries < LogSize
    <2>1. A = {}
      BY <1>2 DEF TimeoutInv, OneAdjusts, Adjusting
    <2>2. QED
      BY <1>1, <1>2, <2>1, FS_EmptySet DEF TimeoutInv, AdjustmentsSound, FullLogIsAdjustedOnce
  <1>3. CASE entries >= LogSize
    <2>1. PICK p \in Loggers : A = {p}
      BY <1>3 DEF TimeoutInv, OneAdjusts, Adjusting
    <2>2. Cardinality(A) = 1
      BY <2>1, FS_Singleton
    <2>3. QED BY <1>1, <1>3, <2>2 DEF TimeoutInv, AdjustmentsSound, FullLogIsAdjustedOnce
  <1>4. QED BY <1>1, <1>2, <1>3

\* logEntry and adjust, for any number of goroutines, any size of the log and
\* any durations: a full log is adjusted once, and the timeout never falls
\* below its minimum.
THEOREM FullLogIsAdjustedOnceAlways == TimeoutSpec => []FullLogIsAdjustedOnce
  <1>1. TimeoutInit => TimeoutInv
    BY TimeoutInitInv
  <1>2. TimeoutInv /\ [TimeoutNext]_timeoutVars => TimeoutInv'
    BY TimeoutInvStep
  <1>3. TimeoutInv => FullLogIsAdjustedOnce
    BY TimeoutInvImplies
  <1>4. QED BY <1>1, <1>2, <1>3, PTL DEF TimeoutSpec

-----------------------------------------------------------------------------
(***************************************************************************)
(* The HTTP server.                                                        *)
(***************************************************************************)
RequestStates ==
  [pc : {"none", "dialed", "accepted", "closed", "checked", "forbidden", "counted", "handling",
         "leaving", "done", "cut"},
   late : BOOLEAN]

ServerTypeOK ==
  /\ req \in [Requests -> RequestStates]
  /\ requestCount \in Nat /\ requestsPool \in Nat /\ current \in Nat /\ panics \in Nat

InWrapper == {r \in Requests : Counted(r)}
InHandler == {r \in Requests : At(r, "handling")}

Balanced ==
  Running => /\ requestCount = Cardinality(InWrapper)
             /\ requestsPool = IF MaxClients = 0 THEN 0 ELSE Cardinality(InHandler)
             /\ current = Cardinality(InHandler) + panics

\* Who passed the check is known to be late, before it is counted and after.
LateKnown ==
  (Running /\ shutdown = "drained") =>
    \A r \in Requests : (At(r, "checked") \/ Counted(r)) => req[r].late

ServerInv == ServerTypeOK /\ Balanced /\ LateKnown

LEMMA FiniteRequests ==
  ASSUME NEW S \in SUBSET Requests
  PROVE  /\ IsFiniteSet(S) /\ Cardinality(S) \in Nat /\ (Cardinality(S) = 0 <=> S = {})
         /\ \A r \in Requests :
              /\ r \notin S => Cardinality(S \cup {r}) = Cardinality(S) + 1
              /\ r \in S => Cardinality(S \ {r}) = Cardinality(S) - 1
  <1>1. IsFiniteSet(S)
    BY ServerAssumption, FS_Subset
  <1>2. QED BY <1>1, FS_CardinalityType, FS_EmptySet, FS_AddElement, FS_RemoveElement

LEMMA ServerInitInv == ServerInit => ServerInv
  <1> SUFFICES ASSUME ServerInit PROVE ServerInv
    OBVIOUS
  <1>1. ServerTypeOK
    BY DEF ServerInit, ServerTypeOK, RequestStates
  <1>2. InWrapper = {} /\ InHandler = {}
    BY DEF ServerInit, InWrapper, InHandler, Counted, At
  <1>3. Balanced
    BY <1>2, FS_EmptySet DEF ServerInit, Balanced
  <1>4. LateKnown
    BY DEF ServerInit, LateKnown
  <1>5. QED BY <1>1, <1>3, <1>4 DEF ServerInv

\* One request moves.
LEMMA RequestMoves ==
  ASSUME ServerTypeOK, NEW r \in Requests, NEW pc, Goes(r, pc),
         pc \in {"dialed", "accepted", "closed", "checked", "forbidden", "counted", "handling",
                 "leaving", "done"}
  PROVE  /\ req' \in [Requests -> RequestStates]
         /\ \A q \in Requests : req'[q].late = req[q].late
                                /\ req'[q].pc = IF q = r THEN pc ELSE req[q].pc
  <1> DEFINE m == [req[r] EXCEPT !.pc = pc]
  <1>1. req[r] \in RequestStates
    BY DEF ServerTypeOK
  <1>2. m \in RequestStates /\ m.pc = pc /\ m.late = req[r].late
    BY <1>1 DEF RequestStates
  <1>3. req' = [req EXCEPT ![r] = m]
    BY DEF Goes
  <1> HIDE DEF m
  <1>4. QED BY <1>2, <1>3 DEF ServerTypeOK

\* Requests move, all outside of the wrapper, and nobody comes closer to it
\* after the shutdown.
LEMMA OutsideStep ==
  ASSUME ServerInv, req' \in [Requests -> RequestStates], UNCHANGED counters,
         Running' => Running,
         shutdown' = "drained" => shutdown = "drained",
         \A r \in Requests :
           /\ Counted(r)' <=> Counted(r)
           /\ At(r, "handling")' <=> At(r, "handling")
           /\ shutdown' = "drained" =>
                /\ At(r, "checked")' => At(r, "checked")
                /\ (At(r, "checked")' \/ Counted(r)') => req'[r].late = req[r].late
  PROVE  ServerInv'
  <1>1. ServerTypeOK'
    BY DEF ServerInv, ServerTypeOK, counters
  <1>2. InWrapper' = InWrapper /\ InHandler' = InHandler
    BY DEF InWrapper, InHandler
  <1>3. Balanced'
    BY <1>2 DEF ServerInv, Balanced, counters
  <1>4. LateKnown'
    BY DEF ServerInv, LateKnown
  <1>5. QED BY <1>1, <1>3, <1>4 DEF ServerInv

LEMMA ProcessStep ==
  ASSUME ServerInv,
         \/ NewObjectLayer \/ NewAllSubsystems \/ Start \/ AcceptError \/ Shutdown
         \/ CloseListener \/ ShutdownTimer
  PROVE  ServerInv'
  <1>1. /\ UNCHANGED <<req, counters>> /\ (Running' => Running)
        /\ shutdown' = "drained" => shutdown = "drained"
    BY DEF NewObjectLayer, NewAllSubsystems, Start, AcceptError, Shutdown, CloseListener,
           ShutdownTimer, Running
  <1>2. req' \in [Requests -> RequestStates]
    BY <1>1 DEF ServerInv, ServerTypeOK
  <1>3. \A r \in Requests :
          /\ Counted(r)' <=> Counted(r)
          /\ At(r, "handling")' <=> At(r, "handling")
          /\ At(r, "checked")' <=> At(r, "checked")
          /\ req'[r].late = req[r].late
    BY <1>1 DEF Counted, At
  <1>4. QED BY <1>1, <1>2, <1>3, OutsideStep

LEMMA HandleSignalStep ==
  ASSUME ServerInv, HandleSignal
  PROVE  ServerInv'
  <1>1. ~Running' /\ UNCHANGED counters
    BY DEF HandleSignal, Running
  <1>2. req' \in [Requests -> RequestStates]
    BY DEF HandleSignal, ServerInv, ServerTypeOK, RequestStates
  <1>3. ServerTypeOK'
    BY <1>1, <1>2 DEF ServerInv, ServerTypeOK, counters
  <1>4. QED BY <1>1, <1>3 DEF ServerInv, Balanced, LateKnown

\* Poll marks those that passed the check; no other is inside.
LEMMA PollStep ==
  ASSUME ServerInv, Poll
  PROVE  ServerInv'
  <1>1. /\ Running /\ Running' /\ UNCHANGED counters /\ requestCount <= 0
        /\ req' = [r \in Requests |-> [req[r] EXCEPT !.late = At(r, "checked")]]
    BY DEF Poll, Running
  <1>2. \A r \in Requests : /\ [req[r] EXCEPT !.late = At(r, "checked")] \in RequestStates
                            /\ req'[r].pc = req[r].pc /\ req'[r].late = At(r, "checked")
    BY <1>1 DEF ServerInv, ServerTypeOK, RequestStates, At
  <1>3. req' \in [Requests -> RequestStates]
    BY <1>1, <1>2
  <1>4. ServerTypeOK'
    BY <1>1, <1>3 DEF ServerInv, ServerTypeOK, counters
  <1>5. InWrapper' = InWrapper /\ InHandler' = InHandler
    BY <1>2 DEF InWrapper, InHandler, Counted, At
  <1>6. Balanced'
    BY <1>1, <1>5 DEF ServerInv, Balanced, counters
  <1>7. InWrapper = {}
    <2>1. InWrapper \in SUBSET Requests
      BY DEF InWrapper
    <2>2. Cardinality(InWrapper) \in Nat /\ Cardinality(InWrapper) <= 0
      BY <1>1, <2>1, FiniteRequests DEF ServerInv, Balanced
    <2>3. QED BY <2>1, <2>2, FiniteRequests
  <1>8. LateKnown'
    BY <1>2, <1>5, <1>7 DEF LateKnown, InWrapper, At
  <1>9. QED BY <1>4, <1>6, <1>8 DEF ServerInv

\* The steps of a request that is not counted.
LEMMA ConnectionStep ==
  ASSUME ServerInv, NEW r \in Requests,
         Dial(r) \/ Accept(r) \/ SendDone(r) \/ Check(r)
  PROVE  ServerInv'
  <1>1. PICK pc \in {"dialed", "accepted", "closed", "checked", "forbidden"} :
          /\ Goes(r, pc) /\ UNCHANGED <<process, counters>>
          /\ req[r].pc \in {"none", "dialed", "accepted"}
          /\ pc = "checked" => shutdown = "none"
    <2>1. CASE Dial(r)
      BY <2>1 DEF Dial, At
    <2>2. CASE Accept(r)
      BY <2>2 DEF Accept, At
    <2>3. CASE SendDone(r)
      BY <2>3 DEF SendDone, At
    <2>4. CASE Check(r)
      BY <2>4 DEF Check, At
    <2>5. QED BY <2>1, <2>2, <2>3, <2>4
  <1>2. /\ req' \in [Requests -> RequestStates]
        /\ \A q \in Requests : req'[q].late = req[q].late
                               /\ req'[q].pc = IF q = r THEN pc ELSE req[q].pc
    BY <1>1, RequestMoves DEF ServerInv
  <1>3. shutdown' = shutdown /\ (Running' => Running) /\ UNCHANGED counters
    BY <1>1 DEF process, Running
  <1>4. \A q \in Requests :
          /\ Counted(q)' <=> Counted(q)
          /\ At(q, "handling")' <=> At(q, "handling")
          /\ shutdown = "drained" => (At(q, "checked")' => At(q, "checked"))
    BY <1>1, <1>2 DEF Counted, At
  <1>5. QED BY <1>2, <1>3, <1>4, OutsideStep

LEMMA AgainStep ==
  ASSUME ServerInv, NEW r \in Requests, Again(r)
  PROVE  ServerInv'
  <1>1. /\ req' = [req EXCEPT ![r] = [pc |-> "none", late |-> FALSE]]
        /\ UNCHANGED <<process, counters>> /\ req[r].pc \in {"done", "forbidden", "closed"}
    BY DEF Again
  <1>2. /\ req' \in [Requests -> RequestStates]
        /\ \A q \in Requests \ {r} : req'[q] = req[q]
        /\ req'[r].pc = "none"
    BY <1>1 DEF ServerInv, ServerTypeOK, RequestStates
  <1>3. shutdown' = shutdown /\ (Running' => Running) /\ UNCHANGED counters
    BY <1>1 DEF process, Running
  <1>4. \A q \in Requests :
          /\ Counted(q)' <=> Counted(q)
          /\ At(q, "handling")' <=> At(q, "handling")
          /\ At(q, "checked")' => At(q, "checked")
          /\ (At(q, "checked")' \/ Counted(q)') => req'[q].late = req[q].late
    BY <1>1, <1>2 DEF Counted, At
  <1>5. QED BY <1>2, <1>3, <1>4, OutsideStep

\* The steps of a request inside of the wrapper.
LEMMA WrapperStep ==
  ASSUME ServerInv, NEW r \in Requests,
         \/ Count(r) \/ Enter(r) \/ MaxedOut(r) \/ HandlerReturns(r) \/ HandlerPanics(r) \/ Leave(r)
  PROVE  ServerInv'
  <1>0. ServerTypeOK /\ MaxClients \in Nat
    BY ServerAssumption DEF ServerInv
  <1> DEFINE W == Cardinality(InWrapper)
             H == Cardinality(InHandler)
  <1>1. InWrapper \in SUBSET Requests /\ InHandler \in SUBSET Requests
    BY DEF InWrapper, InHandler
  <1>2. W \in Nat /\ H \in Nat /\ (H = 0 => InHandler = {}) /\ (W = 0 => InWrapper = {})
    BY <1>1, FiniteRequests
  <1>3. Running /\ Running' /\ UNCHANGED process
    BY DEF Count, Enter, MaxedOut, HandlerReturns, HandlerPanics, Leave, process, Running
  <1>4. /\ requestCount = W /\ requestsPool = (IF MaxClients = 0 THEN 0 ELSE H)
        /\ current = H + panics /\ panics \in Nat
    BY <1>0, <1>3 DEF ServerInv, Balanced, ServerTypeOK
  <1>5. ASSUME NEW pc \in {"counted", "handling", "leaving", "done"}, Goes(r, pc),
               At(r, "checked") \/ Counted(r)
        PROVE  /\ req' \in [Requests -> RequestStates]
               /\ LateKnown'
               /\ InWrapper' = IF pc = "done" THEN InWrapper \ {r} ELSE InWrapper \cup {r}
               /\ InHandler' = IF pc = "handling" THEN InHandler \cup {r} ELSE InHandler \ {r}
    <2>1. /\ req' \in [Requests -> RequestStates]
          /\ \A q \in Requests : req'[q].late = req[q].late
                                 /\ req'[q].pc = IF q = r THEN pc ELSE req[q].pc
      BY <1>0, <1>5, RequestMoves
    <2>2. LateKnown'
      BY <1>3, <1>5, <2>1 DEF ServerInv, LateKnown, Counted, At, process
    <2>3. InWrapper' = IF pc = "done" THEN InWrapper \ {r} ELSE InWrapper \cup {r}
      BY <2>1 DEF InWrapper, Counted
    <2>4. InHandler' = IF pc = "handling" THEN InHandler \cup {r} ELSE InHandler \ {r}
      BY <2>1 DEF InHandler, At
    <2>5. QED BY <2>1, <2>2, <2>3, <2>4
  <1> HIDE DEF W, H
  <1>6. CASE Count(r)
    <2>1. /\ Goes(r, "counted") /\ At(r, "checked") /\ requestCount' = requestCount + 1
          /\ UNCHANGED <<requestsPool, current, panics>>
      BY <1>6 DEF Count
    <2>2. r \notin InWrapper /\ r \notin InHandler
      BY <2>1 DEF InWrapper, InHandler, Counted, At
    <2>3. req' \in [Requests -> RequestStates] /\ LateKnown'
          /\ InWrapper' = InWrapper \cup {r} /\ InHandler' = InHandler
      BY <1>5, <2>1, <2>2
    <2>4. Cardinality(InWrapper)' = W + 1 /\ Cardinality(InHandler)' = H
      BY <1>1, <2>2, <2>3, FiniteRequests DEF W, H
    <2>5. ServerTypeOK'
      BY <1>0, <2>1, <2>3 DEF ServerTypeOK
    <2>6. Balanced'
      BY <1>4, <2>1, <2>4 DEF Balanced
    <2>7. QED BY <2>3, <2>5, <2>6 DEF ServerInv
  <1>7. CASE Enter(r)
    <2>1. /\ Goes(r, "handling") /\ Counted(r) /\ r \notin InHandler
          /\ requestsPool' = (IF MaxClients = 0 THEN requestsPool ELSE requestsPool + 1)
          /\ current' = current + 1 /\ UNCHANGED <<requestCount, panics>>
      BY <1>7 DEF Enter, Inc, Counted, At, InHandler
    <2>2. r \in InWrapper
      BY <2>1 DEF InWrapper
    <2>3. req' \in [Requests -> RequestStates] /\ LateKnown'
          /\ InWrapper' = InWrapper /\ InHandler' = InHandler \cup {r}
      BY <1>5, <2>1, <2>2
    <2>4. Cardinality(InWrapper)' = W /\ Cardinality(InHandler)' = H + 1
      BY <1>1, <2>1, <2>3, FiniteRequests DEF W, H
    <2>5. ServerTypeOK'
      BY <1>0, <2>1, <2>3 DEF ServerTypeOK
    <2>6. Balanced'
      BY <1>0, <1>2, <1>4, <2>1, <2>4 DEF Balanced
    <2>7. QED BY <2>3, <2>5, <2>6 DEF ServerInv
  <1>8. CASE MaxedOut(r)
    <2>1. Goes(r, "leaving") /\ Counted(r) /\ r \notin InHandler /\ UNCHANGED counters
      BY <1>8 DEF MaxedOut, Counted, At, InHandler
    <2>2. r \in InWrapper
      BY <2>1 DEF InWrapper
    <2>3. req' \in [Requests -> RequestStates] /\ LateKnown'
          /\ InWrapper' = InWrapper /\ InHandler' = InHandler
      BY <1>5, <2>1, <2>2
    <2>4. ServerTypeOK' /\ Balanced'
      BY <1>0, <1>3, <2>1, <2>3 DEF ServerTypeOK, ServerInv, Balanced, counters
    <2>5. QED BY <2>3, <2>4 DEF ServerInv
  <1>9. CASE HandlerReturns(r) \/ HandlerPanics(r)
    <2>1. /\ Goes(r, "leaving") /\ Counted(r) /\ r \in InHandler /\ GivesBack
          /\ UNCHANGED requestCount
      BY <1>9 DEF HandlerReturns, HandlerPanics, Counted, At, InHandler
    <2>2. r \in InWrapper
      BY <2>1 DEF InWrapper
    <2>3. req' \in [Requests -> RequestStates] /\ LateKnown'
          /\ InWrapper' = InWrapper /\ InHandler' = InHandler \ {r}
      BY <1>5, <2>1, <2>2
    <2>4. Cardinality(InWrapper)' = W /\ Cardinality(InHandler)' = H - 1
      BY <1>1, <2>1, <2>3, FiniteRequests DEF W, H
    <2>5. H > 0
      <3>1. InHandler # {}
        BY <2>1
      <3>2. H # 0
        BY <1>2, <3>1
      <3>3. QED BY <1>2, <3>2
    <2>6. current' = (H - 1) + panics' /\ current' \in Nat /\ panics' \in Nat
      <3>1. CASE HandlerReturns(r)
        BY <1>2, <1>4, <2>5, <3>1 DEF HandlerReturns, Dec
      <3>2. CASE HandlerPanics(r)
        BY <1>2, <1>4, <2>5, <3>2 DEF HandlerPanics
      <3>3. QED BY <1>9, <3>1, <3>2
    <2>7. requestsPool' = (IF MaxClients = 0 THEN 0 ELSE H - 1) /\ requestsPool' \in Nat
      BY <1>2, <1>4, <2>1, <2>5 DEF GivesBack
    <2>8. ServerTypeOK'
      BY <1>0, <2>1, <2>3, <2>6, <2>7 DEF ServerTypeOK
    <2>9. Balanced'
      BY <1>4, <2>1, <2>4, <2>6, <2>7 DEF Balanced
    <2>10. QED BY <2>3, <2>8, <2>9 DEF ServerInv
  <1>10. CASE Leave(r)
    <2>1. /\ Goes(r, "done") /\ Counted(r) /\ r \notin InHandler /\ requestCount' = requestCount - 1
          /\ UNCHANGED <<requestsPool, current, panics>>
      BY <1>10 DEF Leave, Counted, At, InHandler
    <2>2. r \in InWrapper
      BY <2>1 DEF InWrapper
    <2>3. req' \in [Requests -> RequestStates] /\ LateKnown'
          /\ InWrapper' = InWrapper \ {r} /\ InHandler' = InHandler
      BY <1>5, <2>1, <2>2
    <2>4. Cardinality(InWrapper)' = W - 1 /\ Cardinality(InHandler)' = H
      BY <1>1, <2>2, <2>3, FiniteRequests DEF W, H
    <2>5. W # 0
      BY <1>2, <2>2
    <2>6. ServerTypeOK'
      BY <1>0, <1>2, <1>4, <2>1, <2>3, <2>5 DEF ServerTypeOK
    <2>7. Balanced'
      BY <1>4, <2>1, <2>4 DEF Balanced
    <2>8. QED BY <2>3, <2>6, <2>7 DEF ServerInv
  <1>11. QED BY <1>6, <1>7, <1>8, <1>9, <1>10

LEMMA ServerInvStep ==
  ASSUME ServerInv, [ServerNext]_serverVars
  PROVE  ServerInv'
  <1>1. CASE UNCHANGED serverVars
    BY <1>1 DEF serverVars, ServerInv, ServerTypeOK, Balanced, LateKnown, InWrapper, InHandler,
         Running, Counted, At
  <1>2. ASSUME NEW r \in Requests, ConnStep(r) \/ Dial(r) \/ Check(r)
        PROVE  ServerInv'
    BY <1>2, ConnectionStep DEF ConnStep
  <1>3. QED
    BY <1>1, <1>2, ProcessStep, HandleSignalStep, PollStep, AgainStep, WrapperStep DEF ServerNext

\* The wrapper of Start, maxClients and collectAPIStats, for any number of
\* requests and any size of requestsPool: requestCount, the tokens and the
\* requests in progress agree, however handlers end.
THEOREM BooksBalanceAlways == ServerSpec => []BooksBalance
  <1>1. ServerInit => ServerInv
    BY ServerInitInv
  <1>2. ServerInv /\ [ServerNext]_serverVars => ServerInv'
    BY ServerInvStep
  <1>3. ServerInv => BooksBalance
    BY DEF ServerInv, Balanced, BooksBalance, InWrapper, InHandler
  <1>4. QED BY <1>1, <1>2, <1>3, PTL DEF ServerSpec

\* Shutdown, for any number of requests: what runs after it found nothing to
\* wait for was between the check and the count when it looked.
THEOREM ShutdownDrainsAlways == ServerSpec => []ShutdownDrains
  <1>1. ServerInit => ServerInv
    BY ServerInitInv
  <1>2. ServerInv /\ [ServerNext]_serverVars => ServerInv'
    BY ServerInvStep
  <1>3. ServerInv => ShutdownDrains
    BY DEF ServerInv, LateKnown, ShutdownDrains
  <1>4. QED BY <1>1, <1>2, <1>3, PTL DEF ServerSpec

-----------------------------------------------------------------------------
(***************************************************************************)
(* The log.                                                                *)
(***************************************************************************)
EntryStates ==
  [pc : {"none", "shouldLog", "skipped", "first", "second", "http", "done"},
   left : Nat, sends : Nat]

SubscriberStates ==
  [pc : {"off", "add", "append", "last", "register", "on", "gone"}, read : Nat]

LogTypeOK ==
  /\ targets \in Nat \ {0}
  /\ entry \in [Entries -> EntryStates]
  /\ logBuf \in Seq(Entries)
  /\ logCh \in Seq(Entries)
  /\ sub \in [Subscribers -> SubscriberStates]
  /\ got \in [Receivers -> [Entries -> Nat]]

\* How often an entry was put in the ring, and how often it was published.
Inserted(e) == entry[e].sends - entry[e].left
Published(e) == Inserted(e) + (IF entry[e].pc = "second" THEN 1 ELSE 0)

SendsLeft ==
  \A e \in Entries :
    /\ entry[e].pc \in {"none", "shouldLog", "skipped"} => entry[e].left = 0 /\ entry[e].sends = 0
    /\ entry[e].pc \in {"first", "second"} => 0 < entry[e].left /\ entry[e].left <= entry[e].sends
    /\ entry[e].pc \in {"http", "done"} => entry[e].left = 0

Places(seq, e) == {i \in 1 .. Len(seq) : seq[i] = e}

\* The ring has an entry no more often than it was inserted.
RingKnown ==
  \A e \in Entries : Cardinality(Places(logBuf, e)) <= Inserted(e)

\* A subscriber got an entry no more often than it was published, from the ring
\* or by publication, and nothing before it read the ring.
GotKnown ==
  \A s \in Subscribers, e \in Entries :
    /\ got[s][e] <= Published(e)
    /\ sub[s].pc \in {"off", "add", "append", "last"} => got[s][e] = 0

\* What waits for the HTTP target waits once and was not posted yet.
HTTPKnown ==
  /\ \A i, j \in 1 .. Len(logCh) : logCh[i] = logCh[j] => i = j
  /\ \A i \in 1 .. Len(logCh) : entry[logCh[i]].pc = "done" /\ got["http"][logCh[i]] = 0
  /\ \A e \in Entries : got["http"][e] <= 1 /\ (entry[e].pc # "done" => got["http"][e] = 0)

LogInv == LogTypeOK /\ SendsLeft /\ RingKnown /\ GotKnown /\ HTTPKnown

LEMMA LogInitInv == LogInit => LogInv
  <1> SUFFICES ASSUME LogInit PROVE LogInv
    OBVIOUS
  <1>1. LogTypeOK
    BY DEF LogInit, LogTypeOK, EntryStates, SubscriberStates
  <1>2. SendsLeft /\ GotKnown
    BY DEF LogInit, SendsLeft, GotKnown, Published, Inserted, Receivers
  <1>3. HTTPKnown
    BY DEF LogInit, HTTPKnown, Receivers
  <1>4. RingKnown
    <2> SUFFICES ASSUME NEW e \in Entries
                 PROVE  Cardinality(Places(logBuf, e)) <= Inserted(e)
      BY DEF RingKnown
    <2>1. Places(logBuf, e) = {}
      <3>1. Len(logBuf) = 0
        BY DEF LogInit
      <3>2. QED BY <3>1 DEF Places
    <2>2. Inserted(e) = 0
      BY DEF LogInit, Inserted
    <2>3. QED BY <2>1, <2>2, FS_EmptySet
  <1>5. QED BY <1>1, <1>2, <1>3, <1>4 DEF LogInv

LEMMA PlacesFinite ==
  ASSUME NEW seq \in Seq(Entries), NEW e
  PROVE  IsFiniteSet(Places(seq, e)) /\ Cardinality(Places(seq, e)) \in Nat
  <1>1. Len(seq) \in Nat OBVIOUS
  <1>2. IsFiniteSet(1 .. Len(seq))
    BY <1>1, FS_Interval
  <1>3. IsFiniteSet(Places(seq, e))
    BY <1>2, FS_Subset DEF Places
  <1>4. QED BY <1>3, FS_CardinalityType

LEMMA PlacesAppend ==
  ASSUME NEW seq \in Seq(Entries), NEW x \in Entries, NEW e \in Entries
  PROVE  Cardinality(Places(Append(seq, x), e))
           = Cardinality(Places(seq, e)) + (IF e = x THEN 1 ELSE 0)
  <1>1. /\ Len(Append(seq, x)) = Len(seq) + 1 /\ Len(seq) \in Nat
        /\ \A i \in 1 .. Len(seq) + 1 : Append(seq, x)[i] = IF i <= Len(seq) THEN seq[i] ELSE x
    OBVIOUS
  <1>2. Places(Append(seq, x), e) = IF e = x THEN Places(seq, e) \cup {Len(seq) + 1} ELSE Places(seq, e)
    BY <1>1 DEF Places
  <1>3. Len(seq) + 1 \notin Places(seq, e)
    BY <1>1 DEF Places
  <1>4. Cardinality(Places(seq, e) \cup {Len(seq) + 1}) = Cardinality(Places(seq, e)) + 1
    BY <1>3, PlacesFinite, FS_AddElement
  <1>5. QED BY <1>2, <1>4, PlacesFinite

LEMMA PlacesTail ==
  ASSUME NEW seq \in Seq(Entries), seq # << >>, NEW e \in Entries
  PROVE  Cardinality(Places(Tail(seq), e)) <= Cardinality(Places(seq, e))
  <1> DEFINE f == [i \in Places(Tail(seq), e) |-> i + 1]
  <1>1. /\ Len(Tail(seq)) = Len(seq) - 1 /\ Len(seq) \in Nat
        /\ \A i \in 1 .. Len(seq) - 1 : Tail(seq)[i] = seq[i + 1]
    OBVIOUS
  <1>2. \A i \in Places(Tail(seq), e) : i \in Nat /\ i + 1 \in Places(seq, e)
    BY <1>1 DEF Places
  <1>3. f \in Injection(Places(Tail(seq), e), Places(seq, e))
    BY <1>2 DEF Injection, IsInjective
  <1>4. QED BY <1>3, PlacesFinite, FS_Injection

\* A step that neither delivers nor moves an entry.
LEMMA QuietStep ==
  ASSUME LogInv, LogTypeOK', UNCHANGED <<entry, logBuf, logCh, got>>,
         \A s \in Subscribers : sub'[s].pc \in {"off", "add", "append", "last"}
                                  => sub[s].pc \in {"off", "add", "append", "last"}
  PROVE  LogInv'
  <1>1. SendsLeft' /\ RingKnown' /\ HTTPKnown'
    BY DEF LogInv, SendsLeft, RingKnown, HTTPKnown, Inserted, Places
  <1>2. GotKnown'
    BY DEF LogInv, GotKnown, Published, Inserted
  <1>3. QED BY <1>1, <1>2 DEF LogInv

\* A subscriber's record is replaced.
LEMMA SubscriberMoves ==
  ASSUME LogTypeOK, NEW s \in Subscribers, NEW pc, SubGoes(s, pc),
         pc \in {"add", "append", "last", "register", "on", "gone"}
  PROVE  /\ sub' \in [Subscribers -> SubscriberStates]
         /\ \A q \in Subscribers : sub'[q].pc = IF q = s THEN pc ELSE sub[q].pc
  <1> DEFINE m == [sub[s] EXCEPT !.pc = pc]
  <1>1. sub[s] \in SubscriberStates
    BY DEF LogTypeOK
  <1>2. m \in SubscriberStates /\ m.pc = pc
    BY <1>1 DEF SubscriberStates
  <1>3. sub' = [sub EXCEPT ![s] = m]
    BY DEF SubGoes
  <1> HIDE DEF m
  <1>4. QED BY <1>2, <1>3 DEF LogTypeOK

LEMMA SubscriberQuietStep ==
  ASSUME LogInv, NEW s \in Subscribers,
         Subscribe(s) \/ AddTarget(s) \/ PubSubSubscribe(s) \/ Unsubscribe(s)
  PROVE  LogInv'
  <1>0. LogTypeOK
    BY DEF LogInv
  <1>1. CASE Subscribe(s)
    <2>1. PICK pc \in {"add", "last"} : SubGoes(s, pc)
      BY <1>1 DEF Subscribe
    <2>2. /\ sub' \in [Subscribers -> SubscriberStates]
          /\ \A q \in Subscribers : sub'[q].pc = IF q = s THEN pc ELSE sub[q].pc
      BY <1>0, <2>1, SubscriberMoves
    <2>3. sub[s].pc = "off" /\ UNCHANGED <<targets, entry, logBuf, logCh, got>>
      BY <1>1 DEF Subscribe
    <2>4. LogTypeOK'
      BY <1>0, <2>2, <2>3 DEF LogTypeOK
    <2>5. QED BY <2>2, <2>3, <2>4, QuietStep
  <1>2. CASE sub[s].pc = "add" /\ AddTarget(s)
    <2>1. /\ sub' = [sub EXCEPT ![s] = [pc |-> "append", read |-> targets]]
          /\ UNCHANGED <<targets, entry, logBuf, logCh, got>>
      BY <1>2 DEF AddTarget
    <2>2. /\ sub' \in [Subscribers -> SubscriberStates]
          /\ \A q \in Subscribers \ {s} : sub'[q] = sub[q]
      BY <1>0, <2>1 DEF LogTypeOK, SubscriberStates
    <2>3. LogTypeOK'
      BY <1>0, <2>1, <2>2 DEF LogTypeOK
    <2>4. QED BY <1>2, <2>1, <2>2, <2>3, QuietStep
  <1>3. CASE sub[s].pc = "append" /\ AddTarget(s)
    <2>1. /\ SubGoes(s, "last") /\ targets' = sub[s].read + 1
          /\ UNCHANGED <<entry, logBuf, logCh, got>>
      BY <1>3 DEF AddTarget
    <2>2. /\ sub' \in [Subscribers -> SubscriberStates]
          /\ \A q \in Subscribers : sub'[q].pc = IF q = s THEN "last" ELSE sub[q].pc
      BY <1>0, <2>1, SubscriberMoves
    <2>3. sub[s].read \in Nat
      BY <1>0 DEF LogTypeOK, SubscriberStates
    <2>4. targets' \in Nat \ {0}
      BY <2>1, <2>3
    <2>5. LogTypeOK'
      BY <1>0, <2>1, <2>2, <2>4 DEF LogTypeOK
    <2>6. QED BY <1>3, <2>1, <2>2, <2>5, QuietStep
  <1>4. CASE PubSubSubscribe(s) \/ Unsubscribe(s)
    <2>1. PICK pc \in {"on", "gone"} : SubGoes(s, pc)
      BY <1>4 DEF PubSubSubscribe, Unsubscribe
    <2>2. /\ sub' \in [Subscribers -> SubscriberStates]
          /\ \A q \in Subscribers : sub'[q].pc = IF q = s THEN pc ELSE sub[q].pc
      BY <1>0, <2>1, SubscriberMoves
    <2>3. UNCHANGED <<targets, entry, logBuf, logCh, got>>
      BY <1>4 DEF PubSubSubscribe, Unsubscribe
    <2>4. LogTypeOK'
      BY <1>0, <2>2, <2>3 DEF LogTypeOK
    <2>5. QED BY <2>1, <2>2, <2>3, <2>4, QuietStep
  <1>5. QED BY <1>1, <1>2, <1>3, <1>4 DEF AddTarget

\* A subscriber reads the ring, once and before it is registered.
LEMMA LastNStep ==
  ASSUME LogInv, NEW s \in Subscribers, LastN(s)
  PROVE  LogInv'
  <1>0. LogTypeOK
    BY DEF LogInv
  <1> DEFINE times(last, e) ==
               Cardinality({i \in Len(logBuf) - last + 1 .. Len(logBuf) : logBuf[i] = e})
  <1>1. PICK last \in 0 .. Len(logBuf) :
          got' = [got EXCEPT ![s] = [e \in Entries |-> got[s][e] + times(last, e)]]
    BY DEF LastN
  <1>2. PICK pc \in {"register", "gone"} : SubGoes(s, pc)
    BY DEF LastN
  <1>3. sub[s].pc = "last" /\ UNCHANGED <<targets, entry, logBuf, logCh>>
    BY DEF LastN
  <1>4. \A e \in Entries : times(last, e) \in Nat /\ times(last, e) <= Cardinality(Places(logBuf, e))
    <2> SUFFICES ASSUME NEW e \in Entries
                 PROVE  times(last, e) \in Nat /\ times(last, e) <= Cardinality(Places(logBuf, e))
      OBVIOUS
    <2> DEFINE T == {i \in Len(logBuf) - last + 1 .. Len(logBuf) : logBuf[i] = e}
    <2>1. Len(logBuf) \in Nat
      BY <1>0 DEF LogTypeOK
    <2>2. T \in SUBSET Places(logBuf, e)
      BY <2>1 DEF Places
    <2>3. IsFiniteSet(Places(logBuf, e))
      BY <1>0, PlacesFinite DEF LogTypeOK
    <2>4. IsFiniteSet(T) /\ Cardinality(T) <= Cardinality(Places(logBuf, e))
      BY <2>2, <2>3, FS_Subset
    <2>5. QED BY <2>4, FS_CardinalityType
  <1> HIDE DEF times
  <1>5. \A e \in Entries : got[s][e] = 0
    BY <1>3 DEF LogInv, GotKnown
  <1>6. s \in Receivers /\ "http" \in Receivers /\ s # "http"
    BY LoggingAssumption DEF Receivers
  <1>7. /\ got' \in [Receivers -> [Entries -> Nat]]
        /\ \A e \in Entries : got'[s][e] = times(last, e)
        /\ \A r \in Receivers \ {s} : got'[r] = got[r]
    <2>1. [e \in Entries |-> got[s][e] + times(last, e)] \in [Entries -> Nat]
      BY <1>4, <1>5
    <2>2. QED BY <1>0, <1>1, <1>4, <1>5, <1>6, <2>1 DEF LogTypeOK
  <1>8. /\ sub' \in [Subscribers -> SubscriberStates]
        /\ \A q \in Subscribers : sub'[q].pc = IF q = s THEN pc ELSE sub[q].pc
    BY <1>0, <1>2, SubscriberMoves
  <1>9. LogTypeOK'
    BY <1>0, <1>3, <1>7, <1>8 DEF LogTypeOK
  <1>10. SendsLeft' /\ RingKnown'
    BY <1>3 DEF LogInv, SendsLeft, RingKnown, Inserted, Places
  <1>11. HTTPKnown'
    BY <1>3, <1>6, <1>7 DEF LogInv, HTTPKnown
  <1>12. GotKnown'
    <2> SUFFICES ASSUME NEW q \in Subscribers, NEW e \in Entries
                 PROVE  /\ got'[q][e] <= Published(e)'
                        /\ sub'[q].pc \in {"off", "add", "append", "last"} => got'[q][e] = 0
      BY DEF GotKnown
    <2>1. Published(e)' = Published(e)
      BY <1>3 DEF Published, Inserted
    <2>2. CASE q = s
      <3>1. times(last, e) <= Cardinality(Places(logBuf, e)) /\ times(last, e) \in Nat
        BY <1>4
      <3>2. Cardinality(Places(logBuf, e)) <= Inserted(e) /\ Cardinality(Places(logBuf, e)) \in Nat
        BY <1>0, PlacesFinite DEF LogInv, RingKnown, LogTypeOK
      <3>3. Inserted(e) \in Int
        BY <1>0 DEF Inserted, LogTypeOK, EntryStates
      <3>4. times(last, e) <= Published(e)
        BY <3>1, <3>2, <3>3 DEF Published
      <3>5. QED BY <1>2, <1>7, <1>8, <2>1, <2>2, <3>4
    <2>3. CASE q # s
      <3>1. got'[q] = got[q] /\ sub'[q].pc = sub[q].pc
        BY <1>7, <1>8, <2>3 DEF Receivers
      <3>2. QED BY <2>1, <3>1 DEF LogInv, GotKnown
    <2>4. QED BY <2>2, <2>3
  <1>13. QED BY <1>9, <1>10, <1>11, <1>12 DEF LogInv

\* An entry's record is replaced.
LEMMA ReplaceEntry ==
  ASSUME LogTypeOK, NEW e \in Entries, NEW m \in EntryStates, entry' = [entry EXCEPT ![e] = m]
  PROVE  /\ entry' \in [Entries -> EntryStates]
         /\ \A x \in Entries : entry'[x] = IF x = e THEN m ELSE entry[x]
  BY DEF LogTypeOK

\* An entry begins, is left out or reaches the HTTP target: nothing was sent by
\* the step.
LEMMA EntryMoves ==
  ASSUME LogInv, NEW e \in Entries, NEW m \in EntryStates, entry' = [entry EXCEPT ![e] = m],
         UNCHANGED <<targets, logBuf, logCh, sub, got>>,
         entry[e].pc \notin {"second", "done"}, m.pc \notin {"second", "done"},
         m.sends - m.left = entry[e].sends - entry[e].left,
         m.pc \in {"none", "shouldLog", "skipped"} => m.left = 0 /\ m.sends = 0,
         m.pc \in {"first", "second"} => 0 < m.left /\ m.left <= m.sends,
         m.pc \in {"http", "done"} => m.left = 0
  PROVE  LogInv'
  <1>0. LogTypeOK
    BY DEF LogInv
  <1>1. /\ entry' \in [Entries -> EntryStates]
        /\ \A x \in Entries : entry'[x] = IF x = e THEN m ELSE entry[x]
    BY <1>0, ReplaceEntry
  <1>2. LogTypeOK'
    BY <1>0, <1>1 DEF LogTypeOK
  <1>3. SendsLeft'
    BY <1>1 DEF LogInv, SendsLeft
  <1>4. \A x \in Entries : Inserted(x)' = Inserted(x) /\ Published(x)' = Published(x)
    BY <1>1 DEF Inserted, Published
  <1>5. RingKnown' /\ GotKnown'
    BY <1>4 DEF LogInv, RingKnown, GotKnown, Places
  <1>6. HTTPKnown'
    <2>1. \A i \in 1 .. Len(logCh) : logCh[i] \in Entries
      BY <1>0 DEF LogTypeOK
    <2>2. QED BY <1>1, <2>1 DEF LogInv, HTTPKnown
  <1>7. QED BY <1>2, <1>3, <1>5, <1>6 DEF LogInv

LEMMA LogIfStep ==
  ASSUME LogInv, NEW e \in Entries, LogIf(e)
  PROVE  LogInv'
  <1> DEFINE m == [pc |-> "first", left |-> targets, sends |-> targets]
  <1>1. targets \in Nat \ {0} /\ entry[e] \in EntryStates
    BY DEF LogInv, LogTypeOK
  <1>2. m \in EntryStates /\ m.pc = "first" /\ m.left = targets /\ m.sends = targets
    BY <1>1 DEF EntryStates
  <1>3. /\ entry' = [entry EXCEPT ![e] = m] /\ UNCHANGED <<targets, logBuf, logCh, sub, got>>
        /\ entry[e].pc \in {"none", "shouldLog"}
    BY DEF LogIf
  <1>4. entry[e].left = 0 /\ entry[e].sends = 0
    BY <1>3 DEF LogInv, SendsLeft
  <1> HIDE DEF m
  <1>5. m.sends - m.left = entry[e].sends - entry[e].left /\ 0 < m.left /\ m.left <= m.sends
    BY <1>1, <1>2, <1>4
  <1>6. QED BY <1>2, <1>3, <1>5, EntryMoves

LEMMA LogOnceIfStep ==
  ASSUME LogInv, NEW e \in Entries, LogOnceIf(e)
  PROVE  LogInv'
  <1>1. PICK pc \in {"skipped", "shouldLog"} : entry' = [entry EXCEPT ![e].pc = pc]
    BY DEF LogOnceIf
  <1> DEFINE m == [entry[e] EXCEPT !.pc = pc]
  <1>2. entry[e] \in EntryStates /\ entry[e].pc = "none"
        /\ UNCHANGED <<targets, logBuf, logCh, sub, got>>
    BY DEF LogInv, LogTypeOK, LogOnceIf
  <1>3. m \in EntryStates /\ m.pc = pc /\ m.left = entry[e].left /\ m.sends = entry[e].sends
    BY <1>2 DEF EntryStates
  <1>4. entry' = [entry EXCEPT ![e] = m]
    BY <1>1
  <1>5. entry[e].left = 0 /\ entry[e].sends = 0
    BY <1>2 DEF LogInv, SendsLeft
  <1> HIDE DEF m
  <1>6. QED BY <1>1, <1>2, <1>3, <1>4, <1>5, EntryMoves, ZenonT(60)

\* An entry is published to registered subscribers.
LEMMA PublishStep ==
  ASSUME LogInv, NEW e \in Entries, entry[e].pc = "first", Publishes(e),
         entry' = [entry EXCEPT ![e].pc = "second"], UNCHANGED <<targets, logCh, idMap, sub>>
  PROVE  LogInv'
  <1> DEFINE m == [entry[e] EXCEPT !.pc = "second"]
  <1>0. LogTypeOK /\ entry[e] \in EntryStates
    BY DEF LogInv, LogTypeOK
  <1>1. m \in EntryStates /\ m.pc = "second" /\ m.left = entry[e].left /\ m.sends = entry[e].sends
    BY <1>0 DEF EntryStates
  <1>2. entry' = [entry EXCEPT ![e] = m] OBVIOUS
  <1> HIDE DEF m
  <1>3. /\ entry' \in [Entries -> EntryStates]
        /\ \A x \in Entries : entry'[x] = IF x = e THEN m ELSE entry[x]
    BY <1>0, <1>1, <1>2, ReplaceEntry
  <1>4. PICK S \in SUBSET Registered : Delivers(S, {e})
    BY DEF Publishes
  <1>5. /\ got' \in [Receivers -> [Entries -> Nat]]
        /\ \A r \in Receivers, x \in Entries :
             got'[r][x] = IF r \in S /\ x = e THEN got[r][x] + 1 ELSE got[r][x]
    BY <1>0, <1>4 DEF Delivers, LogTypeOK
  <1>6. logBuf' = logBuf
    BY DEF Publishes
  <1>7. LogTypeOK'
    BY <1>0, <1>3, <1>5, <1>6 DEF LogTypeOK
  <1>8. SendsLeft'
    BY <1>1, <1>3 DEF LogInv, SendsLeft
  <1>9. \A x \in Entries : /\ Inserted(x)' = Inserted(x) /\ Inserted(x) \in Int
                           /\ Published(x)' = IF x = e THEN Published(x) + 1 ELSE Published(x)
    BY <1>0, <1>1, <1>3 DEF Inserted, Published, LogTypeOK, EntryStates
  <1>10. RingKnown'
    BY <1>6, <1>9 DEF LogInv, RingKnown, Places
  <1>11. "http" \notin S /\ "http" \in Receivers
    BY LoggingAssumption DEF Registered, Receivers
  <1>12. HTTPKnown'
    <2>1. \A i \in 1 .. Len(logCh) : logCh[i] \in Entries
      BY <1>0 DEF LogTypeOK
    <2>2. \A x \in Entries : got'["http"][x] = got["http"][x]
      BY <1>5, <1>11
    <2>3. QED BY <1>1, <1>3, <2>1, <2>2 DEF LogInv, HTTPKnown
  <1>13. GotKnown'
    <2> SUFFICES ASSUME NEW s \in Subscribers, NEW x \in Entries
                 PROVE  /\ got'[s][x] <= Published(x)'
                        /\ sub'[s].pc \in {"off", "add", "append", "last"} => got'[s][x] = 0
      BY DEF GotKnown
    <2>1. /\ got[s][x] <= Published(x)
          /\ sub[s].pc \in {"off", "add", "append", "last"} => got[s][x] = 0
      BY DEF LogInv, GotKnown
    <2>2. got[s][x] \in Nat /\ s \in Receivers /\ Published(x) \in Int
      BY <1>0, <1>9 DEF LogTypeOK, Receivers, Published
    <2>3. s \in S => sub[s].pc = "on"
      BY DEF Registered
    <2>4. got'[s][x] = IF s \in S /\ x = e THEN got[s][x] + 1 ELSE got[s][x]
      BY <1>5, <2>2
    <2>5. Published(x)' = IF x = e THEN Published(x) + 1 ELSE Published(x)
      BY <1>9
    <2>6. QED BY <2>1, <2>2, <2>3, <2>4, <2>5
  <1>14. QED BY <1>7, <1>8, <1>10, <1>12, <1>13 DEF LogInv

\* An entry is put in the ring.
LEMMA InsertStep ==
  ASSUME LogInv, NEW e \in Entries, entry[e].pc = "second", Inserts(e),
         entry' = [entry EXCEPT ![e].left = @ - 1,
                                ![e].pc = IF entry[e].left = 1 THEN "http" ELSE "first"],
         UNCHANGED <<targets, logCh, idMap, sub>>
  PROVE  LogInv'
  <1> DEFINE m == [entry[e] EXCEPT !.left = @ - 1, !.pc = IF entry[e].left = 1 THEN "http" ELSE "first"]
  <1>0. /\ LogTypeOK /\ entry[e] \in EntryStates /\ entry[e].left \in Nat /\ entry[e].sends \in Nat
        /\ 0 < entry[e].left /\ entry[e].left <= entry[e].sends
    BY DEF LogInv, LogTypeOK, SendsLeft, EntryStates
  <1>1. /\ m \in EntryStates /\ m.pc = (IF entry[e].left = 1 THEN "http" ELSE "first")
        /\ m.left = entry[e].left - 1 /\ m.sends = entry[e].sends
    <2> DEFINE next == IF entry[e].left = 1 THEN "http" ELSE "first"
               left == entry[e].left - 1
    <2>1. next \in {"http", "first"} /\ left \in Nat
      BY <1>0
    <2>2. m = [entry[e] EXCEPT !.left = left, !.pc = next] OBVIOUS
    <2> HIDE DEF m, next, left
    <2>3. m \in EntryStates /\ m.pc = next /\ m.left = left /\ m.sends = entry[e].sends
      BY <1>0, <2>1, <2>2 DEF EntryStates
    <2>4. QED BY <2>3 DEF next, left
  <1>2. entry' = [entry EXCEPT ![e] = m]
    BY <1>0 DEF LogTypeOK
  <1> HIDE DEF m
  <1>3. /\ entry' \in [Entries -> EntryStates]
        /\ \A x \in Entries : entry'[x] = IF x = e THEN m ELSE entry[x]
    BY <1>0, <1>1, <1>2, ReplaceEntry
  <1> DEFINE all == Append(logBuf, e)
  <1>4. logBuf \in Seq(Entries) /\ all \in Seq(Entries) /\ all # << >>
    <2>1. logBuf \in Seq(Entries)
      BY <1>0 DEF LogTypeOK
    <2>2. all \in Seq(Entries) /\ Len(all) = Len(logBuf) + 1 /\ Len(logBuf) \in Nat
      BY <2>1
    <2>3. QED BY <2>1, <2>2
  <1>5. logBuf' = (IF Len(all) > RingSize THEN Tail(all) ELSE all) /\ got' = got
    BY DEF Inserts
  <1>6. \A x \in Entries :
          Cardinality(Places(all, x)) = Cardinality(Places(logBuf, x)) + (IF x = e THEN 1 ELSE 0)
    BY <1>4, PlacesAppend
  <1> HIDE DEF all
  <1>7. logBuf' \in Seq(Entries)
    BY <1>4, <1>5
  <1>8. LogTypeOK'
    BY <1>0, <1>3, <1>5, <1>7 DEF LogTypeOK
  <1>9. SendsLeft'
    BY <1>0, <1>1, <1>3 DEF LogInv, SendsLeft
  <1>10. \A x \in Entries : /\ Inserted(x)' = Inserted(x) + (IF x = e THEN 1 ELSE 0)
                            /\ Inserted(x) \in Int /\ Published(x)' = Published(x)
    BY <1>0, <1>1, <1>3 DEF Inserted, Published, LogTypeOK, EntryStates
  <1>11. RingKnown'
    <2> SUFFICES ASSUME NEW x \in Entries
                 PROVE  Cardinality(Places(logBuf', x)) <= Inserted(x)'
      BY DEF RingKnown, Places
    <2>1. Cardinality(Places(logBuf', x)) <= Cardinality(Places(all, x))
      <3>1. CASE Len(all) > RingSize
        BY <1>4, <1>5, <3>1, PlacesTail
      <3>2. CASE ~(Len(all) > RingSize)
        BY <1>4, <1>5, <3>2, PlacesFinite
      <3>3. QED BY <3>1, <3>2
    <2>2. Cardinality(Places(logBuf, x)) <= Inserted(x)
      BY DEF LogInv, RingKnown
    <2>3. /\ Cardinality(Places(logBuf, x)) \in Nat /\ Cardinality(Places(all, x)) \in Nat
          /\ Cardinality(Places(logBuf', x)) \in Nat
      BY <1>4, <1>7, PlacesFinite
    <2>4. QED BY <1>6, <1>10, <2>1, <2>2, <2>3
  <1>12. GotKnown'
    BY <1>5, <1>10 DEF LogInv, GotKnown
  <1>13. HTTPKnown'
    <2>1. \A i \in 1 .. Len(logCh) : logCh[i] \in Entries
      BY <1>0 DEF LogTypeOK
    <2>2. QED BY <1>1, <1>3, <1>5, <2>1 DEF LogInv, HTTPKnown
  <1>14. QED BY <1>8, <1>9, <1>11, <1>12, <1>13 DEF LogInv

LEMMA HTTPSendStep ==
  ASSUME LogInv, NEW e \in Entries, HTTPSend(e)
  PROVE  LogInv'
  <1> DEFINE m == [entry[e] EXCEPT !.pc = "done"]
  <1>0. LogTypeOK /\ entry[e] \in EntryStates /\ entry[e].pc = "http"
    BY DEF LogInv, LogTypeOK, HTTPSend
  <1>1. m \in EntryStates /\ m.pc = "done" /\ m.left = entry[e].left /\ m.sends = entry[e].sends
    BY <1>0 DEF EntryStates
  <1>2. /\ entry' = [entry EXCEPT ![e] = m] /\ UNCHANGED <<targets, logBuf, sub, got>>
        /\ logCh' = IF Len(logCh) < LogChSize THEN Append(logCh, e) ELSE logCh
    BY DEF HTTPSend
  <1> HIDE DEF m
  <1>3. /\ entry' \in [Entries -> EntryStates]
        /\ \A x \in Entries : entry'[x] = IF x = e THEN m ELSE entry[x]
    BY <1>0, <1>1, <1>2, ReplaceEntry
  <1>4. logCh \in Seq(Entries) /\ logCh' \in Seq(Entries)
    BY <1>0, <1>2 DEF LogTypeOK
  <1>5. LogTypeOK'
    BY <1>0, <1>2, <1>3, <1>4 DEF LogTypeOK
  <1>6. SendsLeft'
    BY <1>0, <1>1, <1>3 DEF LogInv, SendsLeft
  <1>7. \A x \in Entries : Inserted(x)' = Inserted(x) /\ Published(x)' = Published(x)
    BY <1>0, <1>1, <1>3 DEF Inserted, Published
  <1>8. RingKnown' /\ GotKnown'
    BY <1>2, <1>7 DEF LogInv, RingKnown, GotKnown, Places
  <1>9. \A i \in 1 .. Len(logCh) : logCh[i] \in Entries /\ logCh[i] # e
    BY <1>0, <1>4 DEF LogInv, HTTPKnown
  <1>10. got["http"][e] = 0
    BY <1>0 DEF LogInv, HTTPKnown
  <1>11. HTTPKnown'
    <2>1. CASE logCh' = logCh
      BY <1>1, <1>2, <1>3, <1>9, <2>1 DEF LogInv, HTTPKnown
    <2>2. CASE logCh' = Append(logCh, e)
      <3>1. /\ Len(logCh') = Len(logCh) + 1 /\ Len(logCh) \in Nat
            /\ \A i \in 1 .. Len(logCh) : logCh'[i] = logCh[i]
            /\ logCh'[Len(logCh) + 1] = e
        BY <1>4, <2>2
      <3>2. \A i \in 1 .. Len(logCh') : i \in 1 .. Len(logCh) \/ i = Len(logCh) + 1
        BY <3>1
      <3>3. \A i, j \in 1 .. Len(logCh') : logCh'[i] = logCh'[j] => i = j
        BY <1>9, <3>1, <3>2 DEF LogInv, HTTPKnown
      <3>4. \A i \in 1 .. Len(logCh') : entry'[logCh'[i]].pc = "done" /\ got'["http"][logCh'[i]] = 0
        BY <1>1, <1>2, <1>3, <1>9, <1>10, <3>1, <3>2 DEF LogInv, HTTPKnown
      <3>5. \A x \in Entries : got'["http"][x] <= 1 /\ (entry'[x].pc # "done" => got'["http"][x] = 0)
        BY <1>1, <1>2, <1>3 DEF LogInv, HTTPKnown
      <3>6. QED BY <3>3, <3>4, <3>5 DEF HTTPKnown
    <2>3. QED BY <1>2, <2>1, <2>2
  <1>12. QED BY <1>5, <1>6, <1>8, <1>11 DEF LogInv

LEMMA HTTPPostStep ==
  ASSUME LogInv, HTTPPost
  PROVE  LogInv'
  <1>0. LogTypeOK /\ logCh \in Seq(Entries) /\ logCh # << >>
    BY DEF LogInv, LogTypeOK, HTTPPost
  <1>1. logCh' = Tail(logCh) /\ UNCHANGED <<targets, entry, logBuf, sub>>
    BY DEF HTTPPost
  <1>2. /\ Len(logCh') = Len(logCh) - 1 /\ Len(logCh) \in Nat /\ Len(logCh) > 0
        /\ \A i \in 1 .. Len(logCh') : logCh'[i] = logCh[i + 1] /\ i + 1 \in 1 .. Len(logCh)
        /\ logCh' \in Seq(Entries) /\ Head(logCh) = logCh[1] /\ logCh[1] \in Entries
    BY <1>0, <1>1
  <1>3. PICK R \in SUBSET {"http"} : Delivers(R, {Head(logCh)})
    BY DEF HTTPPost
  <1>4. /\ got' \in [Receivers -> [Entries -> Nat]]
        /\ \A r \in Receivers, x \in Entries :
             got'[r][x] = IF r \in R /\ x = Head(logCh) THEN got[r][x] + 1 ELSE got[r][x]
    BY <1>0, <1>3 DEF Delivers, LogTypeOK
  <1>5. LogTypeOK'
    BY <1>0, <1>1, <1>2, <1>4 DEF LogTypeOK
  <1>6. SendsLeft' /\ RingKnown'
    BY <1>1 DEF LogInv, SendsLeft, RingKnown, Inserted, Places
  <1>7. "http" \in Receivers /\ \A s \in Subscribers : s \in Receivers /\ s \notin R
    BY LoggingAssumption DEF Receivers
  <1>8. GotKnown'
    <2>1. \A s \in Subscribers, x \in Entries : got'[s][x] = got[s][x]
      BY <1>4, <1>7
    <2>2. QED BY <1>1, <2>1 DEF LogInv, GotKnown, Published, Inserted
  <1>9. HTTPKnown'
    <2>1. \A x \in Entries : got'["http"][x] = IF "http" \in R /\ x = logCh[1]
                                               THEN got["http"][x] + 1 ELSE got["http"][x]
      BY <1>2, <1>4, <1>7
    <2>2. \A i \in 1 .. Len(logCh') : logCh'[i] \in Entries /\ logCh'[i] # logCh[1]
      <3> SUFFICES ASSUME NEW i \in 1 .. Len(logCh')
                   PROVE  logCh'[i] \in Entries /\ logCh'[i] # logCh[1]
        OBVIOUS
      <3>1. 1 \in 1 .. Len(logCh) /\ i + 1 \in 1 .. Len(logCh) /\ i + 1 # 1
        BY <1>2
      <3>2. logCh[i + 1] # logCh[1]
        BY <3>1 DEF LogInv, HTTPKnown
      <3>3. QED BY <1>0, <1>2, <3>1, <3>2
    <2>3. \A i, j \in 1 .. Len(logCh') : logCh'[i] = logCh'[j] => i = j
      <3> SUFFICES ASSUME NEW i \in 1 .. Len(logCh'), NEW j \in 1 .. Len(logCh'),
                          logCh'[i] = logCh'[j]
                   PROVE  i = j
        OBVIOUS
      <3>1. i + 1 \in 1 .. Len(logCh) /\ j + 1 \in 1 .. Len(logCh) /\ logCh[i + 1] = logCh[j + 1]
        BY <1>2
      <3>2. i + 1 = j + 1
        BY <3>1 DEF LogInv, HTTPKnown
      <3>3. QED BY <1>2, <3>2
    <2>4. \A i \in 1 .. Len(logCh') : entry'[logCh'[i]].pc = "done" /\ got'["http"][logCh'[i]] = 0
      BY <1>1, <1>2, <2>1, <2>2 DEF LogInv, HTTPKnown
    <2>5. entry[logCh[1]].pc = "done" /\ got["http"][logCh[1]] = 0
      BY <1>2 DEF LogInv, HTTPKnown
    <2>6. \A x \in Entries : got'["http"][x] <= 1 /\ (entry'[x].pc # "done" => got'["http"][x] = 0)
      BY <1>1, <2>1, <2>5 DEF LogInv, HTTPKnown
    <2>7. QED BY <2>3, <2>4, <2>6 DEF HTTPKnown
  <1>10. QED BY <1>5, <1>6, <1>8, <1>9 DEF LogInv

LEMMA LogInvStep ==
  ASSUME LogInv, [LogNext]_logVars
  PROVE  LogInv'
  <1>1. CASE UNCHANGED logVars
    BY <1>1 DEF logVars, LogInv, LogTypeOK, SendsLeft, RingKnown, GotKnown, HTTPKnown, Published,
         Inserted, Places
  <1>2. CASE CleanupRoutine
    <2>1. UNCHANGED <<targets, entry, logBuf, logCh, sub, got>>
      BY <1>2 DEF CleanupRoutine
    <2>2. LogTypeOK'
      BY <2>1 DEF LogInv, LogTypeOK
    <2>3. QED BY <2>1, <2>2, QuietStep
  <1>3. ASSUME NEW e \in Entries, Send(e)
        PROVE  LogInv'
    <2>1. UNCHANGED <<targets, logCh, idMap, sub>>
      BY <1>3 DEF Send
    <2>2. QED BY <1>3, <2>1, PublishStep, InsertStep DEF Send
  <1>4. ASSUME NEW e \in Entries, EntryStep(e)
        PROVE  LogInv'
    BY <1>3, <1>4, LogIfStep, LogOnceIfStep, HTTPSendStep DEF EntryStep
  <1>5. ASSUME NEW s \in Subscribers, SubscriberStep(s)
        PROVE  LogInv'
    BY <1>5, SubscriberQuietStep, LastNStep DEF SubscriberStep
  <1>6. QED BY <1>1, <1>2, <1>4, <1>5, HTTPPostStep DEF LogNext

LEMMA LogInvImplies == LogInv => NoEntryTwice
  <1> SUFFICES ASSUME LogInv, NEW e \in Entries, NEW s \in Subscribers
               PROVE  got[s][e] <= entry[e].sends
    BY DEF NoEntryTwice, LogInv, HTTPKnown
  <1>1. got[s][e] <= Published(e)
    BY DEF LogInv, GotKnown
  <1>2. /\ entry[e].left \in Nat /\ entry[e].sends \in Nat /\ s \in Receivers
        /\ entry[e].pc = "second" => 0 < entry[e].left
    BY DEF LogInv, LogTypeOK, EntryStates, SendsLeft, Receivers
  <1>3. got[s][e] \in Nat
    BY <1>2 DEF LogInv, LogTypeOK
  <1>4. QED BY <1>1, <1>2, <1>3 DEF Published, Inserted

\* Subscribe and the targets' Send, for any number of entries and subscribers,
\* any size of the ring and of the queue: no subscriber gets an entry more
\* often than the console was a target, and the HTTP endpoint gets it once at
\* most.
THEOREM NoEntryTwiceAlways == LogSpec => []NoEntryTwice
  <1>1. LogInit => LogInv
    BY LogInitInv
  <1>2. LogInv /\ [LogNext]_logVars => LogInv'
    BY LogInvStep
  <1>3. LogInv => NoEntryTwice
    BY LogInvImplies
  <1>4. QED BY <1>1, <1>2, <1>3, PTL DEF LogSpec

(***************************************************************************)
(* The distributed lock: locks for writing exclude each other and locks    *)
(* for reading, and without failing calls everything that was granted is   *)
(* given back.                                                             *)
(***************************************************************************)
CallStates == {"done", "asked", "yes", "no"}

MutexStates ==
  [pc : {"idle", "collect", "release", "decided", "held", "unlock"},
   isReadLock : BOOLEAN, call : [Lockers -> CallStates],
   locks : SUBSET Lockers, locksFailed : Nat]

DSyncTypeOK ==
  /\ writer \in [Lockers -> SUBSET Clients]
  /\ readers \in [Lockers -> [Clients -> Nat]]
  /\ mutex \in [Clients -> MutexStates]
  /\ late \in [Clients -> [Lockers -> [{"read", "write"} -> Nat]]]
  /\ faults \in Nat

\* The client has, or is about to get, a grant of the locker in this call.
Granted(c, l) == l \in mutex[c].locks \/ mutex[c].call[l] = "yes"
HasWrite(c, l) == ~mutex[c].isReadLock /\ Granted(c, l)
HasRead(c, l) == mutex[c].isReadLock /\ Granted(c, l)

\* A grant for writing that a client counts, or still has to give back, is the
\* locker's only one.
WritersKnown ==
  \A c \in Clients, l \in Lockers :
    /\ HasWrite(c, l) => writer[l] = {c} /\ late[c][l]["write"] = 0
    /\ late[c][l]["write"] > 0 => writer[l] = {c} /\ late[c][l]["write"] = 1

\* A locker has all grants for reading that clients count or give back.
ReadersKnown ==
  \A c \in Clients, l \in Lockers :
    late[c][l]["read"] + (IF HasRead(c, l) THEN 1 ELSE 0) <= readers[l][c]

LockersExclude ==
  \A l \in Lockers : writer[l] # {} => \A c \in Clients : readers[l][c] = 0

\* A locker whose grant was taken from the channel does not answer again.
AnsweredOnce ==
  \A c \in Clients : \A l \in mutex[c].locks : mutex[c].call[l] = "done"

HeldByQuorum ==
  \A c \in Clients : mutex[c].pc = "held" => quorumMet(mutex[c])

DSyncInv ==
  /\ DSyncTypeOK /\ WritersKnown /\ ReadersKnown /\ LockersExclude
  /\ AnsweredOnce /\ HeldByQuorum

-----------------------------------------------------------------------------
LEMMA NType == N \in Nat /\ N > 0
  <1>1. Lockers # {} /\ IsFiniteSet(Lockers)
    BY LockersAssumption
  <1>2. QED BY <1>1, FS_CardinalityType, FS_EmptySet DEF N

LEMMA DSyncInitInv == DSyncInit => DSyncInv
  <1> SUFFICES ASSUME DSyncInit PROVE DSyncInv
    OBVIOUS
  <1>1. DSyncTypeOK
    BY DEF DSyncInit, DSyncTypeOK, MutexStates, Unlocked, NoCall, CallStates, NoneLate
  <1>2. QED
    BY <1>1 DEF DSyncInit, DSyncInv, WritersKnown, ReadersKnown, LockersExclude,
         AnsweredOnce, HeldByQuorum, HasWrite, HasRead, Granted, Unlocked, NoCall, NoneLate

\* A step in which clients only forget grants.
LEMMA ForgetsGrants ==
  ASSUME DSyncInv, DSyncTypeOK', UNCHANGED <<writer, readers, late>>,
         \A c \in Clients, l \in Lockers :
           (HasWrite(c, l)' => HasWrite(c, l)) /\ (HasRead(c, l)' => HasRead(c, l))
  PROVE  WritersKnown' /\ ReadersKnown' /\ LockersExclude'
  <1>1. WritersKnown'
    BY DEF DSyncInv, WritersKnown
  <1>2. ReadersKnown'
    <2> SUFFICES ASSUME NEW c \in Clients, NEW l \in Lockers
                 PROVE  late'[c][l]["read"] + (IF HasRead(c, l)' THEN 1 ELSE 0) <= readers'[l][c]
      BY DEF ReadersKnown
    <2>1. late[c][l]["read"] \in Nat /\ readers[l][c] \in Nat
      BY DEF DSyncInv, DSyncTypeOK
    <2>2. late[c][l]["read"] + (IF HasRead(c, l) THEN 1 ELSE 0) <= readers[l][c]
      BY DEF DSyncInv, ReadersKnown
    <2>3. QED BY <2>1, <2>2
  <1>3. LockersExclude'
    BY DEF DSyncInv, LockersExclude
  <1>4. QED BY <1>1, <1>2, <1>3

\* A step of one client that neither grants nor frees.
LEMMA LocalStep ==
  ASSUME DSyncInv, NEW c \in Clients, NEW m \in MutexStates,
         mutex' = [mutex EXCEPT ![c] = m], UNCHANGED <<writer, readers, late>>, faults' \in Nat,
         \A l \in Lockers : (l \in m.locks \/ m.call[l] = "yes") => Granted(c, l),
         \A l \in Lockers : l \in m.locks => m.call[l] = "done",
         (\A l \in Lockers : ~(l \in m.locks \/ m.call[l] = "yes"))
           \/ m.isReadLock = mutex[c].isReadLock,
         m.pc = "held" => quorumMet(m)
  PROVE  DSyncInv'
  <1>1. DSyncTypeOK'
    BY DEF DSyncInv, DSyncTypeOK
  <1>2. \A d \in Clients : mutex'[d] = IF d = c THEN m ELSE mutex[d]
    BY DEF DSyncInv, DSyncTypeOK
  <1>3. \A d \in Clients, l \in Lockers :
          (HasWrite(d, l)' => HasWrite(d, l)) /\ (HasRead(d, l)' => HasRead(d, l))
    BY <1>2 DEF HasWrite, HasRead, Granted
  <1>4. WritersKnown' /\ ReadersKnown' /\ LockersExclude'
    BY <1>1, <1>3, ForgetsGrants
  <1>5. AnsweredOnce' /\ HeldByQuorum'
    BY <1>1, <1>2 DEF DSyncInv, AnsweredOnce, HeldByQuorum, DSyncTypeOK, MutexStates
  <1>6. QED BY <1>1, <1>4, <1>5 DEF DSyncInv

LEMMA AskStep ==
  ASSUME DSyncInv, NEW c \in Clients, NEW isReadLock \in BOOLEAN, Ask(c, isReadLock)
  PROVE  DSyncInv'
  <1>1. Asked(isReadLock) \in MutexStates
    BY DEF Asked, Unlocked, MutexStates, CallStates, NoCall
  <1>2. /\ Asked(isReadLock).locks = {} /\ Asked(isReadLock).pc = "collect"
        /\ \A l \in Lockers : Asked(isReadLock).call[l] # "yes"
    BY DEF Asked, Unlocked, NoCall
  <1>3. faults \in Nat
    BY DEF DSyncInv, DSyncTypeOK
  <1>4. QED BY <1>1, <1>2, <1>3, LocalStep DEF Ask

\* A locker grants, whether its answer arrives or is lost.
LEMMA GrantStep ==
  ASSUME DSyncInv, NEW c \in Clients, NEW l \in Lockers, NEW answer \in {"yes", "no"},
         mutex[c].call[l] = "asked", CanGrant(l, mutex[c].isReadLock),
         Grants(c, l, mutex[c].isReadLock), Says(c, l, answer),
         UNCHANGED late, faults' \in Nat
  PROVE  DSyncInv'
  <1> DEFINE read == mutex[c].isReadLock
  <1>1. read \in BOOLEAN /\ mutex[c] \in MutexStates
    BY DEF DSyncInv, DSyncTypeOK, MutexStates
  <1>2. DSyncTypeOK'
    <2>1. mutex' \in [Clients -> MutexStates]
      <3>1. [mutex[c] EXCEPT !.call[l] = answer] \in MutexStates
        BY <1>1 DEF MutexStates, CallStates
      <3>2. mutex' = [mutex EXCEPT ![c] = [mutex[c] EXCEPT !.call[l] = answer]]
        BY DEF Says, DSyncInv, DSyncTypeOK
      <3>3. QED BY <3>1, <3>2 DEF DSyncInv, DSyncTypeOK
    <2>2. writer \in [Lockers -> SUBSET Clients] /\ readers \in [Lockers -> [Clients -> Nat]]
      BY DEF DSyncInv, DSyncTypeOK
    <2>3. writer' \in [Lockers -> SUBSET Clients] /\ readers' \in [Lockers -> [Clients -> Nat]]
      <3>1. CASE read
        BY <2>2, <3>1 DEF Grants
      <3>2. CASE ~read
        BY <2>2, <3>2 DEF Grants
      <3>3. QED BY <3>1, <3>2
    <2>4. QED BY <2>1, <2>3 DEF DSyncInv, DSyncTypeOK
  <1>3. /\ \A d \in Clients \ {c} : mutex'[d] = mutex[d]
        /\ mutex'[c].isReadLock = read /\ mutex'[c].locks = mutex[c].locks
        /\ mutex'[c].pc = mutex[c].pc
        /\ \A k \in Lockers : mutex'[c].call[k] = IF k = l THEN answer ELSE mutex[c].call[k]
    BY DEF DSyncInv, DSyncTypeOK, MutexStates, Says
  <1>4. l \notin mutex[c].locks
    BY DEF DSyncInv, AnsweredOnce
  <1>5. \A d \in Clients, k \in Lockers : (d # c \/ k # l) =>
          (HasWrite(d, k)' <=> HasWrite(d, k)) /\ (HasRead(d, k)' <=> HasRead(d, k))
    BY <1>3 DEF HasWrite, HasRead, Granted
  <1>6. \A d \in Clients : ~HasWrite(d, l) /\ late[d][l]["write"] = 0
    <2>1. \A d \in Clients : writer[l] # {d} /\ late[d][l]["write"] \in Nat
      BY DEF DSyncInv, DSyncTypeOK, CanGrant
    <2>2. QED BY <2>1 DEF DSyncInv, WritersKnown
  <1>7. AnsweredOnce' /\ HeldByQuorum'
    <2>1. AnsweredOnce'
      <3> SUFFICES ASSUME NEW d \in Clients, NEW k \in mutex'[d].locks
                   PROVE  mutex'[d].call[k] = "done"
        BY DEF AnsweredOnce
      <3>1. k \in Lockers
        BY <1>2 DEF DSyncTypeOK, MutexStates
      <3>2. k \in mutex[d].locks /\ mutex[d].call[k] = "done"
        BY <1>3 DEF DSyncInv, AnsweredOnce
      <3>3. QED BY <1>3, <1>4, <3>1, <3>2
    <2>2. \A d \in Clients : mutex'[d].pc = mutex[d].pc /\ mutex'[d].locks = mutex[d].locks
                             /\ mutex'[d].isReadLock = mutex[d].isReadLock
      BY <1>3
    <2>3. QED BY <2>1, <2>2 DEF DSyncInv, HeldByQuorum, quorumMet
  <1>8. CASE read
    <2>1. /\ UNCHANGED writer
          /\ \A d \in Clients, k \in Lockers :
               readers'[k][d] = IF d = c /\ k = l THEN readers[k][d] + 1 ELSE readers[k][d]
      BY <1>8 DEF Grants, DSyncInv, DSyncTypeOK
    <2>2. WritersKnown'
      BY <1>3, <1>5, <1>6, <1>8, <2>1, ZenonT(60) DEF DSyncInv, WritersKnown, HasWrite
    <2>3. ReadersKnown'
      <3> SUFFICES ASSUME NEW d \in Clients, NEW k \in Lockers
                   PROVE  late'[d][k]["read"] + (IF HasRead(d, k)' THEN 1 ELSE 0) <= readers'[k][d]
        BY DEF ReadersKnown
      <3>1. late[d][k]["read"] \in Nat /\ readers[k][d] \in Nat
        BY DEF DSyncInv, DSyncTypeOK
      <3>2. late[d][k]["read"] + (IF HasRead(d, k) THEN 1 ELSE 0) <= readers[k][d]
        BY DEF DSyncInv, ReadersKnown
      <3>3. QED BY <1>5, <2>1, <3>1, <3>2
    <2>4. LockersExclude'
      BY <1>8, <2>1 DEF CanGrant, DSyncInv, LockersExclude
    <2>5. QED BY <1>2, <1>7, <2>2, <2>3, <2>4 DEF DSyncInv
  <1>9. CASE ~read
    <2>1. UNCHANGED readers /\ writer' = [writer EXCEPT ![l] = {c}]
      BY <1>9 DEF Grants
    <2>2. \A k \in Lockers : writer'[k] = IF k = l THEN {c} ELSE writer[k]
      BY <2>1 DEF DSyncInv, DSyncTypeOK
    <2>3. WritersKnown'
      BY <1>2, <1>3, <1>5, <1>6, <2>2 DEF DSyncInv, WritersKnown, HasWrite
    <2>4. \A d \in Clients, k \in Lockers : HasRead(d, k)' <=> HasRead(d, k)
      BY <1>3, <1>5, <1>9 DEF HasRead
    <2>5. ReadersKnown'
      BY <2>1, <2>4 DEF DSyncInv, ReadersKnown
    <2>6. LockersExclude'
      BY <1>9, <2>1, <2>2 DEF CanGrant, DSyncInv, LockersExclude
    <2>7. QED BY <1>2, <1>7, <2>3, <2>5, <2>6 DEF DSyncInv
  <1>10. QED BY <1>8, <1>9

\* What sendRelease does to the locker, whether it arrives or not.
LEMMA SendReleaseRead ==
  ASSUME DSyncTypeOK, NEW c \in Clients, NEW l \in Lockers, sendRelease(c, l, TRUE)
  PROVE  /\ writer' = writer /\ faults' \in Nat
         /\ readers' \in [Lockers -> [Clients -> Nat]]
         /\ \A k \in Lockers, d \in Clients :
              readers'[k][d] = IF k = l /\ d = c /\ faults' = faults /\ readers[k][d] # 0
                               THEN readers[k][d] - 1 ELSE readers[k][d]
  <1> USE DEF DSyncTypeOK
  <1>1. CASE Frees(c, l, TRUE) /\ UNCHANGED faults
    <2>1. readers' = [readers EXCEPT ![l][c] = IF @ = 0 THEN 0 ELSE @ - 1] /\ writer' = writer
      BY <1>1 DEF Frees
    <2>2. readers[l][c] \in Nat OBVIOUS
    <2>3. readers' \in [Lockers -> [Clients -> Nat]]
      <3> DEFINE f == [readers[l] EXCEPT ![c] = IF @ = 0 THEN 0 ELSE @ - 1]
      <3>1. f \in [Clients -> Nat]
        BY <2>2
      <3>2. readers' = [readers EXCEPT ![l] = f]
        BY <2>1
      <3>3. QED BY <3>1, <3>2
    <2>4. QED BY <1>1, <2>1, <2>2, <2>3
  <1>2. CASE Fault /\ UNCHANGED <<writer, readers>>
    BY <1>2 DEF Fault
  <1>3. QED BY <1>1, <1>2 DEF sendRelease

LEMMA SendReleaseWrite ==
  ASSUME DSyncTypeOK, NEW c \in Clients, NEW l \in Lockers, sendRelease(c, l, FALSE)
  PROVE  /\ readers' = readers /\ faults' \in Nat
         /\ writer' \in [Lockers -> SUBSET Clients]
         /\ \A k \in Lockers : writer'[k] = IF k = l /\ faults' = faults
                                            THEN writer[k] \ {c} ELSE writer[k]
  <1> USE DEF DSyncTypeOK
  <1>1. CASE Frees(c, l, FALSE) /\ UNCHANGED faults
    BY <1>1 DEF Frees
  <1>2. CASE Fault /\ UNCHANGED <<writer, readers>>
    BY <1>2 DEF Fault
  <1>3. QED BY <1>1, <1>2 DEF sendRelease

\* A client gives back one grant for reading.
LEMMA ReadGivenBack ==
  ASSUME DSyncInv, DSyncTypeOK', NEW c \in Clients, NEW l \in Lockers,
         sendRelease(c, l, TRUE),
         \A d \in Clients, k \in Lockers :
           /\ HasWrite(d, k)' => HasWrite(d, k)
           /\ late'[d][k]["write"] = late[d][k]["write"]
           /\ (d # c \/ k # l) => (HasRead(d, k)' => HasRead(d, k))
                                  /\ late'[d][k]["read"] = late[d][k]["read"],
         late'[c][l]["read"] + (IF HasRead(c, l)' THEN 1 ELSE 0)
           < late[c][l]["read"] + (IF HasRead(c, l) THEN 1 ELSE 0)
  PROVE  WritersKnown' /\ ReadersKnown' /\ LockersExclude'
  <1>1. /\ \A k \in Lockers : writer'[k] = writer[k]
        /\ \A k \in Lockers, d \in Clients :
             readers'[k][d] = IF k = l /\ d = c /\ faults' = faults /\ readers[k][d] # 0
                              THEN readers[k][d] - 1 ELSE readers[k][d]
    BY SendReleaseRead DEF DSyncInv
  <1>2. WritersKnown'
    BY <1>1 DEF DSyncInv, WritersKnown
  <1>3. ReadersKnown'
    <2> SUFFICES ASSUME NEW d \in Clients, NEW k \in Lockers
                 PROVE  late'[d][k]["read"] + (IF HasRead(d, k)' THEN 1 ELSE 0) <= readers'[k][d]
      BY DEF ReadersKnown
    <2>1. /\ late[d][k]["read"] \in Nat /\ readers[k][d] \in Nat
          /\ late'[d][k]["read"] \in Nat /\ readers'[k][d] \in Nat
      BY DEF DSyncInv, DSyncTypeOK
    <2>2. late[d][k]["read"] + (IF HasRead(d, k) THEN 1 ELSE 0) <= readers[k][d]
      BY DEF DSyncInv, ReadersKnown
    <2>3. QED BY <1>1, <2>1, <2>2
  <1>4. LockersExclude'
    BY <1>1 DEF DSyncInv, LockersExclude
  <1>5. QED BY <1>2, <1>3, <1>4

\* A client gives back its grant for writing.
LEMMA WriteGivenBack ==
  ASSUME DSyncInv, DSyncTypeOK', NEW c \in Clients, NEW l \in Lockers,
         sendRelease(c, l, FALSE),
         HasWrite(c, l) \/ late[c][l]["write"] > 0,
         ~HasWrite(c, l)', late'[c][l]["write"] = 0,
         \A d \in Clients, k \in Lockers :
           /\ HasRead(d, k)' => HasRead(d, k)
           /\ late'[d][k]["read"] = late[d][k]["read"]
           /\ (d # c \/ k # l) => (HasWrite(d, k)' => HasWrite(d, k))
                                  /\ late'[d][k]["write"] = late[d][k]["write"]
  PROVE  WritersKnown' /\ ReadersKnown' /\ LockersExclude'
  <1>1. /\ \A k \in Lockers : writer'[k] = IF k = l /\ faults' = faults
                                           THEN writer[k] \ {c} ELSE writer[k]
        /\ \A k \in Lockers, d \in Clients : readers'[k][d] = readers[k][d]
    BY SendReleaseWrite DEF DSyncInv
  <1>2. writer[l] = {c}
    BY DEF DSyncInv, WritersKnown
  <1>3. \A d \in Clients \ {c} : ~HasWrite(d, l) /\ ~(late[d][l]["write"] > 0)
    BY <1>2 DEF DSyncInv, WritersKnown
  <1>4. WritersKnown'
    <2> SUFFICES ASSUME NEW d \in Clients, NEW k \in Lockers
                 PROVE  /\ HasWrite(d, k)' => writer'[k] = {d} /\ late'[d][k]["write"] = 0
                        /\ late'[d][k]["write"] > 0 => writer'[k] = {d} /\ late'[d][k]["write"] = 1
      BY DEF WritersKnown
    <2>1. CASE k # l
      <3>1. writer'[k] = writer[k] /\ (HasWrite(d, k)' => HasWrite(d, k))
            /\ late'[d][k]["write"] = late[d][k]["write"]
        BY <1>1, <2>1
      <3>2. /\ HasWrite(d, k) => writer[k] = {d} /\ late[d][k]["write"] = 0
            /\ late[d][k]["write"] > 0 => writer[k] = {d} /\ late[d][k]["write"] = 1
        BY DEF DSyncInv, WritersKnown
      <3>3. QED BY <3>1, <3>2
    <2>2. CASE k = l /\ d # c
      BY <1>3, <2>2
    <2>3. CASE k = l /\ d = c
      <3>1. ~HasWrite(d, k)' /\ late'[d][k]["write"] = 0
        BY <2>3 DEF HasWrite, Granted
      <3>2. QED BY <3>1
    <2>4. QED BY <2>1, <2>2, <2>3
  <1>5. ReadersKnown'
    <2> SUFFICES ASSUME NEW d \in Clients, NEW k \in Lockers
                 PROVE  late'[d][k]["read"] + (IF HasRead(d, k)' THEN 1 ELSE 0) <= readers'[k][d]
      BY DEF ReadersKnown
    <2>1. late[d][k]["read"] \in Nat /\ readers[k][d] \in Nat
      BY DEF DSyncInv, DSyncTypeOK
    <2>2. late[d][k]["read"] + (IF HasRead(d, k) THEN 1 ELSE 0) <= readers[k][d]
      BY DEF DSyncInv, ReadersKnown
    <2>3. QED BY <1>1, <2>1, <2>2
  <1>6. LockersExclude'
    <2>1. \A k \in Lockers : writer'[k] # {} => writer[k] # {}
      BY <1>1
    <2>2. QED BY <1>1, <2>1 DEF DSyncInv, LockersExclude
  <1>7. QED BY <1>4, <1>5, <1>6

LEMMA ReleaseStep ==
  ASSUME DSyncInv, NEW c \in Clients, NEW l \in Lockers, Release(c, l)
  PROVE  DSyncInv'
  <1> DEFINE m == [mutex[c] EXCEPT !.locks = @ \ {l}]
  <1>1. /\ mutex[c] \in MutexStates /\ m \in MutexStates
        /\ mutex' = [mutex EXCEPT ![c] = m]
        /\ m.pc \in {"release", "unlock"} /\ m.isReadLock = mutex[c].isReadLock
        /\ m.call = mutex[c].call /\ m.locks = mutex[c].locks \ {l}
    BY DEF DSyncInv, DSyncTypeOK, MutexStates, Release
  <1>2. \A d \in Clients : mutex'[d] = IF d = c THEN m ELSE mutex[d]
    BY <1>1 DEF DSyncInv, DSyncTypeOK
  <1>3. l \in mutex[c].locks /\ mutex[c].call[l] = "done" /\ late' = late
    BY DEF Release, DSyncInv, AnsweredOnce
  <1> HIDE DEF m
  <1>4. \A d \in Clients, k \in Lockers :
          (HasWrite(d, k)' => HasWrite(d, k)) /\ (HasRead(d, k)' => HasRead(d, k))
    BY <1>1, <1>2 DEF HasWrite, HasRead, Granted
  <1>5. Granted(c, l) /\ ~Granted(c, l)'
    BY <1>1, <1>2, <1>3 DEF Granted
  <1>6. mutex' \in [Clients -> MutexStates]
    BY <1>1 DEF DSyncInv, DSyncTypeOK
  <1>7. AnsweredOnce' /\ HeldByQuorum'
    <2>1. AnsweredOnce'
      <3> SUFFICES ASSUME NEW d \in Clients, NEW k \in mutex'[d].locks
                   PROVE  mutex'[d].call[k] = "done"
        BY DEF AnsweredOnce
      <3>1. CASE d = c
        BY <1>1, <1>2, <3>1 DEF DSyncInv, AnsweredOnce
      <3>2. CASE d # c
        BY <1>2, <3>2 DEF DSyncInv, AnsweredOnce
      <3>3. QED BY <3>1, <3>2
    <2>2. HeldByQuorum'
      <3> SUFFICES ASSUME NEW d \in Clients, mutex'[d].pc = "held"
                   PROVE  quorumMet(mutex[d])'
        BY DEF HeldByQuorum
      <3>1. d # c
        BY <1>1, <1>2
      <3>2. mutex'[d] = mutex[d]
        BY <1>2, <3>1
      <3>3. QED BY <3>2 DEF DSyncInv, HeldByQuorum, quorumMet
    <2>3. QED BY <2>1, <2>2
  <1>8. CASE mutex[c].isReadLock
    <2>1. sendRelease(c, l, TRUE)
      BY <1>8 DEF Release
    <2>2. DSyncTypeOK'
      BY <1>3, <1>6, <2>1, SendReleaseRead DEF DSyncInv, DSyncTypeOK
    <2>3. HasRead(c, l) /\ ~HasRead(c, l)'
      BY <1>5, <1>8 DEF HasRead
    <2>4. late[c][l]["read"] \in Nat
      BY DEF DSyncInv, DSyncTypeOK
    <2>5. WritersKnown' /\ ReadersKnown' /\ LockersExclude'
      <3>1. late'[c][l]["read"] + (IF HasRead(c, l)' THEN 1 ELSE 0)
              < late[c][l]["read"] + (IF HasRead(c, l) THEN 1 ELSE 0)
        BY <1>3, <2>3, <2>4
      <3>2. \A d \in Clients, k \in Lockers :
              /\ HasWrite(d, k)' => HasWrite(d, k)
              /\ late'[d][k]["write"] = late[d][k]["write"]
              /\ (d # c \/ k # l) => (HasRead(d, k)' => HasRead(d, k))
                                     /\ late'[d][k]["read"] = late[d][k]["read"]
        BY <1>3, <1>4
      <3>3. QED BY <2>1, <2>2, <3>1, <3>2, ReadGivenBack
    <2>6. QED BY <1>7, <2>2, <2>5 DEF DSyncInv
  <1>9. CASE ~mutex[c].isReadLock
    <2>1. sendRelease(c, l, FALSE)
      <3>1. mutex[c].isReadLock = FALSE
        BY <1>1, <1>9 DEF MutexStates
      <3>2. QED BY <3>1 DEF Release
    <2>2. DSyncTypeOK'
      BY <1>3, <1>6, <2>1, SendReleaseWrite DEF DSyncInv, DSyncTypeOK
    <2>3. HasWrite(c, l) /\ ~HasWrite(c, l)'
      BY <1>5, <1>9 DEF HasWrite
    <2>4. late'[c][l]["write"] = 0
      BY <1>3, <2>3 DEF DSyncInv, WritersKnown
    <2>5. WritersKnown' /\ ReadersKnown' /\ LockersExclude'
      BY <1>3, <1>4, <2>1, <2>2, <2>3, <2>4, WriteGivenBack
    <2>6. QED BY <1>7, <2>2, <2>5 DEF DSyncInv
  <1>10. QED BY <1>8, <1>9

\* The goroutine of lock gives a late grant back.
LEMMA ReleaseLateStep ==
  ASSUME DSyncInv, NEW c \in Clients, NEW l \in Lockers, NEW isReadLock \in BOOLEAN,
         ReleaseLate(c, l, isReadLock)
  PROVE  DSyncInv'
  <1>1. /\ UNCHANGED mutex
        /\ AnsweredOnce' /\ HeldByQuorum'
    BY DEF ReleaseLate, DSyncInv, AnsweredOnce, HeldByQuorum, quorumMet
  <1>2. \A d \in Clients, k \in Lockers :
          (HasWrite(d, k)' <=> HasWrite(d, k)) /\ (HasRead(d, k)' <=> HasRead(d, k))
    BY <1>1 DEF HasWrite, HasRead, Granted
  <1>3. late[c][l]["read"] \in Nat /\ late[c][l]["write"] \in Nat
    BY DEF DSyncInv, DSyncTypeOK
  <1>4. CASE isReadLock
    <2>1. /\ late[c][l]["read"] > 0 /\ sendRelease(c, l, TRUE)
          /\ late' = [late EXCEPT ![c][l]["read"] = @ - 1]
      BY <1>4 DEF ReleaseLate, Kind
    <2>2. late' \in [Clients -> [Lockers -> [{"read", "write"} -> Nat]]]
      <3> DEFINE f == [late[c][l] EXCEPT !["read"] = @ - 1]
      <3>1. f \in [{"read", "write"} -> Nat]
        BY <1>3, <2>1 DEF DSyncInv, DSyncTypeOK
      <3>2. [late[c] EXCEPT ![l] = f] \in [Lockers -> [{"read", "write"} -> Nat]]
        BY <3>1 DEF DSyncInv, DSyncTypeOK
      <3>3. late' = [late EXCEPT ![c] = [late[c] EXCEPT ![l] = f]]
        BY <2>1 DEF DSyncInv, DSyncTypeOK
      <3>4. QED BY <3>2, <3>3 DEF DSyncInv, DSyncTypeOK
    <2>3. \A d \in Clients, k \in Lockers :
            /\ late'[d][k]["write"] = late[d][k]["write"]
            /\ (d # c \/ k # l) => late'[d][k]["read"] = late[d][k]["read"]
      BY <2>1 DEF DSyncInv, DSyncTypeOK
    <2>4. late'[c][l]["read"] = late[c][l]["read"] - 1
      BY <2>1 DEF DSyncInv, DSyncTypeOK
    <2>5. DSyncTypeOK'
      BY <1>1, <2>1, <2>2, SendReleaseRead DEF DSyncInv, DSyncTypeOK
    <2>6. WritersKnown' /\ ReadersKnown' /\ LockersExclude'
      <3>1. late'[c][l]["read"] + (IF HasRead(c, l)' THEN 1 ELSE 0)
              < late[c][l]["read"] + (IF HasRead(c, l) THEN 1 ELSE 0)
        BY <1>2, <1>3, <2>4
      <3>2. \A d \in Clients, k \in Lockers :
              /\ HasWrite(d, k)' => HasWrite(d, k)
              /\ late'[d][k]["write"] = late[d][k]["write"]
              /\ (d # c \/ k # l) => (HasRead(d, k)' => HasRead(d, k))
                                     /\ late'[d][k]["read"] = late[d][k]["read"]
        BY <1>2, <2>3
      <3>3. QED BY <2>1, <2>5, <3>1, <3>2, ReadGivenBack
    <2>7. QED BY <1>1, <2>5, <2>6 DEF DSyncInv
  <1>5. CASE ~isReadLock
    <2>1. /\ late[c][l]["write"] > 0 /\ sendRelease(c, l, FALSE)
          /\ late' = [late EXCEPT ![c][l]["write"] = @ - 1]
      BY <1>5 DEF ReleaseLate, Kind
    <2>2. late' \in [Clients -> [Lockers -> [{"read", "write"} -> Nat]]]
      <3> DEFINE f == [late[c][l] EXCEPT !["write"] = @ - 1]
      <3>1. f \in [{"read", "write"} -> Nat]
        BY <1>3, <2>1 DEF DSyncInv, DSyncTypeOK
      <3>2. [late[c] EXCEPT ![l] = f] \in [Lockers -> [{"read", "write"} -> Nat]]
        BY <3>1 DEF DSyncInv, DSyncTypeOK
      <3>3. late' = [late EXCEPT ![c] = [late[c] EXCEPT ![l] = f]]
        BY <2>1 DEF DSyncInv, DSyncTypeOK
      <3>4. QED BY <3>2, <3>3 DEF DSyncInv, DSyncTypeOK
    <2>3. \A d \in Clients, k \in Lockers :
            /\ late'[d][k]["read"] = late[d][k]["read"]
            /\ (d # c \/ k # l) => late'[d][k]["write"] = late[d][k]["write"]
      BY <2>1 DEF DSyncInv, DSyncTypeOK
    <2>4. late[c][l]["write"] = 1 /\ ~HasWrite(c, l)
      BY <2>1 DEF DSyncInv, WritersKnown
    <2>5. late'[c][l]["write"] = 0
      BY <2>1, <2>4 DEF DSyncInv, DSyncTypeOK
    <2>6. DSyncTypeOK'
      BY <1>1, <2>1, <2>2, SendReleaseWrite DEF DSyncInv, DSyncTypeOK
    <2>7. WritersKnown' /\ ReadersKnown' /\ LockersExclude'
      BY <1>2, <2>1, <2>3, <2>4, <2>5, <2>6, WriteGivenBack
    <2>8. QED BY <1>1, <2>6, <2>7 DEF DSyncInv
  <1>6. QED BY <1>4, <1>5

\* A step that changes one client's record only.
LEMMA ReplaceMutex ==
  ASSUME DSyncTypeOK, NEW c \in Clients, NEW m \in MutexStates, mutex' = [mutex EXCEPT ![c] = m]
  PROVE  /\ mutex' \in [Clients -> MutexStates]
         /\ \A d \in Clients : mutex'[d] = IF d = c THEN m ELSE mutex[d]
  BY DEF DSyncTypeOK

\* An answer leaves the channel: the client's record without it.
LEMMA AnswerTaken ==
  ASSUME DSyncTypeOK, NEW c \in Clients, NEW l \in Lockers, NEW answer \in CallStates
  PROVE  LET m == [mutex[c] EXCEPT !.call[l] = answer]
         IN /\ m \in MutexStates
            /\ m.pc = mutex[c].pc /\ m.isReadLock = mutex[c].isReadLock
            /\ m.locks = mutex[c].locks /\ m.locksFailed = mutex[c].locksFailed
            /\ \A k \in Lockers : m.call[k] = IF k = l THEN answer ELSE mutex[c].call[k]
  <1>1. mutex[c] \in MutexStates
    BY DEF DSyncTypeOK
  <1>2. QED BY <1>1 DEF MutexStates

\* A late grant changes hands, from the channel to the goroutine of lock.
LEMMA TakeLateStep ==
  ASSUME DSyncInv, NEW c \in Clients, NEW l \in Lockers, TakeLate(c, l)
  PROVE  DSyncInv'
  <1> DEFINE m == [mutex[c] EXCEPT !.call[l] = "done"]
  <1>0. DSyncTypeOK
    BY DEF DSyncInv
  <1>1. /\ m \in MutexStates
        /\ m.pc = mutex[c].pc /\ m.isReadLock = mutex[c].isReadLock
        /\ m.locks = mutex[c].locks /\ m.locksFailed = mutex[c].locksFailed
        /\ \A k \in Lockers : m.call[k] = IF k = l THEN "done" ELSE mutex[c].call[k]
    BY <1>0, AnswerTaken DEF CallStates
  <1>2. mutex' = [mutex EXCEPT ![c] = m]
    BY DEF TakeLate
  <1> HIDE DEF m
  <1>3. /\ mutex' \in [Clients -> MutexStates]
        /\ \A d \in Clients : mutex'[d] = IF d = c THEN m ELSE mutex[d]
    BY <1>0, <1>1, <1>2, ReplaceMutex
  <1>4. l \notin mutex[c].locks /\ mutex[c].pc = "decided" /\ mutex[c].isReadLock \in BOOLEAN
    BY DEF TakeLate, DSyncInv, AnsweredOnce, DSyncTypeOK, MutexStates
  <1>5. /\ \A d \in Clients, k \in Lockers :
             (HasWrite(d, k)' => HasWrite(d, k)) /\ (HasRead(d, k)' => HasRead(d, k))
        /\ ~HasWrite(c, l)' /\ ~HasRead(c, l)'
    BY <1>1, <1>3, <1>4 DEF HasWrite, HasRead, Granted
  <1>6. /\ UNCHANGED <<writer, readers, faults>>
        /\ writer' \in [Lockers -> SUBSET Clients] /\ readers' \in [Lockers -> [Clients -> Nat]]
        /\ faults' \in Nat
    BY <1>0 DEF TakeLate, DSyncTypeOK
  <1>7. AnsweredOnce' /\ HeldByQuorum'
    <2>1. AnsweredOnce'
      <3> SUFFICES ASSUME NEW d \in Clients, NEW k \in mutex'[d].locks
                   PROVE  mutex'[d].call[k] = "done"
        BY DEF AnsweredOnce
      <3>1. k \in Lockers
        BY <1>3 DEF MutexStates
      <3>2. k \in mutex[d].locks /\ mutex[d].call[k] = "done"
        BY <1>1, <1>3 DEF DSyncInv, AnsweredOnce
      <3>3. QED BY <1>1, <1>3, <3>1, <3>2
    <2>2. HeldByQuorum'
      <3> SUFFICES ASSUME NEW d \in Clients, mutex'[d].pc = "held"
                   PROVE  quorumMet(mutex[d])'
        BY DEF HeldByQuorum
      <3>1. d # c
        BY <1>1, <1>3, <1>4
      <3>2. mutex'[d] = mutex[d]
        BY <1>3, <3>1
      <3>3. QED BY <3>2 DEF DSyncInv, HeldByQuorum, quorumMet
    <2>3. QED BY <2>1, <2>2
  <1>8. CASE mutex[c].call[l] = "no"
    <2>1. late' = late
      BY <1>8 DEF TakeLate
    <2>2. DSyncTypeOK'
      BY <1>0, <1>3, <1>6, <2>1 DEF DSyncTypeOK
    <2>3. QED BY <1>5, <1>6, <1>7, <2>1, <2>2, ForgetsGrants DEF DSyncInv
  <1>9. CASE mutex[c].call[l] = "yes" /\ mutex[c].isReadLock
    <2>1. late' = [late EXCEPT ![c][l]["read"] = @ + 1]
      BY <1>9 DEF TakeLate, Kind
    <2>2. /\ late' \in [Clients -> [Lockers -> [{"read", "write"} -> Nat]]]
          /\ \A d \in Clients, k \in Lockers :
               /\ late'[d][k]["write"] = late[d][k]["write"]
               /\ late'[d][k]["read"] = IF d = c /\ k = l THEN late[d][k]["read"] + 1
                                        ELSE late[d][k]["read"]
      <3> DEFINE f == [late[c][l] EXCEPT !["read"] = @ + 1]
      <3>1. f \in [{"read", "write"} -> Nat]
        BY <1>0 DEF DSyncTypeOK
      <3>2. [late[c] EXCEPT ![l] = f] \in [Lockers -> [{"read", "write"} -> Nat]]
        BY <1>0, <3>1 DEF DSyncTypeOK
      <3>3. late' = [late EXCEPT ![c] = [late[c] EXCEPT ![l] = f]]
        BY <1>0, <2>1 DEF DSyncTypeOK
      <3>4. late' \in [Clients -> [Lockers -> [{"read", "write"} -> Nat]]]
        BY <1>0, <3>2, <3>3 DEF DSyncTypeOK
      <3>5. QED BY <1>0, <2>1, <3>4 DEF DSyncTypeOK
    <2>3. DSyncTypeOK'
      BY <1>3, <1>6, <2>2 DEF DSyncTypeOK
    <2>4. WritersKnown'
      <3> SUFFICES ASSUME NEW d \in Clients, NEW k \in Lockers
                   PROVE  /\ HasWrite(d, k)' => writer'[k] = {d} /\ late'[d][k]["write"] = 0
                          /\ late'[d][k]["write"] > 0 => writer'[k] = {d} /\ late'[d][k]["write"] = 1
        BY DEF WritersKnown
      <3>1. /\ HasWrite(d, k) => writer[k] = {d} /\ late[d][k]["write"] = 0
            /\ late[d][k]["write"] > 0 => writer[k] = {d} /\ late[d][k]["write"] = 1
        BY DEF DSyncInv, WritersKnown
      <3>2. late'[d][k]["write"] = late[d][k]["write"] /\ writer'[k] = writer[k]
        BY <1>6, <2>2
      <3>3. HasWrite(d, k)' => HasWrite(d, k)
        BY <1>5
      <3>4. QED BY <3>1, <3>2, <3>3
    <2>5. ReadersKnown'
      <3> SUFFICES ASSUME NEW d \in Clients, NEW k \in Lockers
                   PROVE  late'[d][k]["read"] + (IF HasRead(d, k)' THEN 1 ELSE 0) <= readers'[k][d]
        BY DEF ReadersKnown
      <3>1. late[d][k]["read"] \in Nat /\ readers[k][d] \in Nat
        BY <1>0 DEF DSyncTypeOK
      <3>2. late[d][k]["read"] + (IF HasRead(d, k) THEN 1 ELSE 0) <= readers[k][d]
        BY DEF DSyncInv, ReadersKnown
      <3>3. CASE d = c /\ k = l
        <4>1. HasRead(d, k) /\ ~HasRead(d, k)'
          BY <1>1, <1>3, <1>4, <1>9, <3>3 DEF HasRead, Granted
        <4>2. QED BY <1>6, <2>2, <3>1, <3>2, <3>3, <4>1
      <3>4. CASE ~(d = c /\ k = l)
        <4>1. late'[d][k]["read"] = late[d][k]["read"] /\ readers'[k][d] = readers[k][d]
          BY <1>6, <2>2, <3>4
        <4>2. HasRead(d, k)' => HasRead(d, k)
          BY <1>5
        <4>3. QED BY <3>1, <3>2, <4>1, <4>2
      <3>5. QED BY <3>3, <3>4
    <2>6. LockersExclude'
      BY <1>6 DEF DSyncInv, LockersExclude
    <2>7. QED BY <1>7, <2>3, <2>4, <2>5, <2>6 DEF DSyncInv
  <1>10. CASE mutex[c].call[l] = "yes" /\ ~mutex[c].isReadLock
    <2>1. late' = [late EXCEPT ![c][l]["write"] = @ + 1]
      BY <1>10 DEF TakeLate, Kind
    <2>2. /\ late' \in [Clients -> [Lockers -> [{"read", "write"} -> Nat]]]
          /\ \A d \in Clients, k \in Lockers :
               /\ late'[d][k]["read"] = late[d][k]["read"]
               /\ late'[d][k]["write"] = IF d = c /\ k = l THEN late[d][k]["write"] + 1
                                         ELSE late[d][k]["write"]
      <3> DEFINE f == [late[c][l] EXCEPT !["write"] = @ + 1]
      <3>1. f \in [{"read", "write"} -> Nat]
        BY <1>0 DEF DSyncTypeOK
      <3>2. [late[c] EXCEPT ![l] = f] \in [Lockers -> [{"read", "write"} -> Nat]]
        BY <1>0, <3>1 DEF DSyncTypeOK
      <3>3. late' = [late EXCEPT ![c] = [late[c] EXCEPT ![l] = f]]
        BY <1>0, <2>1 DEF DSyncTypeOK
      <3>4. late' \in [Clients -> [Lockers -> [{"read", "write"} -> Nat]]]
        BY <1>0, <3>2, <3>3 DEF DSyncTypeOK
      <3>5. QED BY <1>0, <2>1, <3>4 DEF DSyncTypeOK
    <2>3. DSyncTypeOK'
      BY <1>3, <1>6, <2>2 DEF DSyncTypeOK
    <2>4. WritersKnown'
      <3>1. HasWrite(c, l) /\ writer[l] = {c} /\ late[c][l]["write"] = 0
        BY <1>4, <1>10 DEF HasWrite, Granted, DSyncInv, WritersKnown
      <3> SUFFICES ASSUME NEW d \in Clients, NEW k \in Lockers
                   PROVE  /\ HasWrite(d, k)' => writer'[k] = {d} /\ late'[d][k]["write"] = 0
                          /\ late'[d][k]["write"] > 0 => writer'[k] = {d} /\ late'[d][k]["write"] = 1
        BY DEF WritersKnown
      <3>2. /\ HasWrite(d, k) => writer[k] = {d} /\ late[d][k]["write"] = 0
            /\ late[d][k]["write"] > 0 => writer[k] = {d} /\ late[d][k]["write"] = 1
        BY DEF DSyncInv, WritersKnown
      <3>3. CASE d = c /\ k = l
        <4>1. ~HasWrite(d, k)'
          BY <1>1, <1>3, <1>4, <3>3 DEF HasWrite, Granted
        <4>2. QED BY <1>6, <2>2, <3>1, <3>3, <4>1
      <3>4. CASE ~(d = c /\ k = l)
        <4>1. late'[d][k]["write"] = late[d][k]["write"] /\ writer'[k] = writer[k]
          BY <1>6, <2>2, <3>4
        <4>2. HasWrite(d, k)' => HasWrite(d, k)
          BY <1>5
        <4>3. QED BY <3>2, <4>1, <4>2
      <3>5. QED BY <3>3, <3>4
    <2>5. ReadersKnown'
      <3> SUFFICES ASSUME NEW d \in Clients, NEW k \in Lockers
                   PROVE  late'[d][k]["read"] + (IF HasRead(d, k)' THEN 1 ELSE 0) <= readers'[k][d]
        BY DEF ReadersKnown
      <3>1. late[d][k]["read"] \in Nat /\ readers[k][d] \in Nat
        BY <1>0 DEF DSyncTypeOK
      <3>2. late[d][k]["read"] + (IF HasRead(d, k) THEN 1 ELSE 0) <= readers[k][d]
        BY DEF DSyncInv, ReadersKnown
      <3>3. late'[d][k]["read"] = late[d][k]["read"] /\ readers'[k][d] = readers[k][d]
        BY <1>6, <2>2
      <3>4. HasRead(d, k)' => HasRead(d, k)
        BY <1>5
      <3>5. QED BY <3>1, <3>2, <3>3, <3>4
    <2>6. LockersExclude'
      BY <1>6 DEF DSyncInv, LockersExclude
    <2>7. QED BY <1>7, <2>3, <2>4, <2>5, <2>6 DEF DSyncInv
  <1>11. mutex[c].call[l] \in {"yes", "no"}
    BY DEF TakeLate
  <1>12. QED BY <1>4, <1>8, <1>9, <1>10, <1>11

\* What the collector makes of an answer.
LEMMA TakeResult ==
  ASSUME DSyncTypeOK, NEW c \in Clients, NEW l \in Lockers, Take(c, l)
  PROVE  \E m \in MutexStates :
           /\ mutex' = [mutex EXCEPT ![c] = m]
           /\ m.isReadLock = mutex[c].isReadLock
           /\ \A k \in Lockers : m.call[k] = IF k = l THEN "done" ELSE mutex[c].call[k]
           /\ m.locks = IF mutex[c].call[l] = "yes" THEN mutex[c].locks \cup {l} ELSE mutex[c].locks
           /\ m.locksFailed = IF mutex[c].call[l] = "yes" THEN mutex[c].locksFailed
                              ELSE mutex[c].locksFailed + 1
           /\ m.pc \in {"collect", "decided", "release"}
           /\ m.pc = "decided" => m.call = NoCall
           /\ m.pc # "release" => mutex[c].call[l] = "yes" \/ ~QuorumLost(m)
  <1> DEFINE r == mutex[c]
             n == [r EXCEPT !.call[l] = "done",
                            !.locks = IF r.call[l] = "yes" THEN @ \cup {l} ELSE @,
                            !.locksFailed = IF r.call[l] = "yes" THEN @ ELSE @ + 1]
             m == IF r.call[l] = "no" /\ QuorumLost(n) THEN [n EXCEPT !.pc = "release"]
                  ELSE IF n.call = NoCall THEN [n EXCEPT !.pc = "decided"] ELSE n
  <1>1. r \in MutexStates /\ r.pc = "collect" /\ r.call[l] \in {"yes", "no"}
    BY DEF DSyncTypeOK, Take
  <1>2. /\ n \in MutexStates /\ n.pc = "collect" /\ n.isReadLock = r.isReadLock
        /\ \A k \in Lockers : n.call[k] = IF k = l THEN "done" ELSE r.call[k]
        /\ n.locks = IF r.call[l] = "yes" THEN r.locks \cup {l} ELSE r.locks
        /\ n.locksFailed = IF r.call[l] = "yes" THEN r.locksFailed ELSE r.locksFailed + 1
    <2> DEFINE call == [r.call EXCEPT ![l] = "done"]
               locks == IF r.call[l] = "yes" THEN r.locks \cup {l} ELSE r.locks
               failed == IF r.call[l] = "yes" THEN r.locksFailed ELSE r.locksFailed + 1
    <2>1. call \in [Lockers -> CallStates] /\ locks \in SUBSET Lockers /\ failed \in Nat
      BY <1>1 DEF MutexStates, CallStates
    <2>2. n = [r EXCEPT !.call = call, !.locks = locks, !.locksFailed = failed]
      BY <1>1 DEF MutexStates
    <2>3. \A k \in Lockers : call[k] = IF k = l THEN "done" ELSE r.call[k]
      BY <1>1 DEF MutexStates
    <2> HIDE DEF n, call, locks, failed, r
    <2>4. /\ n \in MutexStates /\ n.pc = r.pc /\ n.isReadLock = r.isReadLock
          /\ n.call = call /\ n.locks = locks /\ n.locksFailed = failed
      BY <1>1, <2>1, <2>2 DEF MutexStates
    <2>5. QED BY <1>1, <2>3, <2>4 DEF locks, failed
  <1>3. mutex' = [mutex EXCEPT ![c] = m]
    BY DEF Take
  <1> HIDE DEF n
  <1>4. /\ m \in MutexStates /\ m.isReadLock = n.isReadLock /\ m.call = n.call
        /\ m.locks = n.locks /\ m.locksFailed = n.locksFailed
        /\ m.pc \in {"collect", "decided", "release"}
        /\ m.pc = "decided" => m.call = NoCall
        /\ m.pc # "release" => ~(r.call[l] = "no" /\ QuorumLost(n))
    BY <1>2 DEF MutexStates
  <1> HIDE DEF m
  <1>5. m.pc # "release" => mutex[c].call[l] = "yes" \/ ~QuorumLost(m)
    BY <1>1, <1>4 DEF QuorumLost
  <1>6. QED BY <1>2, <1>3, <1>4, <1>5

LEMMA TakeStep ==
  ASSUME DSyncInv, NEW c \in Clients, NEW l \in Lockers, Take(c, l)
  PROVE  DSyncInv'
  <1>1. PICK m \in MutexStates :
          /\ mutex' = [mutex EXCEPT ![c] = m]
          /\ m.isReadLock = mutex[c].isReadLock
          /\ \A k \in Lockers : m.call[k] = IF k = l THEN "done" ELSE mutex[c].call[k]
          /\ m.locks = IF mutex[c].call[l] = "yes" THEN mutex[c].locks \cup {l} ELSE mutex[c].locks
          /\ m.pc \in {"collect", "decided", "release"}
    BY TakeResult, ZenonT(60) DEF DSyncInv
  <1>2. UNCHANGED <<writer, readers, late>> /\ faults' \in Nat
    BY DEF Take, DSyncInv, DSyncTypeOK
  <1>3. \A k \in Lockers : (k \in m.locks \/ m.call[k] = "yes") => Granted(c, k)
    BY <1>1 DEF Granted
  <1>4. \A k \in Lockers : k \in m.locks => m.call[k] = "done"
    BY <1>1 DEF DSyncInv, AnsweredOnce
  <1>5. m.pc # "held"
    BY <1>1
  <1>6. QED BY <1>1, <1>2, <1>3, <1>4, <1>5, LocalStep

\* A client's program counter moves.
LEMMA PcStep ==
  ASSUME DSyncInv, NEW c \in Clients,
         NEW next \in {"decided", "release", "held", "unlock"},
         mutex' = [mutex EXCEPT ![c].pc = next], UNCHANGED <<writer, readers, late, faults>>,
         next = "held" => quorumMet(mutex[c])
  PROVE  DSyncInv'
  <1> DEFINE m == [mutex[c] EXCEPT !.pc = next]
  <1>1. mutex[c] \in MutexStates /\ faults' \in Nat
    BY DEF DSyncInv, DSyncTypeOK
  <1>2. /\ m \in MutexStates /\ m.pc = next /\ m.isReadLock = mutex[c].isReadLock
        /\ m.call = mutex[c].call /\ m.locks = mutex[c].locks
    BY <1>1 DEF MutexStates
  <1>3. mutex' = [mutex EXCEPT ![c] = m] OBVIOUS
  <1> HIDE DEF m
  <1>4. \A k \in Lockers : (k \in m.locks \/ m.call[k] = "yes") => Granted(c, k)
    BY <1>2 DEF Granted
  <1>5. \A k \in Lockers : k \in m.locks => m.call[k] = "done"
    BY <1>2 DEF DSyncInv, AnsweredOnce
  <1>6. m.pc = "held" => quorumMet(m)
    BY <1>2 DEF quorumMet
  <1>7. QED BY <1>1, <1>2, <1>3, <1>4, <1>5, <1>6, LocalStep

\* A client is done.
LEMMA DoneStep ==
  ASSUME DSyncInv, NEW c \in Clients, mutex' = [mutex EXCEPT ![c] = Unlocked],
         UNCHANGED <<writer, readers, late, faults>>
  PROVE  DSyncInv'
  <1>1. /\ Unlocked \in MutexStates /\ Unlocked.locks = {} /\ Unlocked.pc = "idle"
        /\ \A l \in Lockers : Unlocked.call[l] = "done"
    BY DEF Unlocked, MutexStates, CallStates, NoCall
  <1>2. faults' \in Nat
    BY DEF DSyncInv, DSyncTypeOK
  <1>3. QED BY <1>1, <1>2, LocalStep

LEMMA LockerAnswersStep ==
  ASSUME DSyncInv, NEW c \in Clients, NEW l \in Lockers, LockerAnswers(c, l)
  PROVE  DSyncInv'
  <1> DEFINE read == mutex[c].isReadLock
             m == [mutex[c] EXCEPT !.call[l] = "no"]
  <1>1. /\ mutex[c].call[l] = "asked" /\ UNCHANGED late /\ faults' \in Nat
        /\ mutex[c] \in MutexStates
    BY DEF LockerAnswers, Fault, DSyncInv, DSyncTypeOK
  <1>2. CASE CanGrant(l, read) /\ Grants(c, l, read) /\ Says(c, l, "yes")
    BY <1>1, <1>2, GrantStep
  <1>3. CASE CanGrant(l, read) /\ Grants(c, l, read) /\ Says(c, l, "no")
    BY <1>1, <1>3, GrantStep
  <1>4. CASE Says(c, l, "no") /\ UNCHANGED <<writer, readers>>
    <2>1. /\ m \in MutexStates
          /\ m.pc = mutex[c].pc /\ m.isReadLock = mutex[c].isReadLock
          /\ m.locks = mutex[c].locks /\ m.locksFailed = mutex[c].locksFailed
          /\ \A k \in Lockers : m.call[k] = IF k = l THEN "no" ELSE mutex[c].call[k]
      BY AnswerTaken DEF CallStates, DSyncInv
    <2>2. mutex' = [mutex EXCEPT ![c] = m]
      BY <1>4 DEF Says
    <2> HIDE DEF m
    <2>3. \A k \in Lockers : (k \in m.locks \/ m.call[k] = "yes") => Granted(c, k)
      BY <2>1 DEF Granted
    <2>4. \A k \in Lockers : k \in m.locks => m.call[k] = "done"
      BY <1>1, <2>1 DEF DSyncInv, AnsweredOnce
    <2>5. m.pc = "held" => quorumMet(m)
      BY <2>1 DEF DSyncInv, HeldByQuorum, quorumMet
    <2>6. QED BY <1>1, <1>4, <2>1, <2>2, <2>3, <2>4, <2>5, LocalStep
  <1>5. QED BY <1>2, <1>3, <1>4 DEF LockerAnswers

LEMMA ReleasedStep ==
  ASSUME DSyncInv, NEW c \in Clients, Released(c)
  PROVE  DSyncInv'
  <1>1. CASE mutex[c].pc = "unlock"
    BY <1>1, DoneStep DEF Released
  <1>2. CASE mutex[c].pc # "unlock"
    <2>1. mutex' = [mutex EXCEPT ![c].pc = "decided"]
      BY <1>2 DEF Released
    <2>2. QED BY <2>1, PcStep DEF Released
  <1>3. QED BY <1>1, <1>2

LEMMA LockReturnsStep ==
  ASSUME DSyncInv, NEW c \in Clients, LockReturns(c)
  PROVE  DSyncInv'
  <1>1. CASE /\ quorumMet(mutex[c]) /\ mutex' = [mutex EXCEPT ![c].pc = "held"]
             /\ UNCHANGED <<writer, readers, late, faults>>
    BY <1>1, PcStep
  <1>2. CASE Ask(c, mutex[c].isReadLock)
    <2>1. mutex[c].isReadLock \in BOOLEAN
      BY DEF DSyncInv, DSyncTypeOK, MutexStates
    <2>2. QED BY <1>2, <2>1, AskStep
  <1>3. CASE mutex' = [mutex EXCEPT ![c] = Unlocked] /\ UNCHANGED <<writer, readers, late, faults>>
    BY <1>3, DoneStep
  <1>4. QED BY <1>1, <1>2, <1>3 DEF LockReturns

LEMMA DSyncInvStep ==
  ASSUME DSyncInv, [DSyncNext]_dsyncVars
  PROVE  DSyncInv'
  <1>1. CASE UNCHANGED dsyncVars
    BY <1>1 DEF dsyncVars, DSyncInv, DSyncTypeOK, WritersKnown, ReadersKnown, LockersExclude,
         AnsweredOnce, HeldByQuorum, HasWrite, HasRead, Granted, quorumMet
  <1>2. ASSUME NEW c \in Clients, NEW isReadLock \in BOOLEAN, GetLock(c, isReadLock)
        PROVE  DSyncInv'
    BY <1>2, AskStep DEF GetLock
  <1>3. ASSUME NEW c \in Clients, NEW l \in Lockers,
               LockerAnswers(c, l) \/ Take(c, l) \/ TakeLate(c, l) \/ Release(c, l)
        PROVE  DSyncInv'
    BY <1>3, LockerAnswersStep, TakeStep, TakeLateStep, ReleaseStep
  <1>4. ASSUME NEW c \in Clients, NEW l \in Lockers, NEW isReadLock \in BOOLEAN,
               ReleaseLate(c, l, isReadLock)
        PROVE  DSyncInv'
    BY <1>4, ReleaseLateStep
  <1>5. ASSUME NEW c \in Clients, AcquireTimeout(c)
        PROVE  DSyncInv'
    BY <1>5, PcStep DEF AcquireTimeout
  <1>6. ASSUME NEW c \in Clients, Released(c) \/ LockReturns(c)
        PROVE  DSyncInv'
    BY <1>6, ReleasedStep, LockReturnsStep
  <1>7. ASSUME NEW c \in Clients, Unlock(c)
        PROVE  DSyncInv'
    BY <1>7, PcStep DEF Unlock
  <1>8. QED BY <1>1, <1>2, <1>3, <1>4, <1>5, <1>6, <1>7 DEF DSyncNext

\* Two quorums of which one is for writing have a locker in common.
LEMMA QuorumsMeet ==
  ASSUME NEW W \in SUBSET Lockers, NEW R \in SUBSET Lockers,
         Cardinality(W) >= dquorum, Cardinality(R) >= dquorumReads
  PROVE  W \cap R # {}
  <1>1. N \in Nat
    BY NType
  <1>2. IsFiniteSet(Lockers) /\ IsFiniteSet(W) /\ IsFiniteSet(R)
    BY LockersAssumption, FS_Subset
  <1>3. Cardinality(W) \in Nat /\ Cardinality(R) \in Nat
    BY <1>2, FS_CardinalityType
  <1>4. Cardinality(W) + Cardinality(R) > Cardinality(Lockers)
    BY <1>1, <1>3 DEF dquorum, dquorumReads, N
  <1>5. QED BY <1>2, <1>4, FS_MajoritiesIntersect

LEMMA DSyncInvExcludes == DSyncInv => QuorumsExclude
  <1> SUFFICES ASSUME DSyncInv, NEW c \in Clients, NEW d \in Clients,
                      mutex[c].pc = "held", ~mutex[c].isReadLock, mutex[d].pc = "held", c # d
               PROVE  FALSE
    BY DEF QuorumsExclude
  <1>1. /\ mutex[c].locks \in SUBSET Lockers /\ mutex[d].locks \in SUBSET Lockers
        /\ mutex[d].isReadLock \in BOOLEAN
    BY DEF DSyncInv, DSyncTypeOK, MutexStates
  <1>2. Cardinality(mutex[c].locks) >= dquorum /\ Cardinality(mutex[d].locks) >= Quorum(mutex[d].isReadLock)
    BY DEF DSyncInv, HeldByQuorum, quorumMet, Quorum
  <1>3. Cardinality(mutex[d].locks) >= dquorumReads
    <2>1. IsFiniteSet(mutex[d].locks) /\ dquorumReads \in Nat
      BY <1>1, NType, LockersAssumption, FS_Subset DEF dquorumReads
    <2>2. Cardinality(mutex[d].locks) \in Nat
      BY <2>1, FS_CardinalityType
    <2>3. QED BY <1>2, <2>1, <2>2 DEF Quorum, dquorum
  <1>4. PICK l \in Lockers : l \in mutex[c].locks /\ l \in mutex[d].locks
    BY <1>1, <1>2, <1>3, QuorumsMeet
  <1>5. writer[l] = {c}
    BY <1>4 DEF DSyncInv, WritersKnown, HasWrite, Granted
  <1>6. CASE mutex[d].isReadLock
    <2>1. HasRead(d, l)
      BY <1>4, <1>6 DEF HasRead, Granted
    <2>2. late[d][l]["read"] \in Nat /\ readers[l][d] \in Nat
      BY DEF DSyncInv, DSyncTypeOK
    <2>3. late[d][l]["read"] + (IF HasRead(d, l) THEN 1 ELSE 0) <= readers[l][d]
      BY DEF DSyncInv, ReadersKnown
    <2>4. readers[l][d] = 0
      BY <1>5 DEF DSyncInv, LockersExclude
    <2>5. QED BY <2>1, <2>2, <2>3, <2>4
  <1>7. CASE ~mutex[d].isReadLock
    BY <1>4, <1>5, <1>7 DEF DSyncInv, WritersKnown, HasWrite, Granted
  <1>8. QED BY <1>6, <1>7

\* lock and quorumMet, for any number of lockers and clients and whatever calls
\* fail, time out or are answered late: whoever has the lock for writing has it
\* alone.
THEOREM QuorumsExcludeAlways == DSyncSpec => []QuorumsExclude
  <1>1. DSyncInit => DSyncInv
    BY DSyncInitInv
  <1>2. DSyncInv /\ [DSyncNext]_dsyncVars => DSyncInv'
    BY DSyncInvStep
  <1>3. DSyncInv => QuorumsExclude
    BY DSyncInvExcludes
  <1>4. QED BY <1>1, <1>2, <1>3, PTL DEF DSyncSpec

-----------------------------------------------------------------------------
(***************************************************************************)
(* Without failing calls, lockers hold nothing but what clients know of.   *)
(***************************************************************************)
Accounted ==
  faults = 0 =>
    \A c \in Clients, l \in Lockers :
      /\ c \in writer[l] => HasWrite(c, l) \/ late[c][l]["write"] > 0
      /\ readers[l][c] = late[c][l]["read"] + (IF HasRead(c, l) THEN 1 ELSE 0)

Open(m) == {l \in Lockers : m.call[l] # "done"}

\* What the client knows in each phase of lock and unlock.  While it collects,
\* the quorum is not lost and every locker is counted once.
PhaseOK(m) ==
  /\ m.pc = "idle" => m.locks = {}
  /\ m.pc \in {"idle", "held", "unlock"} => m.call = NoCall
  /\ m.pc = "decided" => m.locks = {} \/ quorumMet(m)
  /\ m.pc = "collect" => /\ ~QuorumLost(m)
                         /\ Cardinality(m.locks) + m.locksFailed + Cardinality(Open(m)) = N

Phases == \A c \in Clients : PhaseOK(mutex[c])

ExactInv == DSyncInv /\ Accounted /\ Phases

LEMMA QuorumType ==
  ASSUME NEW isReadLock \in BOOLEAN
  PROVE  Quorum(isReadLock) \in Nat /\ (N > 1 => Quorum(isReadLock) <= N)
  BY NType DEF Quorum, dquorum, dquorumReads

LEMMA UnlockedPhase == PhaseOK(Unlocked) /\ Unlocked \in MutexStates
  BY DEF PhaseOK, Unlocked, MutexStates, CallStates, NoCall

\* A client that asks starts with all answers open.
LEMMA AskedPhase ==
  ASSUME N > 1, NEW isReadLock \in BOOLEAN
  PROVE  PhaseOK(Asked(isReadLock))
  <1> DEFINE m == Asked(isReadLock)
  <1>1. /\ m.pc = "collect" /\ m.locks = {} /\ m.locksFailed = 0 /\ m.isReadLock = isReadLock
        /\ \A l \in Lockers : m.call[l] # "done"
    BY DEF Asked, Unlocked, NoCall
  <1> HIDE DEF m
  <1>2. Open(m) = Lockers
    BY <1>1 DEF Open
  <1>3. Cardinality({}) = 0 /\ N \in Nat
    BY FS_EmptySet, NType
  <1>4. Cardinality(m.locks) + m.locksFailed + Cardinality(Open(m)) = N
    BY <1>1, <1>2, <1>3 DEF N
  <1>5. ~QuorumLost(m)
    BY <1>1, <1>3, QuorumType DEF QuorumLost
  <1>6. QED BY <1>1, <1>4, <1>5 DEF PhaseOK, m

\* Taking an answer counts its locker as granted or as failed.
LEMMA TakePhase ==
  ASSUME N > 1, DSyncInv, NEW c \in Clients, NEW l \in Lockers, Take(c, l),
         PhaseOK(mutex[c])
  PROVE  \E m \in MutexStates : mutex' = [mutex EXCEPT ![c] = m] /\ PhaseOK(m)
  <1> DEFINE r == mutex[c]
  <1>1. PICK m \in MutexStates :
          /\ mutex' = [mutex EXCEPT ![c] = m]
          /\ m.isReadLock = r.isReadLock
          /\ \A k \in Lockers : m.call[k] = IF k = l THEN "done" ELSE r.call[k]
          /\ m.locks = IF r.call[l] = "yes" THEN r.locks \cup {l} ELSE r.locks
          /\ m.locksFailed = IF r.call[l] = "yes" THEN r.locksFailed ELSE r.locksFailed + 1
          /\ m.pc \in {"collect", "decided", "release"}
          /\ m.pc = "decided" => m.call = NoCall
          /\ m.pc # "release" => r.call[l] = "yes" \/ ~QuorumLost(m)
    BY TakeResult DEF DSyncInv
  <1>2. r \in MutexStates /\ r.pc = "collect" /\ r.call[l] \in {"yes", "no"}
    BY DEF DSyncInv, DSyncTypeOK, Take
  <1>3. ~QuorumLost(r) /\ Cardinality(r.locks) + r.locksFailed + Cardinality(Open(r)) = N
    BY <1>2 DEF PhaseOK
  <1>4. l \notin r.locks
    BY <1>2 DEF DSyncInv, AnsweredOnce
  <1> HIDE DEF r
  <1>5. /\ IsFiniteSet(r.locks) /\ IsFiniteSet(Open(r)) /\ IsFiniteSet(m.locks) /\ IsFiniteSet(Open(m))
    <2>1. r.locks \subseteq Lockers /\ m.locks \subseteq Lockers /\ Open(r) \subseteq Lockers
          /\ Open(m) \subseteq Lockers
      BY <1>2 DEF MutexStates, Open
    <2>2. QED BY <2>1, LockersAssumption, FS_Subset
  <1>6. /\ Cardinality(r.locks) \in Nat /\ Cardinality(Open(r)) \in Nat /\ r.locksFailed \in Nat
        /\ Cardinality(Open(m)) \in Nat /\ Cardinality(m.locks) \in Nat /\ m.locksFailed \in Nat
    BY <1>2, <1>5, FS_CardinalityType DEF MutexStates
  <1>7. Cardinality(Open(m)) = Cardinality(Open(r)) - 1
    <2>1. l \in Open(r) /\ Open(m) = Open(r) \ {l}
      BY <1>1, <1>2 DEF Open
    <2>2. QED BY <1>5, <2>1, FS_RemoveElement
  <1>8. Cardinality(m.locks) = IF r.call[l] = "yes" THEN Cardinality(r.locks) + 1 ELSE Cardinality(r.locks)
    <2>1. Cardinality(r.locks \cup {l}) = Cardinality(r.locks) + 1
      BY <1>4, <1>5, FS_AddElement
    <2>2. QED BY <1>1, <2>1
  <1>9. Cardinality(m.locks) + m.locksFailed + Cardinality(Open(m)) = N
    BY <1>1, <1>3, <1>6, <1>7, <1>8, NType
  <1>10. m.isReadLock \in BOOLEAN
    BY DEF MutexStates
  <1>11. m.pc # "release" => ~QuorumLost(m)
    BY <1>1, <1>3 DEF QuorumLost
  <1>12. m.pc = "decided" => quorumMet(m)
    <2> SUFFICES ASSUME m.pc = "decided" PROVE quorumMet(m)
      OBVIOUS
    <2>1. Open(m) = {}
      BY <1>1 DEF Open, NoCall
    <2>2. Cardinality(Open(m)) = 0
      BY <2>1, FS_EmptySet
    <2>3. ~(m.locksFailed > N - Quorum(m.isReadLock))
      BY <1>11 DEF QuorumLost
    <2>4. Quorum(m.isReadLock) \in Nat
      BY <1>10, QuorumType
    <2>5. QED BY <1>6, <1>9, <2>2, <2>3, <2>4, NType DEF quorumMet
  <1>13. PhaseOK(m)
    BY <1>1, <1>9, <1>11, <1>12 DEF PhaseOK
  <1>14. QED BY <1>1, <1>13

\* A call is answered while its client waits for answers.
LEMMA SaysPhase ==
  ASSUME DSyncInv, NEW c \in Clients, NEW l \in Lockers, NEW answer \in {"yes", "no"},
         mutex[c].call[l] = "asked", PhaseOK(mutex[c])
  PROVE  PhaseOK([mutex[c] EXCEPT !.call[l] = answer])
  <1> DEFINE m == [mutex[c] EXCEPT !.call[l] = answer]
  <1>1. /\ m.pc = mutex[c].pc /\ m.isReadLock = mutex[c].isReadLock
        /\ m.locks = mutex[c].locks /\ m.locksFailed = mutex[c].locksFailed
        /\ \A k \in Lockers : m.call[k] = IF k = l THEN answer ELSE mutex[c].call[k]
    <2>1. mutex[c] \in MutexStates
      BY DEF DSyncInv, DSyncTypeOK
    <2>2. QED BY <2>1 DEF MutexStates
  <1> HIDE DEF m
  <1>2. Open(m) = Open(mutex[c])
    BY <1>1 DEF Open
  <1>3. mutex[c].pc \notin {"idle", "held", "unlock"}
    BY DEF PhaseOK, NoCall
  <1>4. QED BY <1>1, <1>2, <1>3 DEF PhaseOK, quorumMet, QuorumLost, m

LEMMA PhasesStep ==
  ASSUME N > 1, DSyncInv, Phases, [DSyncNext]_dsyncVars
  PROVE  Phases'
  <1>0. DSyncTypeOK
    BY DEF DSyncInv
  <1>1. ASSUME NEW c \in Clients, NEW m, PhaseOK(m), mutex' = [mutex EXCEPT ![c] = m]
        PROVE  Phases'
    <2>1. \A d \in Clients : mutex'[d] = IF d = c THEN m ELSE mutex[d]
      BY <1>0, <1>1 DEF DSyncTypeOK
    <2>2. ASSUME NEW d \in Clients
          PROVE  PhaseOK(mutex[d])'
      <3>1. PhaseOK(mutex'[d])
        <4>1. CASE d = c
          <5>1. mutex'[d] = m
            BY <2>1, <4>1
          <5>2. QED BY <1>1, <5>1
        <4>2. CASE d # c
          <5>1. mutex'[d] = mutex[d]
            BY <2>1, <4>2
          <5>2. QED BY <5>1 DEF Phases
        <4>3. QED BY <4>1, <4>2
      <3>2. QED BY <3>1 DEF PhaseOK, quorumMet, QuorumLost, Open
    <2>3. QED BY <2>2 DEF Phases
  <1>2. CASE UNCHANGED dsyncVars
    BY <1>2 DEF dsyncVars, Phases, PhaseOK, quorumMet, QuorumLost, Open
  <1>3. ASSUME NEW c \in Clients, NEW isReadLock \in BOOLEAN, Ask(c, isReadLock)
        PROVE  Phases'
    BY <1>1, <1>3, AskedPhase DEF Ask
  <1>4. ASSUME NEW c \in Clients, NEW l \in Lockers, LockerAnswers(c, l)
        PROVE  Phases'
    <2>1. PICK answer \in {"yes", "no"} : Says(c, l, answer)
      BY <1>4 DEF LockerAnswers
    <2>2. PhaseOK([mutex[c] EXCEPT !.call[l] = answer])
      BY <1>4, SaysPhase DEF LockerAnswers, Phases
    <2>3. QED BY <1>1, <2>1, <2>2 DEF Says
  <1>5. ASSUME NEW c \in Clients, NEW l \in Lockers, Take(c, l)
        PROVE  Phases'
    BY <1>1, <1>5, TakePhase DEF Phases
  <1>6. ASSUME NEW c \in Clients, NEW l \in Lockers, TakeLate(c, l)
        PROVE  Phases'
    <2> DEFINE m == [mutex[c] EXCEPT !.call[l] = "done"]
    <2>1. /\ m.pc = mutex[c].pc /\ m.isReadLock = mutex[c].isReadLock
          /\ m.locks = mutex[c].locks /\ m.locksFailed = mutex[c].locksFailed
      BY <1>0, AnswerTaken DEF CallStates
    <2>2. mutex' = [mutex EXCEPT ![c] = m] /\ mutex[c].pc = "decided"
      BY <1>6 DEF TakeLate
    <2> HIDE DEF m
    <2>3. PhaseOK(m)
      BY <2>1, <2>2 DEF Phases, PhaseOK, quorumMet
    <2>4. QED BY <1>1, <2>2, <2>3
  <1>7. ASSUME NEW c \in Clients, NEW l \in Lockers, Release(c, l)
        PROVE  Phases'
    <2> DEFINE m == [mutex[c] EXCEPT !.locks = @ \ {l}]
    <2>1. /\ mutex' = [mutex EXCEPT ![c] = m]
          /\ m.pc \in {"release", "unlock"} /\ m.pc = mutex[c].pc /\ m.call = mutex[c].call
      BY <1>0, <1>7 DEF DSyncTypeOK, MutexStates, Release
    <2> HIDE DEF m
    <2>2. PhaseOK(m)
      BY <2>1 DEF Phases, PhaseOK
    <2>3. QED BY <1>1, <2>1, <2>2
  <1>8. ASSUME NEW c \in Clients, NEW next \in {"decided", "release", "held", "unlock"},
               mutex' = [mutex EXCEPT ![c].pc = next],
               next = "decided" => mutex[c].locks = {} \/ quorumMet(mutex[c]),
               next \in {"held", "unlock"} => mutex[c].call = NoCall
        PROVE  Phases'
    <2> DEFINE m == [mutex[c] EXCEPT !.pc = next]
    <2>1. /\ mutex' = [mutex EXCEPT ![c] = m] /\ m.pc = next /\ m.call = mutex[c].call
          /\ m.locks = mutex[c].locks /\ m.isReadLock = mutex[c].isReadLock
      BY <1>0, <1>8 DEF DSyncTypeOK, MutexStates
    <2> HIDE DEF m
    <2>2. PhaseOK(m)
      BY <1>8, <2>1 DEF PhaseOK, quorumMet
    <2>3. QED BY <1>1, <2>1, <2>2
  <1>9. ASSUME NEW c \in Clients, AcquireTimeout(c)
        PROVE  Phases'
    BY <1>8, <1>9 DEF AcquireTimeout
  <1>10. ASSUME NEW c \in Clients, Unlock(c)
         PROVE  Phases'
    BY <1>8, <1>10 DEF Unlock, Phases, PhaseOK
  <1>11. ASSUME NEW c \in Clients, Released(c)
         PROVE  Phases'
    <2>1. CASE mutex[c].pc = "unlock"
      BY <1>1, <1>11, <2>1, UnlockedPhase DEF Released
    <2>2. CASE mutex[c].pc # "unlock"
      <3>1. mutex' = [mutex EXCEPT ![c].pc = "decided"] /\ mutex[c].locks = {}
        BY <1>11, <2>2 DEF Released
      <3>2. QED BY <1>8, <3>1
    <2>3. QED BY <2>1, <2>2
  <1>12. ASSUME NEW c \in Clients, LockReturns(c)
         PROVE  Phases'
    <2>1. CASE mutex' = [mutex EXCEPT ![c].pc = "held"]
      BY <1>8, <1>12, <2>1 DEF LockReturns
    <2>2. CASE Ask(c, mutex[c].isReadLock)
      <3>1. mutex[c].isReadLock \in BOOLEAN
        BY <1>0 DEF DSyncTypeOK, MutexStates
      <3>2. QED BY <1>3, <2>2, <3>1
    <2>3. CASE mutex' = [mutex EXCEPT ![c] = Unlocked]
      BY <1>1, <2>3, UnlockedPhase
    <2>4. QED BY <1>12, <2>1, <2>2, <2>3 DEF LockReturns
  <1>13. ASSUME NEW c \in Clients, NEW l \in Lockers, NEW isReadLock \in BOOLEAN,
                ReleaseLate(c, l, isReadLock)
         PROVE  Phases'
    BY <1>13 DEF ReleaseLate, Phases, PhaseOK, quorumMet, QuorumLost, Open
  <1>14. ASSUME NEW c \in Clients, NEW isReadLock \in BOOLEAN, GetLock(c, isReadLock)
         PROVE  Phases'
    BY <1>3, <1>14 DEF GetLock
  <1>15. QED BY <1>2, <1>4, <1>5, <1>6, <1>7, <1>9, <1>10, <1>11, <1>12, <1>13, <1>14 DEF DSyncNext

\* A step that grants and frees nothing, and forgets nothing.
LEMMA KeepsGrants ==
  ASSUME DSyncInv, Accounted, UNCHANGED <<writer, readers, late, faults>>,
         \A c \in Clients, l \in Lockers :
           (HasWrite(c, l)' <=> HasWrite(c, l)) /\ (HasRead(c, l)' <=> HasRead(c, l))
  PROVE  Accounted'
  <1> SUFFICES ASSUME faults = 0, NEW c \in Clients, NEW l \in Lockers
               PROVE  /\ c \in writer'[l] => HasWrite(c, l)' \/ late'[c][l]["write"] > 0
                      /\ readers'[l][c] = late'[c][l]["read"] + (IF HasRead(c, l)' THEN 1 ELSE 0)
    BY DEF Accounted
  <1>1. /\ c \in writer[l] => HasWrite(c, l) \/ late[c][l]["write"] > 0
        /\ readers[l][c] = late[c][l]["read"] + (IF HasRead(c, l) THEN 1 ELSE 0)
    BY DEF Accounted
  <1>2. QED BY <1>1

\* A client without grants replaces its record by one without grants.
LEMMA NoGrantsStep ==
  ASSUME DSyncInv, Accounted, NEW c \in Clients, NEW m \in MutexStates,
         mutex' = [mutex EXCEPT ![c] = m], UNCHANGED <<writer, readers, late, faults>>,
         mutex[c].locks = {}, mutex[c].call = NoCall, m.locks = {},
         \A l \in Lockers : m.call[l] # "yes"
  PROVE  Accounted'
  <1>1. \A d \in Clients : mutex'[d] = IF d = c THEN m ELSE mutex[d]
    BY DEF DSyncInv, DSyncTypeOK
  <1>2. \A d \in Clients, l \in Lockers :
          (HasWrite(d, l)' <=> HasWrite(d, l)) /\ (HasRead(d, l)' <=> HasRead(d, l))
    BY <1>1 DEF HasWrite, HasRead, Granted, NoCall
  <1>3. QED BY <1>2, KeepsGrants

\* A client's record changes, its grants do not.
LEMMA SameGrantsStep ==
  ASSUME DSyncInv, Accounted, NEW c \in Clients, NEW m \in MutexStates,
         mutex' = [mutex EXCEPT ![c] = m], UNCHANGED <<writer, readers, late, faults>>,
         m.isReadLock = mutex[c].isReadLock,
         \A l \in Lockers : (l \in m.locks \/ m.call[l] = "yes") <=> Granted(c, l)
  PROVE  Accounted'
  <1>1. \A d \in Clients : mutex'[d] = IF d = c THEN m ELSE mutex[d]
    BY DEF DSyncInv, DSyncTypeOK
  <1>2. \A d \in Clients, l \in Lockers :
          (HasWrite(d, l)' <=> HasWrite(d, l)) /\ (HasRead(d, l)' <=> HasRead(d, l))
    BY <1>1 DEF HasWrite, HasRead, Granted
  <1>3. QED BY <1>2, KeepsGrants

LEMMA AskAccounted ==
  ASSUME DSyncInv, Accounted, NEW c \in Clients, NEW isReadLock \in BOOLEAN, Ask(c, isReadLock),
         mutex[c].locks = {}, mutex[c].call = NoCall
  PROVE  Accounted'
  <1>1. Asked(isReadLock) \in MutexStates
    BY DEF Asked, Unlocked, MutexStates, CallStates, NoCall
  <1>2. /\ Asked(isReadLock).locks = {}
        /\ \A l \in Lockers : Asked(isReadLock).call[l] # "yes"
    BY DEF Asked, Unlocked, NoCall
  <1>3. QED BY <1>1, <1>2, NoGrantsStep DEF Ask

LEMMA DoneAccounted ==
  ASSUME DSyncInv, Accounted, NEW c \in Clients, mutex' = [mutex EXCEPT ![c] = Unlocked],
         UNCHANGED <<writer, readers, late, faults>>,
         mutex[c].locks = {}, mutex[c].call = NoCall
  PROVE  Accounted'
  <1>1. Unlocked.locks = {} /\ \A l \in Lockers : Unlocked.call[l] # "yes"
    BY DEF Unlocked, NoCall
  <1>2. QED BY <1>1, UnlockedPhase, NoGrantsStep

LEMMA PcAccounted ==
  ASSUME DSyncInv, Accounted, NEW c \in Clients,
         NEW next \in {"decided", "release", "held", "unlock"},
         mutex' = [mutex EXCEPT ![c].pc = next], UNCHANGED <<writer, readers, late, faults>>
  PROVE  Accounted'
  <1> DEFINE m == [mutex[c] EXCEPT !.pc = next]
  <1>1. mutex[c] \in MutexStates
    BY DEF DSyncInv, DSyncTypeOK
  <1>2. /\ m \in MutexStates /\ m.isReadLock = mutex[c].isReadLock
        /\ m.call = mutex[c].call /\ m.locks = mutex[c].locks
    BY <1>1 DEF MutexStates
  <1>3. mutex' = [mutex EXCEPT ![c] = m] OBVIOUS
  <1> HIDE DEF m
  <1>4. \A l \in Lockers : (l \in m.locks \/ m.call[l] = "yes") <=> Granted(c, l)
    BY <1>2 DEF Granted
  <1>5. QED BY <1>2, <1>3, <1>4, SameGrantsStep

LEMMA TakeAccounted ==
  ASSUME DSyncInv, Accounted, NEW c \in Clients, NEW l \in Lockers, Take(c, l)
  PROVE  Accounted'
  <1>1. PICK m \in MutexStates :
          /\ mutex' = [mutex EXCEPT ![c] = m]
          /\ m.isReadLock = mutex[c].isReadLock
          /\ \A k \in Lockers : m.call[k] = IF k = l THEN "done" ELSE mutex[c].call[k]
          /\ m.locks = IF mutex[c].call[l] = "yes" THEN mutex[c].locks \cup {l} ELSE mutex[c].locks
    BY TakeResult, SMTT(60) DEF DSyncInv
  <1>2. \A k \in Lockers : (k \in m.locks \/ m.call[k] = "yes") <=> Granted(c, k)
    BY <1>1 DEF Granted
  <1>3. UNCHANGED <<writer, readers, late, faults>>
    BY DEF Take
  <1>4. QED BY <1>1, <1>2, <1>3, SameGrantsStep

\* The steps below move, create or give back a grant of one client at one
\* locker; all others stay as they are.
LEMMA OthersAccounted ==
  ASSUME DSyncInv, Accounted, faults = 0, NEW c \in Clients, NEW l \in Lockers,
         \A d \in Clients, k \in Lockers : (d # c \/ k # l) =>
           /\ d \in writer'[k] => d \in writer[k]
           /\ HasWrite(d, k)' <=> HasWrite(d, k)
           /\ HasRead(d, k)' <=> HasRead(d, k)
           /\ late'[d][k]["write"] = late[d][k]["write"]
           /\ late'[d][k]["read"] = late[d][k]["read"]
           /\ readers'[k][d] = readers[k][d],
         c \in writer'[l] => HasWrite(c, l)' \/ late'[c][l]["write"] > 0,
         readers'[l][c] = late'[c][l]["read"] + (IF HasRead(c, l)' THEN 1 ELSE 0)
  PROVE  Accounted'
  <1> SUFFICES ASSUME NEW d \in Clients, NEW k \in Lockers
               PROVE  /\ d \in writer'[k] => HasWrite(d, k)' \/ late'[d][k]["write"] > 0
                      /\ readers'[k][d] = late'[d][k]["read"] + (IF HasRead(d, k)' THEN 1 ELSE 0)
    BY DEF Accounted
  <1>1. CASE d = c /\ k = l
    BY <1>1 DEF HasWrite, HasRead, Granted
  <1>2. CASE ~(d = c /\ k = l)
    <2>1. /\ d \in writer[k] => HasWrite(d, k) \/ late[d][k]["write"] > 0
          /\ readers[k][d] = late[d][k]["read"] + (IF HasRead(d, k) THEN 1 ELSE 0)
      BY DEF Accounted
    <2>2. QED BY <1>2, <2>1
  <1>3. QED BY <1>1, <1>2

LEMMA LockerAnswersAccounted ==
  ASSUME DSyncInv, Accounted, NEW c \in Clients, NEW l \in Lockers, LockerAnswers(c, l)
  PROVE  Accounted'
  <1> DEFINE read == mutex[c].isReadLock
  <1> SUFFICES ASSUME faults' = 0 PROVE Accounted'
    BY DEF Accounted
  <1>1. /\ mutex[c].call[l] = "asked" /\ late' = late /\ faults \in Nat
        /\ mutex[c] \in MutexStates /\ read \in BOOLEAN /\ l \notin mutex[c].locks
    BY DEF LockerAnswers, DSyncInv, DSyncTypeOK, MutexStates, AnsweredOnce
  <1>2. ~Fault
    BY <1>1 DEF Fault
  <1>3. faults = 0
    BY <1>2 DEF LockerAnswers
  <1>4. CASE CanGrant(l, read) /\ Grants(c, l, read) /\ Says(c, l, "yes")
    <2>1. /\ \A d \in Clients \ {c} : mutex'[d] = mutex[d]
          /\ mutex'[c].isReadLock = read /\ mutex'[c].locks = mutex[c].locks
          /\ \A k \in Lockers : mutex'[c].call[k] = IF k = l THEN "yes" ELSE mutex[c].call[k]
      BY <1>4 DEF DSyncInv, DSyncTypeOK, MutexStates, Says
    <2>2. \A d \in Clients, k \in Lockers : (d # c \/ k # l) =>
            (HasWrite(d, k)' <=> HasWrite(d, k)) /\ (HasRead(d, k)' <=> HasRead(d, k))
      BY <2>1 DEF HasWrite, HasRead, Granted
    <2>3. Granted(c, l)' /\ ~Granted(c, l)
      BY <1>1, <2>1 DEF Granted
    <2>4. /\ c \in writer[l] => HasWrite(c, l) \/ late[c][l]["write"] > 0
          /\ readers[l][c] = late[c][l]["read"] + (IF HasRead(c, l) THEN 1 ELSE 0)
      BY <1>3 DEF Accounted
    <2>5. late[c][l]["read"] \in Nat /\ late[c][l]["write"] \in Nat
      BY DEF DSyncInv, DSyncTypeOK
    <2>6. CASE read
      <3>1. /\ UNCHANGED writer
            /\ \A d \in Clients, k \in Lockers :
                 readers'[k][d] = IF d = c /\ k = l THEN readers[k][d] + 1 ELSE readers[k][d]
        BY <1>4, <2>6 DEF Grants, DSyncInv, DSyncTypeOK
      <3>2. HasRead(c, l)' /\ ~HasRead(c, l) /\ ~HasWrite(c, l)
        BY <2>1, <2>3, <2>6 DEF HasRead, HasWrite
      <3>3. readers'[l][c] = late'[c][l]["read"] + (IF HasRead(c, l)' THEN 1 ELSE 0)
        BY <1>1, <2>4, <2>5, <3>1, <3>2
      <3>4. c \in writer'[l] => HasWrite(c, l)' \/ late'[c][l]["write"] > 0
        BY <1>1, <2>4, <3>1, <3>2
      <3>5. \A d \in Clients, k \in Lockers : (d # c \/ k # l) =>
              /\ d \in writer'[k] => d \in writer[k]
              /\ late'[d][k]["write"] = late[d][k]["write"]
              /\ late'[d][k]["read"] = late[d][k]["read"]
              /\ readers'[k][d] = readers[k][d]
        BY <1>1, <3>1
      <3>6. QED BY <1>3, <2>2, <3>3, <3>4, <3>5, OthersAccounted
    <2>7. CASE ~read
      <3>1. UNCHANGED readers /\ \A k \in Lockers : writer'[k] = IF k = l THEN {c} ELSE writer[k]
        BY <1>4, <2>7 DEF Grants, DSyncInv, DSyncTypeOK
      <3>2. HasWrite(c, l)' /\ ~HasRead(c, l)' /\ ~HasRead(c, l)
        BY <2>1, <2>3, <2>7 DEF HasRead, HasWrite
      <3>3. readers'[l][c] = late'[c][l]["read"] + (IF HasRead(c, l)' THEN 1 ELSE 0)
        BY <1>1, <2>4, <3>1, <3>2
      <3>4. \A d \in Clients, k \in Lockers : (d # c \/ k # l) =>
              /\ d \in writer'[k] => d \in writer[k]
              /\ late'[d][k]["write"] = late[d][k]["write"]
              /\ late'[d][k]["read"] = late[d][k]["read"]
              /\ readers'[k][d] = readers[k][d]
        BY <1>1, <3>1
      <3>5. QED BY <1>3, <2>2, <3>2, <3>3, <3>4, OthersAccounted
    <2>8. QED BY <2>6, <2>7
  <1>5. CASE Says(c, l, "no") /\ UNCHANGED <<writer, readers, faults>>
    <2>1. PICK m \in MutexStates :
            /\ mutex' = [mutex EXCEPT ![c] = m]
            /\ m.isReadLock = mutex[c].isReadLock /\ m.locks = mutex[c].locks
            /\ \A k \in Lockers : m.call[k] = IF k = l THEN "no" ELSE mutex[c].call[k]
      <3> DEFINE m == [mutex[c] EXCEPT !.call[l] = "no"]
      <3>1. /\ m \in MutexStates /\ m.isReadLock = mutex[c].isReadLock
            /\ m.locks = mutex[c].locks
            /\ \A k \in Lockers : m.call[k] = IF k = l THEN "no" ELSE mutex[c].call[k]
        BY AnswerTaken DEF CallStates, DSyncInv
      <3>2. mutex' = [mutex EXCEPT ![c] = m]
        BY <1>5 DEF Says
      <3> HIDE DEF m
      <3>3. QED BY <3>1, <3>2
    <2>2. \A k \in Lockers : (k \in m.locks \/ m.call[k] = "yes") <=> Granted(c, k)
      BY <1>1, <2>1 DEF Granted
    <2>3. QED BY <1>1, <1>5, <2>1, <2>2, SameGrantsStep
  <1>6. QED BY <1>2, <1>4, <1>5 DEF LockerAnswers

LEMMA ReleaseAccounted ==
  ASSUME DSyncInv, Accounted, NEW c \in Clients, NEW l \in Lockers, Release(c, l)
  PROVE  Accounted'
  <1> DEFINE m == [mutex[c] EXCEPT !.locks = @ \ {l}]
  <1> SUFFICES ASSUME faults' = 0 PROVE Accounted'
    BY DEF Accounted
  <1>0. DSyncTypeOK /\ mutex[c].isReadLock \in BOOLEAN
    BY DEF DSyncInv, DSyncTypeOK, MutexStates
  <1>1. /\ mutex' = [mutex EXCEPT ![c] = m] /\ m.isReadLock = mutex[c].isReadLock
        /\ m.call = mutex[c].call /\ m.locks = mutex[c].locks \ {l}
    BY <1>0 DEF DSyncTypeOK, MutexStates, Release
  <1>2. \A d \in Clients : mutex'[d] = IF d = c THEN m ELSE mutex[d]
    BY <1>0, <1>1 DEF DSyncTypeOK
  <1>3. l \in mutex[c].locks /\ mutex[c].call[l] = "done" /\ late' = late
    BY DEF Release, DSyncInv, AnsweredOnce
  <1> HIDE DEF m
  <1>4. /\ \A d \in Clients, k \in Lockers : (d # c \/ k # l) =>
             (HasWrite(d, k)' <=> HasWrite(d, k)) /\ (HasRead(d, k)' <=> HasRead(d, k))
        /\ Granted(c, l) /\ ~Granted(c, l)' /\ mutex'[c].isReadLock = mutex[c].isReadLock
    BY <1>1, <1>2, <1>3 DEF HasWrite, HasRead, Granted
  <1>5. faults = 0
    BY <1>0 DEF Release, sendRelease, Fault, DSyncTypeOK
  <1>6. /\ c \in writer[l] => HasWrite(c, l) \/ late[c][l]["write"] > 0
        /\ readers[l][c] = late[c][l]["read"] + (IF HasRead(c, l) THEN 1 ELSE 0)
    BY <1>5 DEF Accounted
  <1>7. late[c][l]["read"] \in Nat /\ late[c][l]["write"] \in Nat /\ readers[l][c] \in Nat
    BY <1>0 DEF DSyncTypeOK
  <1>8. CASE mutex[c].isReadLock
    <2>1. sendRelease(c, l, TRUE)
      BY <1>8 DEF Release
    <2>2. /\ writer' = writer
          /\ \A k \in Lockers, d \in Clients :
               readers'[k][d] = IF k = l /\ d = c /\ faults' = faults /\ readers[k][d] # 0
                                THEN readers[k][d] - 1 ELSE readers[k][d]
      BY <1>0, <2>1, SendReleaseRead
    <2>3. HasRead(c, l) /\ ~HasRead(c, l)' /\ ~HasWrite(c, l)
      BY <1>4, <1>8 DEF HasRead, HasWrite
    <2>4. readers'[l][c] = late'[c][l]["read"] + (IF HasRead(c, l)' THEN 1 ELSE 0)
      BY <1>3, <1>5, <1>6, <1>7, <2>2, <2>3
    <2>5. c \in writer'[l] => HasWrite(c, l)' \/ late'[c][l]["write"] > 0
      BY <1>3, <1>6, <2>2, <2>3
    <2>6. \A d \in Clients, k \in Lockers : (d # c \/ k # l) =>
            /\ d \in writer'[k] => d \in writer[k]
            /\ late'[d][k]["write"] = late[d][k]["write"]
            /\ late'[d][k]["read"] = late[d][k]["read"]
            /\ readers'[k][d] = readers[k][d]
      BY <1>3, <2>2
    <2>7. QED BY <1>4, <1>5, <2>4, <2>5, <2>6, OthersAccounted
  <1>9. CASE ~mutex[c].isReadLock
    <2>1. sendRelease(c, l, FALSE)
      <3>1. mutex[c].isReadLock = FALSE
        BY <1>0, <1>9
      <3>2. QED BY <3>1 DEF Release
    <2>2. /\ readers' = readers
          /\ \A k \in Lockers : writer'[k] = IF k = l /\ faults' = faults
                                             THEN writer[k] \ {c} ELSE writer[k]
      BY <1>0, <2>1, SendReleaseWrite
    <2>3. ~HasRead(c, l) /\ ~HasRead(c, l)'
      BY <1>4, <1>9 DEF HasRead
    <2>4. readers'[l][c] = late'[c][l]["read"] + (IF HasRead(c, l)' THEN 1 ELSE 0)
      BY <1>3, <1>6, <2>2, <2>3
    <2>5. c \notin writer'[l]
      BY <1>5, <2>2
    <2>6. \A d \in Clients, k \in Lockers : (d # c \/ k # l) =>
            /\ d \in writer'[k] => d \in writer[k]
            /\ late'[d][k]["write"] = late[d][k]["write"]
            /\ late'[d][k]["read"] = late[d][k]["read"]
            /\ readers'[k][d] = readers[k][d]
      BY <1>3, <2>2
    <2>7. QED BY <1>4, <1>5, <2>4, <2>5, <2>6, OthersAccounted
  <1>10. QED BY <1>8, <1>9

LEMMA ReleaseLateAccounted ==
  ASSUME DSyncInv, Accounted, NEW c \in Clients, NEW l \in Lockers, NEW isReadLock \in BOOLEAN,
         ReleaseLate(c, l, isReadLock)
  PROVE  Accounted'
  <1> SUFFICES ASSUME faults' = 0 PROVE Accounted'
    BY DEF Accounted
  <1>0. DSyncTypeOK
    BY DEF DSyncInv
  <1>1. UNCHANGED mutex
    BY DEF ReleaseLate
  <1>2. \A d \in Clients, k \in Lockers :
          (HasWrite(d, k)' <=> HasWrite(d, k)) /\ (HasRead(d, k)' <=> HasRead(d, k))
    BY <1>1 DEF HasWrite, HasRead, Granted
  <1>3. late[c][l]["read"] \in Nat /\ late[c][l]["write"] \in Nat /\ readers[l][c] \in Nat
    BY <1>0 DEF DSyncTypeOK
  <1>4. faults = 0
    BY <1>0 DEF ReleaseLate, sendRelease, Fault, DSyncTypeOK
  <1>5. /\ c \in writer[l] => HasWrite(c, l) \/ late[c][l]["write"] > 0
        /\ readers[l][c] = late[c][l]["read"] + (IF HasRead(c, l) THEN 1 ELSE 0)
    BY <1>4 DEF Accounted
  <1>6. CASE isReadLock
    <2>1. /\ late[c][l]["read"] > 0 /\ sendRelease(c, l, TRUE)
          /\ late' = [late EXCEPT ![c][l]["read"] = @ - 1]
      BY <1>6 DEF ReleaseLate, Kind
    <2>2. /\ writer' = writer
          /\ \A k \in Lockers, d \in Clients :
               readers'[k][d] = IF k = l /\ d = c /\ faults' = faults /\ readers[k][d] # 0
                                THEN readers[k][d] - 1 ELSE readers[k][d]
      BY <1>0, <2>1, SendReleaseRead
    <2>3. /\ \A d \in Clients, k \in Lockers :
               /\ late'[d][k]["write"] = late[d][k]["write"]
               /\ (d # c \/ k # l) => late'[d][k]["read"] = late[d][k]["read"]
          /\ late'[c][l]["read"] = late[c][l]["read"] - 1
      BY <1>0, <2>1 DEF DSyncTypeOK
    <2>4. readers'[l][c] = late'[c][l]["read"] + (IF HasRead(c, l)' THEN 1 ELSE 0)
      <3>1. readers'[l][c] = readers[l][c] - 1
        BY <1>3, <1>4, <1>5, <2>1, <2>2
      <3>2. QED BY <1>2, <1>3, <1>5, <2>3, <3>1
    <2>5. c \in writer'[l] => HasWrite(c, l)' \/ late'[c][l]["write"] > 0
      BY <1>2, <1>5, <2>2, <2>3
    <2>6. \A d \in Clients, k \in Lockers : (d # c \/ k # l) =>
            /\ d \in writer'[k] => d \in writer[k]
            /\ late'[d][k]["write"] = late[d][k]["write"]
            /\ late'[d][k]["read"] = late[d][k]["read"]
            /\ readers'[k][d] = readers[k][d]
      BY <2>2, <2>3
    <2>7. QED BY <1>2, <1>4, <2>4, <2>5, <2>6, OthersAccounted
  <1>7. CASE ~isReadLock
    <2>1. /\ late[c][l]["write"] > 0 /\ sendRelease(c, l, FALSE)
          /\ late' = [late EXCEPT ![c][l]["write"] = @ - 1]
      BY <1>7 DEF ReleaseLate, Kind
    <2>2. /\ readers' = readers
          /\ \A k \in Lockers : writer'[k] = IF k = l /\ faults' = faults
                                             THEN writer[k] \ {c} ELSE writer[k]
      BY <1>0, <2>1, SendReleaseWrite
    <2>3. \A d \in Clients, k \in Lockers :
            /\ late'[d][k]["read"] = late[d][k]["read"]
            /\ (d # c \/ k # l) => late'[d][k]["write"] = late[d][k]["write"]
      BY <1>0, <2>1 DEF DSyncTypeOK
    <2>4. readers'[l][c] = late'[c][l]["read"] + (IF HasRead(c, l)' THEN 1 ELSE 0)
      BY <1>2, <1>5, <2>2, <2>3
    <2>5. c \notin writer'[l]
      BY <1>4, <2>2
    <2>6. \A d \in Clients, k \in Lockers : (d # c \/ k # l) =>
            /\ d \in writer'[k] => d \in writer[k]
            /\ late'[d][k]["write"] = late[d][k]["write"]
            /\ late'[d][k]["read"] = late[d][k]["read"]
            /\ readers'[k][d] = readers[k][d]
      BY <2>2, <2>3
    <2>7. QED BY <1>2, <1>4, <2>4, <2>5, <2>6, OthersAccounted
  <1>8. QED BY <1>6, <1>7

LEMMA TakeLateAccounted ==
  ASSUME DSyncInv, Accounted, NEW c \in Clients, NEW l \in Lockers, TakeLate(c, l)
  PROVE  Accounted'
  <1> DEFINE m == [mutex[c] EXCEPT !.call[l] = "done"]
  <1> SUFFICES ASSUME faults = 0 PROVE Accounted'
    BY DEF Accounted, TakeLate
  <1>0. DSyncTypeOK /\ mutex[c].isReadLock \in BOOLEAN
    BY DEF DSyncInv, DSyncTypeOK, MutexStates
  <1>1. /\ m \in MutexStates
        /\ m.isReadLock = mutex[c].isReadLock /\ m.locks = mutex[c].locks
        /\ \A k \in Lockers : m.call[k] = IF k = l THEN "done" ELSE mutex[c].call[k]
    BY <1>0, AnswerTaken DEF CallStates
  <1>2. mutex' = [mutex EXCEPT ![c] = m] /\ UNCHANGED <<writer, readers, faults>>
    BY DEF TakeLate
  <1> HIDE DEF m
  <1>3. \A d \in Clients : mutex'[d] = IF d = c THEN m ELSE mutex[d]
    BY <1>0, <1>1, <1>2, ReplaceMutex
  <1>4. l \notin mutex[c].locks /\ mutex[c].call[l] \in {"yes", "no"}
    BY DEF TakeLate, DSyncInv, AnsweredOnce
  <1>5. /\ \A d \in Clients, k \in Lockers : (d # c \/ k # l) =>
             (HasWrite(d, k)' <=> HasWrite(d, k)) /\ (HasRead(d, k)' <=> HasRead(d, k))
        /\ ~HasWrite(c, l)' /\ ~HasRead(c, l)'
    BY <1>1, <1>3, <1>4 DEF HasWrite, HasRead, Granted
  <1>6. /\ c \in writer[l] => HasWrite(c, l) \/ late[c][l]["write"] > 0
        /\ readers[l][c] = late[c][l]["read"] + (IF HasRead(c, l) THEN 1 ELSE 0)
    BY DEF Accounted
  <1>7. late[c][l]["read"] \in Nat /\ late[c][l]["write"] \in Nat
    BY <1>0 DEF DSyncTypeOK
  <1>8. CASE mutex[c].call[l] = "no"
    <2>1. late' = late
      BY <1>8 DEF TakeLate
    <2>2. ~HasWrite(c, l) /\ ~HasRead(c, l)
      BY <1>4, <1>8 DEF HasWrite, HasRead, Granted
    <2>3. \A d \in Clients, k \in Lockers :
            (HasWrite(d, k)' <=> HasWrite(d, k)) /\ (HasRead(d, k)' <=> HasRead(d, k))
      <3> SUFFICES ASSUME NEW d \in Clients, NEW k \in Lockers
                   PROVE  (HasWrite(d, k)' <=> HasWrite(d, k)) /\ (HasRead(d, k)' <=> HasRead(d, k))
        OBVIOUS
      <3>1. CASE d = c /\ k = l
        BY <1>5, <2>2, <3>1 DEF HasWrite, HasRead, Granted
      <3>2. CASE ~(d = c /\ k = l)
        BY <1>5, <3>2
      <3>3. QED BY <3>1, <3>2
    <2>4. QED BY <1>2, <2>1, <2>3, KeepsGrants
  <1>9. CASE mutex[c].call[l] = "yes" /\ mutex[c].isReadLock
    <2>1. late' = [late EXCEPT ![c][l]["read"] = @ + 1]
      BY <1>9 DEF TakeLate, Kind
    <2>2. /\ \A d \in Clients, k \in Lockers :
               /\ late'[d][k]["write"] = late[d][k]["write"]
               /\ (d # c \/ k # l) => late'[d][k]["read"] = late[d][k]["read"]
          /\ late'[c][l]["read"] = late[c][l]["read"] + 1
      BY <1>0, <2>1 DEF DSyncTypeOK
    <2>3. HasRead(c, l) /\ ~HasWrite(c, l)
      BY <1>9 DEF HasRead, HasWrite, Granted
    <2>4. readers'[l][c] = late'[c][l]["read"] + (IF HasRead(c, l)' THEN 1 ELSE 0)
      BY <1>2, <1>5, <1>6, <1>7, <2>2, <2>3
    <2>5. c \in writer'[l] => HasWrite(c, l)' \/ late'[c][l]["write"] > 0
      BY <1>2, <1>6, <2>2, <2>3
    <2>6. \A d \in Clients, k \in Lockers : (d # c \/ k # l) =>
            /\ d \in writer'[k] => d \in writer[k]
            /\ late'[d][k]["write"] = late[d][k]["write"]
            /\ late'[d][k]["read"] = late[d][k]["read"]
            /\ readers'[k][d] = readers[k][d]
      BY <1>2, <2>2
    <2>7. QED BY <1>5, <2>4, <2>5, <2>6, OthersAccounted
  <1>10. CASE mutex[c].call[l] = "yes" /\ ~mutex[c].isReadLock
    <2>1. late' = [late EXCEPT ![c][l]["write"] = @ + 1]
      BY <1>10 DEF TakeLate, Kind
    <2>2. /\ \A d \in Clients, k \in Lockers :
               /\ late'[d][k]["read"] = late[d][k]["read"]
               /\ (d # c \/ k # l) => late'[d][k]["write"] = late[d][k]["write"]
          /\ late'[c][l]["write"] = late[c][l]["write"] + 1
      BY <1>0, <2>1 DEF DSyncTypeOK
    <2>3. ~HasRead(c, l)
      BY <1>10 DEF HasRead
    <2>4. readers'[l][c] = late'[c][l]["read"] + (IF HasRead(c, l)' THEN 1 ELSE 0)
      BY <1>2, <1>5, <1>6, <2>2, <2>3
    <2>5. late'[c][l]["write"] > 0
      BY <1>7, <2>2
    <2>6. \A d \in Clients, k \in Lockers : (d # c \/ k # l) =>
            /\ d \in writer'[k] => d \in writer[k]
            /\ late'[d][k]["write"] = late[d][k]["write"]
            /\ late'[d][k]["read"] = late[d][k]["read"]
            /\ readers'[k][d] = readers[k][d]
      BY <1>2, <2>2
    <2>7. QED BY <1>5, <2>4, <2>5, <2>6, OthersAccounted
  <1>11. QED BY <1>0, <1>4, <1>8, <1>9, <1>10

LEMMA AccountedStep ==
  ASSUME DSyncInv, Phases, Accounted, [DSyncNext]_dsyncVars
  PROVE  Accounted'
  <1>1. CASE UNCHANGED dsyncVars
    <2>1. UNCHANGED <<writer, readers, late, faults, mutex>>
      BY <1>1 DEF dsyncVars
    <2>2. QED BY <2>1, KeepsGrants DEF HasWrite, HasRead, Granted
  <1>2. ASSUME NEW c \in Clients, NEW isReadLock \in BOOLEAN, GetLock(c, isReadLock)
        PROVE  Accounted'
    <2>1. mutex[c].locks = {} /\ mutex[c].call = NoCall
      BY <1>2 DEF GetLock, Phases, PhaseOK
    <2>2. QED BY <1>2, <2>1, AskAccounted DEF GetLock
  <1>3. ASSUME NEW c \in Clients, NEW l \in Lockers,
               LockerAnswers(c, l) \/ Take(c, l) \/ TakeLate(c, l) \/ Release(c, l)
        PROVE  Accounted'
    BY <1>3, LockerAnswersAccounted, TakeAccounted, TakeLateAccounted, ReleaseAccounted
  <1>4. ASSUME NEW c \in Clients, NEW l \in Lockers, NEW isReadLock \in BOOLEAN,
               ReleaseLate(c, l, isReadLock)
        PROVE  Accounted'
    BY <1>4, ReleaseLateAccounted
  <1>5. ASSUME NEW c \in Clients, AcquireTimeout(c) \/ Unlock(c)
        PROVE  Accounted'
    BY <1>5, PcAccounted DEF AcquireTimeout, Unlock
  <1>6. ASSUME NEW c \in Clients, Released(c)
        PROVE  Accounted'
    <2>1. CASE mutex[c].pc = "unlock"
      <3>1. mutex[c].locks = {} /\ mutex[c].call = NoCall
        BY <1>6, <2>1 DEF Released, Phases, PhaseOK
      <3>2. QED BY <1>6, <2>1, <3>1, DoneAccounted DEF Released
    <2>2. CASE mutex[c].pc # "unlock"
      <3>1. mutex' = [mutex EXCEPT ![c].pc = "decided"]
        BY <1>6, <2>2 DEF Released
      <3>2. QED BY <1>6, <3>1, PcAccounted DEF Released
    <2>3. QED BY <2>1, <2>2
  <1>7. ASSUME NEW c \in Clients, LockReturns(c)
        PROVE  Accounted'
    <2>1. CASE mutex' = [mutex EXCEPT ![c].pc = "held"] /\ UNCHANGED <<writer, readers, late, faults>>
      BY <2>1, PcAccounted
    <2>2. CASE ~quorumMet(mutex[c]) /\ Ask(c, mutex[c].isReadLock)
      <3>1. mutex[c].locks = {} /\ mutex[c].call = NoCall
        BY <1>7, <2>2 DEF LockReturns, Phases, PhaseOK
      <3>2. mutex[c].isReadLock \in BOOLEAN
        BY DEF DSyncInv, DSyncTypeOK, MutexStates
      <3>3. QED BY <2>2, <3>1, <3>2, AskAccounted
    <2>3. CASE /\ ~quorumMet(mutex[c]) /\ mutex' = [mutex EXCEPT ![c] = Unlocked]
               /\ UNCHANGED <<writer, readers, late, faults>>
      <3>1. mutex[c].locks = {} /\ mutex[c].call = NoCall
        BY <1>7, <2>3 DEF LockReturns, Phases, PhaseOK
      <3>2. QED BY <2>3, <3>1, DoneAccounted
    <2>4. QED BY <1>7, <2>1, <2>2, <2>3 DEF LockReturns
  <1>8. QED BY <1>1, <1>2, <1>3, <1>4, <1>5, <1>6, <1>7 DEF DSyncNext

LEMMA ExactInvInit == DSyncInit => ExactInv
  <1> SUFFICES ASSUME DSyncInit PROVE ExactInv
    OBVIOUS
  <1>1. Phases
    <2>1. \A c \in Clients : mutex[c] = Unlocked
      BY DEF DSyncInit
    <2>2. QED BY <2>1, UnlockedPhase DEF Phases
  <1>2. Accounted
    BY DEF DSyncInit, Accounted, HasWrite, HasRead, Granted, Unlocked, NoCall, NoneLate
  <1>3. QED BY <1>1, <1>2, DSyncInitInv DEF ExactInv

LEMMA ExactInvFrees == ExactInv => NothingLeftLocked
  <1> SUFFICES ASSUME ExactInv, faults = 0, NEW l \in Lockers,
                      \A c \in Clients : /\ mutex[c] = Unlocked
                                         /\ \A k \in Lockers : late[c][k] = NoneLate
               PROVE  writer[l] = {} /\ \A c \in Clients : readers[l][c] = 0
    BY DEF NothingLeftLocked
  <1>1. \A c \in Clients : /\ ~HasWrite(c, l) /\ ~HasRead(c, l)
                           /\ late[c][l]["read"] = 0 /\ late[c][l]["write"] = 0
    BY DEF HasWrite, HasRead, Granted, Unlocked, NoCall, NoneLate
  <1>2. \A c \in Clients : c \notin writer[l] /\ readers[l][c] = 0
    BY <1>1 DEF ExactInv, Accounted
  <1>3. writer[l] \subseteq Clients
    BY DEF ExactInv, DSyncInv, DSyncTypeOK
  <1>4. QED BY <1>2, <1>3

\* releaseAll, unlock and the end of lock's collector, for any number of
\* clients and of lockers but one: when all are done and no call failed, every
\* locker is free.
THEOREM NothingLeftLockedAlways == DSyncSpec => []NothingLeftLocked
  <1>1. DSyncInit => ExactInv
    BY ExactInvInit
  <1>2. N > 1 => (ExactInv /\ [DSyncNext]_dsyncVars => ExactInv')
    BY DSyncInvStep, PhasesStep, AccountedStep DEF ExactInv
  <1>3. ExactInv => NothingLeftLocked
    BY ExactInvFrees
  <1>4. ~(N > 1) => NothingLeftLocked
    BY DEF NothingLeftLocked
  <1>5. ASSUME N > 1
        PROVE  DSyncSpec => []NothingLeftLocked
    <2>1. ExactInv /\ [DSyncNext]_dsyncVars => ExactInv'
      BY <1>2, <1>5
    <2>2. QED BY <1>1, <1>3, <2>1, PTL DEF DSyncSpec
  <1>6. ASSUME ~(N > 1)
        PROVE  DSyncSpec => []NothingLeftLocked
    <2>1. TRUE => NothingLeftLocked
      BY <1>4, <1>6
    <2>2. QED BY <2>1, PTL
  <1>7. QED BY <1>5, <1>6
=============================================================================

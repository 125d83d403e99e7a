--------------------------- MODULE DynamicTimeout ---------------------------
(***************************************************************************)
(* Timeouts that follow the durations of earlier operations                *)
(* (dynamic-timeouts.go).  Goroutines log what their operations took;      *)
(* whoever fills the log adjusts the timeout.  The counter of entries, the *)
(* log and the timeout are each shared, and not under one lock.            *)
(***************************************************************************)
EXTENDS Integers, FiniteSets

CONSTANTS Loggers,           \* goroutines
          LogSize,           \* dynamicTimeoutLogSize
          Durations,         \* of operations that succeed
          InitialTimeout,
          Minimum,
          MaxDuration,       \* logged for an operation that failed
          MaxTimeout,        \* bound on the timeout, which is cut off there
          MaxEntries         \* bound on the counter

ASSUME TimeoutAssumption ==
  /\ LogSize \in Nat \ {0} /\ MaxDuration \in Nat /\ Durations \subseteq 0 .. MaxDuration - 1
  /\ Minimum \in Nat /\ InitialTimeout \in Nat /\ InitialTimeout >= Minimum
  /\ MaxTimeout \in Nat /\ MaxTimeout >= Minimum

VARIABLES entries,    \* entries counted since the last adjustment
          log,
          timeout,
          logger      \* per goroutine: where in logEntry it is

timeoutVars == <<entries, log, timeout, logger>>

AtRest == [pc |-> "idle", index |-> 0, value |-> 0, copy |-> << >>]

Slots == 0 .. LogSize - 1

TimeoutInit ==
  /\ entries = 0
  /\ log = [i \in Slots |-> 0]
  /\ timeout = InitialTimeout
  /\ logger = [p \in Loggers |-> AtRest]

\* LogSuccess, LogFailure: logEntry counts the entry.
LogEntry(p, duration) ==
  /\ logger[p].pc = "idle"
  /\ entries < MaxEntries
  /\ entries' = entries + 1
  /\ logger' = [logger EXCEPT ![p] =
       [AtRest EXCEPT !.pc = IF entries < LogSize THEN "store" ELSE "idle",
                      !.index = IF entries < LogSize THEN entries ELSE 0,
                      !.value = IF entries < LogSize THEN duration ELSE 0]]
  /\ UNCHANGED <<log, timeout>>

StoreEntry(p) ==
  /\ logger[p].pc = "store"
  /\ log' = [log EXCEPT ![logger[p].index] = logger[p].value]
  /\ logger' = [logger EXCEPT ![p] =
       IF logger[p].index = LogSize - 1 THEN [AtRest EXCEPT !.pc = "full"] ELSE AtRest]
  /\ UNCHANGED <<entries, timeout>>

\* Mutant of CopyLog: entries that were counted meanwhile stay counted.
CopyLogMutant(p) ==
  /\ logger[p].pc = "full"
  /\ entries' = entries - LogSize
  /\ logger' = [logger EXCEPT ![p] = [AtRest EXCEPT !.pc = "adjust", !.copy = log]]
  /\ UNCHANGED <<log, timeout>>

\* The log is copied and the counter reset.
CopyLog(p) ==
  /\ logger[p].pc = "full"
  /\ entries' = 0
  /\ logger' = [logger EXCEPT ![p] = [AtRest EXCEPT !.pc = "adjust", !.copy = log]]
  /\ UNCHANGED <<log, timeout>>

\* adjust: more than a third of failures, fewer than a tenth.
Failures(copy) == Cardinality({i \in Slots : copy[i] = MaxDuration})

Successes(copy) == {i \in Slots : copy[i] # MaxDuration}

\* The sum of their durations, counted unit by unit.
Total(copy) ==
  Cardinality({unit \in Successes(copy) \X (1 .. MaxDuration) : unit[2] <= copy[unit[1]]})

Average(copy) ==
  IF Successes(copy) = {} THEN 0 ELSE Total(copy) \div Cardinality(Successes(copy))

AdjustedTimeout(copy, t) ==
  LET raised == (t * 125) \div 100
      lower == (t + (Average(copy) * 125) \div 100) \div 2
  IN IF Failures(copy) * 100 > 33 * LogSize 
     THEN IF raised > MaxTimeout THEN MaxTimeout ELSE raised
     ELSE IF Failures(copy) * 100 < 10 * LogSize
     THEN IF lower < Minimum THEN Minimum ELSE lower
     ELSE t

\* The timeout is loaded and stored in two steps.
LoadTimeout(p) ==
  /\ logger[p].pc = "adjust"
  /\ logger' = [logger EXCEPT ![p] =
       [AtRest EXCEPT !.pc = "write", !.value = AdjustedTimeout(logger[p].copy, timeout)]]
  /\ UNCHANGED <<entries, log, timeout>>

StoreTimeout(p) ==
  /\ logger[p].pc = "write"
  /\ timeout' = logger[p].value
  /\ logger' = [logger EXCEPT ![p] = AtRest]
  /\ UNCHANGED <<entries, log>>

TimeoutNext ==
  \E p \in Loggers :
    \/ \E d \in Durations \cup {MaxDuration} : LogEntry(p, d)
    \/ StoreEntry(p) \/ CopyLog(p) \/ LoadTimeout(p) \/ StoreTimeout(p)

TimeoutSpec == TimeoutInit /\ [][TimeoutNext]_timeoutVars
-----------------------------------------------------------------------------
\* Somebody adjusts: whenever the log is full, and only then, exactly one
\* goroutine is on its way to copy it and to reset the counter, also when
\* others count on meanwhile, so that the counter is never stuck beyond the
\* log and no log is used twice; and the timeout never falls below the minimum
\* (logEntry, adjust).
FullLogIsAdjustedOnce ==
  /\ Cardinality({p \in Loggers :
        \/ logger[p].pc = "full"
        \/ logger[p].pc = "store" /\ logger[p].index = LogSize - 1})
       = IF entries >= LogSize THEN 1 ELSE 0
  /\ timeout >= Minimum
=============================================================================

-------------------------------- MODULE Metrics --------------------------------
(***************************************************************************)
(* The run ledger and the requests that read it (metrics-api).  A run      *)
(* appends its row when its worker settles it, and the sweeper appends one *)
(* for a run it gives up (engine.py).  The threads of the console read the *)
(* ledger through one cache of its parsed rows, keyed on the file's size,  *)
(* and stop the session a row names.  The ledger only grows, so rows read  *)
(* are a number of rows.  A run has one role here.  Bound: MaxSessions.    *)
(***************************************************************************)
EXTENDS Integers, Sequences, SequencesExt, FiniteSets, FiniteSetsExt

CONSTANTS
    LedgerRuns,   \* the runs
    Requests,     \* threads that answer a stop request
    MaxSessions,  \* runtime sessions a run's role has
    Samples       \* latencies of the sessions a p95 is asked of

NoLedgerRun == "none"
ASSUME MetricsAssumption ==
    MaxSessions \in Nat /\ NoLedgerRun \notin LedgerRuns /\ Samples \subseteq Seq(Int)

VARIABLES
    ledger,   \* rows of telemetry.jsonl: a run and the session it names, 0 for none
    torn,     \* the row that is half written, if any
    cached,   \* _LEDGER_CACHE
    mixed,    \* the two halves of the cache were used by two threads at once
    asking,   \* what each thread is doing
    worked,   \* how far each run is
    live,     \* runtime sessions that are up
    stopped,  \* _STOPPED
    sample    \* the latencies asked about

metricsVars == <<ledger, torn, cached, mixed, asking, worked, live, stopped, sample>>

Quiet == [at |-> "idle", run |-> NoLedgerRun, sig |-> 0, due |-> 0, rows |-> 0]
NoRow == [run |-> NoLedgerRun, session |-> 0]
Rows == [run : LedgerRuns, session : 0..MaxSessions]

MetricsInit ==
    /\ ledger = <<>> /\ torn = NoRow
    /\ cached = [sig |-> -1, rows |-> 0] /\ mixed = FALSE
    /\ asking = [t \in Requests |-> Quiet]
    /\ worked = [r \in LedgerRuns |-> [session |-> 0, swept |-> FALSE, done |-> FALSE]]
    /\ live = {} /\ stopped = {}
    /\ sample \in Samples

MetricsTypeOK ==
    /\ ledger \in Seq(Rows) /\ torn \in Rows \cup {NoRow}
    /\ cached.sig \in -1..(2 * Len(ledger) + 1) /\ cached.rows \in 0..Len(ledger)
    /\ \A t \in Requests :
         /\ asking[t].at \in {"idle", "looked", "hit", "parsed", "storing", "has", "calls", "answered"}
         /\ asking[t].rows \in 0..Len(ledger) /\ asking[t].due \in 0..Len(ledger)
    /\ live \subseteq LedgerRuns \X (1..MaxSessions)
    /\ stopped \subseteq LedgerRuns /\ mixed \in BOOLEAN

-----------------------------------------------------------------------------
\* The runs

RoleTurnReturns(r) ==
    /\ ~worked[r].done /\ worked[r].session < MaxSessions
    /\ worked' = [worked EXCEPT ![r].session = @ + 1]
    /\ live' = live \cup {<<r, worked'[r].session>>}
    /\ UNCHANGED <<ledger, torn, cached, mixed, asking, stopped, sample>>

SessionIsOver(s) ==
    /\ s \in live /\ live' = live \ {s}
    /\ UNCHANGED <<ledger, torn, cached, mixed, asking, worked, stopped, sample>>

\* The row is what the run is when it is written.
LedgerBegins(r) ==
    /\ torn = NoRow
    /\ torn' = [run |-> r, session |-> worked[r].session]
    /\ UNCHANGED <<ledger, cached, mixed, asking, live, stopped, sample>>
\* The sweeper gives a run up while its worker goes on.
Swept(r) ==
    /\ ~worked[r].done /\ ~worked[r].swept
    /\ worked' = [worked EXCEPT ![r].swept = TRUE]
    /\ LedgerBegins(r)
Settled(r) ==
    /\ ~worked[r].done
    /\ worked' = [worked EXCEPT ![r].done = TRUE]
    /\ LedgerBegins(r)

LedgerEnds ==
    /\ torn # NoRow
    /\ ledger' = Append(ledger, torn) /\ torn' = NoRow
    /\ UNCHANGED <<cached, mixed, asking, worked, live, stopped, sample>>

-----------------------------------------------------------------------------
\* Reading the ledger

\* The size of the file: a half-written row counts, and is not parsed.
LedgerSignature == 2 * Len(ledger) + IF torn = NoRow THEN 0 ELSE 1

\* Another thread is at one of these steps.
Beside(t, steps) == \E u \in Requests \ {t} : asking[u].at \in steps

StopBegins(t, r) ==
    /\ asking[t].at = "idle"
    /\ asking' = [asking EXCEPT ![t] =
         [Quiet EXCEPT !.at = "looked", !.run = r, !.sig = LedgerSignature, !.due = Len(ledger)]]
    /\ UNCHANGED <<ledger, torn, cached, mixed, worked, live, stopped, sample>>

CacheHits(t) ==
    /\ asking[t].at = "looked" /\ asking[t].sig = cached.sig
    /\ asking' = [asking EXCEPT ![t].at = "hit"]
    /\ mixed' = (mixed \/ Beside(t, {"storing"}))
    /\ UNCHANGED <<ledger, torn, cached, worked, live, stopped, sample>>
CacheReturns(t) ==
    /\ asking[t].at = "hit"
    /\ asking' = [asking EXCEPT ![t].at = "has", ![t].rows = cached.rows]
    /\ UNCHANGED <<ledger, torn, cached, mixed, worked, live, stopped, sample>>

LedgerParsed(t) ==
    /\ asking[t].at = "looked" /\ asking[t].sig # cached.sig
    /\ asking' = [asking EXCEPT ![t].at = "parsed", ![t].rows = Len(ledger)]
    /\ UNCHANGED <<ledger, torn, cached, mixed, worked, live, stopped, sample>>

\* Mutant: the size is taken again when the rows are stored.
KeyTakenLate(t) == LedgerSignature
\* The rows are stored under the size the file had before they were read.
StoredKey(t) == asking[t].sig

StoresKey(t) ==
    /\ asking[t].at = "parsed"
    /\ cached' = [cached EXCEPT !.sig = StoredKey(t)]
    /\ asking' = [asking EXCEPT ![t].at = "storing"]
    /\ mixed' = (mixed \/ Beside(t, {"storing", "hit"}))
    /\ UNCHANGED <<ledger, torn, worked, live, stopped, sample>>
StoresRows(t) ==
    /\ asking[t].at = "storing"
    /\ cached' = [cached EXCEPT !.rows = asking[t].rows]
    /\ asking' = [asking EXCEPT ![t].at = "has"]
    /\ UNCHANGED <<ledger, torn, mixed, worked, live, stopped, sample>>

-----------------------------------------------------------------------------
\* Stopping a session

\* The first row of the run, of the rows a thread has.
RowOf(r, rows) == SelectInSeq(SubSeq(ledger, 1, rows), LAMBDA row : row.run = r)

\* The row whose session can be stopped: it names one, and the run is not marked.
Stoppable(t) ==
    LET r == asking[t].run
    IN  {n \in 1..asking[t].rows :
           n = RowOf(r, asking[t].rows) /\ r \notin stopped /\ ledger[n].session # 0}

StopAnswered(t) ==
    /\ asking[t].at = "has" /\ Stoppable(t) = {}
    /\ asking' = [asking EXCEPT ![t] = Quiet]
    /\ UNCHANGED <<ledger, torn, cached, mixed, worked, live, stopped, sample>>
StopCalled(t) ==
    /\ asking[t].at = "has"
    /\ \E n \in Stoppable(t) :
         asking' = [asking EXCEPT ![t].at = "calls", ![t].rows = n]
    /\ UNCHANGED <<ledger, torn, cached, mixed, worked, live, stopped, sample>>

StopTakes(t) ==
    /\ asking[t].at = "calls"
    /\ live' = live \ {<<asking[t].run, ledger[asking[t].rows].session>>}
    /\ asking' = [asking EXCEPT ![t].at = "answered"]
    /\ UNCHANGED <<ledger, torn, cached, mixed, worked, stopped, sample>>

\* Mutant: a call that failed marks the session as well.
StopErrsMarked(t) ==
    /\ asking[t].at = "calls"
    /\ asking' = [asking EXCEPT ![t].at = "answered"]
    /\ UNCHANGED <<ledger, torn, cached, mixed, worked, live, stopped, sample>>
\* The error is the answer.
StopErrs(t) ==
    /\ asking[t].at = "calls"
    /\ asking' = [asking EXCEPT ![t] = Quiet]
    /\ UNCHANGED <<ledger, torn, cached, mixed, worked, live, stopped, sample>>

StopMarks(t) ==
    /\ asking[t].at = "answered"
    /\ stopped' = stopped \cup {asking[t].run}
    /\ asking' = [asking EXCEPT ![t] = Quiet]
    /\ UNCHANGED <<ledger, torn, cached, mixed, worked, live, sample>>

\* Mutant: the rank is rounded down.
RankFloor(n) == Max({1, (95 * n) \div 100})
\* The smallest rank that 95 of 100 values do not exceed, rounded up.
Rank(n) == Max({1, Min({n, -((-95 * n) \div 100)})})
\* The value at a place of the sorted values: those below it are before it, and
\* those not above it reach that place.
AtPlace(values, k) ==
    CHOOSE x \in Range(values) :
      /\ Cardinality({i \in DOMAIN values : values[i] < x}) < k
      /\ k <= Cardinality({i \in DOMAIN values : values[i] <= x})
Percentile95(values) == IF values = <<>> THEN 0 ELSE AtPlace(values, Rank(Len(values)))

MetricsNext ==
    \/ \E r \in LedgerRuns : RoleTurnReturns(r) \/ Swept(r) \/ Settled(r)
    \/ \E s \in live : SessionIsOver(s)
    \/ LedgerEnds
    \/ \E t \in Requests :
         \/ \E r \in LedgerRuns : StopBegins(t, r)
         \/ CacheHits(t) \/ CacheReturns(t)
         \/ LedgerParsed(t) \/ StoresKey(t) \/ StoresRows(t)
         \/ StopAnswered(t) \/ StopCalled(t) \/ StopTakes(t) \/ StopErrs(t) \/ StopMarks(t)

MetricsSpec == MetricsInit /\ [][MetricsNext]_metricsVars

-----------------------------------------------------------------------------
(***************************************************************************)
(* A request answers from every row that was complete when it looked at    *)
(* the ledger, whatever is appended while it or another request reads,     *)
(* unless two threads used the two halves of the cache at once.            *)
(***************************************************************************)
LedgerIsCurrent ==
    ~mixed => \A t \in Requests : asking[t].at = "has" => asking[t].rows >= asking[t].due

(***************************************************************************)
(* What is marked as stopped, and reported so from then on, is a session   *)
(* that was stopped: the one the run's first row names.                    *)
(***************************************************************************)
StoppedIsStopped ==
    \A r \in stopped : <<r, ledger[RowOf(r, Len(ledger))].session>> \notin live

(***************************************************************************)
(* The p95 of some latencies is the smallest of them that at least 95 of   *)
(* 100 do not exceed.                                                      *)
(***************************************************************************)
LatencyIsP95 ==
    LET p == Percentile95(sample)
        AtMost(x) == Cardinality({i \in DOMAIN sample : sample[i] <= x})
        Enough == {x \in Range(sample) : 100 * AtMost(x) >= 95 * Len(sample)}
    IN  sample # <<>> => p = Min(Enough)
===============================================================================

---------------------------- MODULE ExecuteCaches ----------------------------
(***************************************************************************)
(* How one oracle of the execute plugin finds the commit reports that have *)
(* messages left to execute: the cache of finalised commit reports and the *)
(* window of the query for newer ones                                      *)
(* (execute/internal/cache/commit_report_cache.go), the cache of executed  *)
(* and snoozed roots (commit_root_cache.go), and the observation of the    *)
(* GetCommitReports state that reads and fills them                        *)
(* (getCommitReportsObservation, getPendingReportsForExecution).           *)
(*                                                                         *)
(* The destination chain is the environment. Its blocks carry timestamps,  *)
(* a prefix of them is final, and what is not final may be reorganised     *)
(* away. The log poller delivers the log of a commit report after a delay  *)
(* and not necessarily in order. An execution the log poller has not seen  *)
(* yet is, for the oracle, an execution that has not happened yet, so the  *)
(* delay of these logs needs no state of its own.                          *)
(*                                                                         *)
(* The observation makes four reads; the chain moves between them. It is   *)
(* short against the intervals that the caches measure (an OCR phase takes *)
(* seconds, a snooze minutes), so the clock does not advance within it.    *)
(***************************************************************************)
EXTENDS Integers, FiniteSets

CONSTANTS
    Reports,                    \* commit reports, numbered in commit order
    Messages,                   \* report -> the messages under its merkle root
    MessageVisibilityInterval,  \* offchain config
    RootSnoozeTime,             \* offchain config
    EvictionGracePeriod,        \* one hour in the code
    LookbackGracePeriod,        \* 30 minutes in the code
    MaxFinalizedReports,        \* DefaultMaxCommitReportsToFetch (1000)
    MaxUnconfirmedReports,      \* MaxCommitReportsToFetch (250)
    LogDelay,                   \* the log poller's delay (environment bound)
    MaxAttempts,                \* executions of one message (environment bound)
    MaxTime,                    \* model bound
    MaxFaults                   \* failed reads, reorgs and restarts (model bound)

ASSUME CachesAssumption ==
    /\ Reports \subseteq Nat /\ IsFiniteSet(Reports)
    /\ \A r \in Reports : IsFiniteSet(Messages[r])
    /\ MessageVisibilityInterval \in Nat /\ RootSnoozeTime \in Nat
    /\ EvictionGracePeriod \in Nat
    /\ LookbackGracePeriod \in Nat
    /\ LogDelay \in 0..LookbackGracePeriod
    /\ MaxFinalizedReports \in Nat \ {0} /\ MaxUnconfirmedReports \in Nat \ {0}
    /\ MaxAttempts \in Nat \ {0} /\ MaxTime \in Nat /\ MaxFaults \in Nat

VARIABLES
    now,           \* the time, in the unit of the intervals
    final,         \* destination: blocks up to this time are final
    commitTime,    \* destination: report -> time of its block, 0 if not committed
    executions,    \* destination: the ExecutionStateChanged events
    indexed,       \* log poller: the committed reports it has delivered
    latest,        \* latestFinalizedReportTimestamp, 0 initially
    cached,        \* commit report cache: report -> timestamp and expiry
    executedUntil, \* executedRoots: report -> expiry of its entry, 0 if none
    snoozedUntil,  \* snoozedRoots: report -> expiry of its entry, 0 if none
    phase,         \* the next step of the observation
    candidates,    \* executableReports of the observation under way
    unconfirmed,   \* unconfirmedMessages of the observation under way
    pending,       \* the commit reports of the last observation
    faults,        \* failed reads, reorgs and restarts so far
    settledBefore, \* history: roots executed with finality when it began
    lastExecuted   \* history: report -> last time all its messages were executed

destVars == <<final, commitTime, executions, indexed>>
cacheVars == <<latest, cached, executedUntil, snoozedUntil>>
observationVars == <<phase, candidates, unconfirmed, pending>>
history == <<settledBefore, lastExecuted>>
vars == <<now, destVars, cacheVars, observationVars, faults, history>>

-----------------------------------------------------------------------------
HasRoots(r) == Messages[r] # {}
NotCached == [timestamp |-> 0, expires |-> 0]
MessageKeys == UNION {{r} \X Messages[r] : r \in Reports}

\* Executions of r's messages visible up to time t; no is their log order.
ExecutedBy(t) == {e.key : e \in {d \in executions : d.at <= t}}
FullyExecutedBy(t) == {r \in Reports : {r} \X Messages[r] \subseteq ExecutedBy(t)}

\* go-cache: an entry is found until its expiry has passed.
Found(until) == until # 0 /\ now <= until
CanExecute(r) == ~Found(snoozedUntil[r]) /\ ~Found(executedUntil[r])

\* Faulty variant: no lookback for late logs.
GetReportsToQueryFromTimestamp_NoLookback ==
    IF latest > now - MessageVisibilityInterval
    THEN latest ELSE now - MessageVisibilityInterval

GetReportsToQueryFromTimestamp ==
    LET queryFrom == now - MessageVisibilityInterval
        potentialQueryStart == latest - LookbackGracePeriod
    IN  IF latest # 0 /\ potentialQueryStart > queryFrom
        THEN potentialQueryStart ELSE queryFrom

GetCachedReports(from) ==
    {r \in Reports : Found(cached[r].expires) /\ cached[r].timestamp >= from}

Before(q, r) ==
    \/ commitTime[q] < commitTime[r]
    \/ commitTime[q] = commitTime[r] /\ q < r

\* Faulty variant: one report less than the limit.
FirstReports_OffByOne(S, limit) ==
    {r \in S : Cardinality({q \in S : Before(q, r)}) + 1 < limit}

\* Ascending by log order, the first limit of them.
FirstReports(S, limit) ==
    {r \in S : Cardinality({q \in S : Before(q, r)}) < limit}
CommitReportsGTETimestamp(from, to, limit) ==
    FirstReports({r \in indexed : commitTime[r] \in from..to}, limit)

\* The events of the reports in S up to time t, at most as many events as
\* there are sequence numbers in the ranges that are asked for.
ExecutedMessages(S, t) ==
    LET asked == UNION {{r} \X Messages[r] : r \in S}
        found == {e \in executions : e.key \in asked /\ e.at <= t}
    IN  {e.key : e \in {d \in found :
            Cardinality({c \in found : c.no <= d.no}) <= Cardinality(asked)}}

-----------------------------------------------------------------------------
Init ==
    /\ now = 1 /\ final = 0
    /\ commitTime = [r \in Reports |-> 0]
    /\ executions = {} /\ indexed = {}
    /\ latest = 0
    /\ cached = [r \in Reports |-> NotCached]
    /\ executedUntil = [r \in Reports |-> 0]
    /\ snoozedUntil = [r \in Reports |-> 0]
    /\ phase = "refresh" /\ candidates = {} /\ unconfirmed = {} /\ pending = {}
    /\ faults = 0
    /\ settledBefore = {} /\ lastExecuted = [r \in Reports |-> 0]

(* The destination chain and the log poller.                               *)

\* The log poller keeps its delay: time waits for a log that is due.
Tick ==
    /\ now < MaxTime /\ phase = "refresh"
    /\ \A r \in Reports \ indexed : commitTime[r] # 0 => now < commitTime[r] + LogDelay
    /\ now' = now + 1
    /\ lastExecuted' = [r \in Reports |->
          IF r \in FullyExecutedBy(now) THEN now + 1 ELSE lastExecuted[r]]
    /\ UNCHANGED <<destVars, cacheVars, observationVars, faults, settledBefore>>

Commit(r) ==
    /\ commitTime[r] = 0 /\ \A q \in Reports : q < r => commitTime[q] # 0
    /\ final < now
    /\ commitTime' = [commitTime EXCEPT ![r] = now]
    /\ UNCHANGED <<now, final, executions, indexed, cacheVars, observationVars,
                   faults, history>>

DeliverLog(r) ==
    /\ commitTime[r] # 0 /\ r \notin indexed
    /\ indexed' = indexed \cup {r}
    /\ UNCHANGED <<now, final, commitTime, executions, cacheVars, observationVars,
                   faults, history>>

\* An execution attempt, successful or not, emits an event; a message whose
\* attempt failed may be executed again manually.
Execute(k) ==
    /\ commitTime[k[1]] # 0 /\ final < now
    /\ Cardinality({e \in executions : e.key = k}) < MaxAttempts
    /\ executions' = executions \cup
          {[key |-> k, no |-> Cardinality(executions) + 1, at |-> now]}
    /\ lastExecuted' = [r \in Reports |->
          IF {r} \X Messages[r] \subseteq ExecutedBy(now) \cup {k}
          THEN now ELSE lastExecuted[r]]
    /\ UNCHANGED <<now, final, commitTime, indexed, cacheVars, observationVars,
                   faults, settledBefore>>

Finalize(t) ==
    /\ t > final /\ t <= now
    /\ final' = t
    /\ UNCHANGED <<now, commitTime, executions, indexed, cacheVars, observationVars,
                   faults, history>>

\* The blocks after t are replaced by others, without these transactions.
Reorg(t) ==
    /\ t >= final /\ t < now
    /\ faults < MaxFaults /\ faults' = faults + 1
    /\ commitTime' = [r \in Reports |-> IF commitTime[r] > t THEN 0 ELSE commitTime[r]]
    /\ indexed' = {r \in indexed : commitTime[r] <= t}
    /\ executions' = {e \in executions : e.at <= t}
    /\ <<commitTime', executions'>> # <<commitTime, executions>>
    /\ UNCHANGED <<now, final, cacheVars, observationVars, history>>

-----------------------------------------------------------------------------
(* The observation of the GetCommitReports state.                          *)

\* Faulty variants: the query for the cache does not wait for finality, and
\* the time of the refresh takes the place of the newest report's.
RefreshCache_Unconfirmed ==
    LET fetched == CommitReportsGTETimestamp(
                       GetReportsToQueryFromTimestamp, now, MaxFinalizedReports)
    IN  /\ latest' = latest
        /\ cached' = [r \in Reports |->
              IF r \in fetched /\ HasRoots(r)
              THEN [timestamp |-> commitTime[r],
                    expires |-> now + MessageVisibilityInterval + EvictionGracePeriod]
              ELSE cached[r]]
RefreshCache_Now ==
    latest' = now /\ UNCHANGED cached

\* RefreshCache; when its query fails the observation goes on without it.
RefreshCache ==
    LET fetched == CommitReportsGTETimestamp(
                       GetReportsToQueryFromTimestamp, final, MaxFinalizedReports)
        times == {commitTime[r] : r \in fetched} \cup {latest}
    IN  /\ latest' \in {t \in times : \A u \in times : t >= u}
        /\ cached' = [r \in Reports |->
              IF r \in fetched /\ HasRoots(r)
              THEN [timestamp |-> commitTime[r],
                    expires |-> now + MessageVisibilityInterval + EvictionGracePeriod]
              ELSE cached[r]]

StartObservation ==
    /\ phase = "refresh"
    /\ \/ RefreshCache /\ UNCHANGED faults
       \/ faults < MaxFaults /\ faults' = faults + 1 /\ UNCHANGED <<latest, cached>>
    /\ phase' = "query"
    /\ settledBefore' = FullyExecutedBy(final)
    /\ UNCHANGED <<now, destVars, executedUntil, snoozedUntil, candidates,
                   unconfirmed, pending, lastExecuted>>

\* The cached reports and the unconfirmed ones, deduplicated by root, without
\* the roots that are marked as executed or snoozed.
QueryReports ==
    /\ phase = "query"
    /\ LET reportsFromCache == GetCachedReports(now - MessageVisibilityInterval)
           unfinalizedIncrementReports == CommitReportsGTETimestamp(
               GetReportsToQueryFromTimestamp, now, MaxUnconfirmedReports)
       IN  candidates' = {r \in reportsFromCache \cup unfinalizedIncrementReports :
                              HasRoots(r) /\ CanExecute(r)}
    /\ phase' = "unconfirmed"
    /\ UNCHANGED <<now, destVars, cacheVars, unconfirmed, pending, faults, history>>

ReadUnconfirmed ==
    /\ phase = "unconfirmed"
    /\ unconfirmed' = ExecutedMessages(candidates, now)
    /\ phase' = "finalized"
    /\ UNCHANGED <<now, destVars, cacheVars, candidates, pending, faults, history>>

\* Faulty variants: unconfirmed executions count as final, finalised messages
\* are those not also read as unconfirmed, one executed message is enough.
fullyExecutedFinalized_Unconfirmed(finalized) ==
    {r \in candidates : {r} \X Messages[r] \subseteq finalized \cup unconfirmed}
fullyExecutedFinalized_Difference(finalized) ==
    {r \in candidates : {r} \X Messages[r] \subseteq finalized \ unconfirmed}
fullyExecutedUnfinalized_Partly(finalized) ==
    {r \in candidates : ({r} \X Messages[r]) \cap (unconfirmed \ finalized) # {}}

\* removeUnconfirmedAndFinalizedMessages: a root is executed when all of its
\* messages are final, snoozed when none is and all are executed.
fullyExecutedFinalized(finalized) ==
    {r \in candidates : {r} \X Messages[r] \subseteq finalized}
fullyExecutedUnfinalized(finalized) ==
    {r \in candidates \ fullyExecutedFinalized(finalized) :
        {r} \X Messages[r] \subseteq unconfirmed \ finalized}

\* Faulty variant: the visibility interval is left out of the expiry.
MarkAsExecuted_Grace(S) ==
    executedUntil' = [r \in Reports |->
        IF r \in S THEN now + EvictionGracePeriod ELSE executedUntil[r]]

MarkAsExecuted(S) ==
    executedUntil' = [r \in Reports |->
        IF r \in S THEN now + MessageVisibilityInterval + EvictionGracePeriod
        ELSE executedUntil[r]]
Snooze(S) ==
    snoozedUntil' = [r \in Reports |->
        IF r \in S THEN now + RootSnoozeTime ELSE snoozedUntil[r]]

ReadFinalized ==
    /\ phase = "finalized"
    /\ LET finalized == ExecutedMessages(candidates, final)
       IN  /\ MarkAsExecuted(fullyExecutedFinalized(finalized))
           /\ Snooze(fullyExecutedUnfinalized(finalized))
           /\ pending' = candidates \ (fullyExecutedFinalized(finalized)
                                       \cup fullyExecutedUnfinalized(finalized))
    /\ phase' = "refresh" /\ candidates' = {} /\ unconfirmed' = {}
    /\ UNCHANGED <<now, destVars, latest, cached, faults, history>>

\* A read fails, or the RMN curse stops the observation.
Abandon ==
    /\ phase # "refresh" /\ faults < MaxFaults
    /\ faults' = faults + 1
    /\ phase' = "refresh" /\ candidates' = {} /\ unconfirmed' = {} /\ pending' = {}
    /\ UNCHANGED <<now, destVars, cacheVars, history>>

\* "This cache will be re-initialized on each plugin restart."
Restart ==
    /\ faults < MaxFaults
    /\ faults' = faults + 1
    /\ latest' = 0
    /\ cached' = [r \in Reports |-> NotCached]
    /\ executedUntil' = [r \in Reports |-> 0]
    /\ snoozedUntil' = [r \in Reports |-> 0]
    /\ phase' = "refresh" /\ candidates' = {} /\ unconfirmed' = {} /\ pending' = {}
    /\ UNCHANGED <<now, destVars, history>>

Observe == StartObservation \/ QueryReports \/ ReadUnconfirmed \/ ReadFinalized

Next ==
    \/ Tick
    \/ \E r \in Reports : Commit(r) \/ DeliverLog(r)
    \/ \E k \in MessageKeys : Execute(k)
    \/ \E t \in 0..MaxTime : Finalize(t) \/ Reorg(t)
    \/ Observe \/ Abandon \/ Restart

Spec == Init /\ [][Next]_vars

-----------------------------------------------------------------------------
TypeOK ==
    /\ now \in 1..(MaxTime + 1) /\ final \in 0..now
    /\ commitTime \in [Reports -> 0..now]
    /\ executions \subseteq [key : MessageKeys, no : Nat \ {0}, at : 1..now]
    /\ IsFiniteSet(executions)
    /\ indexed \subseteq {r \in Reports : commitTime[r] # 0}
    /\ latest \in 0..final
    /\ cached \in [Reports -> [timestamp : Nat, expires : Nat]]
    /\ executedUntil \in [Reports -> Nat] /\ snoozedUntil \in [Reports -> Nat]
    /\ phase \in {"refresh", "query", "unconfirmed", "finalized"}
    /\ candidates \subseteq {r \in Reports : HasRoots(r)} /\ pending \subseteq Reports
    /\ unconfirmed \subseteq MessageKeys
    /\ faults \in Nat /\ settledBefore \subseteq Reports
    /\ lastExecuted \in [Reports -> 0..now]

Visible(r) == HasRoots(r) /\ commitTime[r] # 0
              /\ commitTime[r] >= now - MessageVisibilityInterval

\* What the commit report cache holds is what the destination chain will
\* always hold: no reorg removes a cached report or moves it to another block,
\* so the cache, which is never corrected, cannot go stale (RefreshCache asks
\* for finalised reports only; generateKey relies on it).
CachedReportsFinal ==
    \A r \in Reports : cached[r].expires # 0 =>
        cached[r].timestamp = commitTime[r] /\ commitTime[r] \in 1..final

\* No committed root falls between the two sources of an observation: while
\* its report is visible it is in the cache or inside the window of the query
\* for newer reports, whatever the limit of the query cut off, however late
\* its log came, and after a failed refresh or a restart.
NoReportPassedBy ==
    \A r \in Reports : Visible(r) =>
        \/ r \in GetCachedReports(now - MessageVisibilityInterval)
        \/ commitTime[r] >= GetReportsToQueryFromTimestamp

\* Only roots whose executions cannot be reorganised away are marked as
\* executed, although the executed messages are read twice and the chain moves
\* between the reads: a marked root is hidden for good.
ExecutedRootsFinal ==
    \A r \in Reports : executedUntil[r] # 0 => r \in FullyExecutedBy(final)

\* The mark of an executed root outlives the visibility of its commit report:
\* it is not looked at again before it leaves the window (the eviction grace
\* period in NewCommitRootsCache).
ExecutedRootsRemembered ==
    \A r \in Reports : executedUntil[r] # 0 /\ Visible(r) => ~CanExecute(r)

\* A snoozed root was fully executed on the destination at some moment of the
\* last rootSnoozeTime, although the executions are read twice and the chain
\* moves between the reads: when a reorg takes an execution back, its message
\* is hidden no longer than that (Snooze in commit_root_cache.go).
SnoozeBounded ==
    \A r \in Reports : Found(snoozedUntil[r]) =>
        now <= lastExecuted[r] + RootSnoozeTime

\* An observation does not offer a root whose messages were all executed with
\* finality before it began, even when a restart has emptied the caches.
SettledRootsNotOffered == phase = "refresh" => pending \cap settledBefore = {}

\* A refresh that works gets somewhere: it moves latestFinalizedReportTimestamp
\* forward, or every finalised report that is visible and delivered is cached.
\* The limit of the query makes it fetch the same reports over and over while
\* others wait only if that many lie within one lookback period (1000 reports
\* in 30 minutes).
RefreshProgresses ==
    [][ phase = "refresh" /\ phase' = "query" /\ faults' = faults =>
          \/ latest' > latest
          \/ \A r \in indexed : Visible(r) /\ commitTime[r] <= final =>
                 now <= cached'[r].expires
          \/ Cardinality({r \in indexed : commitTime[r] \in
                 (latest - LookbackGracePeriod)..latest}) >= MaxFinalizedReports ]_vars
==============================================================================

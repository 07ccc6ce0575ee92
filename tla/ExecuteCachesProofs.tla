------------------------- MODULE ExecuteCachesProofs -------------------------
(***************************************************************************)
(* ExecuteCaches for every number of reports, messages, attempts and       *)
(* faults and all intervals: what the caches hold is final, no report      *)
(* falls between the cache and the query window, executed roots are        *)
(* remembered as long as it matters and offered again only when a query    *)
(* was cut off, a snooze is bounded, and a refresh gets somewhere.         *)
(***************************************************************************)
EXTENDS ExecuteCaches, OracleConsensusProofs

-----------------------------------------------------------------------------
(* The inductive invariant.                                                *)

\* A cached report stays until it has left the visibility interval.
CachedLongEnough ==
    \A r \in Reports : cached[r].expires # 0 =>
        cached[r].expires >= commitTime[r] + MessageVisibilityInterval

\* The log poller keeps its delay.
LogsInTime ==
    \A r \in Reports : commitTime[r] # 0 /\ r \notin indexed =>
        now <= commitTime[r] + LogDelay

\* A visible report is cached or not older than the lookback from the latest.
NotPassedBy ==
    \A r \in Reports : Visible(r) =>
        \/ cached[r].expires # 0
        \/ latest = 0
        \/ commitTime[r] >= latest - LookbackGracePeriod

\* A message is executed after its root was committed.
ExecutedAfterCommit ==
    \A e \in executions : \A r \in Reports : e.key \in {r} \X Messages[r] =>
        commitTime[r] \in 1..e.at

\* The mark of an executed root lasts until its report is no longer visible.
MarkedLongEnough ==
    \A r \in Reports : executedUntil[r] # 0 /\ HasRoots(r) =>
        executedUntil[r] >= commitTime[r] + MessageVisibilityInterval

\* lastExecuted is up to date, as far as the observation under way knows too.
LastExecutedNow ==
    \A r \in Reports : HasRoots(r) /\ r \in FullyExecutedBy(now) => lastExecuted[r] = now
UnconfirmedNow ==
    phase = "finalized" => \A r \in candidates :
        {r} \X Messages[r] \subseteq unconfirmed => lastExecuted[r] = now

\* A snooze counts from a moment when all messages of the root were executed.
SnoozedFromExecution ==
    \A r \in Reports : snoozedUntil[r] # 0 =>
        snoozedUntil[r] <= lastExecuted[r] + RootSnoozeTime

CacheInv == CachedReportsFinal /\ CachedLongEnough /\ LogsInTime /\ NotPassedBy
MarkInv == ExecutedRootsFinal /\ ExecutedAfterCommit /\ MarkedLongEnough
SnoozeInv == LastExecutedNow /\ UnconfirmedNow /\ SnoozedFromExecution

IInv == TypeOK /\ CacheInv /\ MarkInv /\ SnoozeInv

-----------------------------------------------------------------------------
(* The queries.                                                            *)

LEMMA FetchedReports ==
    ASSUME NEW from \in Int, NEW to \in Int, NEW limit,
           NEW r \in CommitReportsGTETimestamp(from, to, limit)
    PROVE  r \in indexed /\ commitTime[r] \in from..to
  BY DEF CommitReportsGTETimestamp, FirstReports

\* The limit of the query cuts off the newest reports: one that is left out is
\* not older than any that is fetched.
LEMMA LimitCutsNewest ==
    ASSUME TypeOK, NEW from \in Int, NEW to \in Int, NEW limit \in Nat,
           NEW r \in indexed, commitTime[r] \in from..to,
           r \notin CommitReportsGTETimestamp(from, to, limit),
           NEW q \in CommitReportsGTETimestamp(from, to, limit)
    PROVE  commitTime[q] <= commitTime[r]
  <1> DEFINE S == {x \in indexed : commitTime[x] \in from..to}
  <1> DEFINE earlier(x) == {y \in S : Before(y, x)}
  <1>1. /\ Reports \subseteq Nat /\ S \subseteq Reports /\ r \in S /\ q \in S
        /\ commitTime \in [Reports -> Nat]
    <2>1. r \in S OBVIOUS
    <2>2. q \in S BY DEF CommitReportsGTETimestamp, FirstReports
    <2>3. indexed \subseteq Reports /\ commitTime \in [Reports -> Nat]
      BY DEF TypeOK
    <2> QED BY <2>1, <2>2, <2>3, CachesAssumption
  <1>2. IsFiniteSet(S) /\ IsFiniteSet(earlier(q))
    BY <1>1, CachesAssumption, FS_Subset
  <1>3. Cardinality(earlier(q)) < limit /\ ~(Cardinality(earlier(r)) < limit)
    BY <1>1 DEF CommitReportsGTETimestamp, FirstReports
  <1> SUFFICES ASSUME commitTime[r] < commitTime[q] PROVE FALSE
    BY <1>1
  <1>4. earlier(r) \subseteq earlier(q)
    <2> SUFFICES ASSUME NEW x \in S, Before(x, r) PROVE Before(x, q)
      OBVIOUS
    <2> QED BY <1>1 DEF Before
  <1>5. IsFiniteSet(earlier(r)) /\ Cardinality(earlier(r)) <= Cardinality(earlier(q))
    BY <1>2, <1>4, FS_Subset
  <1>6. Cardinality(earlier(r)) \in Nat /\ Cardinality(earlier(q)) \in Nat
    BY <1>2, <1>5, FS_CardinalityType
  <1> HIDE DEF earlier, S
  <1> QED BY <1>3, <1>5, <1>6

LEMMA QueryFromType ==
    ASSUME TypeOK
    PROVE  GetReportsToQueryFromTimestamp \in Int
  BY CachesAssumption DEF TypeOK, GetReportsToQueryFromTimestamp

\* What is read as executed up to t was executed by t.
LEMMA ReadIsExecuted ==
    ASSUME NEW S, NEW t
    PROVE  ExecutedMessages(S, t) \subseteq ExecutedBy(t)
  BY DEF ExecutedMessages, ExecutedBy

-----------------------------------------------------------------------------
(* The refresh.                                                            *)

\* The timestamp moves to the newest fetched report and never back.
LEMMA RefreshedLatest ==
    ASSUME TypeOK, RefreshCache,
           NEW fetched, fetched = CommitReportsGTETimestamp(
               GetReportsToQueryFromTimestamp, final, MaxFinalizedReports)
    PROVE  /\ latest' \in 0..final /\ latest' >= latest
           /\ \A q \in fetched : q \in indexed /\ commitTime[q] <= final
           /\ latest' # latest => \E q \in fetched : latest' = commitTime[q]
  <1>1. \A q \in fetched : q \in indexed /\ commitTime[q] <= final
    BY QueryFromType DEF CommitReportsGTETimestamp, FirstReports, TypeOK
  <1>2. latest' \in {commitTime[r] : r \in fetched} \cup {latest} /\ latest' >= latest
    BY DEF RefreshCache
  <1>3. indexed \subseteq Reports /\ commitTime \in [Reports -> Nat]
        /\ latest \in 0..final /\ final \in Nat
    BY DEF TypeOK
  <1> QED BY <1>1, <1>2, <1>3

\* cached' of a report.
LEMMA RefreshedCache ==
    ASSUME TypeOK, RefreshCache, NEW r \in Reports,
           NEW fetched, fetched = CommitReportsGTETimestamp(
               GetReportsToQueryFromTimestamp, final, MaxFinalizedReports)
    PROVE  /\ cached' \in [Reports -> [timestamp : Nat, expires : Nat]]
           /\ r \in fetched /\ HasRoots(r) =>
                 /\ cached'[r].timestamp = commitTime[r]
                 /\ cached'[r].expires =
                       now + MessageVisibilityInterval + EvictionGracePeriod
           /\ ~(r \in fetched /\ HasRoots(r)) => cached'[r] = cached[r]
  <1>1. \A q \in Reports : commitTime[q] \in Nat
                /\ cached[q] \in [timestamp : Nat, expires : Nat]
    BY DEF TypeOK
  <1>2. now + MessageVisibilityInterval + EvictionGracePeriod \in Nat
    BY CachesAssumption DEF TypeOK
  <1>3. cached' = [q \in Reports |->
              IF q \in fetched /\ HasRoots(q)
              THEN [timestamp |-> commitTime[q],
                    expires |-> now + MessageVisibilityInterval + EvictionGracePeriod]
              ELSE cached[q]]
    BY DEF RefreshCache
  <1> QED BY <1>1, <1>2, <1>3

-----------------------------------------------------------------------------
(* Type correctness.                                                       *)

LEMMA TypeInit == Init => TypeOK
  BY CachesAssumption, FS_EmptySet DEF Init, TypeOK, NotCached

LEMMA TypeStep ==
    ASSUME TypeOK, [Next]_vars
    PROVE  TypeOK'
  <1> USE DEF TypeOK
  <1>1. ASSUME Tick PROVE TypeOK'
    BY <1>1, CachesAssumption DEF Tick, destVars, cacheVars, observationVars
  <1>2. ASSUME NEW r \in Reports, Commit(r) PROVE TypeOK'
    BY <1>2 DEF Commit, cacheVars, observationVars, history
  <1>3. ASSUME NEW r \in Reports, DeliverLog(r) PROVE TypeOK'
    BY <1>3 DEF DeliverLog, cacheVars, observationVars, history
  <1>4. ASSUME NEW k \in MessageKeys, Execute(k) PROVE TypeOK'
    <2> DEFINE e == [key |-> k, no |-> Cardinality(executions) + 1, at |-> now]
    <2>1. executions' = executions \cup {e} /\ IsFiniteSet(executions')
      BY <1>4, FS_AddElement DEF Execute
    <2>2. e \in [key : MessageKeys, no : Nat \ {0}, at : 1..now]
      BY FS_CardinalityType
    <2>3. lastExecuted' \in [Reports -> 0..now]
      BY <1>4 DEF Execute
    <2>4. UNCHANGED <<now, final, commitTime, indexed, cacheVars, observationVars,
                      faults, settledBefore>>
      BY <1>4 DEF Execute
    <2> HIDE DEF e
    <2> QED BY <2>1, <2>2, <2>3, <2>4 DEF cacheVars, observationVars, MessageKeys
  <1>5. ASSUME NEW t \in 0..MaxTime, Finalize(t) PROVE TypeOK'
    BY <1>5, CachesAssumption DEF Finalize, cacheVars, observationVars, history
  <1>6. ASSUME NEW t \in 0..MaxTime, Reorg(t) PROVE TypeOK'
    <2>1. executions' \subseteq executions /\ IsFiniteSet(executions')
      BY <1>6, FS_Subset DEF Reorg
    <2>2. commitTime' = [r \in Reports |-> IF commitTime[r] > t THEN 0 ELSE commitTime[r]]
          /\ indexed' = {r \in indexed : commitTime[r] <= t}
      BY <1>6 DEF Reorg
    <2>3. commitTime' \in [Reports -> 0..now] BY <2>2
    <2>4. indexed' \subseteq {r \in Reports : commitTime'[r] # 0}
      <3> SUFFICES ASSUME NEW r \in indexed' PROVE r \in Reports /\ commitTime'[r] # 0
        OBVIOUS
      <3>1. r \in Reports /\ commitTime[r] # 0 /\ commitTime[r] <= t BY <2>2
      <3>2. commitTime[r] \in Nat /\ t \in Nat BY <3>1, CachesAssumption
      <3> QED BY <2>2, <3>1, <3>2
    <2>5. faults' \in Nat /\ UNCHANGED <<now, final, cacheVars, observationVars, history>>
      BY <1>6 DEF Reorg
    <2> QED BY <2>1, <2>3, <2>4, <2>5 DEF cacheVars, observationVars, history, MessageKeys
  <1>7. ASSUME StartObservation PROVE TypeOK'
    <2>1. /\ latest' \in 0..final
          /\ cached' \in [Reports -> [timestamp : Nat, expires : Nat]]
          /\ faults' \in Nat
      <3>1. CASE RefreshCache /\ UNCHANGED faults
        <4>1. cached' \in [Reports -> [timestamp : Nat, expires : Nat]]
          <5>1. \A q \in Reports : commitTime[q] \in Nat
                /\ cached[q] \in [timestamp : Nat, expires : Nat]
            OBVIOUS
          <5>2. now + MessageVisibilityInterval + EvictionGracePeriod \in Nat
            BY CachesAssumption
          <5> QED BY <3>1, <5>1, <5>2 DEF RefreshCache
        <4> QED BY <3>1, <4>1, RefreshedLatest
      <3> QED BY <1>7, <3>1 DEF StartObservation
    <2>2. /\ phase' = "query" /\ settledBefore' \subseteq Reports
          /\ UNCHANGED <<now, destVars, executedUntil, snoozedUntil, candidates,
                         unconfirmed, pending, lastExecuted>>
      BY <1>7 DEF StartObservation, FullyExecutedBy
    <2> QED BY <2>1, <2>2 DEF destVars, HasRoots, MessageKeys
  <1>8. ASSUME QueryReports PROVE TypeOK'
    <2>1. candidates' \subseteq {r \in Reports : HasRoots(r)}
      BY <1>8, QueryFromType
         DEF QueryReports, GetCachedReports, CommitReportsGTETimestamp, FirstReports
    <2>2. phase' = "unconfirmed" /\ UNCHANGED <<now, destVars, cacheVars, unconfirmed,
                                                pending, faults, history>>
      BY <1>8 DEF QueryReports
    <2> QED BY <2>1, <2>2 DEF destVars, cacheVars, history, HasRoots, MessageKeys
  <1>9. ASSUME ReadUnconfirmed PROVE TypeOK'
    <2>1. unconfirmed' \subseteq MessageKeys
      BY <1>9, ReadIsExecuted DEF ReadUnconfirmed, ExecutedBy
    <2>2. phase' = "finalized" /\ UNCHANGED <<now, destVars, cacheVars, candidates,
                                              pending, faults, history>>
      BY <1>9 DEF ReadUnconfirmed
    <2> QED BY <2>1, <2>2 DEF destVars, cacheVars, history, HasRoots, MessageKeys
  <1>10. ASSUME ReadFinalized PROVE TypeOK'
    <2>1. executedUntil' \in [Reports -> Nat] /\ snoozedUntil' \in [Reports -> Nat]
      BY <1>10, CachesAssumption DEF ReadFinalized, MarkAsExecuted, Snooze
    <2>2. pending' \subseteq Reports
      BY <1>10 DEF ReadFinalized
    <2>3. /\ phase' = "refresh" /\ candidates' = {} /\ unconfirmed' = {}
          /\ UNCHANGED <<now, destVars, latest, cached, faults, history>>
      BY <1>10 DEF ReadFinalized
    <2> QED BY <2>1, <2>2, <2>3 DEF destVars, history, HasRoots, MessageKeys
  <1>11. ASSUME Abandon PROVE TypeOK'
    BY <1>11 DEF Abandon, destVars, cacheVars, history
  <1>12. ASSUME Restart PROVE TypeOK'
    BY <1>12 DEF Restart, destVars, history, NotCached
  <1>13. ASSUME UNCHANGED vars PROVE TypeOK'
    BY <1>13 DEF vars, destVars, cacheVars, observationVars, history, MessageKeys, HasRoots
  <1> QED BY <1>1, <1>2, <1>3, <1>4, <1>5, <1>6, <1>7, <1>8, <1>9, <1>10, <1>11, <1>12,
             <1>13 DEF Next, Observe

-----------------------------------------------------------------------------
(* The commit report cache.                                                *)

LEMMA CacheInit == Init => CacheInv
  BY CachesAssumption DEF Init, CacheInv, CachedReportsFinal, CachedLongEnough, LogsInTime,
      NotPassedBy, NotCached

\* A refresh leaves no visible report behind: one that is not fetched had not
\* been delivered yet, is not final, was cut off by the limit, or lies before
\* the window, and then it is cached.
LEMMA CacheRefresh ==
    ASSUME TypeOK, CacheInv, RefreshCache,
           UNCHANGED <<now, final, commitTime, indexed>>
    PROVE  CacheInv'
  <1> DEFINE from == GetReportsToQueryFromTimestamp
             fetched == CommitReportsGTETimestamp(from, final, MaxFinalizedReports)
  <1>1. /\ latest' \in 0..final /\ latest' >= latest
        /\ \A q \in fetched : q \in indexed /\ commitTime[q] <= final
        /\ latest' # latest => \E q \in fetched : latest' = commitTime[q]
    BY RefreshedLatest
  <1>2. \A r \in Reports :
           /\ r \in fetched /\ HasRoots(r) =>
                 /\ cached'[r].timestamp = commitTime[r]
                 /\ cached'[r].expires =
                       now + MessageVisibilityInterval + EvictionGracePeriod
           /\ ~(r \in fetched /\ HasRoots(r)) => cached'[r] = cached[r]
    BY RefreshedCache
  <1>3. /\ now \in Nat \ {0} /\ final \in 0..now /\ latest \in 0..final
        /\ \A r \in Reports : commitTime[r] \in 0..now
        /\ \A r \in indexed : r \in Reports /\ commitTime[r] # 0
        /\ \A r \in Reports : cached[r].expires \in Nat
    BY DEF TypeOK
  <1>4. /\ MessageVisibilityInterval \in Nat /\ EvictionGracePeriod \in Nat
        /\ LookbackGracePeriod \in Nat /\ LogDelay \in 0..LookbackGracePeriod
        /\ MaxFinalizedReports \in Nat
    BY CachesAssumption
  <1>5. from \in Int BY QueryFromType
  <1> HIDE DEF from, fetched
  <1>6. CachedReportsFinal' /\ CachedLongEnough'
    <2> SUFFICES ASSUME NEW r \in Reports, cached'[r].expires # 0
                 PROVE  /\ cached'[r].timestamp = commitTime[r] /\ commitTime[r] \in 1..final
                        /\ cached'[r].expires >= commitTime[r] + MessageVisibilityInterval
      BY DEF CachedReportsFinal, CachedLongEnough
    <2>1. CASE r \in fetched /\ HasRoots(r)
      <3>1. cached'[r].timestamp = commitTime[r]
            /\ cached'[r].expires = now + MessageVisibilityInterval + EvictionGracePeriod
        BY <2>1, <1>2
      <3>2. commitTime[r] \in 1..final /\ commitTime[r] <= now BY <2>1, <1>1, <1>3
      <3> QED BY <3>1, <3>2, <1>3, <1>4
    <2>2. CASE ~(r \in fetched /\ HasRoots(r))
      BY <2>2, <1>2 DEF CacheInv, CachedReportsFinal, CachedLongEnough
    <2> QED BY <2>1, <2>2
  <1>7. LogsInTime'
    BY DEF CacheInv, LogsInTime
  <1>8. NotPassedBy'
    <2> SUFFICES ASSUME NEW r \in Reports, Visible(r), cached'[r].expires = 0
                 PROVE  latest' = 0 \/ commitTime[r] >= latest' - LookbackGracePeriod
      BY DEF NotPassedBy, Visible
    <2>1. HasRoots(r) /\ commitTime[r] # 0
          /\ commitTime[r] >= now - MessageVisibilityInterval
      BY DEF Visible
    <2>2. r \notin fetched
      <3> SUFFICES ASSUME r \in fetched PROVE FALSE
        OBVIOUS
      <3>1. cached'[r].expires = now + MessageVisibilityInterval + EvictionGracePeriod
        BY <2>1, <1>2
      <3>2. /\ now \in Nat \ {0}
            /\ MessageVisibilityInterval \in Nat /\ EvictionGracePeriod \in Nat
        BY <1>3, <1>4
      <3>3. now + MessageVisibilityInterval + EvictionGracePeriod # 0 BY <3>2
      <3> QED BY <3>1, <3>3
    <2>3. cached[r].expires = 0 BY <2>2, <1>2
    <2>4. latest = 0 \/ commitTime[r] >= latest - LookbackGracePeriod
      BY <2>3 DEF CacheInv, NotPassedBy
    <2>5. CASE latest' = latest BY <2>4, <2>5
    <2>6. CASE latest' # latest
      <3>1. PICK q \in fetched : latest' = commitTime[q] BY <1>1, <2>6
      <3>2. CASE r \notin indexed
        <4>1. now <= commitTime[r] + LogDelay BY <3>2, <2>1 DEF CacheInv, LogsInTime
        <4> QED BY <4>1, <1>1, <1>3, <1>4
      <3>3. CASE r \in indexed /\ commitTime[r] > final
        BY <3>3, <1>1, <1>3, <1>4
      <3>4. CASE r \in indexed /\ commitTime[r] <= final
        <4>1. commitTime[r] >= from
          BY <2>1, <2>4, <1>3, <1>4 DEF GetReportsToQueryFromTimestamp, from
        <4>2. commitTime[r] \in from..final BY <4>1, <3>4, <1>3, <1>5
        <4>3. commitTime[q] <= commitTime[r]
          BY <4>2, <3>4, <2>2, <3>1, <1>3, <1>4, <1>5, LimitCutsNewest DEF fetched
        <4> QED BY <4>3, <3>1, <1>1, <1>3, <1>4
      <3> QED BY <3>2, <3>3, <3>4, <1>3
    <2> QED BY <2>5, <2>6
  <1> QED BY <1>6, <1>7, <1>8 DEF CacheInv

LEMMA CacheStep ==
    ASSUME TypeOK, CacheInv, [Next]_vars
    PROVE  CacheInv'
  <1> USE DEF CacheInv, CachedReportsFinal, CachedLongEnough, LogsInTime, NotPassedBy, Visible
  <1>0. /\ now \in Nat /\ final \in 0..now /\ latest \in 0..final
        /\ commitTime \in [Reports -> 0..now]
        /\ \A r \in indexed : r \in Reports /\ commitTime[r] # 0
        /\ MessageVisibilityInterval \in Nat /\ LookbackGracePeriod \in Nat /\ LogDelay \in Nat
        /\ MaxTime \in Nat
    BY CachesAssumption DEF TypeOK
  <1>1. ASSUME Tick PROVE CacheInv'
    <2>1. now' = now + 1 /\ UNCHANGED <<final, commitTime, indexed, latest, cached>>
          /\ \A r \in Reports \ indexed : commitTime[r] # 0 => now < commitTime[r] + LogDelay
      BY <1>1 DEF Tick, destVars, cacheVars
    <2>2. LogsInTime' BY <2>1, <1>0
    <2>3. NotPassedBy'
      <3> SUFFICES ASSUME NEW r \in Reports, Visible(r)' PROVE Visible(r)
        BY <2>1, <1>0 DEF HasRoots
      <3> QED BY <2>1, <1>0 DEF HasRoots
    <2> QED BY <2>1, <2>2, <2>3
  <1>2. ASSUME NEW r \in Reports, Commit(r) PROVE CacheInv'
    <2>1. /\ commitTime[r] = 0 /\ commitTime' = [commitTime EXCEPT ![r] = now]
          /\ UNCHANGED <<now, final, indexed, latest, cached>>
      BY <1>2 DEF Commit, cacheVars
    <2>2. cached[r].expires = 0 BY <2>1, <1>0
    <2> QED BY <2>1, <2>2, <1>0 DEF HasRoots
  <1>3. ASSUME NEW r \in Reports, DeliverLog(r) PROVE CacheInv'
    BY <1>3, <1>0 DEF DeliverLog, cacheVars, HasRoots
  <1>4. ASSUME NEW k \in MessageKeys, Execute(k) PROVE CacheInv'
    BY <1>4 DEF Execute, cacheVars, HasRoots
  <1>5. ASSUME NEW t \in 0..MaxTime, Finalize(t) PROVE CacheInv'
    BY <1>5, <1>0 DEF Finalize, cacheVars, HasRoots
  <1>6. ASSUME NEW t \in 0..MaxTime, Reorg(t) PROVE CacheInv'
    <2>1. /\ t >= final /\ indexed' = {r \in indexed : commitTime[r] <= t}
          /\ commitTime' = [r \in Reports |-> IF commitTime[r] > t THEN 0 ELSE commitTime[r]]
          /\ UNCHANGED <<now, final, latest, cached>>
      BY <1>6 DEF Reorg, cacheVars
    <2>2. \A r \in Reports : /\ commitTime'[r] # 0 => commitTime'[r] = commitTime[r]
                             /\ commitTime[r] <= t => commitTime'[r] = commitTime[r]
                             /\ commitTime[r] > t => commitTime'[r] = 0
      BY <2>1, <1>0
    <2>3. \A r \in Reports : cached[r].expires # 0 => commitTime'[r] = commitTime[r]
      BY <2>1, <2>2, <1>0
    <2>4. CachedReportsFinal' /\ CachedLongEnough' BY <2>1, <2>3
    <2>5. LogsInTime'
      <3> SUFFICES ASSUME NEW r \in Reports, commitTime'[r] # 0, r \notin indexed'
                   PROVE  now <= commitTime'[r] + LogDelay
        BY <2>1
      <3> QED BY <2>1, <2>2, <1>0
    <2>6. NotPassedBy' BY <2>1, <2>2 DEF HasRoots
    <2> QED BY <2>4, <2>5, <2>6
  <1>7. ASSUME StartObservation PROVE CacheInv'
    <2>1. UNCHANGED <<now, final, commitTime, indexed>>
          /\ (RefreshCache \/ UNCHANGED <<latest, cached>>)
      BY <1>7 DEF StartObservation, destVars
    <2>2. CASE RefreshCache BY <2>1, <2>2, CacheRefresh
    <2>3. CASE UNCHANGED <<latest, cached>> BY <2>1, <2>3 DEF HasRoots
    <2> QED BY <2>1, <2>2, <2>3
  <1>8. ASSUME QueryReports \/ ReadUnconfirmed \/ ReadFinalized \/ Abandon \/ UNCHANGED vars
        PROVE  CacheInv'
    BY <1>8 DEF QueryReports, ReadUnconfirmed, ReadFinalized, Abandon, vars, destVars,
                cacheVars, HasRoots
  <1>9. ASSUME Restart PROVE CacheInv'
    BY <1>9, <1>0 DEF Restart, destVars, NotCached, HasRoots
  <1> QED BY <1>1, <1>2, <1>3, <1>4, <1>5, <1>6, <1>7, <1>8, <1>9 DEF Next, Observe

LEMMA CacheFacts ==
    ASSUME TypeOK, CacheInv
    PROVE  NoReportPassedBy
  <1> SUFFICES ASSUME NEW r \in Reports, Visible(r)
               PROVE  \/ r \in GetCachedReports(now - MessageVisibilityInterval)
                      \/ commitTime[r] >= GetReportsToQueryFromTimestamp
    BY DEF NoReportPassedBy
  <1>1. /\ now \in Nat /\ latest \in Nat /\ commitTime[r] \in Nat
        /\ cached[r].expires \in Nat
        /\ MessageVisibilityInterval \in Nat /\ LookbackGracePeriod \in Nat
    BY CachesAssumption DEF TypeOK
  <1>2. commitTime[r] >= now - MessageVisibilityInterval BY DEF Visible
  <1>3. CASE cached[r].expires # 0
    <2>1. cached[r].timestamp = commitTime[r]
          /\ cached[r].expires >= commitTime[r] + MessageVisibilityInterval
      BY <1>3 DEF CacheInv, CachedReportsFinal, CachedLongEnough
    <2>2. now <= cached[r].expires BY <2>1, <1>1, <1>2
    <2> QED BY <2>1, <2>2, <1>2, <1>3 DEF GetCachedReports, Found
  <1>4. CASE cached[r].expires = 0
    <2>1. latest = 0 \/ commitTime[r] >= latest - LookbackGracePeriod
      BY <1>4 DEF CacheInv, NotPassedBy
    <2> QED BY <2>1, <1>1, <1>2 DEF GetReportsToQueryFromTimestamp
  <1> QED BY <1>3, <1>4

-----------------------------------------------------------------------------
(* The marks of executed roots.                                            *)

LEMMA MarkInit == Init => MarkInv
  BY DEF Init, MarkInv, ExecutedRootsFinal, ExecutedAfterCommit, MarkedLongEnough

LEMMA ExecutedIsCommitted ==
    ASSUME TypeOK, ExecutedAfterCommit, NEW t, NEW r \in FullyExecutedBy(t), HasRoots(r)
    PROVE  commitTime[r] # 0
  <1>1. PICK m \in Messages[r] : TRUE BY DEF HasRoots
  <1>2. <<r, m>> \in ExecutedBy(t) /\ r \in Reports BY <1>1 DEF FullyExecutedBy
  <1>3. PICK e \in executions : e.key = <<r, m>> BY <1>2 DEF ExecutedBy
  <1>4. e.at \in Nat BY <1>3 DEF TypeOK
  <1> QED BY <1>2, <1>3, <1>4 DEF ExecutedAfterCommit

\* Executions that are final survive whatever the chain does.
LEMMA FinalExecutionsStay ==
    ASSUME NEW r \in FullyExecutedBy(final), final' \in Int, final \in Int, final' >= final,
           \A e \in executions : e.at \in Int /\ (e.at <= final => e \in executions')
    PROVE  r \in FullyExecutedBy(final)'
  <1>1. ExecutedBy(final) \subseteq ExecutedBy(final)'
    BY DEF ExecutedBy
  <1> QED BY <1>1 DEF FullyExecutedBy

LEMMA MarkStep ==
    ASSUME TypeOK, MarkInv, [Next]_vars
    PROVE  MarkInv'
  <1> USE DEF MarkInv, ExecutedRootsFinal, ExecutedAfterCommit, MarkedLongEnough
  <1>0. /\ now \in Nat /\ final \in 0..now /\ commitTime \in [Reports -> 0..now]
        /\ executedUntil \in [Reports -> Nat]
        /\ \A e \in executions : e.at \in 1..now
        /\ MessageVisibilityInterval \in Nat /\ EvictionGracePeriod \in Nat /\ MaxTime \in Nat
    BY CachesAssumption DEF TypeOK
  <1>1. ASSUME NEW r \in Reports, Commit(r) PROVE MarkInv'
    <2>1. /\ commitTime[r] = 0 /\ commitTime' = [commitTime EXCEPT ![r] = now]
          /\ UNCHANGED <<now, final, executions, executedUntil>>
      BY <1>1 DEF Commit, cacheVars
    <2>2. ExecutedRootsFinal' BY <2>1 DEF FullyExecutedBy, ExecutedBy
    <2>3. ExecutedAfterCommit' BY <2>1, <1>0
    <2>4. HasRoots(r) => executedUntil[r] = 0
      BY <2>1, ExecutedIsCommitted
    <2>5. MarkedLongEnough' BY <2>1, <2>4, <1>0 DEF HasRoots
    <2> QED BY <2>2, <2>3, <2>5
  <1>2. ASSUME NEW k \in MessageKeys, Execute(k) PROVE MarkInv'
    <2> DEFINE e == [key |-> k, no |-> Cardinality(executions) + 1, at |-> now]
    <2>1. /\ executions' = executions \cup {e} /\ commitTime[k[1]] # 0
          /\ UNCHANGED <<now, final, commitTime, executedUntil>>
      BY <1>2 DEF Execute, cacheVars
    <2>2. ExecutedRootsFinal' BY <2>1, <1>0, FinalExecutionsStay
    <2>3. ExecutedAfterCommit'
      <3> SUFFICES ASSUME NEW r \in Reports, k \in {r} \X Messages[r]
                   PROVE  commitTime[r] \in 1..now
        BY <2>1
      <3>1. k[1] = r OBVIOUS
      <3> QED BY <2>1, <3>1, <1>0
    <2> QED BY <2>1, <2>2, <2>3 DEF HasRoots
  <1>3. ASSUME NEW t \in 0..MaxTime, Finalize(t) PROVE MarkInv'
    <2>1. t > final /\ final' = t /\ UNCHANGED <<now, commitTime, executions, executedUntil>>
      BY <1>3 DEF Finalize, cacheVars
    <2>2. ExecutedRootsFinal' BY <2>1, <1>0, FinalExecutionsStay
    <2> QED BY <2>1, <2>2 DEF HasRoots
  <1>4. ASSUME NEW t \in 0..MaxTime, Reorg(t) PROVE MarkInv'
    <2>1. /\ t >= final /\ executions' = {e \in executions : e.at <= t}
          /\ commitTime' = [r \in Reports |-> IF commitTime[r] > t THEN 0 ELSE commitTime[r]]
          /\ UNCHANGED <<now, final, executedUntil>>
      BY <1>4 DEF Reorg, cacheVars
    <2>2. ExecutedRootsFinal' BY <2>1, <1>0, FinalExecutionsStay
    <2>3. ExecutedAfterCommit' BY <2>1, <1>0
    <2>4. MarkedLongEnough' BY <2>1, <1>0 DEF HasRoots
    <2> QED BY <2>2, <2>3, <2>4
  <1>5. ASSUME ReadFinalized PROVE MarkInv'
    <2>1. PICK S :
             /\ S = fullyExecutedFinalized(ExecutedMessages(candidates, final))
             /\ executedUntil' = [r \in Reports |->
                   IF r \in S THEN now + MessageVisibilityInterval + EvictionGracePeriod
                   ELSE executedUntil[r]]
             /\ UNCHANGED <<now, final, commitTime, executions>>
      BY <1>5 DEF ReadFinalized, MarkAsExecuted, destVars
    <2>2. \A r \in S : r \in FullyExecutedBy(final)
      <3> SUFFICES ASSUME NEW r \in S PROVE r \in FullyExecutedBy(final) OBVIOUS
      <3>1. r \in candidates /\ {r} \X Messages[r] \subseteq ExecutedMessages(candidates, final)
        BY <2>1 DEF fullyExecutedFinalized
      <3>2. ExecutedMessages(candidates, final) \subseteq ExecutedBy(final)
        BY ReadIsExecuted
      <3> QED BY <3>1, <3>2 DEF FullyExecutedBy, TypeOK
    <2>3. ExecutedRootsFinal' BY <2>1, <2>2 DEF FullyExecutedBy, ExecutedBy
    <2>4. ExecutedAfterCommit' BY <2>1
    <2>5. MarkedLongEnough' BY <2>1, <1>0 DEF HasRoots
    <2> QED BY <2>3, <2>4, <2>5
  <1>6. ASSUME \/ Tick \/ \E r \in Reports : DeliverLog(r)
               \/ StartObservation \/ QueryReports \/ ReadUnconfirmed \/ Abandon
               \/ UNCHANGED vars
        PROVE  MarkInv'
    <2>1. UNCHANGED <<final, commitTime, executions, executedUntil>>
      BY <1>6 DEF Tick, DeliverLog, StartObservation, QueryReports, ReadUnconfirmed, Abandon,
                  vars, destVars, cacheVars
    <2> QED BY <2>1 DEF FullyExecutedBy, ExecutedBy, HasRoots
  <1>7. ASSUME Restart PROVE MarkInv'
    BY <1>7 DEF Restart, destVars
  <1> QED BY <1>1, <1>2, <1>3, <1>4, <1>5, <1>6, <1>7 DEF Next, Observe

LEMMA MarkFacts ==
    ASSUME TypeOK, MarkInv
    PROVE  ExecutedRootsRemembered
  <1> SUFFICES ASSUME NEW r \in Reports, executedUntil[r] # 0, Visible(r)
               PROVE  Found(executedUntil[r])
    BY DEF ExecutedRootsRemembered, CanExecute
  <1>1. /\ now \in Nat /\ commitTime[r] \in Nat /\ executedUntil[r] \in Nat
        /\ MessageVisibilityInterval \in Nat
    BY CachesAssumption DEF TypeOK
  <1>2. HasRoots(r) /\ commitTime[r] >= now - MessageVisibilityInterval
    BY DEF Visible
  <1>3. executedUntil[r] >= commitTime[r] + MessageVisibilityInterval
    BY <1>2 DEF MarkInv, MarkedLongEnough
  <1> QED BY <1>1, <1>2, <1>3 DEF Found

-----------------------------------------------------------------------------
(* Snoozed roots.                                                          *)

LEMMA SnoozeInit == Init => SnoozeInv
  <1> SUFFICES ASSUME Init PROVE SnoozeInv OBVIOUS
  <1>1. LastExecutedNow
    <2>1. ExecutedBy(now) = {} BY DEF Init, ExecutedBy
    <2> SUFFICES ASSUME NEW r \in Reports, HasRoots(r), r \in FullyExecutedBy(now)
                 PROVE  FALSE
      BY DEF LastExecutedNow
    <2>2. PICK m \in Messages[r] : TRUE BY DEF HasRoots
    <2>3. <<r, m>> \in ExecutedBy(now) BY <2>2 DEF FullyExecutedBy
    <2> QED BY <2>1, <2>3
  <1> QED BY <1>1 DEF Init, SnoozeInv, UnconfirmedNow, SnoozedFromExecution

\* An execution the chain holds has happened by now.
LEMMA ExecutedByNow ==
    ASSUME TypeOK, NEW t \in Int, t >= now
    PROVE  ExecutedBy(t) = {e.key : e \in executions}
  BY DEF TypeOK, ExecutedBy

LEMMA SnoozeStep ==
    ASSUME TypeOK, TypeOK', SnoozeInv, [Next]_vars
    PROVE  SnoozeInv'
  <1> USE DEF SnoozeInv, LastExecutedNow, UnconfirmedNow, SnoozedFromExecution
  <1>0. /\ now \in Nat /\ RootSnoozeTime \in Nat /\ candidates \subseteq Reports
        /\ lastExecuted \in [Reports -> 0..now]
        /\ snoozedUntil \in [Reports -> Nat]
    BY CachesAssumption DEF TypeOK
  <1>e. /\ ExecutedBy(now) = {e.key : e \in executions}
        /\ ExecutedBy(now)' = {e.key : e \in executions'}
    <2>1. ExecutedBy(now) = {e.key : e \in executions} BY <1>0, ExecutedByNow
    <2>2. \A e \in executions' : e.at <= now' BY DEF TypeOK
    <2> QED BY <2>1, <2>2 DEF ExecutedBy
  <1>1. ASSUME Tick PROVE SnoozeInv'
    <2>1. /\ now' = now + 1 /\ phase' = "refresh"
          /\ lastExecuted' = [r \in Reports |->
                IF r \in FullyExecutedBy(now) THEN now + 1 ELSE lastExecuted[r]]
          /\ UNCHANGED <<executions, snoozedUntil>>
      BY <1>1 DEF Tick, destVars, cacheVars, observationVars
    <2>2. FullyExecutedBy(now)' = FullyExecutedBy(now)
      BY <1>e, <2>1 DEF FullyExecutedBy
    <2>3. LastExecutedNow' BY <2>1, <2>2 DEF HasRoots
    <2>4. SnoozedFromExecution' BY <2>1, <1>0
    <2> QED BY <2>1, <2>3, <2>4
  <1>2. ASSUME NEW k \in MessageKeys, Execute(k) PROVE SnoozeInv'
    <2>1. /\ executions' = executions \cup
                {[key |-> k, no |-> Cardinality(executions) + 1, at |-> now]}
          /\ lastExecuted' = [r \in Reports |->
                IF {r} \X Messages[r] \subseteq ExecutedBy(now) \cup {k}
                THEN now ELSE lastExecuted[r]]
          /\ UNCHANGED <<now, snoozedUntil, phase, candidates, unconfirmed>>
      BY <1>2 DEF Execute, cacheVars, observationVars
    <2>2. ExecutedBy(now)' = ExecutedBy(now) \cup {k}
      <3> DEFINE e == [key |-> k, no |-> Cardinality(executions) + 1, at |-> now]
      <3>1. executions' = executions \cup {e} BY <2>1
      <3>2. e.key = k OBVIOUS
      <3> HIDE DEF e
      <3>3. {d.key : d \in executions \cup {e}} = {d.key : d \in executions} \cup {k}
        BY <3>2
      <3> QED BY <1>e, <3>1, <3>3
    <2>3. LastExecutedNow' BY <2>1, <2>2 DEF FullyExecutedBy
    <2>4. UnconfirmedNow' BY <2>1, <1>0
    <2>5. SnoozedFromExecution' BY <2>1, <1>0
    <2> QED BY <2>3, <2>4, <2>5
  <1>3. ASSUME NEW t \in 0..MaxTime, Reorg(t) PROVE SnoozeInv'
    <2>1. /\ executions' \subseteq executions
          /\ UNCHANGED <<now, lastExecuted, snoozedUntil, phase, candidates, unconfirmed>>
      BY <1>3 DEF Reorg, cacheVars, observationVars, history
    <2>2. FullyExecutedBy(now)' \subseteq FullyExecutedBy(now)
      BY <1>e, <2>1 DEF FullyExecutedBy
    <2> QED BY <2>1, <2>2 DEF HasRoots
  <1>4. ASSUME ReadUnconfirmed PROVE SnoozeInv'
    <2>1. /\ unconfirmed' = ExecutedMessages(candidates, now)
          /\ UNCHANGED <<now, executions, lastExecuted, snoozedUntil, candidates>>
      BY <1>4 DEF ReadUnconfirmed, destVars, cacheVars, history
    <2>2. ExecutedMessages(candidates, now) \subseteq ExecutedBy(now)
      BY ReadIsExecuted
    <2>3. UnconfirmedNow'
      <3> SUFFICES ASSUME NEW r \in candidates, {r} \X Messages[r] \subseteq unconfirmed'
                   PROVE  lastExecuted[r] = now
        BY <2>1
      <3>1. r \in FullyExecutedBy(now) BY <2>1, <2>2, <1>0 DEF FullyExecutedBy
      <3>2. r \in Reports /\ HasRoots(r) BY DEF TypeOK
      <3> QED BY <3>1, <3>2
    <2> QED BY <2>1, <2>3 DEF HasRoots, FullyExecutedBy, ExecutedBy
  <1>5. ASSUME ReadFinalized PROVE SnoozeInv'
    <2>1. PICK S :
             /\ S = fullyExecutedUnfinalized(ExecutedMessages(candidates, final))
             /\ snoozedUntil' = [r \in Reports |->
                   IF r \in S THEN now + RootSnoozeTime ELSE snoozedUntil[r]]
             /\ phase = "finalized" /\ phase' = "refresh"
             /\ UNCHANGED <<now, executions, lastExecuted>>
      BY <1>5 DEF ReadFinalized, Snooze, destVars, history
    <2>2. \A r \in S : lastExecuted[r] = now
      BY <2>1 DEF fullyExecutedUnfinalized
    <2>3. SnoozedFromExecution' BY <2>1, <2>2, <1>0
    <2> QED BY <2>1, <2>3 DEF HasRoots, FullyExecutedBy, ExecutedBy
  <1>6. ASSUME \/ \E r \in Reports : Commit(r) \/ DeliverLog(r)
               \/ \E t \in 0..MaxTime : Finalize(t)
               \/ UNCHANGED vars
        PROVE  SnoozeInv'
    <2>1. UNCHANGED <<now, executions, lastExecuted, snoozedUntil, phase, candidates,
                      unconfirmed>>
      BY <1>6 DEF Commit, DeliverLog, Finalize, vars, destVars, cacheVars, observationVars,
                  history
    <2> QED BY <2>1 DEF HasRoots, FullyExecutedBy, ExecutedBy
  <1>7. ASSUME StartObservation \/ QueryReports \/ Abandon PROVE SnoozeInv'
    <2>1. phase' # "finalized" /\ UNCHANGED <<now, executions, lastExecuted, snoozedUntil>>
      BY <1>7 DEF StartObservation, QueryReports, Abandon, destVars, cacheVars, history
    <2> QED BY <2>1 DEF HasRoots, FullyExecutedBy, ExecutedBy
  <1>8. ASSUME Restart PROVE SnoozeInv'
    <2>1. /\ phase' # "finalized" /\ UNCHANGED <<now, executions, lastExecuted>>
          /\ snoozedUntil' = [r \in Reports |-> 0]
      BY <1>8 DEF Restart, destVars, history
    <2> QED BY <2>1 DEF HasRoots, FullyExecutedBy, ExecutedBy
  <1> QED BY <1>1, <1>2, <1>3, <1>4, <1>5, <1>6, <1>7, <1>8 DEF Next, Observe

LEMMA SnoozeFacts ==
    ASSUME TypeOK, SnoozeInv
    PROVE  SnoozeBounded
  <1> SUFFICES ASSUME NEW r \in Reports, Found(snoozedUntil[r])
               PROVE  now <= lastExecuted[r] + RootSnoozeTime
    BY DEF SnoozeBounded
  <1>1. now \in Nat /\ lastExecuted[r] \in Nat /\ RootSnoozeTime \in Nat
        /\ snoozedUntil[r] \in Nat
    BY CachesAssumption DEF TypeOK
  <1>2. now <= snoozedUntil[r] /\ snoozedUntil[r] <= lastExecuted[r] + RootSnoozeTime
    BY DEF Found, SnoozeInv, SnoozedFromExecution
  <1> QED BY <1>1, <1>2

-----------------------------------------------------------------------------
(* Roots that are settled.                                                 *)

\* What was final when the observation began is still final.
SettledIsFinal == phase # "refresh" => settledBefore \subseteq FullyExecutedBy(final)

\* ExecutedMessages leaves events out only if there are more of them than
\* sequence numbers it is asked for: a message has several when an execution
\* of it failed and was repeated.
Asked(S) == UNION {{r} \X Messages[r] : r \in S}
Events(S, t) == {e \in executions : e.key \in Asked(S) /\ e.at <= t}
EventsCutOff(S, t) == Cardinality(Events(S, t)) > Cardinality(Asked(S))

LEMMA AskedFinite ==
    ASSUME NEW S \in SUBSET Reports
    PROVE  IsFiniteSet(Asked(S))
  <1> DEFINE parts == {{r} \X Messages[r] : r \in S}
             part == [r \in S |-> {r} \X Messages[r]]
  <1>1. IsFiniteSet(S) BY CachesAssumption, FS_Subset
  <1>2. part \in Surjection(S, parts) BY DEF Surjection
  <1>3. IsFiniteSet(parts)
    <2> HIDE DEF parts, part
    <2> QED BY <1>1, <1>2, FS_Surjection
  <1>4. \A r \in S : IsFiniteSet({r} \X Messages[r])
    <2> SUFFICES ASSUME NEW r \in S PROVE IsFiniteSet({r} \X Messages[r]) OBVIOUS
    <2>1. IsFiniteSet({r}) /\ IsFiniteSet(Messages[r]) BY CachesAssumption, FS_Singleton
    <2> QED BY <2>1, FS_Product
  <1>5. \A T \in parts : IsFiniteSet(T) BY <1>4
  <1> HIDE DEF parts
  <1>6. IsFiniteSet(UNION parts) BY <1>3, <1>5, FS_UNION
  <1> QED BY <1>6 DEF parts, Asked

LEMMA NothingCutOff ==
    ASSUME TypeOK, NEW S \in SUBSET Reports, NEW t \in Int, ~EventsCutOff(S, t)
    PROVE  ExecutedBy(t) \cap Asked(S) \subseteq ExecutedMessages(S, t)
  <1> DEFINE upTo(d) == {c \in Events(S, t) : c.no <= d.no}
  <1>1. IsFiniteSet(Asked(S)) /\ Cardinality(Asked(S)) \in Nat
    BY AskedFinite, FS_CardinalityType
  <1>2. IsFiniteSet(Events(S, t)) /\ Cardinality(Events(S, t)) \in Nat
    BY FS_Subset, FS_CardinalityType DEF TypeOK, Events
  <1>3. Cardinality(Events(S, t)) <= Cardinality(Asked(S)) BY <1>1, <1>2 DEF EventsCutOff
  <1>4. \A d \in Events(S, t) : Cardinality(upTo(d)) <= Cardinality(Asked(S))
    <2> SUFFICES ASSUME NEW d \in Events(S, t)
                 PROVE  Cardinality(upTo(d)) <= Cardinality(Asked(S))
      OBVIOUS
    <2>1. upTo(d) \in SUBSET Events(S, t) OBVIOUS
    <2> HIDE DEF upTo
    <2>2. IsFiniteSet(upTo(d)) /\ Cardinality(upTo(d)) <= Cardinality(Events(S, t))
      BY <1>2, <2>1, FS_Subset
    <2> QED BY <1>1, <1>2, <1>3, <2>2, FS_CardinalityType
  <1> SUFFICES ASSUME NEW k \in ExecutedBy(t), k \in Asked(S) PROVE k \in ExecutedMessages(S, t)
    OBVIOUS
  <1>5. PICK e \in executions : e.key = k /\ e.at <= t BY DEF ExecutedBy
  <1>6. e \in Events(S, t) BY <1>5 DEF Events
  <1>7. ExecutedMessages(S, t) = {d.key : d \in {x \in Events(S, t) :
                                     Cardinality(upTo(x)) <= Cardinality(Asked(S))}}
    BY DEF ExecutedMessages, Events, Asked
  <1> HIDE DEF upTo
  <1> QED BY <1>4, <1>5, <1>6, <1>7

LEMMA SettledInit == Init => SettledIsFinal
  BY DEF Init, SettledIsFinal

LEMMA SettledStep ==
    ASSUME TypeOK, SettledIsFinal, [Next]_vars
    PROVE  SettledIsFinal'
  <1> USE DEF SettledIsFinal
  <1>0. /\ now \in Nat /\ final \in 0..now /\ MaxTime \in Nat
        /\ \A e \in executions : e.at \in 1..now
    BY CachesAssumption DEF TypeOK
  <1>1. ASSUME NEW k \in MessageKeys, Execute(k) PROVE SettledIsFinal'
    <2>1. /\ executions \subseteq executions'
          /\ UNCHANGED <<final, phase, settledBefore>>
      BY <1>1 DEF Execute, observationVars
    <2>2. \A r \in FullyExecutedBy(final) : r \in FullyExecutedBy(final)'
      BY <2>1, <1>0, FinalExecutionsStay
    <2> QED BY <2>1, <2>2
  <1>2. ASSUME NEW t \in 0..MaxTime, Finalize(t) PROVE SettledIsFinal'
    <2>1. /\ t > final /\ final' = t
          /\ UNCHANGED <<executions, phase, settledBefore>>
      BY <1>2 DEF Finalize, observationVars, history
    <2>2. \A r \in FullyExecutedBy(final) : r \in FullyExecutedBy(final)'
      BY <2>1, <1>0, FinalExecutionsStay
    <2> QED BY <2>1, <2>2
  <1>3. ASSUME NEW t \in 0..MaxTime, Reorg(t) PROVE SettledIsFinal'
    <2>1. /\ t >= final /\ executions' = {e \in executions : e.at <= t}
          /\ UNCHANGED <<final, phase, settledBefore>>
      BY <1>3 DEF Reorg, observationVars, history
    <2>2. \A r \in FullyExecutedBy(final) : r \in FullyExecutedBy(final)'
      BY <2>1, <1>0, FinalExecutionsStay
    <2> QED BY <2>1, <2>2
  <1>4. ASSUME StartObservation PROVE SettledIsFinal'
    <2>1. /\ phase' = "query" /\ settledBefore' = FullyExecutedBy(final)
          /\ UNCHANGED <<final, executions>>
      BY <1>4 DEF StartObservation, destVars
    <2> QED BY <2>1 DEF FullyExecutedBy, ExecutedBy
  <1>5. ASSUME \/ Tick \/ \E r \in Reports : Commit(r) \/ DeliverLog(r)
               \/ QueryReports \/ ReadUnconfirmed \/ UNCHANGED vars
        PROVE  SettledIsFinal'
    <2>1. /\ UNCHANGED <<final, executions, settledBefore>>
          /\ phase = "refresh" => phase' = "refresh"
      BY <1>5 DEF Tick, Commit, DeliverLog, QueryReports, ReadUnconfirmed, vars, destVars,
                  observationVars, history
    <2> QED BY <2>1 DEF FullyExecutedBy, ExecutedBy
  <1>6. ASSUME ReadFinalized \/ Abandon \/ Restart PROVE SettledIsFinal'
    BY <1>6 DEF ReadFinalized, Abandon, Restart
  <1> QED BY <1>1, <1>2, <1>3, <1>4, <1>5, <1>6 DEF Next, Observe

LEMMA SettledFacts ==
    ASSUME TypeOK, SettledIsFinal, ReadFinalized, NEW r \in pending', r \in settledBefore
    PROVE  EventsCutOff(candidates, final)
  <1>0. final \in Int /\ candidates \in SUBSET Reports BY DEF TypeOK
  <1> SUFFICES ASSUME ~EventsCutOff(candidates, final) PROVE FALSE OBVIOUS
  <1>1. PICK read :
           /\ read = ExecutedMessages(candidates, final)
           /\ pending' \subseteq candidates \ fullyExecutedFinalized(read)
           /\ phase = "finalized"
    BY DEF ReadFinalized
  <1>2. r \in candidates /\ r \in FullyExecutedBy(final) BY <1>1 DEF SettledIsFinal
  <1>3. {r} \X Messages[r] \subseteq ExecutedBy(final) BY <1>2 DEF FullyExecutedBy
  <1>4. {r} \X Messages[r] \subseteq Asked(candidates) BY <1>2 DEF Asked
  <1>5. {r} \X Messages[r] \subseteq read BY <1>0, <1>1, <1>3, <1>4, NothingCutOff
  <1> QED BY <1>1, <1>2, <1>5 DEF fullyExecutedFinalized

\* An observation offers a root that was executed with finality before it
\* began only if its query for the executed messages was cut off.
SettledOfferedOnlyWhenCut ==
    [][ReadFinalized => \A r \in pending' \cap settledBefore :
                            EventsCutOff(candidates, final)]_vars

-----------------------------------------------------------------------------
(* The theorems.                                                           *)

LEMMA Invariance == Spec => []IInv
  <1>1. Init => IInv
    BY TypeInit, CacheInit, MarkInit, SnoozeInit DEF IInv
  <1>2. IInv /\ [Next]_vars => IInv'
    <2> SUFFICES ASSUME IInv, [Next]_vars PROVE IInv' OBVIOUS
    <2>1. TypeOK' BY TypeStep DEF IInv
    <2>2. CacheInv' BY CacheStep DEF IInv
    <2>3. MarkInv' BY MarkStep DEF IInv
    <2>4. SnoozeInv' BY <2>1, SnoozeStep DEF IInv
    <2> QED BY <2>1, <2>2, <2>3, <2>4 DEF IInv
  <1> QED BY <1>1, <1>2, PTL DEF Spec

\* The caches, the observation under way and the chain keep their types.
THEOREM TypeCorrect == Spec => []TypeOK
  <1>1. IInv => TypeOK BY DEF IInv
  <1> QED BY <1>1, Invariance, PTL

\* What RefreshCache stores no reorganisation takes back or moves.
THEOREM CacheIsFinal == Spec => []CachedReportsFinal
  <1>1. IInv => CachedReportsFinal BY DEF IInv, CacheInv
  <1> QED BY <1>1, Invariance, PTL

\* GetCachedReports and the window that GetReportsToQueryFromTimestamp opens
\* together reach every visible commit report, whatever the query limits, the
\* log delay up to the lookback, the failures and the restarts.
THEOREM NoReportIsPassedBy == Spec => []NoReportPassedBy
  <1>1. IInv => NoReportPassedBy BY CacheFacts DEF IInv
  <1> QED BY <1>1, Invariance, PTL

\* MarkAsExecuted is called for roots whose executions are final only.
THEOREM MarksAreFinal == Spec => []ExecutedRootsFinal
  <1>1. IInv => ExecutedRootsFinal BY DEF IInv, MarkInv
  <1> QED BY <1>1, Invariance, PTL

\* The entry of an executed root outlives the visibility of its report.
THEOREM MarksOutliveVisibility == Spec => []ExecutedRootsRemembered
  <1>1. IInv => ExecutedRootsRemembered BY MarkFacts DEF IInv
  <1> QED BY <1>1, Invariance, PTL

\* A snooze hides a root no longer than rootSnoozeTime after a moment when all
\* of its messages were executed, whatever is reorganised between the reads.
THEOREM SnoozeIsBounded == Spec => []SnoozeBounded
  <1>1. IInv => SnoozeBounded BY SnoozeFacts DEF IInv
  <1> QED BY <1>1, Invariance, PTL

\* An executed root is offered again in one situation only: the messages of the
\* candidates have more events than they have sequence numbers, so that the
\* limit of the query (default_accessor.go:594) cuts some off. This holds for
\* any number of attempts, with failures, restarts and reorganisations; the
\* run execute_events shows that the situation arises.
THEOREM SettledNotOffered == Spec => SettledOfferedOnlyWhenCut
  <1>1. IInv /\ SettledIsFinal /\ [Next]_vars => SettledIsFinal'
    BY SettledStep DEF IInv
  <1>2. IInv /\ SettledIsFinal /\ [Next]_vars =>
            [ReadFinalized => \A r \in pending' \cap settledBefore :
                                  EventsCutOff(candidates, final)]_vars
    BY SettledFacts DEF IInv
  <1> QED BY <1>1, <1>2, SettledInit, Invariance, PTL DEF Spec, SettledOfferedOnlyWhenCut

-----------------------------------------------------------------------------
(* A refresh gets somewhere.                                               *)

\* When the limit leaves a report out, as many as the limit are fetched: all
\* before the oldest one that is left out.
LEMMA LimitIsReached ==
    ASSUME TypeOK, NEW S \in SUBSET indexed, NEW limit \in Nat, NEW r \in S,
           r \notin FirstReports(S, limit)
    PROVE  /\ IsFiniteSet(FirstReports(S, limit))
           /\ Cardinality(FirstReports(S, limit)) >= limit
  <1> DEFINE earlier(x) == {y \in S : Before(y, x)}
             rank(x) == Cardinality(earlier(x))
             first == FirstReports(S, limit)
             ranks == {rank(x) : x \in S \ first}
  <1>1. S \subseteq Reports /\ Reports \subseteq Nat /\ commitTime \in [Reports -> Nat]
        /\ IsFiniteSet(S)
    <2>1. S \subseteq Reports /\ commitTime \in [Reports -> Nat] BY DEF TypeOK
    <2> QED BY <2>1, CachesAssumption, FS_Subset
  <1>2. \A x \in S : x \in first <=> rank(x) < limit BY DEF FirstReports
  <1>3. first \subseteq S BY DEF FirstReports
  <1>4. ASSUME NEW x \in S PROVE IsFiniteSet(earlier(x)) /\ rank(x) \in Nat
    <2>1. earlier(x) \in SUBSET S OBVIOUS
    <2> HIDE DEF earlier
    <2> QED BY <1>1, <2>1, FS_Subset, FS_CardinalityType
  <1>5. ASSUME NEW x \in S, NEW y \in S, Before(y, x) PROVE rank(y) < rank(x)
    <2>1. \A z \in S : Before(z, y) => Before(z, x)
      BY <1>1, <1>5 DEF Before
    <2>2. y \in earlier(x) /\ y \notin earlier(y)
      BY <1>1, <1>5 DEF Before
    <2>3. earlier(y) \in SUBSET earlier(x) /\ earlier(y) # earlier(x) BY <2>1, <2>2
    <2>4. IsFiniteSet(earlier(x)) /\ rank(x) \in Nat /\ rank(y) \in Nat BY <1>4
    <2> HIDE DEF earlier
    <2>5. rank(y) <= rank(x) /\ rank(y) # rank(x) BY <2>3, <2>4, FS_Subset
    <2> QED BY <2>4, <2>5
  <1>6. PICK x \in S \ first : \A y \in S \ first : rank(x) <= rank(y)
    <2>1. ranks \subseteq Nat /\ ranks # {} BY <1>4
    <2> HIDE DEF ranks
    <2>2. PICK n \in ranks : \A m \in ranks : n <= m BY <2>1, LeastNatural
    <2> QED BY <2>2 DEF ranks
  <1>7. earlier(x) \subseteq first
    <2> SUFFICES ASSUME NEW y \in S, Before(y, x), y \notin first PROVE FALSE OBVIOUS
    <2>1. rank(y) < rank(x) /\ rank(x) <= rank(y) BY <1>5, <1>6
    <2>2. rank(y) \in Nat /\ rank(x) \in Nat BY <1>4, <1>6
    <2> HIDE DEF rank
    <2> QED BY <2>1, <2>2
  <1>8. rank(x) >= limit
    <2>1. ~(rank(x) < limit) /\ rank(x) \in Nat BY <1>2, <1>4, <1>6
    <2> HIDE DEF rank
    <2> QED BY <2>1
  <1>9. rank(x) \in Nat BY <1>4, <1>6
  <1> HIDE DEF earlier, first
  <1>10. IsFiniteSet(first) BY <1>1, <1>3, FS_Subset
  <1>11. rank(x) <= Cardinality(first) /\ Cardinality(first) \in Nat
    BY <1>7, <1>10, FS_Subset, FS_CardinalityType
  <1>12. Cardinality(first) >= limit
    <2> HIDE DEF rank
    <2> QED BY <1>8, <1>9, <1>11
  <1> QED BY <1>10, <1>12 DEF first

\* A refresh that does not move the timestamp caches every visible finalised
\* report, unless a whole query lies within the lookback.
LEMMA RefreshGetsSomewhere ==
    ASSUME TypeOK, NoReportPassedBy, RefreshCache, ~(latest' > latest),
           NEW r \in indexed, Visible(r), commitTime[r] <= final,
           ~(now <= cached'[r].expires)
    PROVE  Cardinality({q \in indexed : commitTime[q] \in
               (latest - LookbackGracePeriod)..latest}) >= MaxFinalizedReports
  <1> DEFINE from == GetReportsToQueryFromTimestamp
             S == {q \in indexed : commitTime[q] \in from..final}
             fetched == FirstReports(S, MaxFinalizedReports)
             T == {q \in indexed : commitTime[q] \in (latest - LookbackGracePeriod)..latest}
  <1>1. /\ indexed \subseteq Reports /\ IsFiniteSet(indexed)
        /\ \A q \in indexed : commitTime[q] \in Nat \ {0}
        /\ now \in Nat /\ final \in Nat /\ latest \in Nat
    <2>1. indexed \subseteq Reports BY DEF TypeOK
    <2>2. IsFiniteSet(indexed) BY <2>1, CachesAssumption, FS_Subset
    <2>3. \A q \in indexed : commitTime[q] \in Nat \ {0} BY DEF TypeOK
    <2>4. now \in Nat /\ final \in Nat /\ latest \in Nat BY DEF TypeOK
    <2> QED BY <2>1, <2>2, <2>3, <2>4
  <1>2. from \in Int BY QueryFromType
  <1>3. CommitReportsGTETimestamp(from, final, MaxFinalizedReports) = fetched
    BY DEF CommitReportsGTETimestamp
  <1>4. HasRoots(r) /\ r \in Reports BY <1>1 DEF Visible
  <1>5. r \notin fetched
    <2> SUFFICES ASSUME r \in fetched PROVE FALSE OBVIOUS
    <2>1. cached'[r].expires = now + MessageVisibilityInterval + EvictionGracePeriod
      BY <1>3, <1>4, RefreshedCache
    <2> QED BY <1>1, <2>1, CachesAssumption
  <1>6. cached'[r] = cached[r] BY <1>3, <1>4, <1>5, RefreshedCache
  <1>7. commitTime[r] >= from
    <2>1. r \notin GetCachedReports(now - MessageVisibilityInterval)
      BY <1>6 DEF GetCachedReports, Found
    <2> QED BY <1>4, <2>1 DEF NoReportPassedBy
  <1>8. r \in S BY <1>1, <1>2, <1>7
  <1>9. \A q \in fetched : q \in indexed /\ commitTime[q] >= from /\ commitTime[q] <= latest
    <2> SUFFICES ASSUME NEW q \in fetched
                 PROVE  q \in indexed /\ commitTime[q] >= from /\ commitTime[q] <= latest
      OBVIOUS
    <2>1. q \in S BY DEF FirstReports
    <2>2. latest' >= commitTime[q] /\ latest' \in Nat
      <3>1. latest' >= commitTime[q] BY <1>3 DEF RefreshCache
      <3>2. latest' \in 0..final BY RefreshedLatest
      <3> QED BY <1>1, <3>1, <3>2
    <2>3. commitTime[q] >= from /\ commitTime[q] \in Nat BY <1>1, <1>2, <2>1
    <2> QED BY <1>1, <2>1, <2>2, <2>3
  <1>10. IsFiniteSet(fetched) /\ Cardinality(fetched) >= MaxFinalizedReports
    <2>1. S \in SUBSET indexed /\ MaxFinalizedReports \in Nat BY CachesAssumption
    <2> HIDE DEF S
    <2> QED BY <1>5, <1>8, <2>1, LimitIsReached
  <1>11. latest # 0
    <2> SUFFICES ASSUME latest = 0 PROVE FALSE OBVIOUS
    <2>1. fetched = {}
      <3> SUFFICES ASSUME NEW q \in fetched PROVE FALSE OBVIOUS
      <3>1. q \in indexed /\ commitTime[q] <= 0 BY <1>9
      <3> QED BY <1>1, <3>1
    <2> HIDE DEF fetched
    <2> QED BY <1>10, <2>1, FS_EmptySet, CachesAssumption
  <1>12. from >= latest - LookbackGracePeriod
    BY <1>1, <1>11, CachesAssumption DEF GetReportsToQueryFromTimestamp
  <1> HIDE DEF fetched, from, S
  <1>13. fetched \subseteq T
    <2> SUFFICES ASSUME NEW q \in fetched PROVE q \in T OBVIOUS
    <2>1. q \in indexed /\ commitTime[q] >= from /\ commitTime[q] <= latest
          /\ commitTime[q] \in Nat
      BY <1>1, <1>9
    <2>2. commitTime[q] \in (latest - LookbackGracePeriod)..latest
      BY <1>1, <1>2, <1>12, <2>1, CachesAssumption
    <2> QED BY <2>1, <2>2
  <1>14. T \in SUBSET indexed OBVIOUS
  <1> HIDE DEF T
  <1>15. IsFiniteSet(T) BY <1>1, <1>14, FS_Subset
  <1>16. Cardinality(fetched) <= Cardinality(T) BY <1>13, <1>15, FS_Subset
  <1>17. Cardinality(fetched) \in Nat /\ Cardinality(T) \in Nat
    BY <1>10, <1>15, FS_CardinalityType
  <1>18. Cardinality(T) >= MaxFinalizedReports
    BY <1>10, <1>16, <1>17, CachesAssumption
  <1> QED BY <1>18 DEF T

LEMMA ProgressStep ==
    ASSUME IInv, [Next]_vars, phase = "refresh", phase' = "query", faults' = faults
    PROVE  \/ latest' > latest
           \/ \A r \in indexed : Visible(r) /\ commitTime[r] <= final =>
                 now <= cached'[r].expires
           \/ Cardinality({r \in indexed : commitTime[r] \in
                 (latest - LookbackGracePeriod)..latest}) >= MaxFinalizedReports
  <1>1. TypeOK /\ NoReportPassedBy BY CacheFacts DEF IInv
  <1>2. StartObservation
    <2>1. ASSUME NEW r, Commit(r) \/ DeliverLog(r) PROVE FALSE
      BY <2>1 DEF Commit, DeliverLog, observationVars
    <2>2. ASSUME NEW k, Execute(k) PROVE FALSE BY <2>2 DEF Execute, observationVars
    <2>3. ASSUME NEW t, Finalize(t) \/ Reorg(t) PROVE FALSE
      BY <2>3 DEF Finalize, Reorg, observationVars
    <2>4. ~Tick BY DEF Tick, observationVars
    <2>5. ~QueryReports BY DEF QueryReports
    <2>6. ~ReadUnconfirmed /\ ~ReadFinalized BY DEF ReadUnconfirmed, ReadFinalized
    <2>7. ~Abandon /\ ~Restart BY DEF Abandon, Restart
    <2>8. ~UNCHANGED vars BY DEF vars, observationVars
    <2> QED BY <2>1, <2>2, <2>3, <2>4, <2>5, <2>6, <2>7, <2>8 DEF Next, Observe
  <1>3. RefreshCache
    <2>1. faults \in Nat BY <1>1 DEF TypeOK
    <2>2. faults' # faults + 1 BY <2>1
    <2> QED BY <1>2, <2>2 DEF StartObservation
  <1> QED BY <1>1, <1>3, RefreshGetsSomewhere

\* A refresh that works moves the timestamp or caches all there is to cache,
\* unless as many finalised reports as one query fetches lie within a single
\* lookback period: only then can it fetch the same reports over and over.
THEOREM RefreshMakesProgress == Spec => RefreshProgresses
  <1>1. IInv /\ [Next]_vars =>
           [phase = "refresh" /\ phase' = "query" /\ faults' = faults =>
               \/ latest' > latest
               \/ \A r \in indexed : Visible(r) /\ commitTime[r] <= final =>
                     now <= cached'[r].expires
               \/ Cardinality({r \in indexed : commitTime[r] \in
                     (latest - LookbackGracePeriod)..latest}) >= MaxFinalizedReports]_vars
    BY ProgressStep
  <1> QED BY <1>1, Invariance, PTL DEF Spec, RefreshProgresses
==============================================================================

-------------------------- MODULE TokenDataBackground --------------------------
(***************************************************************************)
(* The background observer of token data                                   *)
(* (execute/tokendata/observer/observer_background.go): calls of Observe,  *)
(* the message queue, the workers that fetch attestations, the cache with  *)
(* its expiry, and Close.                                                  *)
(*                                                                         *)
(* The plugin asks for one message at a time (observeTokenDataForMessage). *)
(* Calls overlap when a round goes on before the observation of an earlier *)
(* one has returned: Observe does not look at its context.                 *)
(*                                                                         *)
(* A step is a critical section of the queue's or the cache's lock, or a   *)
(* transfer on newMsgSignalChan, which has no buffer. The clock has moved  *)
(* on between the enqueue of a message and the dequeue its signal leads to: *)
(* messages are enqueued with availableAfter 0, so each is available.      *)
(***************************************************************************)
EXTENDS Naturals, Sequences, FiniteSets

CONSTANTS Callers, Workers, Messages,
          NoMessage     \* where no message is asked for or fetched

ASSUME TokenDataAssumption ==
    IsFiniteSet(Callers) /\ IsFiniteSet(Workers) /\ NoMessage \notin Messages

VARIABLES
    calls,      \* caller -> where its call of Observe is
    asked,      \* caller -> the message it asks for
    queue, ids, \* msgQueue.msgs and msgQueue.msgIDs
    senders,    \* the callers blocked on newMsgSignalChan, first come first served
    workers,    \* worker -> where it is in its loop
    job,        \* worker -> the message it fetches
    cached,     \* the messages in inMemTokenDataCache
    attested,   \* the messages whose token data the service returns in time
    closed      \* the channel done is closed

vars == <<calls, asked, queue, ids, senders, workers, job, cached, attested, closed>>
callVars == <<calls, asked>>
workerVars == <<workers, job>>

TypeOK ==
    /\ calls \in [Callers -> {"idle", "get", "missed", "absent", "sending"}]
    /\ asked \in [Callers -> Messages \cup {NoMessage}]
    /\ \A c \in Callers : calls[c] = "idle" <=> asked[c] = NoMessage
    /\ queue \in Seq(Messages) /\ ids \subseteq Messages
    /\ senders \in Seq(Callers)
    /\ \A c \in Callers : calls[c] = "sending" <=> \E i \in DOMAIN senders : senders[i] = c
    /\ workers \in [Workers -> {"idle", "signalled", "fetching", "stopped"}]
    /\ job \in [Workers -> Messages \cup {NoMessage}]
    /\ \A w \in Workers : workers[w] = "fetching" <=> job[w] # NoMessage
    /\ cached \subseteq Messages /\ attested \subseteq Messages /\ closed \in BOOLEAN

Init ==
    /\ calls = [c \in Callers |-> "idle"] /\ asked = [c \in Callers |-> NoMessage]
    /\ queue = <<>> /\ ids = {} /\ senders = <<>>
    /\ workers = [w \in Workers |-> "idle"] /\ job = [w \in Workers |-> NoMessage]
    /\ cached = {} /\ attested = {} /\ closed = FALSE

-----------------------------------------------------------------------------
(* Calls.                                                                  *)

Observe(c, m) ==
    /\ calls[c] = "idle"
    /\ calls' = [calls EXCEPT ![c] = "get"] /\ asked' = [asked EXCEPT ![c] = m]
    /\ UNCHANGED <<queue, ids, senders, workerVars, cached, attested, closed>>

\* A call goes on, or it returns.
Continue(c, next) == calls' = [calls EXCEPT ![c] = next] /\ UNCHANGED asked
Return(c) ==
    calls' = [calls EXCEPT ![c] = "idle"] /\ asked' = [asked EXCEPT ![c] = NoMessage]

\* The token data is in the cache and returned, or the message is to be queued.
get(c) ==
    /\ calls[c] = "get"
    /\ IF asked[c] \in cached THEN Return(c) ELSE Continue(c, "missed")
    /\ UNCHANGED <<queue, ids, senders, workerVars, cached, attested, closed>>

\* The read lock is released before the message is added.
containsMsg(c) ==
    /\ calls[c] = "missed"
    /\ IF asked[c] \in ids THEN Return(c) ELSE Continue(c, "absent")
    /\ UNCHANGED <<queue, ids, senders, workerVars, cached, attested, closed>>

\* Faulty variant: the signal is sent without waiting for a worker and is
\* dropped if none is idle.
enqueue_Dropped(c) ==
    /\ calls[c] = "absent"
    /\ queue' = Append(queue, asked[c]) /\ ids' = ids \cup {asked[c]}
    /\ Return(c)
    /\ UNCHANGED <<senders, workerVars, cached, attested, closed>>

\* Faulty variant: the signal is sent by another goroutine, the call returns.
enqueue_Async(c) ==
    /\ calls[c] = "absent"
    /\ queue' = Append(queue, asked[c]) /\ ids' = ids \cup {asked[c]}
    /\ senders' = Append(senders, c)
    /\ Return(c)
    /\ UNCHANGED <<workerVars, cached, attested, closed>>

\* The message is added under the lock; then the call sends the signal and
\* waits for a worker to take it.
enqueue(c) ==
    /\ calls[c] = "absent"
    /\ queue' = Append(queue, asked[c]) /\ ids' = ids \cup {asked[c]}
    /\ senders' = Append(senders, c)
    /\ Continue(c, "sending")
    /\ UNCHANGED <<workerVars, cached, attested, closed>>

-----------------------------------------------------------------------------
(* Workers.                                                                *)

\* A worker takes the signal, and the call that sent it returns.
receive(w) ==
    /\ workers[w] = "idle" /\ senders # <<>>
    /\ workers' = [workers EXCEPT ![w] = "signalled"]
    /\ senders' = Tail(senders)
    /\ Return(Head(senders))
    /\ UNCHANGED <<queue, ids, job, cached, attested, closed>>

\* Faulty variant: the message stays in msgIDs.
dequeue_KeepsId(w) ==
    /\ workers[w] = "signalled" /\ queue # <<>>
    /\ workers' = [workers EXCEPT ![w] = "fetching"]
    /\ job' = [job EXCEPT ![w] = Head(queue)] /\ queue' = Tail(queue)
    /\ UNCHANGED <<callVars, ids, senders, cached, attested, closed>>

dequeue(w) ==
    /\ workers[w] = "signalled"
    /\ workers' = [workers EXCEPT ![w] = IF queue = <<>> THEN "idle" ELSE "fetching"]
    /\ IF queue = <<>> THEN UNCHANGED <<queue, ids, job>>
       ELSE /\ job' = [job EXCEPT ![w] = Head(queue)]
            /\ queue' = Tail(queue) /\ ids' = ids \ {Head(queue)}
    /\ UNCHANGED <<callVars, senders, cached, attested, closed>>

\* Faulty variant: the fetch of a message has no timeout.
fetch_NoTimeout(w) ==
    /\ workers[w] = "fetching" /\ job[w] \in attested
    /\ workers' = [workers EXCEPT ![w] = "idle"] /\ cached' = cached \cup {job[w]}
    /\ job' = [job EXCEPT ![w] = NoMessage]
    /\ UNCHANGED <<callVars, queue, ids, senders, attested, closed>>

\* The underlying observer answers, fails, or runs into observeTimeout. The
\* message is not put back: a later call has to ask for it again.
fetch(w) ==
    /\ workers[w] = "fetching"
    /\ workers' = [workers EXCEPT ![w] = "idle"]
    /\ cached' = cached \cup ({job[w]} \cap attested)
    /\ job' = [job EXCEPT ![w] = NoMessage]
    /\ UNCHANGED <<callVars, queue, ids, senders, attested, closed>>

\* Faulty variant: done is looked at only when a signal has come.
stop_Signalled(w) ==
    /\ closed /\ workers[w] = "signalled"
    /\ workers' = [workers EXCEPT ![w] = "stopped"]
    /\ UNCHANGED <<callVars, queue, ids, senders, job, cached, attested, closed>>

\* done is one of the cases of the select. If a sender waits as well either of
\* the two is taken.
stop(w) ==
    /\ closed /\ workers[w] = "idle"
    /\ workers' = [workers EXCEPT ![w] = "stopped"]
    /\ UNCHANGED <<callVars, queue, ids, senders, job, cached, attested, closed>>

-----------------------------------------------------------------------------
(* The environment, the cache's clean-up, and Close.                       *)

Expire(m) ==
    /\ m \in cached
    /\ cached' = cached \ {m}
    /\ UNCHANGED <<callVars, queue, ids, senders, workerVars, attested, closed>>

\* An attestation is issued, or the service fails to return it for a while.
Service(m) ==
    /\ attested' = IF m \in attested THEN attested \ {m} ELSE attested \cup {m}
    /\ UNCHANGED <<callVars, queue, ids, senders, workerVars, cached, closed>>

\* Close waits until the workers have stopped.
Close ==
    /\ ~closed /\ closed' = TRUE
    /\ UNCHANGED <<callVars, queue, ids, senders, workerVars, cached, attested>>

-----------------------------------------------------------------------------
Next ==
    \/ \E c \in Callers : \/ get(c) \/ containsMsg(c) \/ enqueue(c)
                          \/ \E m \in Messages : Observe(c, m)
    \/ \E w \in Workers : receive(w) \/ dequeue(w) \/ fetch(w) \/ stop(w)
    \/ \E m \in Messages : Expire(m) \/ Service(m)
    \/ Close

Spec == Init /\ [][Next]_vars

\* The goroutines run, a fetch ends at the latest with its timeout, a select that
\* finds done closed time and again takes it some time (Go chooses at random),
\* and the rounds ask for every message again and again, as long as calls end.
Fairness ==
    /\ \A c \in Callers : WF_vars(get(c) \/ containsMsg(c) \/ enqueue(c))
    /\ \A w \in Workers : WF_vars(receive(w) \/ dequeue(w) \/ fetch(w)) /\ SF_vars(stop(w))
    /\ \A m \in Messages : SF_vars(\E c \in Callers : Observe(c, m))

FairSpec == Spec /\ Fairness

-----------------------------------------------------------------------------
\* No wakeup is lost: for each message in the queue there is a call that still
\* has to signal it or a worker that is about to take one, however calls and
\* workers interleave between enqueue, the channel and dequeue. The queue is
\* therefore no longer than there are calls and workers.
SignalPerMessage ==
    Len(queue) = Len(senders) + Cardinality({w \in Workers : workers[w] = "signalled"})

\* No message is locked out: what containsMsg takes for queued is in the queue,
\* although two calls may both find a message absent and add it twice, and the
\* first dequeue removes its id.
NoneLockedOut == ids \subseteq {queue[i] : i \in DOMAIN queue}

\* Observe returns unless the observer is closed. After Close the workers may
\* all have stopped, and a call that sends its signal waits for ever.
ObserveReturns == \A c \in Callers : calls[c] # "idle" ~> calls[c] = "idle" \/ closed

\* Close returns: every worker comes to its select and sees done.
CloseReturns == closed ~> \A w \in Workers : workers[w] = "stopped"

\* "at least two calls to Observe are needed to get token data for a message"
\* (observer_background.go:68), and enough calls suffice: a message whose
\* attestation the service returns for good is cached again and again, after
\* failed fetches, expiry and duplicates in the queue.
EveryMessageFetched ==
    \A m \in Messages : <>[](m \in attested) => []<>(m \in cached \/ closed)
=============================================================================

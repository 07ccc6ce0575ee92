--------------------------- MODULE TokenDataProofs ---------------------------
(***************************************************************************)
(* TokenDataBackground for every number of calls, workers and messages.    *)
(***************************************************************************)
EXTENDS TokenDataBackground, FiniteSetTheorems, SequenceTheorems, TLAPS

Signalled == {w \in Workers : workers[w] = "signalled"}

\* A call waits on the channel once.
SendersDistinct ==
    \A i, j \in DOMAIN senders : senders[i] = senders[j] => i = j

IInv == TypeOK /\ SendersDistinct /\ SignalPerMessage /\ NoneLockedOut

LEMMA SignalledFinite ==
    /\ IsFiniteSet(Signalled) /\ Cardinality(Signalled) \in Nat
    /\ SignalPerMessage <=> Len(queue) = Len(senders) + Cardinality(Signalled)
  BY TokenDataAssumption, FS_Subset, FS_CardinalityType DEF Signalled, SignalPerMessage

\* What a step that leaves the queue, the channel and the signalled workers
\* alone keeps.
LEMMA QueueUntouched ==
    ASSUME IInv, UNCHANGED <<queue, ids, senders>>, Signalled' = Signalled
    PROVE  SendersDistinct' /\ SignalPerMessage' /\ NoneLockedOut'
  <1>1. SignalPerMessage'
    BY DEF IInv, SignalPerMessage, Signalled
  <1>2. SendersDistinct' /\ NoneLockedOut'
    BY DEF IInv, SendersDistinct, NoneLockedOut
  <1> QED BY <1>1, <1>2

LEMMA CallStep ==
    ASSUME IInv, NEW c \in Callers, NEW m \in Messages,
           Observe(c, m) \/ get(c) \/ containsMsg(c)
    PROVE  IInv'
  <1>1. UNCHANGED <<queue, ids, senders, workerVars, cached, attested, closed>>
    BY DEF Observe, get, containsMsg
  <1>2. Signalled' = Signalled BY <1>1 DEF Signalled, workerVars
  <1>3. SendersDistinct' /\ SignalPerMessage' /\ NoneLockedOut'
    BY <1>1, <1>2, QueueUntouched
  <1>4. /\ calls[c] # "sending"
        /\ \E s \in {"idle", "get", "missed", "absent"}, a \in Messages \cup {NoMessage} :
             /\ calls' = [calls EXCEPT ![c] = s] /\ asked' = [asked EXCEPT ![c] = a]
             /\ s = "idle" <=> a = NoMessage
    <2>1. /\ calls \in [Callers -> {"idle", "get", "missed", "absent", "sending"}]
          /\ asked \in [Callers -> Messages \cup {NoMessage}]
          /\ calls[c] = "idle" <=> asked[c] = NoMessage
      BY DEF IInv, TypeOK
    <2>2. CASE Observe(c, m) BY <2>1, <2>2, TokenDataAssumption DEF Observe
    <2>3. CASE get(c) BY <2>1, <2>3 DEF get, Return, Continue
    <2>4. CASE containsMsg(c) BY <2>1, <2>4 DEF containsMsg, Return, Continue
    <2> QED BY <2>2, <2>3, <2>4
  <1>5. TypeOK'
    <2>1. PICK s \in {"idle", "get", "missed", "absent"}, a \in Messages \cup {NoMessage} :
             /\ calls' = [calls EXCEPT ![c] = s] /\ asked' = [asked EXCEPT ![c] = a]
             /\ s = "idle" <=> a = NoMessage
      BY <1>4
    <2> QED BY <1>1, <1>4, <2>1 DEF IInv, TypeOK, workerVars
  <1> QED BY <1>3, <1>5 DEF IInv

LEMMA EnqueueStep ==
    ASSUME IInv, NEW c \in Callers, enqueue(c)
    PROVE  IInv'
  <1>1. /\ queue \in Seq(Messages) /\ senders \in Seq(Callers) /\ asked[c] \in Messages
        /\ calls[c] = "absent" /\ \A i \in DOMAIN senders : senders[i] # c
    BY DEF IInv, TypeOK, enqueue
  <1>2. /\ queue' = Append(queue, asked[c]) /\ ids' = ids \cup {asked[c]}
        /\ senders' = Append(senders, c)
        /\ calls' = [calls EXCEPT ![c] = "sending"] /\ asked' = asked
        /\ UNCHANGED <<workers, job, cached, attested, closed>>
    BY DEF enqueue, Continue, workerVars
  <1>3. /\ queue' \in Seq(Messages) /\ Len(queue') = Len(queue) + 1
        /\ DOMAIN queue' = 1..(Len(queue) + 1) /\ DOMAIN queue = 1..Len(queue)
        /\ \A i \in 1..Len(queue) : queue'[i] = queue[i]
        /\ queue'[Len(queue) + 1] = asked[c] /\ Len(queue) \in Nat
    BY <1>1, <1>2
  <1>4. /\ senders' \in Seq(Callers) /\ Len(senders') = Len(senders) + 1
        /\ DOMAIN senders' = 1..(Len(senders) + 1) /\ DOMAIN senders = 1..Len(senders)
        /\ \A i \in 1..Len(senders) : senders'[i] = senders[i]
        /\ senders'[Len(senders) + 1] = c /\ Len(senders) \in Nat
    BY <1>1, <1>2
  <1>5. TypeOK'
    <2>1. \A d \in Callers : calls'[d] = "sending" <=> \E i \in DOMAIN senders' : senders'[i] = d
      <3> SUFFICES ASSUME NEW d \in Callers
                   PROVE  calls'[d] = "sending" <=> \E i \in DOMAIN senders' : senders'[i] = d
        OBVIOUS
      <3>1. CASE d = c
        BY <1>2, <1>4, <3>1 DEF IInv, TypeOK
      <3>2. CASE d # c
        <4>1. calls'[d] = calls[d] BY <1>2, <3>2 DEF IInv, TypeOK
        <4>2. calls[d] = "sending" <=> \E i \in DOMAIN senders : senders[i] = d
          BY DEF IInv, TypeOK
        <4>3. (\E i \in DOMAIN senders' : senders'[i] = d) <=> \E i \in DOMAIN senders : senders[i] = d
          BY <1>4, <3>2
        <4> QED BY <4>1, <4>2, <4>3
      <3> QED BY <3>1, <3>2
    <2>2. calls' \in [Callers -> {"idle", "get", "missed", "absent", "sending"}]
      BY <1>2 DEF IInv, TypeOK
    <2>3. \A d \in Callers : calls'[d] = "idle" <=> asked'[d] = NoMessage
      BY <1>1, <1>2 DEF IInv, TypeOK
    <2> QED BY <1>1, <1>2, <1>3, <1>4, <2>1, <2>2, <2>3 DEF IInv, TypeOK
  <1>6. SendersDistinct'
    BY <1>1, <1>4 DEF IInv, SendersDistinct
  <1>7. SignalPerMessage'
    <2>1. Signalled' = Signalled BY <1>2 DEF Signalled
    <2>2. Len(queue) = Len(senders) + Cardinality(Signalled) BY SignalledFinite DEF IInv
    <2>3. Len(queue') = Len(senders') + Cardinality(Signalled')
      BY <1>3, <1>4, <2>1, <2>2, SignalledFinite
    <2> QED BY <2>3 DEF SignalPerMessage, Signalled
  <1>8. NoneLockedOut'
    <2>1. {queue[i] : i \in DOMAIN queue} \cup {asked[c]} \subseteq {queue'[i] : i \in DOMAIN queue'}
      BY <1>3
    <2> QED BY <1>2, <2>1 DEF IInv, NoneLockedOut
  <1> QED BY <1>5, <1>6, <1>7, <1>8 DEF IInv

LEMMA ReceiveStep ==
    ASSUME IInv, NEW w \in Workers, receive(w)
    PROVE  IInv'
  <1> DEFINE h == Head(senders)
  <1>1. /\ senders \in Seq(Callers) /\ senders # <<>> /\ workers[w] = "idle"
        /\ workers' = [workers EXCEPT ![w] = "signalled"] /\ senders' = Tail(senders)
        /\ calls' = [calls EXCEPT ![h] = "idle"]
        /\ asked' = [asked EXCEPT ![h] = NoMessage]
        /\ UNCHANGED <<queue, ids, job, cached, attested, closed>>
    BY DEF IInv, TypeOK, receive, Return
  <1>2. /\ senders' \in Seq(Callers) /\ Len(senders') = Len(senders) - 1
        /\ DOMAIN senders' = 1..(Len(senders) - 1) /\ DOMAIN senders = 1..Len(senders)
        /\ \A i \in 1..(Len(senders) - 1) : senders'[i] = senders[i + 1]
        /\ h = senders[1] /\ Len(senders) \in Nat \ {0} /\ h \in Callers
    BY <1>1
  <1> HIDE DEF h
  <1>3. \A i, j \in 1..Len(senders) : senders[i] = senders[j] => i = j
    BY <1>2 DEF IInv, SendersDistinct
  <1>4. TypeOK'
    <2>1. \A d \in Callers : calls'[d] = "sending" <=> \E i \in DOMAIN senders' : senders'[i] = d
      <3> SUFFICES ASSUME NEW d \in Callers
                   PROVE  calls'[d] = "sending" <=> \E i \in DOMAIN senders' : senders'[i] = d
        OBVIOUS
      <3>1. CASE d = h
        <4>1. calls'[d] = "idle" BY <1>1, <1>2, <3>1 DEF IInv, TypeOK
        <4>2. \A i \in 1..(Len(senders) - 1) : senders[i + 1] # senders[1] BY <1>2, <1>3
        <4> QED BY <1>2, <3>1, <4>1, <4>2
      <3>2. CASE d # h
        <4>1. calls'[d] = calls[d] BY <1>1, <3>2 DEF IInv, TypeOK
        <4>2. calls[d] = "sending" <=> \E i \in DOMAIN senders : senders[i] = d
          BY DEF IInv, TypeOK
        <4>3. ASSUME NEW i \in DOMAIN senders, senders[i] = d
              PROVE  \E k \in DOMAIN senders' : senders'[k] = d
          <5>1. i # 1 /\ i \in 1..Len(senders) BY <1>2, <3>2, <4>3
          <5>2. i - 1 \in 1..(Len(senders) - 1) /\ (i - 1) + 1 = i BY <1>2, <5>1
          <5>3. senders'[i - 1] = d BY <1>2, <4>3, <5>2
          <5> QED BY <1>2, <5>2, <5>3
        <4>4. ASSUME NEW i \in DOMAIN senders', senders'[i] = d
              PROVE  \E k \in DOMAIN senders : senders[k] = d
          BY <1>2, <4>4
        <4> QED BY <4>1, <4>2, <4>3, <4>4
      <3> QED BY <3>1, <3>2
    <2>2. /\ calls' \in [Callers -> {"idle", "get", "missed", "absent", "sending"}]
          /\ asked' \in [Callers -> Messages \cup {NoMessage}]
      BY <1>1 DEF IInv, TypeOK
    <2>3. \A d \in Callers : calls'[d] = "idle" <=> asked'[d] = NoMessage
      BY <1>1 DEF IInv, TypeOK
    <2>4. /\ workers' \in [Workers -> {"idle", "signalled", "fetching", "stopped"}]
          /\ \A v \in Workers : workers'[v] = "fetching" <=> job'[v] # NoMessage
      BY <1>1 DEF IInv, TypeOK
    <2> QED BY <1>1, <1>2, <2>1, <2>2, <2>3, <2>4 DEF IInv, TypeOK
  <1>5. SendersDistinct'
    BY <1>2, <1>3 DEF SendersDistinct
  <1>6. SignalPerMessage'
    <2>1. Signalled' = Signalled \cup {w} /\ w \notin Signalled
      BY <1>1 DEF Signalled, IInv, TypeOK
    <2>2. Cardinality(Signalled \cup {w}) = Cardinality(Signalled) + 1
      BY <2>1, SignalledFinite, FS_AddElement
    <2>3. Len(queue) = Len(senders) + Cardinality(Signalled) BY SignalledFinite DEF IInv
    <2>4. Cardinality(Signalled') = Cardinality(Signalled) + 1 BY <2>1, <2>2
    <2>5. Len(queue') = Len(senders') + Cardinality(Signalled')
      BY <1>1, <1>2, <2>3, <2>4, SignalledFinite
    <2> QED BY <2>5 DEF SignalPerMessage, Signalled
  <1>7. NoneLockedOut' BY <1>1 DEF IInv, NoneLockedOut
  <1> QED BY <1>4, <1>5, <1>6, <1>7 DEF IInv

LEMMA DequeueStep ==
    ASSUME IInv, NEW w \in Workers, dequeue(w)
    PROVE  IInv'
  <1>1. /\ queue \in Seq(Messages) /\ senders \in Seq(Callers) /\ w \in Signalled
        /\ UNCHANGED <<calls, asked, senders, cached, attested, closed>>
    BY DEF IInv, TypeOK, dequeue, callVars, Signalled
  <1>2. /\ Len(queue) = Len(senders) + Cardinality(Signalled)
        /\ Len(queue) \in Nat /\ Len(senders) \in Nat
    BY <1>1, SignalledFinite DEF IInv
  <1>3. /\ Cardinality(Signalled \ {w}) = Cardinality(Signalled) - 1
        /\ Cardinality(Signalled \ {w}) \in Nat
    BY <1>1, SignalledFinite, FS_RemoveElement, FS_CardinalityType
  <1>4. queue # <<>>
    <2>1. Len(queue) # 0 BY <1>2, <1>3, SignalledFinite
    <2> QED BY <1>1, <2>1
  <1>5. /\ workers' = [workers EXCEPT ![w] = "fetching"]
        /\ job' = [job EXCEPT ![w] = Head(queue)]
        /\ queue' = Tail(queue) /\ ids' = ids \ {Head(queue)}
    BY <1>4 DEF dequeue
  <1>6. /\ queue' \in Seq(Messages) /\ Len(queue') = Len(queue) - 1
        /\ DOMAIN queue' = 1..(Len(queue) - 1) /\ DOMAIN queue = 1..Len(queue)
        /\ \A i \in 1..(Len(queue) - 1) : queue'[i] = queue[i + 1]
        /\ Head(queue) = queue[1] /\ Head(queue) \in Messages
    BY <1>1, <1>4, <1>5
  <1>7. TypeOK'
    <2>1. /\ workers' \in [Workers -> {"idle", "signalled", "fetching", "stopped"}]
          /\ job' \in [Workers -> Messages \cup {NoMessage}]
      BY <1>5, <1>6 DEF IInv, TypeOK
    <2>2. \A v \in Workers : workers'[v] = "fetching" <=> job'[v] # NoMessage
      BY <1>5, <1>6, TokenDataAssumption DEF IInv, TypeOK
    <2> QED BY <1>1, <1>5, <1>6, <2>1, <2>2 DEF IInv, TypeOK
  <1>8. SendersDistinct' BY <1>1 DEF IInv, SendersDistinct
  <1>9. SignalPerMessage'
    <2>1. Signalled' = Signalled \ {w} BY <1>5 DEF Signalled, IInv, TypeOK
    <2>2. Cardinality(Signalled') = Cardinality(Signalled) - 1 BY <2>1, <1>3
    <2>3. Len(queue') = Len(senders') + Cardinality(Signalled')
      BY <1>1, <1>2, <1>6, <2>2, SignalledFinite
    <2> QED BY <2>3 DEF SignalPerMessage, Signalled
  <1>10. NoneLockedOut'
    <2> SUFFICES ASSUME NEW m \in ids, m # Head(queue)
                 PROVE  m \in {queue'[i] : i \in DOMAIN queue'}
      BY <1>5 DEF NoneLockedOut
    <2>1. PICK i \in DOMAIN queue : queue[i] = m BY DEF IInv, NoneLockedOut
    <2>2. i \in 1..Len(queue) /\ i # 1 BY <1>6, <2>1
    <2>3. i - 1 \in 1..(Len(queue) - 1) /\ (i - 1) + 1 = i BY <1>2, <2>2
    <2>4. queue'[i - 1] = m BY <1>6, <2>1, <2>3
    <2> QED BY <1>6, <2>3, <2>4
  <1> QED BY <1>7, <1>8, <1>9, <1>10 DEF IInv

\* What the steps outside the queue do to the workers.
WorkersKept ==
    /\ Signalled' = Signalled
    /\ workers' \in [Workers -> {"idle", "signalled", "fetching", "stopped"}]
    /\ job' \in [Workers -> Messages \cup {NoMessage}]
    /\ \A v \in Workers : workers'[v] = "fetching" <=> job'[v] # NoMessage

LEMMA OtherStep ==
    ASSUME IInv,
           \/ \E w \in Workers : fetch(w) \/ stop(w)
           \/ \E m \in Messages : Expire(m) \/ Service(m)
           \/ Close \/ UNCHANGED vars
    PROVE  IInv'
  <1>1. UNCHANGED <<calls, asked, queue, ids, senders>>
    BY DEF fetch, stop, Expire, Service, Close, vars, callVars
  <1>2. WorkersKept
    <2>1. /\ workers \in [Workers -> {"idle", "signalled", "fetching", "stopped"}]
          /\ job \in [Workers -> Messages \cup {NoMessage}]
          /\ \A v \in Workers : workers[v] = "fetching" <=> job[v] # NoMessage
      BY DEF IInv, TypeOK
    <2>2. ASSUME NEW w \in Workers, fetch(w) PROVE WorkersKept
      BY <2>1, <2>2 DEF fetch, Signalled, WorkersKept
    <2>3. ASSUME NEW w \in Workers, stop(w) PROVE WorkersKept
      BY <2>1, <2>3 DEF stop, Signalled, WorkersKept
    <2>4. CASE UNCHANGED <<workers, job>> BY <2>1, <2>4 DEF Signalled, WorkersKept
    <2> QED BY <2>2, <2>3, <2>4 DEF Expire, Service, Close, vars, workerVars
  <1>3. cached' \subseteq Messages /\ attested' \subseteq Messages /\ closed' \in BOOLEAN
    <2>1. /\ cached \subseteq Messages /\ attested \subseteq Messages /\ closed \in BOOLEAN
      BY DEF IInv, TypeOK
    <2> QED BY <2>1 DEF fetch, stop, Expire, Service, Close, vars
  <1>4. TypeOK' BY <1>1, <1>2, <1>3 DEF IInv, TypeOK, WorkersKept
  <1>5. SendersDistinct' /\ SignalPerMessage' /\ NoneLockedOut'
    BY <1>1, <1>2, QueueUntouched DEF WorkersKept
  <1> QED BY <1>4, <1>5 DEF IInv

LEMMA InitialState == Init => IInv
  <1> SUFFICES ASSUME Init PROVE IInv OBVIOUS
  <1>1. TypeOK
    <2>1. /\ calls \in [Callers -> {"idle", "get", "missed", "absent", "sending"}]
          /\ asked \in [Callers -> Messages \cup {NoMessage}]
          /\ \A c \in Callers : calls[c] = "idle" <=> asked[c] = NoMessage
      BY DEF Init
    <2>2. queue \in Seq(Messages) /\ senders \in Seq(Callers) BY EmptySeq DEF Init
    <2>3. \A c \in Callers : calls[c] = "sending" <=> \E i \in DOMAIN senders : senders[i] = c
      <3>1. DOMAIN senders = {} BY DEF Init
      <3>2. \A c \in Callers : calls[c] # "sending" BY DEF Init
      <3> QED BY <3>1, <3>2
    <2>4. /\ workers \in [Workers -> {"idle", "signalled", "fetching", "stopped"}]
          /\ job \in [Workers -> Messages \cup {NoMessage}]
          /\ \A w \in Workers : workers[w] = "fetching" <=> job[w] # NoMessage
      BY DEF Init
    <2>5. /\ ids \subseteq Messages /\ cached \subseteq Messages
          /\ attested \subseteq Messages /\ closed \in BOOLEAN
      BY DEF Init
    <2> QED BY <2>1, <2>2, <2>3, <2>4, <2>5 DEF TypeOK
  <1>2. SendersDistinct /\ NoneLockedOut BY DEF Init, SendersDistinct, NoneLockedOut
  <1>3. SignalPerMessage
    <2>1. Signalled = {} BY DEF Init, Signalled
    <2>2. Len(queue) = 0 /\ Len(senders) = 0 BY DEF Init
    <2>3. Cardinality(Signalled) = 0 BY <2>1, FS_EmptySet
    <2>4. Len(queue) = Len(senders) + Cardinality(Signalled) BY <2>2, <2>3
    <2> QED BY <2>4, SignalledFinite
  <1> QED BY <1>1, <1>2, <1>3 DEF IInv

LEMMA Invariance == Spec => []IInv
  <1>1. Init => IInv BY InitialState
  <1>2. IInv /\ [Next]_vars => IInv'
    <2> SUFFICES ASSUME IInv, [Next]_vars PROVE IInv' OBVIOUS
    <2>1. ASSUME NEW c \in Callers, \/ get(c) \/ containsMsg(c)
                                    \/ \E m \in Messages : Observe(c, m)
          PROVE  IInv'
      <3>1. CASE \E m \in Messages : Observe(c, m) BY <3>1, CallStep
      <3>2. CASE get(c) \/ containsMsg(c)
        <4>1. asked[c] \in Messages
          BY <3>2 DEF IInv, TypeOK, get, containsMsg
        <4> QED BY <3>2, <4>1, CallStep
      <3> QED BY <2>1, <3>1, <3>2
    <2>2. ASSUME NEW c \in Callers, enqueue(c) PROVE IInv' BY <2>2, EnqueueStep
    <2>3. ASSUME NEW w \in Workers, receive(w) PROVE IInv' BY <2>3, ReceiveStep
    <2>4. ASSUME NEW w \in Workers, dequeue(w) PROVE IInv' BY <2>4, DequeueStep
    <2> QED BY <2>1, <2>2, <2>3, <2>4, OtherStep DEF Next
  <1> QED BY <1>1, <1>2, PTL DEF Spec

\* Calls, the queue, the channel, workers and cache keep their types, and the
\* callers on the channel are those that wait to send.
THEOREM TokenDataTypeCorrect == Spec => []TypeOK
  <1>1. IInv => TypeOK BY DEF IInv
  <1> QED BY <1>1, Invariance, PTL

\* newMsgSignalChan loses no wakeup, for any number of overlapping calls and
\* of workers.
THEOREM NoWakeupLost == Spec => []SignalPerMessage
  <1>1. IInv => SignalPerMessage BY DEF IInv
  <1> QED BY <1>1, Invariance, PTL

\* msgIDs names only messages that are in the queue, although enqueue checks and
\* adds under two different locks.
THEOREM IdsAreQueued == Spec => []NoneLockedOut
  <1>1. IInv => NoneLockedOut BY DEF IInv
  <1> QED BY <1>1, Invariance, PTL
=============================================================================

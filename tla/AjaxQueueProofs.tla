--------------------------- MODULE AjaxQueueProofs ---------------------------
(***************************************************************************)
(* For any requests, controls, edits and failures: the order in which the  *)
(* queue sends requests and gets answers, and that it leaves nothing       *)
(* behind; that changed controls are not forgotten; the types; that the    *)
(* queue serves its requests in turn, as RequestQueue says; and, for a     *)
(* file select control, that it adds nothing to what the queue may do and  *)
(* that its files come with their event.                                   *)
(***************************************************************************)
EXTENDS Posting, SequenceTheorems, TLAPS

\* The queue, its history and the stages keep their types.
Typed ==
  /\ queue \in Seq(Requests)
  /\ started \in Seq(Requests)
  /\ posted \in Seq(Requests)
  /\ stage \in [Requests -> Stages]
  /\ isAsync \in [Requests -> BOOLEAN]

\* Moving the head of one sequence to the end of another keeps their concatenation.
LEMMA Shift ==
  ASSUME NEW S, NEW s \in Seq(S), NEW q \in Seq(S), q # <<>>
  PROVE  /\ Head(q) \in S /\ Tail(q) \in Seq(S) /\ Append(s, Head(q)) \in Seq(S)
         /\ s \o q = Append(s, Head(q)) \o Tail(q)
<1>1. Head(q) \in S /\ Tail(q) \in Seq(S) /\ Append(s, Head(q)) \in Seq(S)
  BY HeadTailProperties, AppendProperties
<1>2. q = <<Head(q)>> \o Tail(q)
  BY <1>1, SMT
<1>3. Append(s, Head(q)) = s \o <<Head(q)>>
  BY <1>1, AppendIsConcat
<1>4. <<Head(q)>> \in Seq(S)
  BY <1>1
<1>5. s \o (<<Head(q)>> \o Tail(q)) = (s \o <<Head(q)>>) \o Tail(q)
  BY <1>1, <1>4, ConcatAssociative
<1> QED
  BY <1>1, <1>2, <1>3, <1>5

\* _dequeue keeps what was and is to be sent, whatever it is called with.
LEMMA DequeueKeepsOrder ==
  ASSUME Typed, NEW q \in Seq(Requests), NEW running,
         NEW stages \in [Requests -> Stages], dequeue(q, running, stages)
  PROVE  /\ started' \o queue' = started \o q
         /\ queue' \in Seq(Requests) /\ started' \in Seq(Requests)
         /\ stage' \in [Requests -> Stages]
<1>1. CASE q = <<>>
  BY <1>1 DEF dequeue, rest, Typed
<1>2. CASE q # <<>>
  <2>1. /\ started' = Append(started, Head(q)) /\ queue' = Tail(q)
        /\ stage' = [stages EXCEPT ![Head(q)] = "sent"]
    BY <1>2 DEF dequeue, do1
  <2>2. stage' \in [Requests -> Stages]
    BY <2>1 DEF Stages
  <2> QED
    BY <1>2, <2>1, <2>2, Shift DEF Typed
<1> QED
  BY <1>1, <1>2

\* The steps that do not touch the queue: all but postAjax and the end of a request.
QueueRests == UNCHANGED <<posted, queue, started>> /\ stage' \in [Requests -> Stages]

\* What a step does to the queue.
LEMMA QueueSteps ==
  ASSUME Typed, [Next]_vars
  PROVE  /\ isAsync' \in [Requests -> BOOLEAN]
         /\ \/ QueueRests
            \/ \E r \in Requests :
                 /\ stage[r] = "new"
                 /\ posted' = Append(posted, r)
                 /\ \/ dequeue(Append(queue, r), current, stage)
                    \/ /\ queue' = Append(queue, r)
                       /\ stage' = [stage EXCEPT ![r] = "queued"]
                       /\ UNCHANGED started
            \/ \E r \in Requests, t \in Stages :
                 /\ UNCHANGED posted
                 /\ dequeue(queue, current \ {r}, [stage EXCEPT ![r] = t])
<1> USE DEF Typed, Stages, QueueRests
<1>1. ASSUME NEW c \in Controls, formObjChanged(c) \/ touched(c) PROVE
        QueueRests /\ UNCHANGED isAsync
  BY <1>1 DEF formObjChanged, touched, requests, sending
<1>2. ASSUME NEW r \in Requests, NEW b \in BOOLEAN, postAjax(r, b) PROVE
        /\ stage[r] = "new"
        /\ posted' = Append(posted, r)
        /\ \/ dequeue(Append(queue, r), current, stage)
           \/ /\ queue' = Append(queue, r)
              /\ stage' = [stage EXCEPT ![r] = "queued"]
              /\ UNCHANGED started
        /\ UNCHANGED isAsync
  BY <1>2, Zenon DEF postAjax
<1>3. ASSUME NEW r \in Requests, postAsync(r) PROVE
        QueueRests /\ isAsync' \in [Requests -> BOOLEAN]
  BY <1>3 DEF postAsync
<1>4. ASSUME NEW r \in Requests, Response(r) PROVE
        /\ UNCHANGED isAsync
        /\ \/ QueueRests
           \/ \E t \in Stages :
                /\ UNCHANGED posted
                /\ dequeue(queue, current \ {r}, [stage EXCEPT ![r] = t])
  <2>1. CASE ServerTakes(r)
    BY <2>1 DEF ServerTakes, sending
  <2>2. ASSUME NEW n \in 0..MaxFinals, Succeeds(r, n) PROVE
          /\ UNCHANGED <<isAsync, posted>>
          /\ dequeue(queue, current \ {r}, [stage EXCEPT ![r] = "applied"])
    BY <2>2, Zenon DEF Succeeds, finish
  <2>3. ASSUME NEW n \in 0..MaxFinals, StartsLoading(r, n) PROVE
          /\ UNCHANGED <<isAsync, posted>>
          /\ dequeue(queue, current \ {r}, [stage EXCEPT ![r] = "loading"])
    BY <2>3, Zenon DEF StartsLoading, finish
  <2>4. CASE FilesLoaded(r)
    BY <2>4 DEF FilesLoaded, sending
  <2>5. ASSUME NEW n \in 0..MaxFinals, Fails(r, n) PROVE
          /\ UNCHANGED <<isAsync, posted>>
          /\ dequeue(queue, current \ {r}, [stage EXCEPT ![r] = "failed"])
    BY <2>5, Zenon DEF Fails, finish
  <2>6. CASE FailsToReport(r)
    BY <2>6 DEF FailsToReport, sending
  <2>7. {"applied", "loading", "failed"} \subseteq Stages
    OBVIOUS
  <2> QED
    BY <1>4, <2>1, <2>2, <2>3, <2>4, <2>5, <2>6, <2>7, Zenon DEF Response
<1>5. ASSUME NEW r \in Requests, TakesLate(r) PROVE QueueRests /\ UNCHANGED isAsync
  BY <1>5 DEF TakesLate, requests, sending
<1>6. CASE UNCHANGED vars
  BY <1>6 DEF vars, requests, sending
<1> HIDE DEF QueueRests, Stages
<1> QED
  BY <1>1, <1>2, <1>3, <1>4, <1>5, <1>6, Zenon DEF Next

\* Typed and the order of the queue are inductive together.
LEMMA OrderStep ==
  ASSUME Typed, InPostedOrder, [Next]_vars
  PROVE  Typed' /\ InPostedOrder'
<1> USE DEF InPostedOrder
<1>1. isAsync' \in [Requests -> BOOLEAN]
  BY QueueSteps
<1>2. CASE QueueRests
  BY <1>1, <1>2 DEF QueueRests, Typed
<1>3. ASSUME NEW r \in Requests, posted' = Append(posted, r),
             \/ dequeue(Append(queue, r), current, stage)
             \/ /\ queue' = Append(queue, r)
                /\ stage' = [stage EXCEPT ![r] = "queued"]
                /\ UNCHANGED started
      PROVE  Typed' /\ InPostedOrder'
  <2>1. Append(queue, r) \in Seq(Requests) /\ posted' \in Seq(Requests)
    BY <1>3, AppendProperties DEF Typed
  <2>2. posted' = started \o Append(queue, r)
    <3>1. <<r>> \in Seq(Requests)
      OBVIOUS
    <3>2. posted' = (started \o queue) \o <<r>>
      BY <1>3, AppendIsConcat DEF Typed
    <3>3. (started \o queue) \o <<r>> = started \o (queue \o <<r>>)
      BY <3>1, ConcatAssociative DEF Typed
    <3>4. queue \o <<r>> = Append(queue, r)
      BY AppendIsConcat DEF Typed
    <3> QED
      BY <3>2, <3>3, <3>4
  <2>3. CASE dequeue(Append(queue, r), current, stage)
    <3>1. stage \in [Requests -> Stages]
      BY DEF Typed
    <3>2. /\ started' \o queue' = started \o Append(queue, r)
          /\ queue' \in Seq(Requests) /\ started' \in Seq(Requests)
          /\ stage' \in [Requests -> Stages]
      BY <2>1, <2>3, <3>1, DequeueKeepsOrder
    <3> QED
      BY <1>1, <2>1, <2>2, <3>2 DEF Typed
  <2>4. CASE /\ queue' = Append(queue, r)
             /\ stage' = [stage EXCEPT ![r] = "queued"]
             /\ UNCHANGED started
    <3>1. stage' \in [Requests -> Stages]
      BY <2>4 DEF Typed, Stages
    <3> QED
      BY <1>1, <2>1, <2>2, <2>4, <3>1 DEF Typed
  <2> QED
    BY <1>3, <2>3, <2>4
<1>4. ASSUME NEW r \in Requests, NEW t \in Stages, UNCHANGED posted,
             dequeue(queue, current \ {r}, [stage EXCEPT ![r] = t])
      PROVE  Typed' /\ InPostedOrder'
  <2>1. queue \in Seq(Requests) /\ [stage EXCEPT ![r] = t] \in [Requests -> Stages]
    BY DEF Typed
  <2>2. /\ started' \o queue' = started \o queue
        /\ queue' \in Seq(Requests) /\ started' \in Seq(Requests)
        /\ stage' \in [Requests -> Stages]
    BY <1>4, <2>1, DequeueKeepsOrder
  <2> QED
    BY <1>1, <1>4, <2>2 DEF Typed
<1> QED
  BY <1>2, <1>3, <1>4, QueueSteps, Zenon

\* Queued requests are sent in the order of their events, none twice, none left out.
THEOREM SentInOrder == Spec => []InPostedOrder
<1>1. Init => Typed /\ InPostedOrder
  BY DEF Init, Typed, InPostedOrder, Stages
<1>2. Typed /\ InPostedOrder /\ [Next]_vars => Typed' /\ InPostedOrder'
  BY OrderStep
<1> QED
  BY <1>1, <1>2, PTL DEF Spec

\* When nothing is in flight, the queue and the final commands are empty.
THEOREM NothingLeftBehind == Spec => []NoneLeftBehind
<1>1. Init => NoneLeftBehind
  BY DEF Init, NoneLeftBehind
<1>2. NoneLeftBehind /\ [Next]_vars => NoneLeftBehind'
  <2> SUFFICES ASSUME NoneLeftBehind, [Next]_vars, current' = {}
               PROVE  queue' = <<>> /\ finals' = <<>>
    BY DEF NoneLeftBehind
  <2>1. ASSUME NEW q, NEW running, NEW stages, dequeue(q, running, stages)
        PROVE  q = <<>> /\ running = {} /\ queue' = <<>>
    BY <2>1 DEF dequeue, do1, rest
  <2>2. ASSUME NEW c \in Controls, formObjChanged(c) \/ touched(c)
        PROVE  queue' = <<>> /\ finals' = <<>>
    BY <2>2 DEF formObjChanged, touched, sending, commands, NoneLeftBehind
  <2>3. ASSUME NEW r \in Requests, NEW b \in BOOLEAN, postAjax(r, b)
        PROVE  queue' = <<>> /\ finals' = <<>>
    <3>1. CASE current = {}
      <4>1. dequeue(Append(queue, r), current, stage)
        BY <2>3, <3>1 DEF postAjax
      <4> QED
        BY <2>1, <2>3, <3>1, <4>1 DEF postAjax, commands, NoneLeftBehind
    <3>2. CASE current # {}
      BY <2>3, <3>2 DEF postAjax
    <3> QED
      BY <3>1, <3>2
  <2>4. ASSUME NEW r \in Requests, postAsync(r) PROVE FALSE
    BY <2>4 DEF postAsync
  <2>5. ASSUME NEW r \in Requests, NEW stages, NEW cmds, finish(r, stages, cmds)
        PROVE  queue' = <<>> /\ finals' = <<>>
    <3>1. dequeue(queue, current \ {r}, stages)
      BY <2>5 DEF finish
    <3>2. queueComplete(r)
      BY <2>1, <3>1 DEF queueComplete
    <3> QED
      BY <2>1, <2>5, <3>1, <3>2 DEF finish
  <2>6. ASSUME NEW r \in Requests, Response(r)
        PROVE  queue' = <<>> /\ finals' = <<>>
    <3>1. CASE ServerTakes(r)
      BY <3>1 DEF ServerTakes, sending, commands, NoneLeftBehind
    <3>2. ASSUME NEW n \in 0..MaxFinals, Succeeds(r, n) \/ StartsLoading(r, n)
          PROVE  queue' = <<>> /\ finals' = <<>>
      BY <2>5, <3>2, Zenon DEF Succeeds, StartsLoading
    <3>3. CASE FilesLoaded(r)
      BY <3>3 DEF FilesLoaded, sending, NoneLeftBehind
    <3>4. ASSUME NEW n \in 0..MaxFinals, Fails(r, n)
          PROVE  queue' = <<>> /\ finals' = <<>>
      BY <2>5, <3>4, Zenon DEF Fails
    <3>5. CASE FailsToReport(r)
      BY <3>5 DEF FailsToReport, sending, commands, NoneLeftBehind
    <3> QED
      BY <2>6, <3>1, <3>2, <3>3, <3>4, <3>5 DEF Response
  <2>7. ASSUME NEW r \in Requests, TakesLate(r) PROVE queue' = <<>> /\ finals' = <<>>
    BY <2>7 DEF TakesLate, sending, commands, NoneLeftBehind
  <2>8. CASE UNCHANGED vars
    BY <2>8 DEF vars, sending, commands, NoneLeftBehind
  <2> QED
    BY <2>2, <2>3, <2>4, <2>6, <2>7, <2>8, Zenon DEF Next
<1> QED
  BY <1>1, <1>2, PTL DEF Spec

\* The requests of q have stage "queued", and none is in it twice.
QueuedOnce(q, stages) ==
  \A i \in 1..Len(q) :
    /\ stages[q[i]] = "queued"
    /\ \A j \in 1..Len(q) : q[i] = q[j] => i = j

\* Every request that was sent is answered, but for the last one if it is in flight.
AllButLastAnswered ==
  \A i \in 1..Len(started) :
    \/ stage[started[i]] \in Answered
    \/ i = Len(started) /\ started[i] \in current

\* Nothing is in flight but the last request that was sent.
OnlyLastInFlight ==
  \A r \in current : Len(started) > 0 /\ r = started[Len(started)]

\* What makes AnsweredInOrder inductive.
Chain ==
  /\ QueuedOnce(queue, stage)
  /\ Serial => AllButLastAnswered /\ OnlyLastInFlight

\* _dequeue, called when all that was sent is answered, starts the chain anew.
LEMMA DequeueKeepsChain ==
  ASSUME Typed, NEW q \in Seq(Requests), NEW running, NEW stages \in [Requests -> Stages],
         QueuedOnce(q, stages), dequeue(q, running, stages)
  PROVE  /\ QueuedOnce(queue', stage')
         /\ /\ running = {}
            /\ \A i \in 1..Len(started) : stages[started[i]] \in Answered
            => AllButLastAnswered' /\ OnlyLastInFlight'
<1>1. CASE q = <<>>
  <2>1. queue' = <<>> /\ current' = running /\ stage' = stages /\ started' = started
    BY <1>1 DEF dequeue, rest
  <2>2. QueuedOnce(queue', stage')
    BY <2>1 DEF QueuedOnce
  <2>3. ASSUME running = {}, \A i \in 1..Len(started) : stages[started[i]] \in Answered
        PROVE  AllButLastAnswered' /\ OnlyLastInFlight'
    <3>1. OnlyLastInFlight'
      BY <2>1, <2>3 DEF OnlyLastInFlight
    <3>2. \A i \in 1..Len(started') : stage'[started'[i]] \in Answered
      BY <2>1, <2>3
    <3> QED
      BY <3>1, <3>2 DEF AllButLastAnswered, Answered
  <2> QED
    BY <2>2, <2>3
<1>2. CASE q # <<>>
  <2> DEFINE h == Head(q)
  <2>1. /\ started' = Append(started, h) /\ queue' = Tail(q)
        /\ stage' = [stages EXCEPT ![h] = "sent"]
        /\ current' = running \cup {h}
    BY <1>2 DEF dequeue, do1
  <2>2. /\ Len(q) > 0 /\ h = q[1] /\ h \in Requests /\ Len(Tail(q)) = Len(q) - 1
        /\ \A i \in 1..Len(Tail(q)) : Tail(q)[i] = q[i + 1]
    BY <1>2, HeadTailProperties
  <2>3. stages[h] = "queued"
    BY <2>2 DEF QueuedOnce
  <2>4. QueuedOnce(queue', stage')
    <3> SUFFICES ASSUME NEW i \in 1..Len(Tail(q))
                 PROVE  /\ stage'[Tail(q)[i]] = "queued"
                        /\ \A j \in 1..Len(Tail(q)) : Tail(q)[i] = Tail(q)[j] => i = j
      BY <2>1 DEF QueuedOnce
    <3>1. i + 1 \in 1..Len(q) /\ 1 \in 1..Len(q)
      BY <2>2
    <3>2. q[i + 1] # h /\ stages[q[i + 1]] = "queued" /\ q[i + 1] \in Requests
      BY <2>2, <3>1, ElementOfSeq DEF QueuedOnce
    <3>3. \A j \in 1..Len(Tail(q)) : q[i + 1] = q[j + 1] => i + 1 = j + 1
      BY <2>2, <3>1 DEF QueuedOnce
    <3>4. Tail(q)[i] = q[i + 1]
      BY <2>2
    <3>5. stage'[q[i + 1]] = "queued"
      BY <2>1, <3>2
    <3>6. ASSUME NEW j \in 1..Len(Tail(q)), q[i + 1] = Tail(q)[j]
          PROVE  i = j
      <4>1. Tail(q)[j] = q[j + 1]
        BY <2>2
      <4>2. i + 1 = j + 1
        BY <3>3, <3>6, <4>1
      <4> QED
        BY <2>2, <4>2
    <3> HIDE DEF h
    <3> QED
      BY <3>4, <3>5, <3>6
  <2>5. ASSUME running = {}, \A i \in 1..Len(started) : stages[started[i]] \in Answered
        PROVE  AllButLastAnswered' /\ OnlyLastInFlight'
    <3>1. /\ Len(started') = Len(started) + 1
          /\ started'[Len(started')] = h
          /\ \A i \in 1..Len(started) : started'[i] = started[i]
      BY <2>1, <2>2, AppendProperties DEF Typed
    <3>2. ASSUME NEW i \in 1..Len(started) PROVE stage'[started[i]] \in Answered
      <4>1. stages[started[i]] \in Answered /\ started[i] \in Requests
        BY <2>5, ElementOfSeq DEF Typed
      <4>2. started[i] # h
        BY <2>3, <4>1 DEF Answered
      <4> QED
        BY <2>1, <2>2, <4>1, <4>2
    <3>3. Len(started) \in Nat
      BY DEF Typed
    <3>4. current' = {h}
      BY <2>1, <2>5
    <3>5. OnlyLastInFlight'
      BY <3>1, <3>3, <3>4 DEF OnlyLastInFlight
    <3>6. ASSUME NEW i \in 1..Len(started')
          PROVE  \/ stage'[started'[i]] \in Answered
                 \/ i = Len(started') /\ started'[i] \in current'
      <4>1. CASE i \in 1..Len(started)
        BY <3>1, <3>2, <4>1
      <4>2. CASE i = Len(started) + 1
        BY <3>1, <3>4, <4>2
      <4> QED
        BY <3>1, <3>3, <4>1, <4>2
    <3> QED
      BY <3>5, <3>6 DEF AllButLastAnswered, Answered
  <2> QED
    BY <2>4, <2>5
<1> QED
  BY <1>1, <1>2

\* A request that is not queued changes its stage to another such.
LEMMA StageKeepsQueue ==
  ASSUME Typed, QueuedOnce(queue, stage), NEW r \in Requests, NEW t \in Stages,
         stage[r] # "queued"
  PROVE  QueuedOnce(queue, [stage EXCEPT ![r] = t])
<1> SUFFICES ASSUME NEW i \in 1..Len(queue)
             PROVE  [stage EXCEPT ![r] = t][queue[i]] = "queued"
  BY DEF QueuedOnce
<1>1. queue[i] \in Requests /\ stage[queue[i]] = "queued"
  BY ElementOfSeq DEF Typed, QueuedOnce
<1> QED
  BY <1>1 DEF Typed

\* The end of request r, which the caller has given stage t.
LEMMA FinishKeepsChain ==
  ASSUME Typed, Chain, NEW r \in current, r \in Requests, NEW t \in Stages, NEW cmds,
         stage[r] # "queued",
         Serial => t \in Answered, finish(r, [stage EXCEPT ![r] = t], cmds)
  PROVE  Chain'
<1> DEFINE stages == [stage EXCEPT ![r] = t]
<1>1. stages \in [Requests -> Stages] /\ queue \in Seq(Requests)
  BY DEF Typed
<1>2. QueuedOnce(queue, stages)
  BY StageKeepsQueue DEF Chain
<1>3. dequeue(queue, current \ {r}, stages) /\ UNCHANGED isAsync
  BY Zenon DEF finish
<1>4. QueuedOnce(queue', stage')
  BY <1>1, <1>2, <1>3, DequeueKeepsChain
<1>5. ASSUME Serial' PROVE AllButLastAnswered' /\ OnlyLastInFlight'
  <2>1. Serial /\ AllButLastAnswered /\ OnlyLastInFlight
    BY <1>3, <1>5 DEF Serial, Chain
  <2>2. current \ {r} = {} /\ r = started[Len(started)]
    BY <2>1 DEF OnlyLastInFlight
  <2>3. ASSUME NEW i \in 1..Len(started) PROVE stages[started[i]] \in Answered
    <3>1. started[i] \in Requests
      BY ElementOfSeq DEF Typed
    <3>2. CASE started[i] = r
      BY <2>1, <3>1, <3>2 DEF Typed
    <3>3. CASE started[i] # r
      BY <2>1, <2>2, <3>1, <3>3 DEF AllButLastAnswered, Typed
    <3> QED
      BY <3>2, <3>3
  <2> QED
    BY <1>1, <1>2, <1>3, <2>2, <2>3, DequeueKeepsChain
<1> QED
  BY <1>4, <1>5 DEF Chain

\* A step that leaves the queue alone and gives request r, which is neither new nor
\* queued, a stage that is answered if it was.
LEMMA StageKeepsChain ==
  ASSUME Typed, Chain, NEW r \in Requests, NEW t \in Stages, stage[r] # "queued",
         stage[r] \in Answered => t \in Answered, stage' = [stage EXCEPT ![r] = t],
         UNCHANGED <<isAsync, queue, current, started>>
  PROVE  Chain'
<1>1. QueuedOnce(queue', stage')
  BY StageKeepsQueue DEF Chain, QueuedOnce
<1>2. ASSUME Serial' PROVE AllButLastAnswered' /\ OnlyLastInFlight'
  <2>1. AllButLastAnswered /\ OnlyLastInFlight
    BY <1>2 DEF Serial, Chain
  <2>2. OnlyLastInFlight'
    BY <2>1 DEF OnlyLastInFlight
  <2>3. ASSUME NEW i \in 1..Len(started)
        PROVE  \/ stage'[started[i]] \in Answered
               \/ i = Len(started) /\ started[i] \in current
    <3>1. started[i] \in Requests
      BY ElementOfSeq DEF Typed
    <3> QED
      BY <2>1, <3>1 DEF AllButLastAnswered, Typed
  <2> QED
    BY <2>2, <2>3 DEF AllButLastAnswered, Answered
<1> QED
  BY <1>1, <1>2 DEF Chain

\* Chain is inductive, with the order of the queue and with NoneLeftBehind.
LEMMA ChainStep ==
  ASSUME Typed, Chain, NoneLeftBehind, [Next]_vars
  PROVE  Chain'
<1>1. ASSUME UNCHANGED <<isAsync, stage, queue, current, started>> PROVE Chain'
  BY <1>1 DEF Chain, QueuedOnce, Serial, AllButLastAnswered, OnlyLastInFlight, Answered
<1>2. ASSUME NEW c \in Controls, formObjChanged(c) \/ touched(c) PROVE Chain'
  BY <1>1, <1>2 DEF formObjChanged, touched, requests, sending
<1>3. ASSUME NEW r \in Requests, NEW b \in BOOLEAN, postAjax(r, b) PROVE Chain'
  <2>1. stage[r] = "new" /\ UNCHANGED isAsync
    BY <1>3 DEF postAjax
  <2>2. CASE current = {}
    <3>1. queue = <<>>
      BY <2>2 DEF NoneLeftBehind
    <3>2. current' = {r} /\ queue' = <<>> /\ started' = Append(started, r)
          /\ stage' = [stage EXCEPT ![r] = "sent"]
      BY <1>3, <2>2, <3>1 DEF postAjax, dequeue, do1
    <3>3. QueuedOnce(queue', stage')
      BY <3>2 DEF QueuedOnce
    <3>4. ASSUME Serial' PROVE AllButLastAnswered' /\ OnlyLastInFlight'
      <4>1. AllButLastAnswered
        BY <2>1, <3>4 DEF Serial, Chain
      <4>2. /\ Len(started') = Len(started) + 1 /\ Len(started) \in Nat
            /\ started'[Len(started')] = r
            /\ \A i \in 1..Len(started) : started'[i] = started[i]
        BY <3>2, AppendProperties DEF Typed
      <4>3. OnlyLastInFlight'
        BY <3>2, <4>2 DEF OnlyLastInFlight
      <4>4. ASSUME NEW i \in 1..Len(started')
            PROVE  \/ stage'[started'[i]] \in Answered
                   \/ i = Len(started') /\ started'[i] \in current'
        <5>1. CASE i \in 1..Len(started)
          <6>1. stage[started[i]] \in Answered /\ started[i] \in Requests
            BY <2>2, <4>1, <5>1, ElementOfSeq DEF AllButLastAnswered, Typed
          <6>2. started[i] # r
            BY <2>1, <6>1 DEF Answered
          <6> QED
            BY <3>2, <4>2, <5>1, <6>1, <6>2 DEF Typed
        <5>2. CASE i = Len(started) + 1
          BY <3>2, <4>2, <5>2
        <5> QED
          BY <4>2, <5>1, <5>2
      <4> QED
        BY <4>3, <4>4 DEF AllButLastAnswered, Answered
    <3> QED
      BY <3>3, <3>4 DEF Chain
  <2>3. CASE current # {}
    <3>1. /\ queue' = Append(queue, r) /\ stage' = [stage EXCEPT ![r] = "queued"]
          /\ UNCHANGED <<current, started>>
      BY <1>3, <2>3 DEF postAjax
    <3>2. /\ Len(queue') = Len(queue) + 1 /\ Len(queue) \in Nat
          /\ queue'[Len(queue')] = r
          /\ \A i \in 1..Len(queue) : queue'[i] = queue[i]
      BY <3>1, AppendProperties DEF Typed
    <3>3. QueuedOnce(queue', stage')
      <4>1. ASSUME NEW i \in 1..Len(queue)
            PROVE  queue[i] # r /\ queue[i] \in Requests /\ stage'[queue[i]] = "queued"
        <5>1. queue[i] \in Requests /\ stage[queue[i]] = "queued"
          BY ElementOfSeq DEF Typed, Chain, QueuedOnce
        <5> QED
          BY <2>1, <3>1, <5>1 DEF Typed
      <4>2. stage'[r] = "queued"
        BY <3>1 DEF Typed
      <4>3. ASSUME NEW i \in 1..Len(queue'), NEW j \in 1..Len(queue'), queue'[i] = queue'[j]
            PROVE  i = j
        <5>1. CASE i \in 1..Len(queue) /\ j \in 1..Len(queue)
          BY <3>2, <4>3, <5>1 DEF Chain, QueuedOnce
        <5>2. CASE i = Len(queue') \/ j = Len(queue')
          BY <3>2, <4>1, <4>3, <5>2
        <5> QED
          BY <3>2, <5>1, <5>2
      <4>4. ASSUME NEW i \in 1..Len(queue') PROVE stage'[queue'[i]] = "queued"
        BY <3>2, <4>1, <4>2, <4>4
      <4> QED
        BY <4>3, <4>4 DEF QueuedOnce
    <3>4. ASSUME Serial' PROVE AllButLastAnswered' /\ OnlyLastInFlight'
      <4>1. AllButLastAnswered /\ OnlyLastInFlight
        BY <2>1, <3>4 DEF Serial, Chain
      <4>2. ASSUME NEW i \in 1..Len(started)
            PROVE  \/ stage'[started[i]] \in Answered
                   \/ i = Len(started) /\ started[i] \in current
        <5>1. started[i] \in Requests
          BY ElementOfSeq DEF Typed
        <5>2. CASE stage[started[i]] \in Answered
          BY <2>1, <3>1, <5>1, <5>2 DEF Typed, Answered
        <5> QED
          BY <4>1, <5>2 DEF AllButLastAnswered
      <4>3. OnlyLastInFlight'
        BY <3>1, <4>1 DEF OnlyLastInFlight
      <4> QED
        BY <3>1, <4>2, <4>3 DEF AllButLastAnswered, Answered
    <3> QED
      BY <3>3, <3>4 DEF Chain
  <2> QED
    BY <2>2, <2>3
<1>4. ASSUME NEW r \in Requests, postAsync(r) PROVE Chain'
  <2>1. stage[r] = "new" /\ stage' = [stage EXCEPT ![r] = "sent"] /\ UNCHANGED queue
    BY <1>4 DEF postAsync
  <2>2. ~Serial'
    BY <1>4 DEF postAsync, Serial, Typed
  <2> QED
    BY <2>1, <2>2, StageKeepsQueue DEF Chain, QueuedOnce, Stages
<1>5. ASSUME NEW r \in Requests, Response(r) PROVE Chain'
  <2> USE DEF Stages, Answered
  <2>1. CASE ServerTakes(r)
    BY <2>1, StageKeepsChain DEF ServerTakes, sending
  <2>2. ASSUME NEW n \in 0..MaxFinals, Succeeds(r, n) PROVE Chain'
    BY <2>2, FinishKeepsChain DEF Succeeds
  <2>3. ASSUME NEW n \in 0..MaxFinals, StartsLoading(r, n) PROVE Chain'
    BY <2>3, FinishKeepsChain DEF StartsLoading
  <2>4. CASE FilesLoaded(r)
    BY <2>4, StageKeepsChain DEF FilesLoaded, sending
  <2>5. ASSUME NEW n \in 0..MaxFinals, Fails(r, n) PROVE Chain'
    BY <2>5, FinishKeepsChain DEF Fails
  <2>6. CASE FailsToReport(r)
    BY <2>6, StageKeepsChain DEF FailsToReport, sending
  <2> QED
    BY <1>5, <2>1, <2>2, <2>3, <2>4, <2>5, <2>6, Zenon DEF Response
<1>6. ASSUME NEW r \in Requests, TakesLate(r) PROVE Chain'
  BY <1>1, <1>6 DEF TakesLate, requests, sending
<1>7. CASE UNCHANGED vars
  BY <1>1, <1>7 DEF vars, requests, sending
<1> QED
  BY <1>2, <1>3, <1>4, <1>5, <1>6, <1>7, Zenon DEF Next

\* The queue is in order and its answers are, in every state.
LEMMA QueueHolds == Spec => [](Typed /\ InPostedOrder /\ NoneLeftBehind /\ Chain)
<1>1. Init => Typed /\ InPostedOrder /\ NoneLeftBehind /\ Chain
  BY DEF Init, Typed, InPostedOrder, NoneLeftBehind, Chain, QueuedOnce, Stages,
         AllButLastAnswered, OnlyLastInFlight
<1>2. /\ Typed /\ InPostedOrder /\ NoneLeftBehind /\ Chain /\ [Next]_vars
      => Typed' /\ InPostedOrder' /\ Chain'
  BY OrderStep, ChainStep
<1>3. Spec => []NoneLeftBehind
  BY NothingLeftBehind
<1> QED
  BY <1>1, <1>2, <1>3, PTL DEF Spec

\* Without asynchronous requests, an event is answered, or fails, only after the
\* events that came before it.
THEOREM AnswersInOrder == Spec => []AnsweredInOrder
<1>1. Typed /\ InPostedOrder /\ Chain => AnsweredInOrder
  <2> SUFFICES ASSUME Typed, InPostedOrder, Chain, Serial,
                      NEW i \in 1..Len(posted), NEW j \in 1..Len(posted), i < j,
                      stage[posted[j]] \in Answered
               PROVE  stage[posted[i]] \in Answered
    BY DEF AnsweredInOrder, Before
  <2>1. /\ Len(posted) = Len(started) + Len(queue)
        /\ Len(started) \in Nat /\ Len(queue) \in Nat
        /\ \A k \in 1..Len(started) : posted[k] = started[k]
        /\ \A k \in 1..Len(queue) : posted[Len(started) + k] = queue[k]
    BY ConcatProperties DEF InPostedOrder, Typed
  <2>2. CASE j > Len(started)
    <3>1. j - Len(started) \in 1..Len(queue) /\ j = Len(started) + (j - Len(started))
      BY <2>1, <2>2
    <3>2. posted[j] = queue[j - Len(started)]
      BY <2>1, <3>1
    <3> QED
      BY <3>1, <3>2 DEF Chain, QueuedOnce, Answered
  <2>3. CASE j <= Len(started)
    BY <2>1, <2>3 DEF Chain, AllButLastAnswered
  <2> QED
    BY <2>1, <2>2, <2>3
<1> QED
  BY <1>1, QueueHolds, PTL

-----------------------------------------------------------------------------
(* What a step does to requests and values *)

\* Request r gets stage t: the page gives up on it, or it gets on.
StillDue(r, t) ==
  /\ UNCHANGED tookLate
  /\ late' = late \/ (t \in {"failed", "broken"} /\ late' = late \cup {r})

\* Request h is sent, after the other requests have got the given stages.
Sends(h, running, stages) ==
  /\ stages[h] \in {"new", "queued"}
  /\ stage' = [stages EXCEPT ![h] = "sent"]
  /\ current' = running \cup {h}
  /\ getAjaxData(h)

\* No request is sent.
SendsNone(running, stages) ==
  /\ stage' = stages
  /\ current' = running
  /\ UNCHANGED <<carried, modified>>

\* The kinds of steps, for what the values and the files depend on: the page
\* changes; an event posts a request, or an asynchronous one; a request ends and
\* another may be sent; a request gets on otherwise.  Beside them the server takes a
\* request, in time or late.
Edits ==
  /\ UNCHANGED <<stage, current, isAsync, carried, known, late, tookLate>>
  /\ \/ UNCHANGED <<edit, modified>>
     \/ \E c \in Controls :
          /\ edit' = edit \/ (edit[c] < MaxEdits /\ edit' = [edit EXCEPT ![c] = @ + 1])
          /\ modified' = modified \cup {c}

Posts(r) ==
  /\ stage[r] = "new"
  /\ UNCHANGED <<isAsync, edit, known, late, tookLate>>
  /\ \/ current = {} /\ Sends(r, current, stage)
     \/ SendsNone(current, [stage EXCEPT ![r] = "queued"])

PostsAsync(r) ==
  /\ stage[r] = "new"
  /\ isAsync' = [isAsync EXCEPT ![r] = TRUE]
  /\ UNCHANGED <<edit, known, late, tookLate>>
  /\ Sends(r, current, stage)

Ends(r, t) ==
  /\ r \in current
  /\ stage[r] = "taken" \/ (stage[r] = "sent" /\ t = "failed")
  /\ UNCHANGED <<isAsync, edit, known>>
  /\ StillDue(r, t)
  /\ LET stages == [stage EXCEPT ![r] = t]
         running == current \ {r}
     IN \/ SendsNone(running, stages)
        \/ \E h \in Requests : stages[h] = "queued" /\ Sends(h, running, stages)

GetsOn(r, t) ==
  /\ \/ stage[r] = "loading" /\ t = "applied"
     \/ stage[r] \in {"sent", "taken"} /\ r \in current /\ t = "broken"
  /\ UNCHANGED <<isAsync, edit, known>>
  /\ StillDue(r, t)
  /\ SendsNone(current, [stage EXCEPT ![r] = t])

\* _dequeue sends the head of the queue it is given, if it has one.
LEMMA DequeueSends ==
  ASSUME NEW q \in Seq(Requests), NEW running, NEW stages,
         QueuedOnce(q, stages), dequeue(q, running, stages)
  PROVE  \/ SendsNone(running, stages)
         \/ \E h \in Requests : stages[h] = "queued" /\ Sends(h, running, stages)
<1>1. CASE q = <<>>
  BY <1>1 DEF dequeue, rest, SendsNone
<1>2. CASE q # <<>>
  <2> DEFINE h == Head(q)
  <2>1. h = q[1] /\ Len(q) > 0 /\ Len(q) \in Nat /\ h \in Requests
    BY <1>2, HeadTailProperties, LenProperties
  <2>2. h \in Requests /\ stages[h] = "queued"
    BY <2>1 DEF QueuedOnce
  <2>3. /\ stage' = [stages EXCEPT ![h] = "sent"] /\ current' = running \cup {h}
        /\ getAjaxData(h)
    BY <1>2, Zenon DEF dequeue, do1
  <2> QED
    BY <2>2, <2>3 DEF Sends
<1> QED
  BY <1>1, <1>2

\* postAjax sends its request, or queues it when something is in flight.
LEMMA PostingPosts ==
  ASSUME NoneLeftBehind, NEW r \in Requests, NEW b \in BOOLEAN, postAjax(r, b)
  PROVE  Posts(r)
<1>1. stage[r] = "new" /\ UNCHANGED <<isAsync, edit, known, late, tookLate>>
  BY DEF postAjax, overdue
<1>2. CASE current = {}
  <2>1. dequeue(<<r>>, current, stage)
    BY <1>2 DEF postAjax, NoneLeftBehind
  <2>2. Sends(r, current, stage)
    BY <1>1, <2>1 DEF dequeue, do1, Sends
  <2> QED
    BY <1>1, <1>2, <2>2 DEF Posts
<1>3. CASE current # {}
  BY <1>1, <1>3 DEF postAjax, Posts, SendsNone
<1> QED
  BY <1>2, <1>3

\* Every step is of one of these kinds.
LEMMA StepKinds ==
  ASSUME Typed, Chain, NoneLeftBehind, [Next]_vars
  PROVE  \/ Edits
         \/ \E r \in Requests :
              Posts(r) \/ PostsAsync(r) \/ ServerTakes(r) \/ TakesLate(r)
         \/ \E r \in Requests, t \in {"applied", "loading", "failed"} : Ends(r, t)
         \/ \E r \in Requests, t \in {"applied", "broken"} : GetsOn(r, t)
<1>1. ASSUME NEW c \in Controls, formObjChanged(c) \/ touched(c) PROVE Edits
  BY <1>1 DEF formObjChanged, touched, requests, sending, overdue, Edits
<1>2. ASSUME NEW r \in Requests, NEW b \in BOOLEAN, postAjax(r, b) PROVE Posts(r)
  BY <1>2, PostingPosts
<1>3. ASSUME NEW r \in Requests, postAsync(r) PROVE PostsAsync(r)
  BY <1>3 DEF postAsync, PostsAsync, Sends, overdue
<1>4. ASSUME NEW r \in Requests, NEW t \in {"applied", "loading", "failed"}, NEW cmds,
             stage[r] = "taken" \/ (stage[r] = "sent" /\ t = "failed"),
             StillDue(r, t), r \in current, finish(r, [stage EXCEPT ![r] = t], cmds)
      PROVE  Ends(r, t)
  <2> DEFINE stages == [stage EXCEPT ![r] = t]
  <2>1. queue \in Seq(Requests) /\ QueuedOnce(queue, stages)
    <3>1. t \in Stages /\ stage[r] # "queued"
      BY <1>4 DEF Stages
    <3> QED
      BY <3>1, StageKeepsQueue DEF Typed, Chain
  <2>2. dequeue(queue, current \ {r}, stages) /\ UNCHANGED <<isAsync, edit, known>>
    BY <1>4, Zenon DEF finish
  <2>3. \/ SendsNone(current \ {r}, stages)
        \/ \E h \in Requests : stages[h] = "queued" /\ Sends(h, current \ {r}, stages)
    BY <2>1, <2>2, DequeueSends
  <2> QED
    BY <1>4, <2>2, <2>3 DEF Ends
<1>5. ASSUME NEW r \in Requests, Response(r)
      PROVE  \/ ServerTakes(r)
             \/ \E t \in {"applied", "loading", "failed"} : Ends(r, t)
             \/ \E t \in {"applied", "broken"} : GetsOn(r, t)
  <2>1. ASSUME NEW n \in 0..MaxFinals, Succeeds(r, n) PROVE Ends(r, "applied")
    <3>1. StillDue(r, "applied")
      BY <2>1 DEF Succeeds, overdue, StillDue
    <3> QED
      BY <1>4, <2>1, <3>1, Zenon DEF Succeeds
  <2>2. ASSUME NEW n \in 0..MaxFinals, StartsLoading(r, n) PROVE Ends(r, "loading")
    <3>1. StillDue(r, "loading")
      BY <2>2 DEF StartsLoading, overdue, StillDue
    <3> QED
      BY <1>4, <2>2, <3>1, Zenon DEF StartsLoading
  <2>3. CASE FilesLoaded(r)
    BY <2>3 DEF FilesLoaded, GetsOn, SendsNone, StillDue, sending, values, overdue
  <2>4. ASSUME NEW n \in 0..MaxFinals, Fails(r, n) PROVE Ends(r, "failed")
    <3>1. StillDue(r, "failed")
      BY <2>4 DEF Fails, GivesUp, StillDue
    <3> QED
      BY <1>4, <2>4, <3>1, Zenon DEF Fails
  <2>5. CASE FailsToReport(r)
    BY <2>5 DEF FailsToReport, GivesUp, GetsOn, SendsNone, StillDue, sending, values
  <2> QED
    BY <1>5, <2>1, <2>2, <2>3, <2>4, <2>5, Zenon DEF Response
<1>6. CASE UNCHANGED vars
  BY <1>6 DEF vars, requests, sending, values, overdue, Edits
<1> QED
  BY <1>1, <1>2, <1>3, <1>5, <1>6, Zenon DEF Next

\* The values keep their types, and nobody has a newer value than the page.
Values ==
  /\ edit \in [Controls -> 0..MaxEdits]
  /\ modified \subseteq Controls
  /\ carried \in [Requests -> [Controls -> 0..MaxEdits]]
  /\ known \in [Controls -> 0..MaxEdits]
  /\ \A c \in Controls :
       known[c] <= edit[c] /\ \A r \in Requests : carried[r][c] <= edit[c]

\* The requests in flight: what has been sent and not answered is in current, and
\* only what has been sent; asynchronous requests are never queued.  The server takes
\* late only what the page has given up on.
InFlight ==
  /\ \A r \in Requests :
       /\ isAsync[r] => stage[r] \notin {"new", "queued"}
       /\ stage[r] \in {"sent", "taken"} => r \in current
       /\ r \in current => stage[r] \notin {"new", "queued"}
  /\ late \cup tookLate \subseteq {r \in Requests : stage[r] \in {"failed", "broken"}}

\* What a request on its way carries is what the page has, or will be sent again.
Fresh(stages) ==
  \A r \in Requests, c \in Controls :
    stages[r] = "sent" => carried[r][c] = 0 \/ c \in modified \/ carried[r][c] = edit[c]

\* The value of c in the page is not forgotten, if the requests have got the given
\* stages.
Remembered(c, stages) ==
  \/ known[c] = edit[c]
  \/ c \in modified
  \/ \E r \in Requests :
       stages[r] \in {"sent", "failed", "broken"} /\ carried[r][c] = edit[c]
  \/ PutBack(c)

\* What makes OnlyFailuresForget inductive.
Memory == Serial => Fresh(stage) /\ \A c \in Controls : Remembered(c, stage)

\* Sending a request gives it a stage of its own.
LEMMA SendsStage ==
  ASSUME NEW h \in Requests, NEW running, NEW stages \in [Requests -> Stages],
         Sends(h, running, stages)
  PROVE  /\ stage'[h] = "sent" /\ \A q \in Requests \ {h} : stage'[q] = stages[q]
         /\ stages[h] \in {"new", "queued"} /\ current' = running \cup {h}
BY DEF Sends

\* InFlight is inductive.
LEMMA InFlightStep ==
  ASSUME Typed, Chain, NoneLeftBehind, InFlight, [Next]_vars
  PROVE  InFlight'
<1> USE DEF InFlight
<1>0. stage \in [Requests -> Stages] /\ isAsync \in [Requests -> BOOLEAN]
  BY DEF Typed
<1>1. CASE Edits
  BY <1>1 DEF Edits
<1>2. ASSUME NEW r \in Requests, Posts(r) PROVE InFlight'
  <2>1. CASE Sends(r, current, stage)
    BY <1>0, <1>2, <2>1, SendsStage DEF Posts
  <2>2. CASE SendsNone(current, [stage EXCEPT ![r] = "queued"])
    BY <1>0, <1>2, <2>2 DEF Posts, SendsNone
  <2> QED
    BY <1>2, <2>1, <2>2 DEF Posts
<1>3. ASSUME NEW r \in Requests, PostsAsync(r) PROVE InFlight'
  <2>1. /\ stage'[r] = "sent" /\ \A q \in Requests \ {r} : stage'[q] = stage[q]
        /\ current' = current \cup {r}
    BY <1>0, <1>3, SendsStage DEF PostsAsync
  <2>2. \A q \in Requests \ {r} : isAsync'[q] = isAsync[q]
    BY <1>0, <1>3 DEF PostsAsync
  <2>3. UNCHANGED <<late, tookLate>> /\ stage[r] = "new"
    BY <1>3 DEF PostsAsync
  <2> QED
    BY <2>1, <2>2, <2>3
<1>4. ASSUME NEW r \in Requests, ServerTakes(r) \/ TakesLate(r) PROVE InFlight'
  BY <1>0, <1>4 DEF ServerTakes, TakesLate, sending, requests, overdue
<1>5. ASSUME NEW r \in Requests, NEW t \in {"applied", "loading", "failed"}, Ends(r, t)
      PROVE  InFlight'
  <2> DEFINE stages == [stage EXCEPT ![r] = t]
  <2>1. /\ stages \in [Requests -> Stages] /\ stages[r] = t
        /\ \A q \in Requests \ {r} : stages[q] = stage[q]
    BY <1>0 DEF Stages
  <2>2. /\ isAsync' = isAsync /\ late' \cup tookLate' \subseteq Requests
        /\ \A q \in late' \cup tookLate' : stages[q] \in {"failed", "broken"}
    BY <1>0, <1>5 DEF Ends, StillDue
  <2> HIDE DEF stages
  <2>3. CASE SendsNone(current \ {r}, stages)
    BY <2>1, <2>2, <2>3 DEF SendsNone
  <2>4. ASSUME NEW h \in Requests, stages[h] = "queued", Sends(h, current \ {r}, stages)
        PROVE  InFlight'
    <3>1. /\ stage'[h] = "sent" /\ \A q \in Requests \ {h} : stage'[q] = stages[q]
          /\ current' = (current \ {r}) \cup {h}
      BY <2>1, <2>4, SendsStage
    <3>2. h # r /\ stage[h] = "queued"
      BY <2>1, <2>4
    <3> QED
      BY <2>1, <2>2, <3>1, <3>2
  <2> QED
    BY <1>5, <2>3, <2>4, Zenon DEF Ends, stages
<1>6. ASSUME NEW r \in Requests, NEW t \in {"applied", "broken"}, GetsOn(r, t)
      PROVE  InFlight'
  BY <1>0, <1>6 DEF GetsOn, SendsNone, StillDue
<1> QED
  BY <1>1, <1>2, <1>3, <1>4, <1>5, <1>6, StepKinds

\* A request that is sent carries values of now.
LEMMA CarriesValues ==
  ASSUME Values, NEW h \in Requests, getAjaxData(h)
  PROVE  /\ carried' \in [Requests -> [Controls -> 0..MaxEdits]] /\ modified' = {}
         /\ \A q \in Requests \ {h} : carried'[q] = carried[q]
         /\ \A c \in Controls : carried'[h][c] = IF c \in modified THEN edit[c] ELSE 0
<1> DEFINE v == [c \in Controls |-> IF c \in modified THEN edit[c] ELSE 0]
<1>1. v \in [Controls -> 0..MaxEdits]
  BY ConstantsAssumption DEF Values
<1>2. carried' = [carried EXCEPT ![h] = v] /\ modified' = {}
  BY DEF getAjaxData
<1>3. \A c \in Controls : v[c] = IF c \in modified THEN edit[c] ELSE 0
  OBVIOUS
<1> HIDE DEF v
<1> QED
  BY <1>1, <1>2, <1>3 DEF Values

\* Every step leaves the values carried as they are, but for a request that it sends.
LEMMA CarriedOrSent ==
  ASSUME Typed, Chain, NoneLeftBehind, [Next]_vars
  PROVE  UNCHANGED carried \/ \E h \in Requests : getAjaxData(h)
BY StepKinds DEF Edits, Posts, PostsAsync, Ends, GetsOn, Sends, SendsNone, ServerTakes,
                 TakesLate

\* Values is inductive.
LEMMA ValuesStep ==
  ASSUME Typed, Chain, NoneLeftBehind, Values, [Next]_vars
  PROVE  Values'
<1>1. CASE Edits
  <2>0. /\ edit \in [Controls -> 0..MaxEdits] /\ modified \subseteq Controls
        /\ UNCHANGED <<carried, known>>
    BY <1>1 DEF Edits, Values
  <2>1. edit' \in [Controls -> 0..MaxEdits] /\ \A c \in Controls : edit[c] <= edit'[c]
    <3>1. CASE edit' = edit
      BY <2>0, <3>1
    <3>2. ASSUME NEW c \in Controls, edit[c] < MaxEdits, edit' = [edit EXCEPT ![c] = @ + 1]
          PROVE  edit' \in [Controls -> 0..MaxEdits] /\ \A d \in Controls : edit[d] <= edit'[d]
      <4>1. edit[c] + 1 \in 0..MaxEdits
        BY <2>0, <3>2, ConstantsAssumption
      <4> QED
        BY <2>0, <3>2, <4>1
    <3> QED
      BY <1>1, <3>1, <3>2 DEF Edits
  <2>2. modified' \subseteq Controls
    BY <1>1, <2>0 DEF Edits
  <2>3. ASSUME NEW c \in Controls, NEW n \in 0..MaxEdits, n <= edit[c]
        PROVE  n <= edit'[c]
    <3>1. edit[c] \in Int /\ edit'[c] \in Int /\ edit[c] <= edit'[c]
      BY <2>0, <2>1
    <3> QED
      BY <2>3, <3>1
  <2>4. \A c \in Controls : known[c] \in 0..MaxEdits /\ known[c] <= edit'[c]
    BY <2>3 DEF Values
  <2>5. \A c \in Controls, r \in Requests :
          carried[r][c] \in 0..MaxEdits /\ carried[r][c] <= edit'[c]
    BY <2>3 DEF Values
  <2> QED
    BY <2>0, <2>1, <2>2, <2>4, <2>5 DEF Values
<1>2. ASSUME NEW h \in Requests, getAjaxData(h), UNCHANGED <<edit, known>> PROVE Values'
  BY <1>2, CarriesValues, ConstantsAssumption DEF Values
<1>3. ASSUME UNCHANGED <<edit, known, carried, modified>> PROVE Values'
  BY <1>3 DEF Values
<1>4. ASSUME NEW r \in Requests, Posts(r) PROVE Values'
  BY <1>2, <1>3, <1>4 DEF Posts, Sends, SendsNone
<1>5. ASSUME NEW r \in Requests, PostsAsync(r) PROVE Values'
  BY <1>2, <1>5 DEF PostsAsync, Sends
<1>6. ASSUME NEW r \in Requests, ServerTakes(r) \/ TakesLate(r) PROVE Values'
  <2>1. UNCHANGED <<edit, carried, modified>> /\ known' = knownWith(r)
    BY <1>6 DEF ServerTakes, TakesLate
  <2>2. \A c \in Controls : known'[c] \in {known[c], carried[r][c]}
    BY <2>1 DEF knownWith
  <2>3. known' \in [Controls -> 0..MaxEdits]
    BY <2>1 DEF knownWith, Values
  <2> QED
    BY <2>1, <2>2, <2>3 DEF Values
<1>7. ASSUME NEW r \in Requests, NEW t \in {"applied", "loading", "failed"}, Ends(r, t)
      PROVE  Values'
  BY <1>2, <1>3, <1>7 DEF Ends, Sends, SendsNone
<1>8. ASSUME NEW r \in Requests, NEW t \in {"applied", "broken"}, GetsOn(r, t) PROVE Values'
  BY <1>3, <1>8 DEF GetsOn, SendsNone
<1> QED
  BY <1>1, <1>4, <1>5, <1>6, <1>7, <1>8, StepKinds

\* Without asynchronous requests, one request at most is in flight.
LEMMA OneInFlight ==
  ASSUME Chain, Serial, NEW q \in current, NEW r \in current
  PROVE  q = r
BY DEF Chain, OnlyLastInFlight

\* No request is sent while another is, without asynchronous requests.
AloneAmong(h, stages) == \A q \in Requests \ {h} : stages[q] # "sent"

\* Asynchronous requests stay so.
LEMMA SerialBefore ==
  ASSUME Typed, Chain, NoneLeftBehind, [Next]_vars, Serial'
  PROVE  Serial
<1>1. \A r \in Requests : isAsync[r] => isAsync'[r]
  <2>1. isAsync' = isAsync \/ \E r \in Requests : isAsync' = [isAsync EXCEPT ![r] = TRUE]
    BY StepKinds DEF Edits, Posts, PostsAsync, Ends, GetsOn, ServerTakes, TakesLate,
                     requests
  <2> QED
    BY <2>1 DEF Typed
<1> QED
  BY <1>1 DEF Serial

\* A request that is sent alone takes the changes of the page with it.
LEMMA SendRemembers ==
  ASSUME Values, NEW h \in Requests, NEW running, NEW stages \in [Requests -> Stages],
         Sends(h, running, stages), UNCHANGED <<edit, known, tookLate>>,
         AloneAmong(h, stages), tookLate \subseteq Requests \ {h},
         \A c \in Controls : Remembered(c, stages)
  PROVE  Fresh(stage)' /\ \A c \in Controls : Remembered(c, stage)'
<1>1. /\ stage'[h] = "sent" /\ \A q \in Requests \ {h} : stage'[q] = stages[q]
      /\ stages[h] \in {"new", "queued"}
  BY SendsStage
<1>2. /\ modified' = {} /\ \A q \in Requests \ {h} : carried'[q] = carried[q]
      /\ \A c \in Controls : carried'[h][c] = IF c \in modified THEN edit[c] ELSE 0
  BY CarriesValues DEF Sends
<1>3. Fresh(stage)'
  BY <1>1, <1>2 DEF Fresh, AloneAmong
<1>4. ASSUME NEW c \in Controls PROVE Remembered(c, stage)'
  <2>1. CASE known[c] = edit[c]
    BY <2>1 DEF Remembered
  <2>2. CASE c \in modified
    <3>1. carried'[h][c] = edit'[c]
      BY <1>2, <2>2
    <3> QED
      BY <1>1, <3>1 DEF Remembered
  <2>3. ASSUME NEW r \in Requests, stages[r] \in {"sent", "failed", "broken"},
               carried[r][c] = edit[c]
        PROVE  Remembered(c, stage)'
    <3>1. r # h /\ stage'[r] = stages[r] /\ carried'[r][c] = edit'[c]
      BY <1>1, <1>2, <2>3
    <3> QED
      BY <2>3, <3>1 DEF Remembered
  <2>4. CASE PutBack(c)
    <3>1. PutBack(c)'
      BY <1>2, <2>4 DEF PutBack
    <3> QED
      BY <3>1 DEF Remembered
  <2> QED
    BY <2>1, <2>2, <2>3, <2>4 DEF Remembered
<1> QED
  BY <1>3, <1>4

\* Nothing is sent.
LEMMA NoneRemembers ==
  ASSUME NEW running, NEW stages, SendsNone(running, stages),
         UNCHANGED <<edit, known, tookLate>>, Fresh(stages), \A c \in Controls : Remembered(c, stages)
  PROVE  Fresh(stage)' /\ \A c \in Controls : Remembered(c, stage)'
BY DEF SendsNone, Fresh, Remembered, PutBack

\* Without asynchronous requests, what is on its way is up to date and nothing but
\* failures forget: one step.
LEMMA RememberStep ==
  ASSUME Typed, Chain, NoneLeftBehind, InFlight, Values, [Next]_vars, Serial,
         Fresh(stage), \A c \in Controls : Remembered(c, stage), Serial'
  PROVE  Fresh(stage)' /\ \A c \in Controls : Remembered(c, stage)'
<1>0. /\ stage \in [Requests -> Stages]
      /\ tookLate \subseteq {r \in Requests : stage[r] \in {"failed", "broken"}}
  BY DEF Typed, InFlight
<1>1. CASE Edits
  <2>0. UNCHANGED <<stage, carried, known, tookLate>>
    BY <1>1 DEF Edits
  <2>1. CASE UNCHANGED <<edit, modified>>
    BY <2>0, <2>1 DEF Fresh, Remembered, PutBack
  <2>2. ASSUME NEW c \in Controls, modified' = modified \cup {c},
               edit' = edit \/ edit' = [edit EXCEPT ![c] = @ + 1]
        PROVE  Fresh(stage)' /\ \A d \in Controls : Remembered(d, stage)'
    <3>1. \A d \in Controls \ {c} : edit'[d] = edit[d]
      BY <2>2 DEF Values
    <3> QED
      BY <2>0, <2>2, <3>1 DEF Fresh, Remembered, PutBack
  <2> QED
    BY <1>1, <2>1, <2>2 DEF Edits
<1>2. ASSUME NEW r \in Requests, Posts(r)
      PROVE  Fresh(stage)' /\ \A c \in Controls : Remembered(c, stage)'
  <2>0. stage[r] = "new" /\ UNCHANGED <<edit, known, tookLate>>
    BY <1>2 DEF Posts
  <2>1. CASE current = {} /\ Sends(r, current, stage)
    <3>1. AloneAmong(r, stage)
      BY <2>1 DEF AloneAmong, InFlight
    <3> QED
      BY <1>0, <2>0, <2>1, <3>1, SendRemembers
  <2>2. CASE SendsNone(current, [stage EXCEPT ![r] = "queued"])
    <3> DEFINE stages == [stage EXCEPT ![r] = "queued"]
    <3>1. stages[r] = "queued" /\ \A q \in Requests \ {r} : stages[q] = stage[q]
      BY <1>0
    <3> HIDE DEF stages
    <3>2. Fresh(stages) /\ \A c \in Controls : Remembered(c, stages)
      BY <2>0, <3>1 DEF Fresh, Remembered
    <3> QED
      BY <2>0, <2>2, <3>2, NoneRemembers DEF stages
  <2> QED
    BY <1>2, <2>1, <2>2 DEF Posts
<1>3. ASSUME NEW r \in Requests, PostsAsync(r) PROVE FALSE
  BY <1>3 DEF PostsAsync, Typed, Serial
<1>4. ASSUME NEW r \in Requests, ServerTakes(r)
      PROVE  Fresh(stage)' /\ \A c \in Controls : Remembered(c, stage)'
  <2>1. /\ stage[r] = "sent" /\ stage'[r] = "taken"
        /\ \A q \in Requests \ {r} : stage'[q] = stage[q]
        /\ UNCHANGED <<edit, modified, carried, tookLate>>
        /\ \A c \in Controls :
             known'[c] = IF carried[r][c] # 0 THEN carried[r][c] ELSE known[c]
    BY <1>0, <1>4 DEF ServerTakes, knownWith, overdue
  <2>2. Fresh(stage)'
    BY <2>1 DEF Fresh
  <2>3. ASSUME NEW c \in Controls PROVE Remembered(c, stage)'
    <3>1. CASE c \in modified
      BY <2>1, <3>1 DEF Remembered
    <3>2. CASE c \notin modified /\ carried[r][c] # 0
      <4>1. known'[c] = edit'[c]
        BY <2>1, <3>2 DEF Fresh
      <4> QED
        BY <4>1 DEF Remembered
    <3>3. CASE c \notin modified /\ carried[r][c] = 0
      <4>1. CASE known[c] = edit[c]
        BY <2>1, <3>3, <4>1 DEF Remembered
      <4>2. ASSUME NEW q \in Requests, stage[q] \in {"sent", "failed", "broken"},
                   carried[q][c] = edit[c]
            PROVE  Remembered(c, stage)'
        <5>1. CASE q = r
          <6>1. edit[c] = 0 /\ known[c] \in 0..MaxEdits /\ known[c] <= edit[c]
            BY <3>3, <4>2, <5>1 DEF Values
          <6>2. known'[c] = edit'[c]
            BY <2>1, <3>3, <6>1
          <6> QED
            BY <6>2 DEF Remembered
        <5>2. CASE q # r
          BY <2>1, <4>2, <5>2 DEF Remembered
        <5> QED
          BY <5>1, <5>2
      <4>3. CASE PutBack(c)
        <5>1. PutBack(c)'
          BY <2>1, <3>3, <4>3 DEF PutBack
        <5> QED
          BY <5>1 DEF Remembered
      <4> QED
        BY <3>3, <4>1, <4>2, <4>3 DEF Remembered
    <3> QED
      BY <3>1, <3>2, <3>3
  <2> QED
    BY <2>2, <2>3
<1>5. ASSUME NEW r \in Requests, NEW t \in {"applied", "loading", "failed"}, Ends(r, t)
      PROVE  Fresh(stage)' /\ \A c \in Controls : Remembered(c, stage)'
  <2> DEFINE stages == [stage EXCEPT ![r] = t]
  <2>0. /\ r \in current /\ UNCHANGED <<edit, known, tookLate>>
        /\ stage[r] = "taken" \/ (stage[r] = "sent" /\ t = "failed")
        /\ stages \in [Requests -> Stages] /\ stages[r] = t
        /\ \A q \in Requests \ {r} : stages[q] = stage[q]
        /\ tookLate \subseteq {q \in Requests : stages[q] \in {"failed", "broken"}}
    BY <1>0, <1>5 DEF Ends, StillDue, Stages
  <2>1. \/ SendsNone(current \ {r}, stages)
        \/ \E h \in Requests : Sends(h, current \ {r}, stages)
    BY <1>5, Zenon DEF Ends
  <2> HIDE DEF stages
  <2>2. \A q \in Requests : stages[q] # "sent"
    <3>1. \A q \in Requests : stage[q] = "sent" => q = r
      BY <2>0, OneInFlight DEF InFlight
    <3> QED
      BY <2>0, <3>1
  <2>3. Fresh(stages) /\ \A c \in Controls : Remembered(c, stages)
    <3>1. Fresh(stages)
      BY <2>2 DEF Fresh
    <3>2. ASSUME NEW c \in Controls PROVE Remembered(c, stages)
      <4>1. ASSUME NEW q \in Requests, stage[q] \in {"sent", "failed", "broken"}
            PROVE  stages[q] \in {"sent", "failed", "broken"}
        BY <2>0, <4>1
      <4> QED
        BY <4>1 DEF Remembered
    <3> QED
      BY <3>1, <3>2
  <2>4. ASSUME NEW h \in Requests, Sends(h, current \ {r}, stages)
        PROVE  Fresh(stage)' /\ \A c \in Controls : Remembered(c, stage)'
    <3>1. tookLate \subseteq Requests \ {h}
      BY <2>0, <2>4 DEF Sends
    <3> QED
      BY <2>0, <2>2, <2>3, <2>4, <3>1, SendRemembers DEF AloneAmong
  <2> QED
    BY <2>0, <2>1, <2>3, <2>4, NoneRemembers
<1>6. ASSUME NEW r \in Requests, NEW t \in {"applied", "broken"}, GetsOn(r, t)
      PROVE  Fresh(stage)' /\ \A c \in Controls : Remembered(c, stage)'
  <2> DEFINE stages == [stage EXCEPT ![r] = t]
  <2>0. /\ UNCHANGED <<edit, known, tookLate>> /\ SendsNone(current, stages)
        /\ stage[r] = "sent" => t = "broken"
        /\ stage[r] \notin {"failed", "broken"}
        /\ stages[r] = t /\ \A q \in Requests \ {r} : stages[q] = stage[q]
    BY <1>0, <1>6 DEF GetsOn, StillDue
  <2> HIDE DEF stages
  <2>1. Fresh(stages) /\ \A c \in Controls : Remembered(c, stages)
    BY <2>0 DEF Fresh, Remembered
  <2> QED
    BY <2>0, <2>1, NoneRemembers
<1>7. ASSUME NEW r \in Requests, TakesLate(r)
      PROVE  Fresh(stage)' /\ \A c \in Controls : Remembered(c, stage)'
  <2>1. /\ UNCHANGED <<stage, edit, modified, carried>> /\ tookLate' = tookLate \cup {r}
        /\ \A c \in Controls :
             known'[c] = IF carried[r][c] # 0 THEN carried[r][c] ELSE known[c]
    BY <1>7 DEF TakesLate, knownWith, requests
  <2>2. Fresh(stage)'
    BY <2>1 DEF Fresh
  <2>3. ASSUME NEW c \in Controls PROVE Remembered(c, stage)'
    <3>1. CASE carried[r][c] # 0
      <4>1. PutBack(c)'
        BY <2>1, <3>1 DEF PutBack
      <4> QED
        BY <4>1 DEF Remembered
    <3>2. CASE carried[r][c] = 0
      <4>1. known'[c] = known[c] /\ (PutBack(c) => PutBack(c)')
        BY <2>1, <3>2 DEF PutBack
      <4> QED
        BY <2>1, <4>1 DEF Remembered
    <3> QED
      BY <3>1, <3>2
  <2> QED
    BY <2>2, <2>3
<1> QED
  BY <1>1, <1>2, <1>3, <1>4, <1>5, <1>6, <1>7, StepKinds

\* Values and requests in flight go together in every state.
LEMMA MemoryHolds == Spec => [](InFlight /\ Values /\ Memory)
<1>1. Init => InFlight /\ Values /\ Memory
  BY ConstantsAssumption DEF Init, InFlight, Values, Memory, Fresh, Remembered
<1>2. Typed /\ Chain /\ NoneLeftBehind /\ InFlight /\ Values /\ Memory /\ [Next]_vars
      => InFlight' /\ Values' /\ Memory'
  BY InFlightStep, ValuesStep, RememberStep, SerialBefore DEF Memory
<1> QED
  BY <1>1, <1>2, QueueHolds, PTL DEF Spec

\* No change of a control is forgotten but for what went with a request that failed, or
\* was put back by one that the server took late, and but for asynchronous requests.
THEOREM ChangesAreKept == Spec => []OnlyFailuresForget
<1>1. Memory => OnlyFailuresForget
  BY DEF Memory, OnlyFailuresForget, Remembered, Kept, WentWithFailed
<1> QED
  BY <1>1, MemoryHolds, PTL

\* "We need to submit everything" (goradd.js:110): no change is forgotten on pages
\* without asynchronous actions whose requests do not fail.
THEOREM NothingForgotten ==
  ASSUME AsyncAllowed = FALSE, Failures = {}
  PROVE  Spec => []ChangesReachServer
<1> DEFINE Alive(stages) == \A r \in Requests : stages[r] \notin {"failed", "broken"}
           Smooth == Serial /\ Alive(stage) /\ late = {} /\ tookLate = {}
<1>1. Init => Smooth
  BY DEF Init, Serial
<1>2. Typed /\ Smooth /\ [Next]_vars => Smooth'
  <2> SUFFICES ASSUME Typed, Smooth, [Next]_vars PROVE Smooth'
    OBVIOUS
  <2>1. UNCHANGED isAsync
    BY DEF Next, formObjChanged, touched, postAjax, postAsync, Response, ServerTakes,
           Succeeds, StartsLoading, FilesLoaded, Fails, FailsToReport, TakesLate, finish,
           requests, vars
  <2>2. ASSUME NEW r, NEW t \in {"queued", "sent", "taken", "loading", "applied"}
        PROVE  Alive([stage EXCEPT ![r] = t])
    BY DEF Typed
  <2>3. ASSUME NEW q, NEW running, NEW stages \in [Requests -> Stages], Alive(stages),
               dequeue(q, running, stages)
        PROVE  Alive(stage')
    BY <2>3 DEF dequeue, do1, rest
  <2>4. ASSUME NEW r \in Requests, NEW b \in BOOLEAN, postAjax(r, b) PROVE Alive(stage')
    BY <2>2, <2>3, <2>4 DEF postAjax, Typed
  <2>5. ASSUME NEW r \in Requests, NEW t \in {"loading", "applied"}, NEW cmds,
               finish(r, [stage EXCEPT ![r] = t], cmds)
        PROVE  Alive(stage')
    <3>1. [stage EXCEPT ![r] = t] \in [Requests -> Stages]
      BY DEF Typed, Stages
    <3>2. dequeue(queue, current \ {r}, [stage EXCEPT ![r] = t])
      BY <2>5, Zenon DEF finish
    <3> QED
      BY <2>2, <2>3, <3>1, <3>2
  <2>6. ASSUME NEW r \in Requests, Response(r) PROVE Alive(stage')
    <3>1. CASE ServerTakes(r) \/ FilesLoaded(r)
      BY <2>2, <3>1 DEF ServerTakes, FilesLoaded
    <3>2. ASSUME NEW n \in 0..MaxFinals, Succeeds(r, n) \/ StartsLoading(r, n)
          PROVE  Alive(stage')
      BY <2>5, <3>2, Zenon DEF Succeeds, StartsLoading
    <3> QED
      BY <2>6, <3>1, <3>2 DEF Response, Fails, FailsToReport
  <2>7. ASSUME UNCHANGED stage PROVE Alive(stage')
    BY <2>7
  <2>8. UNCHANGED <<late, tookLate>>
    BY DEF Next, formObjChanged, touched, postAjax, postAsync, Response, ServerTakes,
           Succeeds, StartsLoading, FilesLoaded, Fails, FailsToReport, TakesLate, overdue, vars
  <2> QED
    BY <2>1, <2>4, <2>6, <2>7, <2>8
    DEF Next, formObjChanged, touched, postAsync, TakesLate, requests, vars, Serial
<1>3. Smooth /\ OnlyFailuresForget => ChangesReachServer
  BY DEF OnlyFailuresForget, ChangesReachServer, WentWithFailed, PutBack
<1>4. Spec => []Typed
  BY QueueHolds, PTL
<1> QED
  BY <1>1, <1>2, <1>3, <1>4, ChangesAreKept, PTL DEF Spec

-----------------------------------------------------------------------------
(* Types *)

\* The elements of a sequence may be typed one by one.
LEMMA TypedByElement ==
  ASSUME NEW S, NEW s \in Seq(S), NEW T, \A i \in 1..Len(s) : s[i] \in T
  PROVE  s \in Seq(T)
<1>1. Len(s) \in Nat /\ s \in [1..Len(s) -> S]
  BY LenProperties
<1>2. s \in [1..Len(s) -> T]
  BY <1>1
<1> QED
  BY <1>1, <1>2, SeqDef

\* Reverse keeps the elements.
LEMMA ReverseKeeps ==
  ASSUME NEW S, NEW s \in Seq(S)
  PROVE  Reverse(s) \in Seq(S)
<1>1. Len(s) \in Nat /\ \A i \in 1..Len(s) : s[i] \in S /\ (Len(s) - i) + 1 \in 1..Len(s)
  BY LenProperties
<1>2. Reverse(s) \in [1..Len(s) -> S]
  BY <1>1 DEF Reverse
<1> QED
  BY <1>1, <1>2, SeqDef

\* The commands of a response.
LEMMA FinalsTyped ==
  ASSUME NEW r \in Requests, NEW n \in 0..MaxFinals
  PROVE  Finals(r, n) \in Seq(Commands)
<1>1. n \in Nat /\ \A i \in 1..n : i \in 1..MaxFinals
  BY ConstantsAssumption
<1>2. Finals(r, n) \in [1..n -> Commands]
  BY <1>1 DEF Finals, Commands
<1> QED
  BY <1>1, <1>2, SeqDef

\* What is left of the types: the commands, the blocking and the requests in flight.
Rest ==
  /\ current \subseteq Requests
  /\ blocking \in [Requests -> BOOLEAN] /\ blockEvents \in BOOLEAN
  /\ toRun \in [Requests -> Seq(Commands)]
  /\ finals \in Seq(Commands) /\ executed \in Seq(Commands)
  /\ applied \in Seq(Requests)

\* The end of a request keeps them.
LEMMA FinishTyped ==
  ASSUME Typed, Rest, NEW r \in Requests, NEW stages, NEW cmds \in Seq(Commands),
         finish(r, stages, cmds)
  PROVE  /\ finals' \in Seq(Commands) /\ executed' \in Seq(Commands)
         /\ current' \subseteq Requests /\ blocking' = blocking
<1>1. blocking' = blocking /\ dequeue(queue, current \ {r}, stages)
  BY Zenon DEF finish
<1>2. current' \subseteq Requests
  <2>1. CASE queue = <<>>
    BY <1>1, <2>1 DEF dequeue, rest, Rest
  <2>2. CASE queue # <<>>
    <3>1. Head(queue) \in Requests
      BY <2>2, HeadTailProperties DEF Typed
    <3> QED
      BY <1>1, <2>2, <3>1 DEF dequeue, do1, Rest
  <2> QED
    BY <2>1, <2>2
<1>3. finals' \in Seq(Commands) /\ executed' \in Seq(Commands)
  <2>1. CASE queueComplete(r)
    <3>1. finals' = <<>> /\ executed' = executed \o Reverse(cmds)
      BY <2>1 DEF finish
    <3>2. Reverse(cmds) \in Seq(Commands)
      BY ReverseKeeps
    <3> QED
      BY <3>1, <3>2, ConcatProperties, EmptySeq DEF Rest
  <2>2. CASE ~ queueComplete(r)
    BY <2>2 DEF finish, Rest
  <2> QED
    BY <2>1, <2>2
<1> QED
  BY <1>1, <1>2, <1>3

\* Every step keeps them.
LEMMA RestStep ==
  ASSUME Typed, NoneLeftBehind, Rest, [Next]_vars
  PROVE  Rest'
<1>0. /\ current \subseteq Requests /\ blocking \in [Requests -> BOOLEAN]
      /\ toRun \in [Requests -> Seq(Commands)]
      /\ finals \in Seq(Commands) /\ executed \in Seq(Commands) /\ applied \in Seq(Requests)
  BY DEF Rest
<1>1. ASSUME NEW c \in Controls, formObjChanged(c) \/ touched(c) PROVE Rest'
  BY <1>1 DEF formObjChanged, touched, requests, sending, commands, Rest
<1>2. ASSUME NEW r \in Requests, NEW b \in BOOLEAN, postAjax(r, b) PROVE Rest'
  <2>1. Posts(r)
    BY <1>2, PostingPosts
  <2>2. current' \subseteq Requests
    BY <1>0, <2>1 DEF Posts, Sends, SendsNone
  <2>3. /\ blocking' = [blocking EXCEPT ![r] = b] /\ blockEvents' = b
        /\ UNCHANGED <<toRun, finals, executed, applied>>
    BY <1>2, Zenon DEF postAjax, commands
  <2>4. blocking' \in [Requests -> BOOLEAN]
    BY <1>0, <2>3
  <2>5. blockEvents' \in BOOLEAN
    BY <2>3, Zenon
  <2> QED
    BY <1>0, <2>2, <2>3, <2>4, <2>5 DEF Rest
<1>3. ASSUME NEW r \in Requests, postAsync(r) PROVE Rest'
  BY <1>3 DEF postAsync, commands, Rest
<1>4. ASSUME NEW r \in Requests, Response(r) PROVE Rest'
  <2>1. CASE ServerTakes(r)
    BY <2>1 DEF ServerTakes, sending, commands, Rest
  <2>2. ASSUME NEW n \in 0..MaxFinals, Succeeds(r, n) PROVE Rest'
    <3>1. finals \o Finals(r, n) \in Seq(Commands)
      BY <1>0, FinalsTyped, ConcatProperties
    <3>2. finish(r, [stage EXCEPT ![r] = "applied"], finals \o Finals(r, n))
      BY <2>2, Zenon DEF Succeeds
    <3>3. /\ finals' \in Seq(Commands) /\ executed' \in Seq(Commands)
          /\ current' \subseteq Requests /\ blocking' = blocking
      BY <3>1, <3>2, FinishTyped, Zenon
    <3>4. applied' = Append(applied, r) /\ blockEvents' = FALSE /\ toRun' = toRun
      BY <2>2, Zenon DEF Succeeds
    <3>5. applied' \in Seq(Requests)
      BY <1>0, <3>4, AppendProperties
    <3>6. blockEvents' \in BOOLEAN
      BY <3>4, Zenon
    <3> QED
      BY <1>0, <3>3, <3>4, <3>5, <3>6 DEF Rest
  <2>3. ASSUME NEW n \in 0..MaxFinals, StartsLoading(r, n) PROVE Rest'
    <3>1. /\ finish(r, [stage EXCEPT ![r] = "loading"], finals)
          /\ toRun' = [toRun EXCEPT ![r] = Finals(r, n)]
          /\ blockEvents' = FALSE /\ applied' = applied
      BY <2>3, Zenon DEF StartsLoading
    <3>2. /\ finals' \in Seq(Commands) /\ executed' \in Seq(Commands)
          /\ current' \subseteq Requests /\ blocking' = blocking
      BY <1>0, <3>1, FinishTyped, Zenon
    <3>3. toRun' \in [Requests -> Seq(Commands)]
      <4>1. Finals(r, n) \in Seq(Commands)
        BY FinalsTyped
      <4> QED
        BY <1>0, <3>1, <4>1
    <3>4. blockEvents' \in BOOLEAN
      BY <3>1, Zenon
    <3> QED
      BY <1>0, <3>1, <3>2, <3>3, <3>4 DEF Rest
  <2>4. CASE FilesLoaded(r)
    <3>1. /\ applied' = Append(applied, r) /\ toRun' = [toRun EXCEPT ![r] = <<>>]
          /\ UNCHANGED <<blocking, current, blockEvents>>
          /\ \/ finals' = finals \o toRun[r] /\ UNCHANGED executed
             \/ executed' = executed \o toRun[r] /\ UNCHANGED finals
      BY <2>4 DEF FilesLoaded, sending
    <3>2. applied' \in Seq(Requests)
      BY <1>0, <3>1, AppendProperties
    <3>3. toRun' \in [Requests -> Seq(Commands)]
      BY <1>0, <3>1, EmptySeq
    <3>4. finals' \in Seq(Commands) /\ executed' \in Seq(Commands)
      <4>1. toRun[r] \in Seq(Commands)
        BY <1>0
      <4>2. /\ finals \o toRun[r] \in Seq(Commands)
            /\ executed \o toRun[r] \in Seq(Commands)
        BY <1>0, <4>1, ConcatProperties
      <4> QED
        BY <1>0, <3>1, <4>2
    <3> QED
      BY <1>0, <3>1, <3>2, <3>3, <3>4, Zenon DEF Rest
  <2>5. ASSUME NEW n \in 0..MaxFinals, Fails(r, n) PROVE Rest'
    <3>1. /\ finish(r, [stage EXCEPT ![r] = "failed"], finals \o Finals(r, n))
          /\ UNCHANGED <<applied, toRun, blockEvents>>
      BY <2>5, Zenon DEF Fails
    <3>2. finals \o Finals(r, n) \in Seq(Commands)
      BY <1>0, FinalsTyped, ConcatProperties
    <3>3. /\ finals' \in Seq(Commands) /\ executed' \in Seq(Commands)
          /\ current' \subseteq Requests /\ blocking' = blocking
      BY <3>1, <3>2, FinishTyped, Zenon
    <3>4. blockEvents' \in BOOLEAN
      BY <3>1, Zenon DEF Rest
    <3> QED
      BY <1>0, <3>1, <3>3, <3>4, Zenon DEF Rest
  <2>6. CASE FailsToReport(r)
    BY <2>6 DEF FailsToReport, sending, commands, Rest
  <2> QED
    BY <1>4, <2>1, <2>2, <2>3, <2>4, <2>5, <2>6, Zenon DEF Response
<1>5. ASSUME NEW r \in Requests, TakesLate(r) PROVE Rest'
  BY <1>5 DEF TakesLate, requests, sending, commands, Rest
<1>6. CASE UNCHANGED vars
  BY <1>6 DEF vars, requests, sending, commands, Rest
<1> QED
  BY <1>1, <1>2, <1>3, <1>4, <1>5, <1>6, Zenon DEF Next

\* Every variable keeps its type; what is queued is a request that has not been sent
\* and is not asynchronous, and what is in flight is a request that has.
THEOREM Typing == Spec => []TypeOK
<1>1. Init => Rest
  <2> SUFFICES ASSUME Init PROVE Rest
    OBVIOUS
  <2>1. blockEvents \in BOOLEAN
    BY Zenon DEF Init
  <2>2. blocking \in [Requests -> BOOLEAN] /\ current \subseteq Requests
    BY DEF Init
  <2>3. /\ toRun \in [Requests -> Seq(Commands)] /\ applied \in Seq(Requests)
        /\ finals \in Seq(Commands) /\ executed \in Seq(Commands)
    BY EmptySeq DEF Init
  <2> QED
    BY <2>1, <2>2, <2>3 DEF Rest
<1>2. Typed /\ NoneLeftBehind /\ Rest /\ [Next]_vars => Rest'
  BY RestStep
<1>3. Typed /\ Chain /\ InFlight /\ Values /\ Rest => TypeOK
  <2> SUFFICES ASSUME Typed, Chain, InFlight, Values, Rest PROVE TypeOK
    OBVIOUS
  <2> DEFINE inQueue == {r \in Requests : stage[r] = "queued" /\ ~ isAsync[r]}
  <2>1. queue \in Seq(inQueue)
    <3>1. queue \in Seq(Requests) /\ \A i \in 1..Len(queue) : queue[i] \in Requests
      BY LenProperties DEF Typed
    <3>2. \A i \in 1..Len(queue) : queue[i] \in inQueue
      BY <3>1 DEF Chain, QueuedOnce, InFlight
    <3> HIDE DEF inQueue
    <3> QED
      BY <3>1, <3>2, TypedByElement
  <2>2. current \subseteq {r \in Requests : stage[r] \notin {"new", "queued"}}
    BY DEF Rest, InFlight
  <2>3. late \cup tookLate \subseteq {r \in Requests : stage[r] \in {"failed", "broken"}}
    BY DEF InFlight
  <2> QED
    BY <2>1, <2>2, <2>3, Zenon DEF TypeOK, Typed, Values, Rest
<1> QED
  BY <1>1, <1>2, <1>3, QueueHolds, MemoryHolds, PTL DEF Spec

-----------------------------------------------------------------------------
(* What the queue promises *)

\* Steps that neither queue, send nor end a request are not seen.
LEMMA TurnRests ==
  ASSUME UNCHANGED <<queue, current>>,
         \A r \in Requests : stage[r] \in Answered <=> stage'[r] \in Answered
  PROVE  UNCHANGED <<queue, current, ended>>
BY DEF ended, Answered

\* The end of request r, which sends the head of the queue.
LEMMA TurnEnds ==
  ASSUME TypeOK, NEW r \in Requests, r \in current, NEW t \in Answered, NEW cmds,
         finish(r, [stage EXCEPT ![r] = t], cmds)
  PROVE  Turns!End(r)
<1> DEFINE stages == [stage EXCEPT ![r] = t]
<1>1. dequeue(queue, current \ {r}, stages)
  BY Zenon DEF finish
<1>2. ended \cup {r} = {q \in Requests : stages[q] \in Answered}
  BY DEF ended, TypeOK
<1>3. CASE queue = <<>>
  <2>1. UNCHANGED queue /\ current' = current \ {r} /\ stage' = stages
    BY <1>1, <1>3 DEF dequeue, rest
  <2>2. ended' = ended \cup {r}
    BY <1>2, <2>1 DEF ended, Answered
  <2> QED
    BY <1>3, <2>1, <2>2 DEF Turns!End
<1>4. CASE queue # <<>>
  <2>1. /\ queue' = Tail(queue) /\ current' = (current \ {r}) \cup {Head(queue)}
        /\ stage' = [stages EXCEPT ![Head(queue)] = "sent"]
    BY <1>1, <1>4 DEF dequeue, do1
  <2>2. Head(queue) \in Requests /\ stage[Head(queue)] = "queued"
    BY <1>4 DEF TypeOK
  <2>3. Head(queue) # r
    BY <2>2 DEF TypeOK
  <2>4. stages[Head(queue)] = "queued"
    BY <2>2, <2>3 DEF TypeOK
  <2>5. ended' = ended \cup {r}
    <3>1. \A q \in Requests : stage'[q] \in Answered <=> stages[q] \in Answered
      BY <2>1, <2>2, <2>4 DEF TypeOK, Answered
    <3> QED
      BY <1>2, <3>1 DEF ended, Answered
  <2> QED
    BY <1>4, <2>1, <2>5 DEF Turns!End
<1> QED
  BY <1>3, <1>4

\* Every step is one of the abstract queue, or is not seen by it.
LEMMA TurnStep ==
  ASSUME TypeOK, NoneLeftBehind, [Next]_vars
  PROVE  [Turns!Next]_(Turns!vars)
<1> DEFINE Seen == <<queue, current, ended>>
<1>1. ASSUME NEW r \in Requests, stage[r] = "new" PROVE Turns!Fresh(r)
  <2>1. \A i \in 1..Len(queue) : stage[queue[i]] = "queued"
    BY DEF TypeOK
  <2>2. r \notin current /\ r \notin ended
    BY <1>1 DEF TypeOK, ended, Answered
  <2> QED
    BY <1>1, <2>1, <2>2 DEF Turns!Fresh
<1>2. ASSUME NEW c \in Controls, formObjChanged(c) \/ touched(c) PROVE UNCHANGED Seen
  BY <1>2, TurnRests DEF formObjChanged, touched, requests, sending
<1>3. ASSUME NEW r \in Requests, NEW b \in BOOLEAN, postAjax(r, b) PROVE Turns!Post(r)
  <2>1. Turns!Fresh(r) /\ stage[r] = "new"
    BY <1>1, <1>3 DEF postAjax
  <2>2. ASSUME NEW t \in {"sent", "queued"}, stage' = [stage EXCEPT ![r] = t]
        PROVE  UNCHANGED ended
    BY <2>1, <2>2 DEF ended, Answered, TypeOK
  <2>3. CASE current = {}
    <3>1. dequeue(<<r>>, current, stage) /\ queue = <<>>
      BY <1>3, <2>3 DEF postAjax, NoneLeftBehind
    <3>2. UNCHANGED queue /\ current' = {r} /\ stage' = [stage EXCEPT ![r] = "sent"]
      BY <2>3, <3>1 DEF dequeue, do1
    <3> QED
      BY <2>1, <2>2, <2>3, <3>2 DEF Turns!Post
  <2>4. CASE current # {}
    <3>1. /\ queue' = Append(queue, r) /\ UNCHANGED current
          /\ stage' = [stage EXCEPT ![r] = "queued"]
      BY <1>3, <2>4 DEF postAjax
    <3> QED
      BY <2>1, <2>2, <2>4, <3>1 DEF Turns!Post
  <2> QED
    BY <2>3, <2>4
<1>4. ASSUME NEW r \in Requests, postAsync(r) PROVE Turns!PostAside(r)
  <2>1. stage[r] = "new" /\ stage' = [stage EXCEPT ![r] = "sent"]
    BY <1>4 DEF postAsync
  <2>2. UNCHANGED ended
    BY <2>1 DEF ended, Answered, TypeOK
  <2> QED
    BY <1>1, <1>4, <2>1, <2>2 DEF postAsync, Turns!PostAside
<1>5. ASSUME NEW r \in Requests, Response(r) PROVE Turns!End(r) \/ UNCHANGED Seen
  <2>1. {"applied", "loading", "failed"} \subseteq Answered
    BY DEF Answered
  <2>2. CASE ServerTakes(r)
    BY <2>2, TurnRests DEF ServerTakes, sending, TypeOK, Answered
  <2>3. ASSUME NEW n \in 0..MaxFinals, Succeeds(r, n) PROVE Turns!End(r)
    BY <2>1, <2>3, TurnEnds DEF Succeeds
  <2>4. ASSUME NEW n \in 0..MaxFinals, StartsLoading(r, n) PROVE Turns!End(r)
    BY <2>1, <2>4, TurnEnds DEF StartsLoading
  <2>5. CASE FilesLoaded(r)
    BY <2>5, TurnRests DEF FilesLoaded, sending, TypeOK, Answered
  <2>6. ASSUME NEW n \in 0..MaxFinals, Fails(r, n) PROVE Turns!End(r)
    BY <2>1, <2>6, TurnEnds DEF Fails
  <2>7. CASE FailsToReport(r)
    BY <2>7, TurnRests DEF FailsToReport, sending, TypeOK, Answered
  <2> QED
    BY <1>5, <2>2, <2>3, <2>4, <2>5, <2>6, <2>7, Zenon DEF Response
<1>6. ASSUME NEW r \in Requests, TakesLate(r) PROVE UNCHANGED Seen
  BY <1>6 DEF TakesLate, requests, sending, ended, Answered
<1>7. ASSUME UNCHANGED vars PROVE UNCHANGED Seen
  BY <1>7 DEF vars, requests, sending, ended, Answered
<1> QED
  BY <1>2, <1>3, <1>4, <1>5, <1>6, <1>7 DEF Next, Turns!Next, Turns!vars

\* Seen without stages, values, commands and failures, the ajax queue serves its
\* requests in turn.
THEOREM QueueServesInTurn == Spec => ServesInTurn
<1>1. Init => Turns!Init
  BY DEF Init, Turns!Init, ended, Answered
<1> QED
  BY <1>1, TurnStep, Typing, NothingLeftBehind, PTL DEF Spec, ServesInTurn, Turns!Spec

\* "A new Ajax request won't be started until the previous queued request has
\* finished", on pages without asynchronous actions.
THEOREM OneByOne ==
  ASSUME AsyncAllowed = FALSE
  PROVE  Spec => []OneAtATime
<1>1. Init => Serial
  BY DEF Init, Serial
<1>2. Serial /\ [Next]_vars => Serial'
  <2> SUFFICES ASSUME Serial, [Next]_vars PROVE UNCHANGED isAsync
    BY DEF Serial
  <2> QED
    BY DEF Next, formObjChanged, touched, postAjax, postAsync, Response, ServerTakes,
           Succeeds, StartsLoading, FilesLoaded, Fails, FailsToReport, TakesLate, finish,
           requests, vars
<1>3. Serial /\ Chain /\ InFlight => OneAtATime
  BY DEF Serial, Chain, OnlyLastInFlight, InFlight, OneAtATime
<1> QED
  BY <1>1, <1>2, <1>3, QueueHolds, MemoryHolds, PTL DEF Spec

-----------------------------------------------------------------------------
(* The files of a control *)
\* The files of the event "upload": until they are gathered the control counts as
\* changed; then a request has them, with that version of the files or a later one,
\* and it was sent no later than the request of "upload".
Files ==
  /\ ready \in BOOLEAN /\ asFiles \subseteq Requests /\ stored \in Nat
  /\ upload \in [state : {"none", "due", "posted", "dropped"}, version : Nat,
                 request : SUBSET Requests]
  /\ upload.version <= edit[FileSelect]
  /\ ready => FileSelect \in modified
  /\ upload.state = "none" => ~ ready /\ asFiles = {}
  /\ upload.state # "posted" => upload.request = {}
  /\ upload.state # "none" /\ ~ ready => asFiles # {}
  /\ \A s \in asFiles :
       /\ stage[s] \notin {"new", "queued"} /\ carried[s][FileSelect] >= upload.version
       /\ stage[s] \in {"taken", "loading", "applied"} => stored >= upload.version
  /\ \A r \in upload.request :
       stage[r] \notin {"new", "queued"} =>
         /\ ~ ready
         /\ Serial => \A s \in asFiles : stage[s] = "sent" => r = s

\* The files go to the request that is sent with the control as changed.
LEMMA GathersOne ==
  ASSUME Files, Gathers, NEW h \in Requests, stage[h] # "sent", stage'[h] = "sent",
         \A q \in Requests \ {h} : stage'[q] = "sent" => stage[q] = "sent"
  PROVE  /\ ready' = FALSE
         /\ asFiles' = IF ready THEN asFiles \cup {h} ELSE asFiles
<1> DEFINE sent == {r \in Requests : stage[r] # "sent" /\ stage'[r] = "sent"}
<1>1. sent = {h}
  OBVIOUS
<1>2. IF sent # {} /\ FileSelect \in modified THEN \E r \in sent : val(r)
                                              ELSE UNCHANGED <<ready, asFiles>>
  BY Zenon DEF Gathers
<1> HIDE DEF sent
<1>3. IF FileSelect \in modified THEN val(h) ELSE UNCHANGED <<ready, asFiles>>
  BY <1>1, <1>2
<1> QED
  BY <1>3 DEF val, Files

\* They stay where they are when no request is sent.
LEMMA GathersNone ==
  ASSUME Gathers, \A q \in Requests : stage'[q] = "sent" => stage[q] = "sent"
  PROVE  UNCHANGED <<ready, asFiles>>
<1> DEFINE sent == {r \in Requests : stage[r] # "sent" /\ stage'[r] = "sent"}
<1>1. sent = {}
  OBVIOUS
<1>2. IF sent # {} /\ FileSelect \in modified THEN \E r \in sent : val(r)
                                              ELSE UNCHANGED <<ready, asFiles>>
  BY Zenon DEF Gathers
<1> QED
  BY <1>1, <1>2

\* The server stores files when it takes the request that has them.
LEMMA StoresOne ==
  ASSUME Stores, NEW r \in Requests,
         \/ stage[r] = "sent" /\ stage'[r] = "taken" /\ UNCHANGED late
         \/ UNCHANGED stage /\ r \in late /\ late' = late \ {r},
         asFiles \subseteq Requests, \A q \in Requests \ {r} : stage'[q] = stage[q]
  PROVE  stored' = IF r \in asFiles THEN carried[r][FileSelect] ELSE stored
<1> DEFINE taken == {q \in asFiles : \/ stage[q] = "sent" /\ stage'[q] = "taken"
                                     \/ q \in late \ late'}
<1>1. taken = IF r \in asFiles THEN {r} ELSE {}
  OBVIOUS
<1>2. stored' = IF taken = {} THEN stored ELSE carried[CHOOSE q \in taken : TRUE][FileSelect]
  BY DEF Stores
<1> HIDE DEF taken
<1> QED
  BY <1>1, <1>2

\* It stores none in the other steps.
LEMMA StoresNone ==
  ASSUME Stores, asFiles \subseteq Requests, late \subseteq late',
         \A q \in Requests : stage'[q] = "taken" => stage[q] # "sent"
  PROVE  stored' = stored
BY DEF Stores

\* A request may come to the given stages as far as the files are concerned: one that
\* has not been sent stays so, and one that succeeds was taken before.
Later(stages) ==
  \A q \in Requests :
    /\ stages[q] \in {"new", "queued"} <=> stage[q] \in {"new", "queued"}
    /\ stages[q] = "sent" => stage[q] = "sent"
    /\ stages[q] \in {"taken", "loading", "applied"} =>
         stage[q] \in {"taken", "loading", "applied"}

\* The event "upload" rests, or its request is one that is not sent, or h.
UploadsBy(h) ==
  \/ upload' = upload
  \/ /\ upload.state = "due"
     /\ \E r \in Requests :
          /\ upload' = [upload EXCEPT !.state = "posted", !.request = {r}]
          /\ r \in h \/ stage'[r] \in {"new", "queued"}

\* What becomes of the event "upload" and its request.
LEMMA UploadEffect ==
  ASSUME Files, NEW h, UploadsBy(h)
  PROVE  /\ upload' \in [state : {"none", "due", "posted", "dropped"}, version : Nat,
                         request : SUBSET Requests]
         /\ upload'.version = upload.version
         /\ upload'.state = "none" <=> upload.state = "none"
         /\ upload'.state # "posted" => upload'.request = {}
         /\ \A r \in upload'.request :
              r \in upload.request \/ r \in h \/ stage'[r] \in {"new", "queued"}
<1>1. /\ upload \in [state : {"none", "due", "posted", "dropped"}, version : Nat,
                      request : SUBSET Requests]
      /\ upload.state # "posted" => upload.request = {}
  BY DEF Files
<1>2. CASE upload' = upload
  BY <1>1, <1>2
<1>3. ASSUME NEW r \in Requests, upload.state = "due",
             r \in h \/ stage'[r] \in {"new", "queued"},
             upload' = [upload EXCEPT !.state = "posted", !.request = {r}]
      PROVE  /\ upload' \in [state : {"none", "due", "posted", "dropped"}, version : Nat,
                              request : SUBSET Requests]
             /\ upload'.version = upload.version
             /\ upload'.state = "none" <=> upload.state = "none"
             /\ upload'.state # "posted" => upload'.request = {}
             /\ \A q \in upload'.request :
                  q \in upload.request \/ q \in h \/ stage'[q] \in {"new", "queued"}
  <2>1. /\ upload' \in [state : {"none", "due", "posted", "dropped"}, version : Nat,
                         request : SUBSET Requests]
        /\ upload'.version = upload.version /\ upload'.request = {r}
        /\ upload'.state = "posted"
    BY <1>1, <1>3
  <2> QED
    BY <1>3, <2>1
<1> QED
  BY <1>2, <1>3, Zenon DEF UploadsBy

\* A request is sent, and takes the files with it if they are ready.
LEMMA FilesSent ==
  ASSUME Values, Files, Gathers, NEW h \in Requests, NEW running,
         NEW stages \in [Requests -> Stages], Later(stages), Sends(h, running, stages),
         Serial' => AloneAmong(h, stages), UNCHANGED <<edit, stored>>, UploadsBy({h})
  PROVE  Files'
<1>1. /\ stage'[h] = "sent" /\ \A q \in Requests \ {h} : stage'[q] = stages[q]
      /\ stages[h] \in {"new", "queued"} /\ stage[h] \in {"new", "queued"}
  BY SendsStage DEF Later
<1>2. ready' = FALSE /\ asFiles' = IF ready THEN asFiles \cup {h} ELSE asFiles
  BY <1>1, GathersOne DEF Later
<1>3. /\ \A q \in Requests \ {h} : carried'[q] = carried[q]
      /\ FileSelect \in modified => carried'[h][FileSelect] = edit[FileSelect]
  BY CarriesValues, FileAssumption DEF Sends
<1>4. /\ upload' \in [state : {"none", "due", "posted", "dropped"}, version : Nat,
                      request : SUBSET Requests]
      /\ upload'.version = upload.version
      /\ upload'.state = "none" <=> upload.state = "none"
      /\ upload'.state # "posted" => upload'.request = {}
      /\ \A r \in upload'.request :
           r \in upload.request \/ r = h \/ stage'[r] \in {"new", "queued"}
  BY UploadEffect
<1>5. /\ asFiles \subseteq Requests /\ h \notin asFiles
      /\ upload.version \in Nat /\ edit[FileSelect] \in Nat
      /\ upload.version <= edit[FileSelect]
  BY <1>1, FileAssumption, ConstantsAssumption DEF Files, Values
<1>6. ASSUME NEW s \in asFiles'
      PROVE  /\ stage'[s] \notin {"new", "queued"}
             /\ carried'[s][FileSelect] >= upload'.version
             /\ stage'[s] \in {"taken", "loading", "applied"} => stored' >= upload'.version
  <2>1. CASE s = h
    <3>1. FileSelect \in modified
      BY <1>2, <1>5, <1>6, <2>1 DEF Files
    <3> QED
      BY <1>1, <1>3, <1>4, <1>5, <2>1, <3>1
  <2>2. CASE s # h
    <3>1. s \in asFiles /\ s \in Requests \ {h} /\ stage'[s] = stages[s]
      BY <1>1, <1>2, <1>5, <1>6, <2>2
    <3> QED
      BY <1>3, <1>4, <3>1 DEF Files, Later
  <2> QED
    BY <2>1, <2>2
<1>7. ASSUME NEW r \in upload'.request, stage'[r] \notin {"new", "queued"}, Serial',
             NEW s \in asFiles', stage'[s] = "sent"
      PROVE  r = s
  <2>1. s = h
    BY <1>1, <1>2, <1>5, <1>7 DEF AloneAmong
  <2>2. ready
    BY <1>2, <1>5, <2>1
  <2>3. CASE r \in upload.request /\ r # h
    <3>1. stage[r] \notin {"new", "queued"}
      BY <1>1, <1>4, <1>7, <2>3 DEF Later
    <3> QED
      BY <2>2, <2>3, <3>1 DEF Files
  <2> QED
    BY <1>4, <1>7, <2>1, <2>3
<1>8. /\ ready' \in BOOLEAN /\ asFiles' \subseteq Requests /\ stored' \in Nat
      /\ upload'.version <= edit'[FileSelect]
  BY <1>2, <1>4, <1>5 DEF Files
<1>9. /\ upload'.state = "none" => ~ ready' /\ asFiles' = {}
      /\ upload'.state # "none" /\ ~ ready' => asFiles' # {}
  BY <1>2, <1>4 DEF Files
<1> QED
  BY <1>2, <1>4, <1>6, <1>7, <1>8, <1>9 DEF Files

\* No request is sent and none is taken.
LEMMA FilesRest ==
  ASSUME Files, Later(stage'), UNCHANGED <<carried, ready, asFiles, stored>>,
         modified \subseteq modified', Serial' => Serial, UploadsBy({}),
         edit[FileSelect] \in Nat, edit'[FileSelect] \in Nat,
         edit[FileSelect] <= edit'[FileSelect]
  PROVE  Files'
<1>1. /\ upload' \in [state : {"none", "due", "posted", "dropped"}, version : Nat,
                      request : SUBSET Requests]
      /\ upload'.version = upload.version
      /\ upload'.state = "none" <=> upload.state = "none"
      /\ upload'.state # "posted" => upload'.request = {}
      /\ \A r \in upload'.request : r \in upload.request \/ stage'[r] \in {"new", "queued"}
  BY UploadEffect
<1>2. upload.version \in Nat /\ asFiles \subseteq Requests /\ upload.request \subseteq Requests
  BY DEF Files
<1>3. upload'.version <= edit'[FileSelect]
  BY <1>1, <1>2 DEF Files
<1>4. \A s \in asFiles' :
        /\ stage'[s] \notin {"new", "queued"} /\ carried'[s][FileSelect] >= upload'.version
        /\ stage'[s] \in {"taken", "loading", "applied"} => stored' >= upload'.version
  BY <1>1, <1>2 DEF Files, Later
<1>5. ASSUME NEW r \in upload'.request, stage'[r] \notin {"new", "queued"}
      PROVE  /\ ~ ready'
             /\ Serial' => \A s \in asFiles' : stage'[s] = "sent" => r = s
  <2>1. r \in upload.request /\ stage[r] \notin {"new", "queued"}
    BY <1>1, <1>2, <1>5 DEF Later
  <2> QED
    BY <1>2, <2>1 DEF Files, Later
<1> QED
  BY <1>1, <1>3, <1>4, <1>5 DEF Files

\* A request is posted, the one of the event "upload" or another.
LEMMA FilesPosted ==
  ASSUME Typed, InFlight, Values, Files, Gathers, NEW r \in Requests, Posts(r),
         UNCHANGED stored,
         \/ upload' = upload
         \/ /\ upload.state = "due"
            /\ upload' = [upload EXCEPT !.state = "posted", !.request = {r}]
  PROVE  Files'
<1>1. /\ stage \in [Requests -> Stages] /\ stage[r] = "new" /\ UNCHANGED <<edit, isAsync>>
      /\ edit[FileSelect] \in Nat
  BY FileAssumption, ConstantsAssumption DEF Typed, Posts, Values
<1>2. CASE current = {} /\ Sends(r, current, stage)
  <2>1. Later(stage) /\ AloneAmong(r, stage) /\ UploadsBy({r})
    BY <1>2 DEF Later, AloneAmong, UploadsBy, InFlight
  <2> QED
    BY <1>1, <1>2, <2>1, FilesSent
<1>3. CASE SendsNone(current, [stage EXCEPT ![r] = "queued"])
  <2>1. /\ stage'[r] = "queued" /\ \A q \in Requests \ {r} : stage'[q] = stage[q]
        /\ UNCHANGED <<carried, modified>>
    BY <1>1, <1>3 DEF SendsNone
  <2>2. Later(stage') /\ UploadsBy({})
    BY <1>1, <2>1 DEF Later, UploadsBy
  <2>3. UNCHANGED <<ready, asFiles>>
    BY <1>1, <2>1, GathersNone
  <2>4. Serial' => Serial
    BY <1>1 DEF Serial
  <2> QED
    BY <1>1, <2>1, <2>2, <2>3, <2>4, FilesRest
<1> QED
  BY <1>2, <1>3 DEF Posts

\* The server takes a request, in time or late, and the files if it has them.
LEMMA FilesTaken ==
  ASSUME Typed, InFlight, Values, Files, Gathers, Stores, UNCHANGED upload,
         NEW r \in Requests, ServerTakes(r) \/ TakesLate(r)
  PROVE  Files'
<1>0. asFiles \subseteq Requests /\ upload.request \subseteq Requests
  BY DEF Files
<1>1. /\ \A q \in Requests \ {r} : stage'[q] = stage[q]
      /\ \/ stage[r] = "sent" /\ stage'[r] = "taken" /\ UNCHANGED late
         \/ UNCHANGED stage /\ r \in late /\ late' = late \ {r}
      /\ stage[r] \notin {"new", "queued"} /\ stage'[r] \notin {"new", "queued", "sent"}
      /\ UNCHANGED <<edit, isAsync, modified, carried>>
  BY DEF ServerTakes, TakesLate, Typed, InFlight, overdue, requests
<1>2. UNCHANGED <<ready, asFiles>>
  BY <1>1, GathersNone
<1>3. stored' = IF r \in asFiles THEN carried[r][FileSelect] ELSE stored
  BY <1>0, <1>1, StoresOne
<1>4. stored' \in Nat
  BY <1>3, FileAssumption, ConstantsAssumption DEF Files, Values
<1>5. stored' >= upload.version \/ stored' = stored
  BY <1>3 DEF Files
<1>6. \A s \in asFiles' :
        /\ stage'[s] \notin {"new", "queued"} /\ carried'[s][FileSelect] >= upload'.version
        /\ stage'[s] \in {"taken", "loading", "applied"} => stored' >= upload'.version
  <2> SUFFICES ASSUME NEW s \in asFiles
               PROVE  /\ stage'[s] \notin {"new", "queued"}
                      /\ carried[s][FileSelect] >= upload.version
                      /\ stage'[s] \in {"taken", "loading", "applied"} =>
                           stored' >= upload.version
    BY <1>1, <1>2
  <2>1. CASE s = r
    BY <1>1, <1>3, <2>1 DEF Files
  <2>2. CASE s # r
    BY <1>0, <1>1, <1>5, <2>2 DEF Files
  <2> QED
    BY <2>1, <2>2
<1>7. ASSUME NEW q \in upload'.request, stage'[q] \notin {"new", "queued"}
      PROVE  /\ ~ ready'
             /\ Serial' => \A s \in asFiles' : stage'[s] = "sent" => q = s
  <2>1. q \in upload.request /\ stage[q] \notin {"new", "queued"}
    BY <1>0, <1>1, <1>7
  <2>2. Serial' => Serial
    BY <1>1 DEF Serial
  <2> QED
    BY <1>0, <1>1, <1>2, <2>1, <2>2 DEF Files
<1> QED
  BY <1>1, <1>2, <1>4, <1>6, <1>7 DEF Files

\* A request ends, and the next one is sent.
LEMMA FilesEnd ==
  ASSUME Typed, Chain, InFlight, Values, Files, Gathers, Stores, UNCHANGED upload,
         NEW r \in Requests, NEW t \in {"applied", "loading", "failed"}, Ends(r, t)
  PROVE  Files'
<1> DEFINE stages == [stage EXCEPT ![r] = t]
<1>0. edit[FileSelect] \in Nat /\ asFiles \subseteq Requests
  BY FileAssumption, ConstantsAssumption DEF Values, Files
<1>1. /\ stages \in [Requests -> Stages] /\ stages[r] = t
      /\ \A q \in Requests \ {r} : stages[q] = stage[q]
      /\ stage[r] = "taken" \/ (stage[r] = "sent" /\ t = "failed")
      /\ r \in current /\ UNCHANGED <<edit, isAsync>> /\ late \subseteq late'
  BY DEF Ends, StillDue, Typed, Stages
<1>2. \/ SendsNone(current \ {r}, stages)
      \/ \E h \in Requests : stages[h] = "queued" /\ Sends(h, current \ {r}, stages)
  BY Zenon DEF Ends
<1> HIDE DEF stages
<1>3. Later(stages)
  BY <1>1 DEF Later
<1>4. Serial' => Serial
  BY <1>1 DEF Serial
<1>5. CASE SendsNone(current \ {r}, stages)
  <2>1. stage' = stages /\ UNCHANGED <<carried, modified>>
    BY <1>5 DEF SendsNone
  <2>2. UNCHANGED <<ready, asFiles>>
    BY <1>1, <2>1, GathersNone
  <2>3. stored' = stored
    BY <1>0, <1>1, <2>1, StoresNone
  <2>4. Later(stage') /\ UploadsBy({})
    BY <1>3, <2>1 DEF UploadsBy
  <2> QED
    BY <1>0, <1>1, <1>4, <2>1, <2>2, <2>3, <2>4, FilesRest
<1>6. ASSUME NEW h \in Requests, stages[h] = "queued", Sends(h, current \ {r}, stages)
      PROVE  Files'
  <2>1. stage'[h] = "sent" /\ \A q \in Requests \ {h} : stage'[q] = stages[q]
    BY <1>1, <1>6, SendsStage
  <2>2. stored' = stored
    BY <1>0, <1>1, <2>1, StoresNone
  <2>3. Serial' => AloneAmong(h, stages)
    BY <1>1, <1>4, OneInFlight DEF AloneAmong, InFlight
  <2>4. UploadsBy({h})
    BY DEF UploadsBy
  <2> QED
    BY <1>1, <1>3, <1>6, <2>2, <2>3, <2>4, FilesSent
<1> QED
  BY <1>2, <1>5, <1>6

\* Files is inductive.
LEMMA FilesStep ==
  ASSUME Typed, Chain, NoneLeftBehind, InFlight, Values, Files, [PostNext]_<<vars, files>>
  PROVE  Files'
<1>0. /\ edit \in [Controls -> 0..MaxEdits] /\ edit[FileSelect] \in Nat
      /\ stage \in [Requests -> Stages]
      /\ upload \in [state : {"none", "due", "posted", "dropped"}, version : Nat,
                     request : SUBSET Requests]
      /\ asFiles \subseteq Requests
  BY FileAssumption, ConstantsAssumption DEF Values, Typed, Files
<1>1. ASSUME Next, Gathers, Stores, UNCHANGED upload PROVE Files'
  <2>0. UploadsBy({})
    BY <1>1 DEF UploadsBy
  <2>1. CASE Edits
    <3>1. /\ UNCHANGED <<stage, isAsync, carried, late>> /\ modified \subseteq modified'
      BY <2>1 DEF Edits
    <3>2. edit'[FileSelect] \in Nat /\ edit[FileSelect] <= edit'[FileSelect]
      <4>1. edit' = edit \/ \E c \in Controls : edit' = [edit EXCEPT ![c] = @ + 1]
        BY <2>1 DEF Edits
      <4> QED
        BY <1>0, <4>1, FileAssumption
    <3>3. UNCHANGED <<ready, asFiles>> /\ stored' = stored
      BY <1>0, <1>1, <3>1, GathersNone, StoresNone
    <3>4. Later(stage') /\ (Serial' => Serial)
      BY <3>1 DEF Later, Serial
    <3> QED
      BY <1>0, <2>0, <3>1, <3>2, <3>3, <3>4, FilesRest
  <2>2. ASSUME NEW r \in Requests, Posts(r) PROVE Files'
    <3>1. UNCHANGED late /\ \A q \in Requests : stage'[q] = "taken" => stage[q] # "sent"
      BY <1>0, <2>2 DEF Posts, Sends, SendsNone
    <3>2. UNCHANGED stored
      BY <1>0, <1>1, <3>1, StoresNone
    <3> QED
      BY <1>1, <2>2, <3>2, FilesPosted
  <2>3. ASSUME NEW r \in Requests, PostsAsync(r) PROVE Files'
    <3>1. /\ Sends(r, current, stage) /\ UNCHANGED <<edit, late>> /\ stage[r] = "new"
          /\ isAsync'[r]
      BY <2>3 DEF PostsAsync, Typed
    <3>2. \A q \in Requests : stage'[q] = "taken" => stage[q] # "sent"
      BY <1>0, <3>1 DEF Sends
    <3>3. UNCHANGED stored
      BY <1>0, <1>1, <3>1, <3>2, StoresNone
    <3>4. Later(stage) /\ ~ Serial' /\ UploadsBy({r})
      BY <1>1, <3>1 DEF Later, Serial, UploadsBy
    <3> QED
      BY <1>0, <1>1, <3>1, <3>3, <3>4, FilesSent
  <2>4. ASSUME NEW r \in Requests, ServerTakes(r) \/ TakesLate(r) PROVE Files'
    BY <1>1, <2>4, FilesTaken
  <2>5. ASSUME NEW r \in Requests, NEW t \in {"applied", "loading", "failed"}, Ends(r, t)
        PROVE  Files'
    BY <1>1, <2>5, FilesEnd
  <2>6. ASSUME NEW r \in Requests, NEW t \in {"applied", "broken"}, GetsOn(r, t)
        PROVE  Files'
    <3>1. /\ stage'[r] = t /\ \A q \in Requests \ {r} : stage'[q] = stage[q]
          /\ UNCHANGED <<edit, isAsync, carried, modified>> /\ late \subseteq late'
          /\ stage[r] = "loading" \/ (stage[r] \in {"sent", "taken"} /\ t = "broken")
      BY <1>0, <2>6 DEF GetsOn, SendsNone, StillDue
    <3>2. UNCHANGED <<ready, asFiles>> /\ stored' = stored
      BY <1>0, <1>1, <3>1, GathersNone, StoresNone
    <3>3. Later(stage') /\ (Serial' => Serial)
      BY <3>1 DEF Later, Serial
    <3> QED
      BY <1>0, <2>0, <3>1, <3>2, <3>3, FilesRest
  <2> QED
    BY <1>1, <2>1, <2>2, <2>3, <2>4, <2>5, <2>6, StepKinds
<1>2. CASE Upload
  <2>1. /\ upload.state = "none" /\ ready' = TRUE /\ modified' = modified \cup {FileSelect}
        /\ upload' = [upload EXCEPT !.state = "due", !.version = edit[FileSelect]]
        /\ UNCHANGED <<asFiles, stored, edit>>
    BY <1>2 DEF Upload, touched
  <2>2. asFiles = {} /\ upload.request = {} /\ stored \in Nat
    BY <2>1 DEF Files
  <2>3. /\ upload' \in [state : {"none", "due", "posted", "dropped"}, version : Nat,
                        request : SUBSET Requests]
        /\ upload'.state = "due" /\ upload'.version = edit[FileSelect]
        /\ upload'.request = {}
    BY <1>0, <2>1, <2>2
  <2> QED
    BY <1>0, <2>1, <2>2, <2>3 DEF Files
<1>3. ASSUME NEW r \in Requests, PostUpload(r) PROVE Files'
  <2>1. /\ upload.state = "due" /\ Gathers /\ UNCHANGED stored
        /\ upload' = [upload EXCEPT !.state = "posted", !.request = {r}]
    BY <1>3 DEF PostUpload
  <2>2. Posts(r)
    BY <1>3, PostingPosts DEF PostUpload
  <2> QED
    BY <2>1, <2>2, FilesPosted
<1>4. CASE UploadIsBlocked
  <2>1. /\ upload.state = "due" /\ upload' = [upload EXCEPT !.state = "dropped"]
        /\ UNCHANGED <<ready, asFiles, stored>>
    BY <1>4 DEF UploadIsBlocked
  <2>2. UNCHANGED <<edit, modified, carried, stage>>
    BY <1>4 DEF UploadIsBlocked, vars, values, requests
  <2>3. upload.request = {}
    BY <2>1 DEF Files
  <2>4. /\ upload' \in [state : {"none", "due", "posted", "dropped"}, version : Nat,
                        request : SUBSET Requests]
        /\ upload'.state = "dropped" /\ upload'.version = upload.version
        /\ upload'.request = {}
    BY <1>0, <2>1, <2>3
  <2> QED
    BY <2>1, <2>2, <2>4 DEF Files
<1>5. CASE UNCHANGED <<vars, files>>
  BY <1>5 DEF vars, values, requests, files, Files, Serial
<1> QED
  BY <1>1, <1>2, <1>3, <1>4, <1>5 DEF PostNext, AjaxStep

\* A file select control adds nothing to what the page and the queue may do: what
\* is proved of Spec holds of PostSpec.
THEOREM PostingIsAjax == PostSpec => Spec
<1>1. PostInit => Init
  BY DEF PostInit
<1>2. [PostNext]_<<vars, files>> => [Next]_vars
  <2>1. ASSUME AjaxStep PROVE Next
    BY <2>1 DEF AjaxStep
  <2>2. ASSUME Upload PROVE Next
    BY <2>2, FileAssumption DEF Upload, Next
  <2>3. ASSUME NEW r \in Requests, PostUpload(r) PROVE Next
    <3>1. postAjax(r, FALSE)
      BY <2>3 DEF PostUpload
    <3>2. FALSE \in (IF BlockAllowed THEN BOOLEAN ELSE {FALSE})
      OBVIOUS
    <3> QED
      BY <3>1, <3>2, Zenon DEF Next
  <2>4. ASSUME UploadIsBlocked PROVE UNCHANGED vars
    BY <2>4 DEF UploadIsBlocked
  <2>5. ASSUME UNCHANGED <<vars, files>> PROVE UNCHANGED vars
    BY <2>5
  <2> QED
    BY <2>1, <2>2, <2>3, <2>4, <2>5, Zenon DEF PostNext
<1> QED
  BY <1>1, <1>2, PTL DEF PostSpec, Spec

\* The files are where Files says in every state.
LEMMA FilesHold == PostSpec => [](Typed /\ Files)
<1>1. PostInit => Files
  <2> SUFFICES ASSUME PostInit PROVE Files
    OBVIOUS
  <2>1. /\ upload \in [state : {"none", "due", "posted", "dropped"}, version : Nat,
                       request : SUBSET Requests]
        /\ upload.state = "none" /\ upload.version = 0 /\ upload.request = {}
    BY DEF PostInit
  <2>2. ready = FALSE /\ asFiles = {} /\ stored = 0 /\ edit[FileSelect] = 0
    BY FileAssumption DEF PostInit, Init
  <2>3. ready \in BOOLEAN /\ ~ ready
    BY <2>2, Zenon
  <2>4. asFiles = {} /\ stored \in Nat /\ upload.version <= edit[FileSelect]
    BY <2>1, <2>2
  <2> QED
    BY <2>1, <2>3, <2>4, Zenon DEF Files
<1>2. /\ Typed /\ Chain /\ NoneLeftBehind /\ InFlight /\ Values /\ Files
      /\ [PostNext]_<<vars, files>>
      => Files'
  BY FilesStep
<1>3. PostSpec => [](Typed /\ InPostedOrder /\ NoneLeftBehind /\ Chain)
  BY PostingIsAjax, QueueHolds, PTL
<1>4. PostSpec => [](InFlight /\ Values /\ Memory)
  BY PostingIsAjax, MemoryHolds, PTL
<1> QED
  BY <1>1, <1>2, <1>3, <1>4, PTL DEF PostSpec

\* Without asynchronous requests, when the server takes the request of the event
\* "upload" it has the files of that event or later ones, if the request that has
\* them did not fail.
THEOREM FilesComeWithTheirEvent == PostSpec => []FilesArrive
<1>1. Typed /\ Files => FilesArrive
  <2> SUFFICES ASSUME Typed, Files, Serial, NEW r \in upload.request,
                      stage[r] \in {"taken", "loading", "applied"}
               PROVE  \/ stored >= upload.version
                      \/ \E s \in asFiles : stage[s] \in {"failed", "broken"}
    BY DEF FilesArrive
  <2>1. ~ ready /\ \A s \in asFiles : stage[s] = "sent" => r = s
    BY DEF Files
  <2>2. PICK s \in asFiles : TRUE
    BY <2>1 DEF Files
  <2>3. stage[s] \notin {"new", "queued", "sent"}
    BY <2>1 DEF Files
  <2>4. CASE stage[s] \in {"taken", "loading", "applied"}
    BY <2>4 DEF Files
  <2>5. CASE stage[s] \in {"failed", "broken"}
    BY <2>5
  <2> QED
    BY <2>3, <2>4, <2>5 DEF Typed, Stages, Files
<1> QED
  BY <1>1, FilesHold, PTL
=============================================================================

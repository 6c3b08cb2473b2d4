------------------------- MODULE ActionQueueProofs -------------------------
(***************************************************************************)
(* For any events, delays and causes: actions run in the order of their    *)
(* events, none is lost or runs twice, and those that are to run last wait *)
(* for the others.                                                         *)
(*                                                                         *)
(* The queue is at all times a suffix of the actions that were ever        *)
(* queued, so what has left it is known by a number, Gone.                 *)
(***************************************************************************)
EXTENDS ActionQueue, SequenceTheorems, FiniteSetTheorems, TLAPS

\* The number of actions that have left the queue.
Gone == Len(items) - Len(queue)

\* The queue q has the last of the actions, in order.
SuffixOf(q) ==
  /\ Len(q) <= Len(items)
  /\ \A k \in 1..Len(q) : q[k] = Len(items) - Len(q) + k

\* What has run has left the queue, and ran once.
RanOnce ==
  \A n \in 1..Len(ran) :
    ran[n] <= Gone /\ \A m \in 1..Len(ran) : ran[m] = ran[n] => m = n

\* Timers wait for delayed actions that have left the queue and have not run, no
\* longer than their delay.
Timers ==
  \A e \in Events : timer[e] # 0 =>
    /\ timer[e] <= Gone /\ items[timer[e]].ev = e
    /\ items[timer[e]].d > 0 /\ left[e] <= items[timer[e]].d
    /\ ~ HasRun(timer[e])

\* What has left the queue has run, or is delayed and waits or is superseded.
Fates ==
  \A i \in 1..Gone :
    \/ HasRun(i)
    \/ items[i].d > 0 /\ (timer[items[i].ev] = i \/ Superseded(i))

\* An action that is to run last is delayed longer than those before it in the queue.
Longest ==
  \A l \in Indices : items[l].ev \in Last =>
    /\ items[l].d > 0
    /\ \A i \in items[l].after : i \in 1..(l - 1) /\ items[i].d < items[l].d

\* While it waits for its timer, they have run, or are superseded, or their timers
\* fire earlier.
Earlier ==
  \A e \in Last : timer[e] # 0 =>
    \A i \in items[timer[e]].after :
      \/ HasRun(i)
      \/ Superseded(i)
      \/ timer[items[i].ev] = i /\ left[items[i].ev] < left[e]

\* The actions and timers keep their types.
Typed ==
  /\ items \in Seq(Item)
  /\ queue \in Seq(Indices)
  /\ ran \in Seq(Indices)
  /\ timer \in [Events -> Indices \cup {0}]
  /\ left \in [Events -> Nat]

\* And so do the flags and counters.
Flags ==
  /\ armed \in BOOLEAN /\ draining \in BOOLEAN /\ thrown \in BOOLEAN
  /\ wait \in 0..DrainDelay
  /\ events \in 0..MaxEvents

Inv ==
  /\ Typed /\ SuffixOf(queue) /\ RanOnce /\ Timers /\ Fates /\ Longest /\ Earlier
  /\ RunInOrder /\ LastRunsLast

-----------------------------------------------------------------------------
(* The longest delay *)

\* A finite set of numbers has a greatest one.
LEMMA FiniteMax ==
  ASSUME NEW S \in SUBSET Nat, IsFiniteSet(S), S # {}
  PROVE  Max(S) \in S /\ \A x \in S : Max(S) >= x
<1> DEFINE Bounded(A) == \E m \in A : \A x \in A : m >= x
           Unbounded == {A \in FiniteSubsetsOf(S) : A # {} /\ ~ Bounded(A)}
<1>1. SUFFICES ASSUME ~ Bounded(S) PROVE FALSE
  BY DEF Max
<1>2. S \in Unbounded
  BY <1>1 DEF FiniteSubsetsOf
<1>3. IsWellFoundedOn(StrictSubsetOrdering(S), FiniteSubsetsOf(S))
  BY FS_StrictSubsetOrderingWellFounded
<1>4. Unbounded \subseteq FiniteSubsetsOf(S) /\ Unbounded # {}
  BY <1>2
<1> HIDE DEF Unbounded
<1>5. \E A \in Unbounded : \A B \in Unbounded : ~ (<<B, A>> \in StrictSubsetOrdering(S))
  BY <1>3, <1>4, WFMin
<1>6. PICK A \in Unbounded : \A B \in Unbounded : ~ (<<B, A>> \in StrictSubsetOrdering(S))
  BY <1>5
<1>7. A \in SUBSET Nat /\ A \in SUBSET S /\ IsFiniteSet(A) /\ A # {} /\ ~ Bounded(A)
  BY <1>6 DEF Unbounded, FiniteSubsetsOf
<1>8. PICK a \in A : TRUE
  BY <1>7
<1> DEFINE B == A \ {a}
<1>9. B \in SUBSET S /\ IsFiniteSet(B) /\ B # A /\ B \subseteq A
  BY <1>7, <1>8, FS_RemoveElement
<1>10. <<B, A>> \in StrictSubsetOrdering(S)
  BY <1>7, <1>9 DEF StrictSubsetOrdering
<1>11. B = {} \/ Bounded(B)
  BY <1>6, <1>9, <1>10 DEF Unbounded, FiniteSubsetsOf
<1>12. Bounded(A)
  <2>1. CASE B = {}
    BY <1>7, <1>8, <2>1
  <2>2. CASE Bounded(B)
    <3>1. PICK m \in B : \A x \in B : m >= x
      BY <2>2
    <3>2. (IF a >= m THEN a ELSE m) \in A
      BY <1>8, <3>1
    <3>3. \A x \in A : (IF a >= m THEN a ELSE m) >= x
      BY <1>7, <1>8, <3>1
    <3> QED
      BY <3>2, <3>3
  <2> QED
    BY <1>11, <2>1, <2>2
<1> QED
  BY <1>7, <1>12

\* What is in a queue.
LEMMA InQueueIs ==
  ASSUME NEW S, NEW q \in Seq(S)
  PROVE  /\ InQueue(q) \subseteq S
         /\ \A k \in 1..Len(q) : q[k] \in InQueue(q)
BY DEF InQueue

\* The delay of an action that is to run last is more than those of the actions in
\* the queue.
LEMMA DelayIs ==
  ASSUME Typed, NEW e \in Events, NEW q \in Seq(Indices)
  PROVE  /\ delayOf(e, q) \in Nat
         /\ e \in Last =>
              delayOf(e, q) > 0 /\ \A i \in InQueue(q) : items[i].d < delayOf(e, q)
<1> DEFINE D == {items[i].d : i \in InQueue(q)}
<1>1. InQueue(q) \subseteq Indices /\ \A i \in Indices : items[i].d \in Nat
  <2>1. \A i \in Indices : items[i] \in Item
    BY DEF Typed, Indices
  <2> QED
    BY <2>1, InQueueIs DEF Item
<1>2. D \in SUBSET Nat
  BY <1>1
<1>3. IsFiniteSet(D)
  <2> DEFINE f == [k \in 1..Len(q) |-> items[q[k]].d]
  <2>1. f \in Surjection(1..Len(q), D)
    BY DEF InQueue, Surjection
  <2>2. IsFiniteSet(1..Len(q))
    BY LenProperties, FS_Interval
  <2> HIDE DEF f, D
  <2> QED
    BY <2>1, <2>2, FS_Surjection
<1>4. CASE e \in Last
  <2>1. IsFiniteSet({0} \cup D)
    BY <1>3, FS_Singleton, FS_Union
  <2>2. {0} \cup D \in SUBSET Nat /\ {0} \cup D # {}
    BY <1>2
  <2> DEFINE M == Max({0} \cup D)
  <2>3. delayOf(e, q) = 1 + M
    BY <1>4 DEF delayOf
  <2>4. M \in {0} \cup D /\ \A x \in {0} \cup D : M >= x
    BY <2>1, <2>2, FiniteMax
  <2>5. M \in Nat /\ \A i \in InQueue(q) : M >= items[i].d
    BY <2>2, <2>4
  <2> HIDE DEF M
  <2> QED
    BY <1>1, <2>3, <2>5
<1>5. CASE e \notin Last
  BY <1>5, ConstantsAssumption DEF delayOf
<1> QED
  BY <1>4, <1>5

-----------------------------------------------------------------------------
(* What a step does *)

\* The queue becomes q, perhaps with an action that is queued behind it.
Queues(q) ==
  \/ items' = items /\ queue' = q
  \/ \E e \in Events :
       /\ items' = Append(items, [ev |-> e, d |-> delayOf(e, q), after |-> InQueue(q),
                                  during |-> {timer[e]} \ {0}])
       /\ queue' = Append(q, Len(items) + 1)

\* The kinds of steps: nothing runs; time passes; an action leaves the queue for its
\* timer, or runs; the timer of an event fires.
Rests == UNCHANGED <<ran, timer, left>> /\ Queues(queue)

Passes ==
  /\ UNCHANGED <<items, queue, ran, timer>>
  /\ \A e \in Events : ~ IsDue(e)
  /\ left' = [e \in Events |-> Down(left[e])]

SetsTimer(i) ==
  /\ queue # <<>> /\ i = Head(queue) /\ items[i].d > 0
  /\ timer' = [timer EXCEPT ![items[i].ev] = i]
  /\ left' = [left EXCEPT ![items[i].ev] = items[i].d]
  /\ queue' = Tail(queue)
  /\ UNCHANGED <<items, ran>>

RunsHead(i) ==
  /\ queue # <<>> /\ i = Head(queue) /\ ~ (items[i].d > 0)
  /\ ran' = Append(ran, i)
  /\ Queues(Tail(queue))
  /\ UNCHANGED <<timer, left>>

Fires(e) ==
  /\ IsDue(e)
  /\ timer' = [timer EXCEPT ![e] = 0]
  /\ ran' = Append(ran, timer[e])
  /\ Queues(queue)
  /\ UNCHANGED left

\* Running an action, or throwing, leaves the queue as said.
LEMMA RunQueues ==
  ASSUME NEW i, NEW q, run(i, q) \/ runThrows(i, q), items[i].ev \in Events
  PROVE  ran' = Append(ran, i) /\ Queues(q)
<1>1. CASE run(i, q) /\ Causes[items[i].ev] # None
  <2>1. Causes[items[i].ev] \in Events
    BY <1>1, ConstantsAssumption
  <2>2. queueAction(Causes[items[i].ev], q) /\ ran' = Append(ran, i)
    BY <1>1 DEF run
  <2> QED
    BY <2>1, <2>2 DEF queueAction, Queues
<1>2. CASE run(i, q) /\ Causes[items[i].ev] = None
  BY <1>2 DEF run, Queues
<1>3. CASE runThrows(i, q)
  BY <1>3 DEF runThrows, Queues
<1> QED
  BY <1>1, <1>2, <1>3

\* The head of the queue and what waits for a timer are actions.
LEMMA Heads ==
  ASSUME Typed
  PROVE  /\ \A i \in Indices : items[i].ev \in Events /\ items[i].d \in Nat
         /\ queue # <<>> => /\ Head(queue) \in Indices /\ Head(queue) = queue[1]
                            /\ Tail(queue) \in Seq(Indices) /\ Len(queue) > 0
                            /\ Len(Tail(queue)) = Len(queue) - 1
                            /\ \A k \in 1..Len(Tail(queue)) : Tail(queue)[k] = queue[k + 1]
         /\ \A e \in Events : timer[e] # 0 => timer[e] \in Indices
<1>1. \A i \in Indices : items[i] \in Item
  BY DEF Typed, Indices
<1>2. \A i \in Indices : items[i].ev \in Events /\ items[i].d \in Nat
  BY <1>1 DEF Item
<1>3. \A e \in Events : timer[e] # 0 => timer[e] \in Indices
  BY DEF Typed
<1>4. queue # <<>> => /\ Head(queue) \in Indices /\ Head(queue) = queue[1]
                      /\ Tail(queue) \in Seq(Indices) /\ Len(queue) > 0
                      /\ Len(Tail(queue)) = Len(queue) - 1
                      /\ \A k \in 1..Len(Tail(queue)) : Tail(queue)[k] = queue[k + 1]
  BY HeadTailProperties, LenProperties DEF Typed
<1> QED
  BY <1>2, <1>3, <1>4

\* Every step is of one of these kinds.
LEMMA StepKinds ==
  ASSUME Typed, [Next]_vars
  PROVE  \/ Rests \/ Passes
         \/ \E i \in Indices : SetsTimer(i) \/ RunsHead(i)
         \/ \E e \in Events : Fires(e)
<1>1. ASSUME NEW e \in Events, Event(e) PROVE Rests
  BY <1>1 DEF Event, queueAction, Queues, Rests
<1>2. CASE DrainBegins
  BY <1>2 DEF DrainBegins, Queues, Rests
<1>3. CASE DrainNext
  <2> DEFINE i == Head(queue)
  <2>1. queue # <<>> /\ i \in Indices /\ items[i].ev \in Events
    BY <1>3, Heads DEF DrainNext
  <2>2. CASE items[i].d > 0
    BY <1>3, <2>1, <2>2 DEF DrainNext, SetsTimer
  <2>3. CASE ~ (items[i].d > 0)
    <3>1. run(i, Tail(queue)) /\ UNCHANGED <<timer, left>>
      BY <1>3, <2>3 DEF DrainNext
    <3>2. ran' = Append(ran, i) /\ Queues(Tail(queue))
      BY <2>1, <3>1, RunQueues
    <3> QED
      BY <2>1, <2>3, <3>1, <3>2 DEF RunsHead
  <2> QED
    BY <2>2, <2>3
<1>4. CASE DrainThrows
  <2> DEFINE i == Head(queue)
  <2>1. /\ queue # <<>> /\ i \in Indices /\ items[i].ev \in Events
        /\ ~ (items[i].d > 0) /\ UNCHANGED <<timer, left>>
        /\ runThrows(i, Tail(queue))
    BY <1>4, Heads DEF DrainThrows
  <2>2. ran' = Append(ran, i) /\ Queues(Tail(queue))
    BY <2>1, RunQueues
  <2> QED
    BY <2>1, <2>2 DEF RunsHead
<1>5. CASE DrainEnds
  BY <1>5 DEF DrainEnds, timers, Queues, Rests
<1>6. ASSUME NEW e \in Events, TimerFires(e) PROVE Fires(e)
  <2>1. /\ IsDue(e) /\ timer' = [timer EXCEPT ![e] = 0] /\ UNCHANGED left
        /\ run(timer[e], queue) \/ runThrows(timer[e], queue)
    BY <1>6 DEF TimerFires
  <2>2. items[timer[e]].ev \in Events
    BY <2>1, Heads DEF IsDue
  <2>3. ran' = Append(ran, timer[e]) /\ Queues(queue)
    BY <2>1, <2>2, RunQueues
  <2> QED
    BY <2>1, <2>3 DEF Fires
<1>7. CASE Tick
  BY <1>7 DEF Tick, Passes
<1>8. CASE UNCHANGED vars
  BY <1>8 DEF vars, timers, Queues, Rests
<1> QED
  BY <1>1, <1>2, <1>3, <1>4, <1>5, <1>6, <1>7, <1>8, Zenon DEF Next, Browser

-----------------------------------------------------------------------------
(* What the steps keep *)

\* What was queued stays, the queue is in order, and g actions have left it.
Grown(g) ==
  /\ items' \in Seq(Item) /\ queue' \in Seq(Indices')
  /\ Indices \subseteq Indices' /\ \A i \in Indices : items'[i] = items[i]
  /\ SuffixOf(queue)' /\ Gone' = g
  /\ Longest'

\* Queueing an action behind the last ones keeps them in order.
LEMMA QueuesGrow ==
  ASSUME Typed, Longest, NEW q \in Seq(Indices), SuffixOf(q), Queues(q)
  PROVE  Grown(Len(items) - Len(q))
<1>0. Len(items) \in Nat /\ Len(q) \in Nat /\ \A i \in Indices : items[i] \in Item
  BY LenProperties DEF Typed, Indices
<1>1. CASE items' = items /\ queue' = q
  BY <1>0, <1>1 DEF Grown, Gone, SuffixOf, Longest, Superseded, Indices, Typed
<1>2. ASSUME NEW e \in Events,
             items' = Append(items, [ev |-> e, d |-> delayOf(e, q), after |-> InQueue(q),
                                     during |-> {timer[e]} \ {0}]),
             queue' = Append(q, Len(items) + 1)
      PROVE  Grown(Len(items) - Len(q))
  <2> DEFINE item == [ev |-> e, d |-> delayOf(e, q), after |-> InQueue(q),
                      during |-> {timer[e]} \ {0}]
  <2>1. item \in Item
    <3>1. delayOf(e, q) \in Nat
      BY DelayIs
    <3>2. InQueue(q) \in SUBSET Nat
      BY InQueueIs DEF Indices
    <3>3. {timer[e]} \ {0} \in SUBSET Nat
      BY <1>0 DEF Typed, Indices
    <3> QED
      BY <3>1, <3>2, <3>3 DEF Item
  <2>2. item.ev = e /\ item.d = delayOf(e, q) /\ item.after = InQueue(q)
    OBVIOUS
  <2> HIDE DEF item
  <2>3. /\ items' \in Seq(Item) /\ Len(items') = Len(items) + 1
        /\ \A i \in Indices : items'[i] = items[i]
        /\ items'[Len(items) + 1] = item
    BY <1>2, <2>1, AppendProperties DEF Typed, Indices, item
  <2>4. Indices \subseteq Indices' /\ Len(items) + 1 \in Indices'
    BY <1>0, <2>3 DEF Indices
  <2>5. q \in Seq(Indices')
    BY <2>4, SeqMonotonic
  <2>6. /\ queue' \in Seq(Indices') /\ Len(queue') = Len(q) + 1
        /\ \A k \in 1..Len(q) : queue'[k] = q[k]
        /\ queue'[Len(q) + 1] = Len(items) + 1
    BY <1>2, <2>4, <2>5, AppendProperties
  <2>7. SuffixOf(queue)' /\ Gone' = Len(items) - Len(q)
    BY <1>0, <2>3, <2>6 DEF SuffixOf, Gone
  <2>8. Longest'
    <3> SUFFICES ASSUME NEW l \in Indices', items'[l].ev \in Last
                 PROVE  /\ items'[l].d > 0
                        /\ \A i \in items'[l].after :
                             i \in 1..(l - 1) /\ items'[i].d < items'[l].d
      BY DEF Longest
    <3>1. CASE l \in Indices
      <4>1. \A i \in 1..(l - 1) : i \in Indices
        BY <1>0, <3>1 DEF Indices
      <4> QED
        BY <2>3, <3>1, <4>1 DEF Longest
    <3>2. CASE l = Len(items) + 1
      <4>1. e \in Last
        BY <2>2, <2>3, <3>2
      <4>2. delayOf(e, q) > 0 /\ \A i \in InQueue(q) : items[i].d < delayOf(e, q)
        BY <4>1, DelayIs
      <4>3. \A i \in InQueue(q) : i \in Indices
        BY InQueueIs
      <4>4. \A i \in Indices : i \in 1..(l - 1)
        BY <1>0, <3>2 DEF Indices
      <4> QED
        BY <2>2, <2>3, <3>2, <4>2, <4>3, <4>4
    <3> QED
      BY <1>0, <2>3, <3>1, <3>2 DEF Indices
  <2> QED
    BY <2>3, <2>4, <2>6, <2>7, <2>8 DEF Grown
<1> QED
  BY <1>1, <1>2 DEF Queues

\* A superseded action stays so.
LEMMA SupersededStays ==
  ASSUME NEW g, Grown(g), NEW i \in Indices, Superseded(i)
  PROVE  Superseded(i)'
<1>1. PICK j \in Indices : j > i /\ items[j].ev = items[i].ev /\ items[i].d > 0
  BY DEF Superseded
<1>2. j \in Indices' /\ items'[j] = items[j] /\ items'[i] = items[i]
  BY <1>1 DEF Grown
<1> QED
  BY <1>1, <1>2 DEF Superseded

\* Nothing runs: what was said of what has run still holds.
LEMMA NoneRuns ==
  ASSUME Inv, NEW g \in Nat, Grown(g), Gone <= g, ran' = ran
  PROVE  /\ ran' \in Seq(Indices') /\ RanOnce' /\ RunInOrder' /\ LastRunsLast'
         /\ \A i : HasRun(i)' <=> HasRun(i)
<1>1. /\ Indices \subseteq Indices' /\ \A i \in Indices : items'[i] = items[i]
      /\ Gone' = g
  BY DEF Grown
<1>2. /\ ran \in Seq(Indices) /\ Len(items) \in Nat /\ Len(queue) \in Nat
      /\ \A n \in 1..Len(ran) : ran[n] \in Indices
  BY LenProperties DEF Inv, Typed
<1>3. ran' \in Seq(Indices')
  BY <1>1, <1>2, SeqMonotonic
<1>4. RanOnce'
  BY <1>1, <1>2 DEF Inv, RanOnce, Gone, Indices
<1>5. RunInOrder'
  <2>1. \A n \in 1..Len(ran) : \A i \in 1..(ran[n] - 1) : i \in Indices
    BY <1>2 DEF Indices
  <2> QED
    BY <1>1, <1>2, <2>1 DEF Inv, RunInOrder
<1>6. LastRunsLast'
  <2> SUFFICES ASSUME NEW n \in 1..Len(ran), items'[ran[n]].ev \in Last,
                      NEW i \in items'[ran[n]].after
               PROVE  Superseded(i)' \/ \E m \in 1..(n - 1) : ran[m] = i
    BY DEF LastRunsLast
  <2>1. ran[n] \in Indices /\ items'[ran[n]] = items[ran[n]]
    BY <1>1, <1>2
  <2>2. i \in Indices
    BY <1>2, <2>1 DEF Inv, Longest, Indices
  <2> QED
    BY <2>1, <2>2, SupersededStays DEF Inv, LastRunsLast
<1> QED
  BY <1>3, <1>4, <1>5, <1>6 DEF HasRun, InQueue

\* Action j runs, for the first time and after those it must follow.
LEMMA OneRuns ==
  ASSUME Inv, NEW g \in Nat, Grown(g), Gone <= g, NEW j \in Indices, j <= g,
         ran' = Append(ran, j), ~ HasRun(j),
         items[j].d = 0 => \A i \in 1..(j - 1) : items[i].d = 0 => HasRun(i),
         items[j].ev \in Last => \A i \in items[j].after : Superseded(i) \/ HasRun(i)
  PROVE  /\ ran' \in Seq(Indices') /\ RanOnce' /\ RunInOrder' /\ LastRunsLast'
         /\ \A i : HasRun(i)' <=> HasRun(i) \/ i = j
<1>1. /\ Indices \subseteq Indices' /\ \A i \in Indices : items'[i] = items[i]
      /\ Gone' = g
  BY DEF Grown
<1>2. /\ ran \in Seq(Indices) /\ Len(items) \in Nat /\ Len(queue) \in Nat /\ Len(ran) \in Nat
      /\ \A n \in 1..Len(ran) : ran[n] \in Indices
  BY LenProperties DEF Inv, Typed
<1>3. /\ ran' \in Seq(Indices) /\ Len(ran') = Len(ran) + 1
      /\ \A n \in 1..Len(ran) : ran'[n] = ran[n]
      /\ ran'[Len(ran) + 1] = j
  BY <1>2, AppendProperties
<1>4. ran' \in Seq(Indices')
  BY <1>1, <1>3, SeqMonotonic
<1>5. \A i : HasRun(i) <=> \E n \in 1..Len(ran) : ran[n] = i
  BY DEF HasRun, InQueue
<1>6. \A i : HasRun(i)' <=> HasRun(i) \/ i = j
  <2>1. \A i : HasRun(i)' <=> \E n \in 1..(Len(ran) + 1) : ran'[n] = i
    BY <1>3 DEF HasRun, InQueue
  <2> QED
    BY <1>2, <1>3, <1>5, <2>1
<1>7. RanOnce'
  <2>1. \A n \in 1..(Len(ran) + 1) : ran'[n] <= g
    BY <1>2, <1>3 DEF Inv, RanOnce, Gone, Indices
  <2>2. ASSUME NEW n \in 1..(Len(ran) + 1), NEW m \in 1..(Len(ran) + 1), ran'[m] = ran'[n]
        PROVE  m = n
    <3>1. CASE n \in 1..Len(ran) /\ m \in 1..Len(ran)
      BY <1>3, <2>2, <3>1 DEF Inv, RanOnce
    <3>2. CASE n = Len(ran) + 1 \/ m = Len(ran) + 1
      BY <1>2, <1>3, <1>5, <2>2, <3>2
    <3> QED
      BY <1>2, <3>1, <3>2
  <2> QED
    BY <1>1, <1>3, <2>1, <2>2 DEF RanOnce
<1>8. RunInOrder'
  <2> SUFFICES ASSUME NEW n \in 1..(Len(ran) + 1), items'[ran'[n]].d = 0,
                      NEW i \in 1..(ran'[n] - 1), items'[i].d = 0
               PROVE  \E m \in 1..(n - 1) : ran'[m] = i
    BY <1>3 DEF RunInOrder
  <2>1. CASE n \in 1..Len(ran)
    <3>1. ran'[n] = ran[n] /\ ran[n] \in Indices /\ i \in Indices
      BY <1>2, <1>3, <2>1 DEF Indices
    <3>2. RunInOrder /\ items[ran[n]].d = 0 /\ items[i].d = 0 /\ i \in 1..(ran[n] - 1)
      BY <1>1, <3>1 DEF Inv
    <3>3. \E m \in 1..(n - 1) : ran[m] = i
      BY <2>1, <3>2 DEF RunInOrder
    <3> QED
      BY <1>2, <1>3, <2>1, <3>3
  <2>2. CASE n = Len(ran) + 1
    <3>1. ran'[n] = j /\ i \in Indices
      BY <1>2, <1>3, <2>2 DEF Indices
    <3>2. HasRun(i)
      BY <1>1, <3>1
    <3> QED
      BY <1>2, <1>3, <1>5, <2>2, <3>2
  <2> QED
    BY <1>2, <2>1, <2>2
<1>9. LastRunsLast'
  <2> SUFFICES ASSUME NEW n \in 1..(Len(ran) + 1), items'[ran'[n]].ev \in Last,
                      NEW i \in items'[ran'[n]].after
               PROVE  Superseded(i)' \/ \E m \in 1..(n - 1) : ran'[m] = i
    BY <1>3 DEF LastRunsLast
  <2>0. ran'[n] \in Indices /\ items'[ran'[n]] = items[ran'[n]]
    BY <1>1, <1>2, <1>3
  <2>1. i \in Indices
    <3>1. Longest /\ items[ran'[n]].ev \in Last /\ ran'[n] \in 1..Len(items)
      BY <2>0 DEF Inv, Indices
    <3>2. i \in 1..(ran'[n] - 1)
      BY <2>0, <3>1 DEF Longest
    <3> QED
      BY <1>2, <3>1, <3>2 DEF Indices
  <2>2. CASE n \in 1..Len(ran)
    <3>1. ran'[n] = ran[n]
      BY <1>3, <2>2
    <3>2. Superseded(i) \/ \E m \in 1..(n - 1) : ran[m] = i
      BY <2>0, <2>2, <3>1 DEF Inv, LastRunsLast
    <3>3. ASSUME NEW m \in 1..(n - 1), ran[m] = i PROVE ran'[m] = i
      BY <1>2, <1>3, <2>2, <3>3
    <3> QED
      BY <2>1, <3>2, <3>3, SupersededStays
  <2>3. CASE n = Len(ran) + 1
    <3>1. Superseded(i) \/ HasRun(i)
      BY <1>3, <2>0, <2>3
    <3>2. HasRun(i) => \E m \in 1..(n - 1) : ran'[m] = i
      BY <1>2, <1>3, <1>5, <2>3
    <3> QED
      BY <2>1, <3>1, <3>2, SupersededStays
  <2> QED
    BY <1>2, <2>2, <2>3
<1> QED
  BY <1>4, <1>6, <1>7, <1>8, <1>9

\* What the queue that is left after its head is.
LEMMA TailIs ==
  ASSUME Typed, SuffixOf(queue), queue # <<>>
  PROVE  /\ Gone \in Nat /\ Head(queue) = Gone + 1 /\ Gone + 1 \in Indices
         /\ Tail(queue) \in Seq(Indices) /\ SuffixOf(Tail(queue))
         /\ Len(items) - Len(Tail(queue)) = Gone + 1
<1>1. Len(items) \in Nat /\ Len(queue) \in Nat
  BY LenProperties DEF Typed
<1>2. /\ Head(queue) \in Indices /\ Head(queue) = queue[1]
      /\ Tail(queue) \in Seq(Indices) /\ Len(queue) > 0
      /\ Len(Tail(queue)) = Len(queue) - 1
      /\ \A k \in 1..Len(Tail(queue)) : Tail(queue)[k] = queue[k + 1]
  BY Heads
<1>3. queue[1] = Gone + 1
  BY <1>1, <1>2 DEF SuffixOf, Gone
<1>4. Gone \in Nat /\ Len(items) - Len(Tail(queue)) = Gone + 1
  BY <1>1, <1>2 DEF SuffixOf, Gone
<1>5. SuffixOf(Tail(queue))
  <2>1. ASSUME NEW k \in 1..Len(Tail(queue)) PROVE Tail(queue)[k] = Gone + 1 + k
    <3>1. k + 1 \in 1..Len(queue) /\ k + 1 \in Int
      BY <1>1, <1>2
    <3>2. queue[k + 1] = Gone + (k + 1)
      BY <3>1 DEF SuffixOf, Gone
    <3> QED
      BY <1>2, <1>4, <3>2
  <2> QED
    BY <1>1, <1>2, <1>4, <2>1 DEF SuffixOf
<1> QED
  BY <1>2, <1>3, <1>4, <1>5

\* The facts that the following proofs have in common.
LEMMA InvFacts ==
  ASSUME Inv
  PROVE  /\ Len(items) \in Nat /\ Len(queue) \in Nat /\ Gone \in Nat
         /\ Gone <= Len(items) /\ \A i \in 1..Gone : i \in Indices
         /\ \A i \in Indices : i \in Nat /\ i > 0
         /\ \A i \in Indices : items[i].ev \in Events /\ items[i].d \in Nat
         /\ \A e \in Events : /\ timer[e] # 0 => timer[e] \in Indices
                              /\ left[e] \in Nat
         /\ timer \in [Events -> Indices \cup {0}] /\ left \in [Events -> Nat]
         /\ Last \subseteq Events
<1>1. Len(items) \in Nat /\ Len(queue) \in Nat /\ Gone \in Nat /\ Gone <= Len(items)
  BY LenProperties DEF Inv, Typed, SuffixOf, Gone
<1>2. timer \in [Events -> Indices \cup {0}] /\ left \in [Events -> Nat]
  BY DEF Inv, Typed
<1> QED
  BY <1>1, <1>2, Heads, ConstantsAssumption DEF Inv, Indices

\* The action e's timer waits for is followed by those that were before it.
LEMMA AfterIs ==
  ASSUME Inv, NEW l \in Indices, items[l].ev \in Last, NEW i \in items[l].after
  PROVE  i \in Indices /\ i < l /\ items[i].d < items[l].d
BY InvFacts DEF Inv, Longest, Indices

\* Nothing runs.
LEMMA RestsStep ==
  ASSUME Inv, Rests
  PROVE  Inv'
<1>1. /\ Grown(Gone) /\ UNCHANGED <<ran, timer, left>>
  BY QueuesGrow DEF Inv, Rests, Typed, Gone
<1>2. /\ items' \in Seq(Item) /\ queue' \in Seq(Indices') /\ Indices \subseteq Indices'
      /\ \A i \in Indices : items'[i] = items[i]
      /\ SuffixOf(queue)' /\ Gone' = Gone /\ Longest'
  BY <1>1 DEF Grown
<1>3. /\ ran' \in Seq(Indices') /\ RanOnce' /\ RunInOrder' /\ LastRunsLast'
      /\ \A i : HasRun(i)' <=> HasRun(i)
  BY <1>1, InvFacts, NoneRuns
<1>4. Typed'
  BY <1>1, <1>2, <1>3, InvFacts DEF Typed
<1>5. Timers'
  BY <1>1, <1>2, <1>3, InvFacts DEF Inv, Timers
<1>6. Fates'
  BY <1>1, <1>2, <1>3, InvFacts, SupersededStays DEF Inv, Fates
<1>7. Earlier'
  <2> SUFFICES ASSUME NEW e \in Last, timer[e] # 0, NEW i \in items'[timer[e]].after
               PROVE  \/ HasRun(i)' \/ Superseded(i)'
                      \/ timer[items'[i].ev] = i /\ left[items'[i].ev] < left[e]
    BY <1>1 DEF Earlier
  <2>1. /\ timer[e] \in Indices /\ items'[timer[e]] = items[timer[e]]
        /\ items[timer[e]].ev = e
    BY <1>2, InvFacts DEF Inv, Timers
  <2>2. i \in Indices /\ items'[i] = items[i]
    BY <1>2, <2>1, AfterIs
  <2> QED
    BY <1>1, <1>3, <2>1, <2>2, SupersededStays DEF Inv, Earlier
<1> QED
  BY <1>2, <1>3, <1>4, <1>5, <1>6, <1>7 DEF Inv

\* Time passes, for all timers alike.
LEMMA PassesStep ==
  ASSUME Inv, Passes
  PROVE  Inv'
<1>1. /\ UNCHANGED <<items, queue, ran, timer>>
      /\ \A e \in Events : timer[e] # 0 => left[e] > 0 /\ left'[e] = left[e] - 1
      /\ left' \in [Events -> Nat]
  BY InvFacts DEF Passes, IsDue, Down
<1>2. Typed' /\ SuffixOf(queue)' /\ RanOnce' /\ Longest' /\ RunInOrder' /\ LastRunsLast'
  BY <1>1 DEF Inv, Typed, SuffixOf, RanOnce, Longest, RunInOrder, LastRunsLast, Indices,
              Gone, Superseded
<1>3. Timers'
  BY <1>1, InvFacts DEF Inv, Timers, Gone, HasRun
<1>4. Fates'
  BY <1>1 DEF Inv, Fates, Gone, HasRun, Superseded, Indices
<1>5. Earlier'
  <2> SUFFICES ASSUME NEW e \in Last, timer[e] # 0, NEW i \in items[timer[e]].after,
                      timer[items[i].ev] = i, left[items[i].ev] < left[e]
               PROVE  left'[items[i].ev] < left'[e]
    BY <1>1 DEF Inv, Earlier, HasRun, Superseded, Indices
  <2>1. timer[e] \in Indices /\ items[timer[e]].ev = e
    BY InvFacts DEF Inv, Timers
  <2>2. i \in Indices
    BY <2>1, AfterIs
  <2>3. items[i].ev \in Events /\ e \in Events /\ timer[items[i].ev] # 0
    BY <2>2, InvFacts
  <2> QED
    BY <1>1, <2>3, InvFacts
<1> QED
  BY <1>2, <1>3, <1>4, <1>5 DEF Inv

\* A delayed action leaves the queue and its timer is set.
LEMMA SetsTimerStep ==
  ASSUME Inv, NEW j \in Indices, SetsTimer(j)
  PROVE  Inv'
<1> DEFINE e == items[j].ev
<1>1. /\ j = Gone + 1 /\ Tail(queue) \in Seq(Indices) /\ SuffixOf(Tail(queue))
      /\ Len(items) - Len(Tail(queue)) = Gone + 1 /\ Queues(Tail(queue))
  BY TailIs DEF SetsTimer, Inv, Queues
<1>2. Grown(Gone + 1)
  BY <1>1, QueuesGrow DEF Inv
<1>3. /\ UNCHANGED <<items, ran>> /\ items[j].d > 0
      /\ queue' \in Seq(Indices') /\ SuffixOf(queue)' /\ Gone' = Gone + 1 /\ Longest'
  BY <1>2 DEF Grown, SetsTimer
<1>4. /\ e \in Events /\ timer'[e] = j /\ left'[e] = items[j].d
      /\ \A f \in Events \ {e} : timer'[f] = timer[f] /\ left'[f] = left[f]
      /\ timer' \in [Events -> Indices \cup {0}] /\ left' \in [Events -> Nat]
  BY InvFacts DEF SetsTimer
<1>5. /\ RanOnce' /\ RunInOrder' /\ LastRunsLast' /\ ran' \in Seq(Indices')
      /\ \A i : HasRun(i)' <=> HasRun(i)
  BY <1>2, <1>3, InvFacts, NoneRuns
<1>6. \A i \in Indices : Superseded(i)' <=> Superseded(i)
  BY <1>3 DEF Superseded, Indices
<1>7. Typed'
  BY <1>3, <1>4, <1>5 DEF Inv, Typed, Indices
<1>8. \A i \in 1..Gone : i \in Indices /\ (items[i].ev = e /\ items[i].d > 0 => Superseded(i))
  BY <1>1, InvFacts DEF Superseded
<1>9. ~ HasRun(j)
  BY <1>1, InvFacts DEF Inv, RanOnce, HasRun, InQueue
<1> HIDE DEF e
<1>10. Timers'
  <2> SUFFICES ASSUME NEW f \in Events, timer'[f] # 0
               PROVE  /\ timer'[f] <= Gone + 1 /\ items[timer'[f]].ev = f
                      /\ items[timer'[f]].d > 0 /\ left'[f] <= items[timer'[f]].d
                      /\ ~ HasRun(timer'[f])
    BY <1>3, <1>5 DEF Timers
  <2>1. CASE f = e
    BY <1>1, <1>3, <1>4, <1>9, <2>1, InvFacts DEF e
  <2>2. CASE f # e
    BY <1>4, <2>2, InvFacts DEF Inv, Timers
  <2> QED
    BY <2>1, <2>2
<1>11. Fates'
  <2> SUFFICES ASSUME NEW i \in 1..(Gone + 1), ~ HasRun(i)
               PROVE  items[i].d > 0 /\ (timer'[items[i].ev] = i \/ Superseded(i)')
    BY <1>3, <1>5 DEF Fates
  <2>1. CASE i = j
    BY <1>3, <1>4, <2>1 DEF e
  <2>2. CASE i \in 1..Gone
    <3>1. items[i].d > 0 /\ (timer[items[i].ev] = i \/ Superseded(i))
      BY <2>2 DEF Inv, Fates
    <3> QED
      BY <1>4, <1>6, <1>8, <2>2, <3>1, InvFacts
  <2> QED
    BY <1>1, <2>1, <2>2, InvFacts
<1>12. Earlier'
  <2> SUFFICES ASSUME NEW f \in Last, timer'[f] # 0, NEW i \in items[timer'[f]].after,
                      ~ HasRun(i), ~ Superseded(i)
               PROVE  timer'[items[i].ev] = i /\ left'[items[i].ev] < left'[f]
    <3>1. \A f \in Last : timer'[f] # 0 => timer'[f] \in Indices /\ items[timer'[f]].ev = f
      BY <1>3, <1>4, <1>10, InvFacts DEF Timers
    <3>2. \A f \in Last : timer'[f] # 0 => \A i \in items[timer'[f]].after : i \in Indices
      BY <3>1, AfterIs
    <3> QED
      BY <1>3, <1>5, <1>6, <3>2 DEF Earlier
  <2>1. CASE f = e
    <3>1. timer'[f] = j /\ items[j].ev \in Last /\ left'[f] = items[j].d
      BY <1>4, <2>1 DEF e
    <3>2. i \in Indices /\ i < j /\ items[i].d < items[j].d
      BY <3>1, AfterIs
    <3>3. i \in 1..Gone
      BY <1>1, <3>2, InvFacts
    <3>4. timer[items[i].ev] = i /\ items[i].d > 0
      BY <3>3 DEF Inv, Fates
    <3>5. items[i].ev # e /\ items[i].ev \in Events
      BY <1>8, <3>2, <3>3, <3>4, InvFacts
    <3>6. left[items[i].ev] <= items[i].d
      BY <3>2, <3>4, <3>5, InvFacts DEF Inv, Timers
    <3> QED
      BY <1>4, <3>1, <3>2, <3>4, <3>5, <3>6, InvFacts
  <2>2. CASE f # e
    <3>1. timer'[f] = timer[f] /\ left'[f] = left[f] /\ timer[f] \in Indices
      BY <1>4, <2>2, InvFacts
    <3>2. timer[items[i].ev] = i /\ left[items[i].ev] < left[f]
      BY <3>1 DEF Inv, Earlier
    <3>3. i \in Indices /\ items[timer[f]].ev = f
      BY <3>1, AfterIs, InvFacts DEF Inv, Timers
    <3>4. i \in 1..Gone /\ items[i].d > 0 /\ items[i].ev \in Events
      BY <3>2, <3>3, InvFacts DEF Inv, Timers
    <3>5. items[i].ev # e
      BY <1>8, <3>4
    <3> QED
      BY <1>4, <3>1, <3>2, <3>4, <3>5
  <2> QED
    BY <2>1, <2>2
<1> QED
  BY <1>3, <1>5, <1>7, <1>10, <1>11, <1>12 DEF Inv

\* The action at the head of the queue runs.
LEMMA RunsHeadStep ==
  ASSUME Inv, NEW j \in Indices, RunsHead(j)
  PROVE  Inv'
<1>1. /\ j = Gone + 1 /\ Tail(queue) \in Seq(Indices) /\ SuffixOf(Tail(queue))
      /\ Len(items) - Len(Tail(queue)) = Gone + 1 /\ Queues(Tail(queue))
  BY TailIs DEF RunsHead, Inv
<1>2. Grown(Gone + 1)
  BY <1>1, QueuesGrow DEF Inv
<1>3. /\ items' \in Seq(Item) /\ queue' \in Seq(Indices') /\ Indices \subseteq Indices'
      /\ \A i \in Indices : items'[i] = items[i]
      /\ SuffixOf(queue)' /\ Gone' = Gone + 1 /\ Longest'
  BY <1>2 DEF Grown
<1>4. UNCHANGED <<timer, left>> /\ items[j].d = 0 /\ ran' = Append(ran, j)
  BY InvFacts DEF RunsHead
<1>5. ~ HasRun(j) /\ Gone <= Gone + 1 /\ Gone + 1 \in Nat
  BY <1>1, InvFacts DEF Inv, RanOnce, HasRun, InQueue
<1>6. ASSUME NEW i \in 1..(j - 1), items[i].d = 0 PROVE HasRun(i)
  <2>1. i \in 1..Gone /\ ~ (items[i].d > 0)
    BY <1>1, <1>6, InvFacts
  <2> QED
    BY <2>1 DEF Inv, Fates
<1>7. items[j].ev \notin Last
  BY <1>4 DEF Inv, Longest
<1>8. /\ RanOnce' /\ RunInOrder' /\ LastRunsLast' /\ ran' \in Seq(Indices')
      /\ \A i : HasRun(i)' <=> HasRun(i) \/ i = j
  BY <1>1, <1>2, <1>4, <1>5, <1>6, <1>7, OneRuns
<1>9. Typed'
  BY <1>3, <1>4, <1>8, InvFacts DEF Typed
<1>10. Timers'
  <2> SUFFICES ASSUME NEW e \in Events, timer[e] # 0
               PROVE  /\ timer[e] <= Gone + 1 /\ items'[timer[e]].ev = e
                      /\ items'[timer[e]].d > 0 /\ left[e] <= items'[timer[e]].d
                      /\ ~ HasRun(timer[e]) /\ timer[e] # j
    BY <1>3, <1>4, <1>8 DEF Timers
  <2>1. timer[e] \in Indices /\ items'[timer[e]] = items[timer[e]]
    BY <1>3, InvFacts
  <2>2. /\ timer[e] <= Gone /\ items[timer[e]].ev = e
        /\ items[timer[e]].d > 0 /\ left[e] <= items[timer[e]].d
        /\ ~ HasRun(timer[e])
    BY DEF Inv, Timers
  <2>3. timer[e] <= Gone + 1 /\ timer[e] # j
    <3>1. timer[e] \in Nat /\ Gone \in Nat
      BY <2>1, InvFacts
    <3> QED
      BY <1>1, <2>2, <3>1
  <2> QED
    BY <2>1, <2>2, <2>3
<1>11. Fates'
  <2> SUFFICES ASSUME NEW i \in 1..(Gone + 1), i # j, ~ HasRun(i)
               PROVE  items'[i].d > 0 /\ (timer[items'[i].ev] = i \/ Superseded(i)')
    BY <1>3, <1>4, <1>8 DEF Fates
  <2>1. i \in 1..Gone
    BY <1>1, InvFacts
  <2>2. items[i].d > 0 /\ (timer[items[i].ev] = i \/ Superseded(i))
    BY <2>1 DEF Inv, Fates
  <2> QED
    BY <1>2, <1>3, <2>1, <2>2, InvFacts, SupersededStays
<1>12. Earlier'
  <2> SUFFICES ASSUME NEW e \in Last, timer[e] # 0, NEW i \in items'[timer[e]].after
               PROVE  \/ HasRun(i)' \/ Superseded(i)'
                      \/ timer[items'[i].ev] = i /\ left[items'[i].ev] < left[e]
    BY <1>4 DEF Earlier
  <2>1. /\ timer[e] \in Indices /\ items'[timer[e]] = items[timer[e]]
        /\ items[timer[e]].ev = e
    BY <1>3, InvFacts DEF Inv, Timers
  <2>2. i \in Indices /\ items'[i] = items[i]
    BY <1>3, <2>1, AfterIs
  <2> QED
    BY <1>2, <1>8, <2>1, <2>2, SupersededStays DEF Inv, Earlier
<1> QED
  BY <1>3, <1>8, <1>9, <1>10, <1>11, <1>12 DEF Inv

\* A timer fires and its action runs.
LEMMA FiresStep ==
  ASSUME Inv, NEW e \in Events, Fires(e)
  PROVE  Inv'
<1> DEFINE j == timer[e]
<1>1. /\ j \in Indices /\ j # 0 /\ left[e] = 0 /\ Queues(queue) /\ left' = left
      /\ ran' = Append(ran, j)
      /\ timer'[e] = 0 /\ \A f \in Events \ {e} : timer'[f] = timer[f]
      /\ timer' \in [Events -> Indices \cup {0}]
  BY InvFacts DEF Fires, IsDue
<1>2. /\ j <= Gone /\ items[j].ev = e /\ items[j].d > 0 /\ ~ HasRun(j)
  BY <1>1 DEF Inv, Timers
<1> HIDE DEF j
<1>3. Grown(Gone)
  BY <1>1, QueuesGrow DEF Inv, Typed, Gone
<1>4. /\ items' \in Seq(Item) /\ queue' \in Seq(Indices') /\ Indices \subseteq Indices'
      /\ \A i \in Indices : items'[i] = items[i]
      /\ SuffixOf(queue)' /\ Gone' = Gone /\ Longest'
  BY <1>3 DEF Grown
<1>5. ASSUME e \in Last, NEW i \in items[j].after PROVE Superseded(i) \/ HasRun(i)
  <2>1. i \in Indices
    BY <1>1, <1>2, <1>5, AfterIs
  <2>2. ~ (left[items[i].ev] < left[e])
    BY <1>1, <2>1, InvFacts
  <2> QED
    BY <1>1, <1>5, <2>2 DEF Inv, Earlier, j
<1>6. /\ RanOnce' /\ RunInOrder' /\ LastRunsLast' /\ ran' \in Seq(Indices')
      /\ \A i : HasRun(i)' <=> HasRun(i) \/ i = j
  <2>1. Gone \in Nat /\ Gone <= Gone /\ items[j].d # 0
    BY <1>2, InvFacts
  <2>2. items[j].ev \in Last => \A i \in items[j].after : Superseded(i) \/ HasRun(i)
    BY <1>2, <1>5
  <2> QED
    BY <1>1, <1>2, <1>3, <2>1, <2>2, OneRuns
<1>7. Typed'
  BY <1>1, <1>4, <1>6, InvFacts DEF Typed
<1>8. Timers'
  <2> SUFFICES ASSUME NEW f \in Events, timer'[f] # 0
               PROVE  /\ timer'[f] <= Gone /\ items'[timer'[f]].ev = f
                      /\ items'[timer'[f]].d > 0 /\ left[f] <= items'[timer'[f]].d
                      /\ ~ HasRun(timer'[f]) /\ timer'[f] # j
    BY <1>1, <1>4, <1>6 DEF Timers
  <2>1. f # e /\ timer'[f] = timer[f] /\ timer[f] \in Indices
    BY <1>1, InvFacts
  <2>2. items'[timer[f]] = items[timer[f]]
    BY <1>4, <2>1
  <2>3. /\ timer[f] <= Gone /\ items[timer[f]].ev = f
        /\ items[timer[f]].d > 0 /\ left[f] <= items[timer[f]].d
        /\ ~ HasRun(timer[f])
    BY <2>1 DEF Inv, Timers
  <2> QED
    BY <1>2, <2>1, <2>2, <2>3
<1>9. Fates'
  <2> SUFFICES ASSUME NEW i \in 1..Gone, i # j, ~ HasRun(i)
               PROVE  items'[i].d > 0 /\ (timer'[items'[i].ev] = i \/ Superseded(i)')
    BY <1>4, <1>6 DEF Fates
  <2>1. items[i].d > 0 /\ (timer[items[i].ev] = i \/ Superseded(i))
    BY DEF Inv, Fates
  <2>2. i \in Indices /\ items[i].ev \in Events /\ items'[i] = items[i]
    BY <1>4, InvFacts
  <2>3. timer[items[i].ev] = i => items[i].ev # e
    BY DEF j
  <2> QED
    BY <1>1, <1>3, <2>1, <2>2, <2>3, SupersededStays
<1>10. Earlier'
  <2> SUFFICES ASSUME NEW f \in Last, timer'[f] # 0, NEW i \in items'[timer'[f]].after
               PROVE  \/ HasRun(i)' \/ Superseded(i)'
                      \/ timer'[items'[i].ev] = i /\ left[items'[i].ev] < left[f]
    BY <1>1 DEF Earlier
  <2>1. /\ timer'[f] = timer[f] /\ timer[f] \in Indices /\ items'[timer[f]] = items[timer[f]]
        /\ items[timer[f]].ev = f
    BY <1>1, <1>4, InvFacts DEF Inv, Timers
  <2>2. i \in Indices /\ items'[i] = items[i] /\ items[i].ev \in Events
    BY <1>4, <2>1, AfterIs, InvFacts
  <2>3. \/ HasRun(i) \/ Superseded(i)
        \/ timer[items[i].ev] = i /\ left[items[i].ev] < left[f]
    BY <2>1, <2>2 DEF Inv, Earlier
  <2>4. CASE items[i].ev = e
    BY <1>3, <1>6, <2>2, <2>3, <2>4, SupersededStays DEF j
  <2>5. CASE items[i].ev # e
    BY <1>1, <1>3, <1>6, <2>2, <2>3, <2>5, SupersededStays
  <2> QED
    BY <2>4, <2>5
<1> QED
  BY <1>4, <1>6, <1>7, <1>8, <1>9, <1>10 DEF Inv

\* Inv is inductive, so it holds in every state.
LEMMA InvHolds == Spec => []Inv
<1>1. Init => Inv
  <2> SUFFICES ASSUME Init PROVE Inv
    OBVIOUS
  <2>1. /\ items = <<>> /\ queue = <<>> /\ ran = <<>>
        /\ timer = [e \in Events |-> 0] /\ left = [e \in Events |-> 0]
    BY DEF Init
  <2>2. Len(items) = 0 /\ Len(queue) = 0 /\ Len(ran) = 0
    BY <2>1, EmptySeq
  <2>3. Typed
    BY <2>1, EmptySeq DEF Typed
  <2>4. SuffixOf(queue) /\ RanOnce /\ Fates /\ Longest /\ RunInOrder /\ LastRunsLast
    BY <2>2 DEF SuffixOf, RanOnce, Fates, Longest, RunInOrder, LastRunsLast, Gone, Indices
  <2>5. Timers /\ Earlier
    BY <2>1, ConstantsAssumption DEF Timers, Earlier
  <2> QED
    BY <2>3, <2>4, <2>5 DEF Inv
<1>2. Inv /\ [Next]_vars => Inv'
  <2> SUFFICES ASSUME Inv, [Next]_vars PROVE Inv'
    OBVIOUS
  <2>1. \/ Rests \/ Passes
        \/ \E i \in Indices : SetsTimer(i) \/ RunsHead(i)
        \/ \E e \in Events : Fires(e)
    BY StepKinds DEF Inv
  <2> QED
    BY <2>1, RestsStep, PassesStep, SetsTimerStep, RunsHeadStep, FiresStep
<1> QED
  BY <1>1, <1>2, PTL DEF Spec

-----------------------------------------------------------------------------
(* Results *)

\* Actions without delay run in the order of their events, for any events and
\* whatever the actions cause or throw.
THEOREM InOrder == Spec => []RunInOrder
<1>1. Inv => RunInOrder
  BY DEF Inv
<1> QED
  BY <1>1, InvHolds, PTL

\* An action that is to run last runs after all that was in the queue with it, for
\* any delays: its own is longer, and the timers were set before its timer.
THEOREM LastIsLast == Spec => []LastRunsLast
<1>1. Inv => LastRunsLast
  BY DEF Inv
<1> QED
  BY <1>1, InvHolds, PTL

\* Every action has run, or waits, or was superseded by a repeated event; none runs
\* twice or runs and waits.
THEOREM OneFate == Spec => []EachHasOneFate
<1>1. Inv => EachHasOneFate
  <2> SUFFICES ASSUME Inv, NEW i \in Indices
               PROVE  /\ HasRun(i) \/ Waits(i) \/ Superseded(i)
                      /\ ~ (HasRun(i) /\ Waits(i))
                      /\ Cardinality({n \in 1..Len(ran) : ran[n] = i}) <= 1
    BY DEF EachHasOneFate
  <2>1. i \in InQueue(queue) <=> i > Gone
    <3>1. ASSUME i > Gone PROVE i \in InQueue(queue)
      <4>1. i - Gone \in 1..Len(queue) /\ queue[i - Gone] = Gone + (i - Gone)
        BY <3>1, InvFacts DEF Inv, SuffixOf, Gone, Indices
      <4> QED
        BY <4>1, InvFacts DEF InQueue
    <3>2. ASSUME i \in InQueue(queue) PROVE i > Gone
      BY <3>2, InvFacts DEF Inv, SuffixOf, Gone, InQueue
    <3> QED
      BY <3>1, <3>2
  <2>2. HasRun(i) \/ Waits(i) \/ Superseded(i)
    <3>1. CASE i > Gone
      BY <2>1, <3>1 DEF Waits
    <3>2. CASE i \in 1..Gone
      BY <3>2 DEF Inv, Fates, Waits
    <3> QED
      BY <3>1, <3>2, InvFacts
  <2>3. HasRun(i) => ~ Waits(i)
    <3>1. HasRun(i) => i <= Gone
      BY DEF Inv, RanOnce, HasRun, InQueue
    <3>2. HasRun(i) => timer[items[i].ev] # i
      BY InvFacts DEF Inv, Timers
    <3> QED
      BY <2>1, <3>1, <3>2, InvFacts DEF Waits
  <2>4. Cardinality({n \in 1..Len(ran) : ran[n] = i}) <= 1
    <3> DEFINE N == {n \in 1..Len(ran) : ran[n] = i}
    <3>1. \A m, n \in N : m = n
      BY DEF Inv, RanOnce
    <3>2. ASSUME N = {} PROVE Cardinality(N) <= 1
      <4> HIDE DEF N
      <4> QED
        BY <3>2, FS_EmptySet
    <3>3. ASSUME NEW n \in N PROVE Cardinality(N) <= 1
      <4>1. N = {n}
        BY <3>1, <3>3
      <4> HIDE DEF N
      <4> QED
        BY <4>1, FS_Singleton
    <3> QED
      BY <3>2, <3>3
  <2> QED
    BY <2>2, <2>3, <2>4
<1> QED
  BY <1>1, InvHolds, PTL

\* Every variable keeps its type.
THEOREM Typing == Spec => []TypeOK
<1>1. Init => Flags
  <2> SUFFICES ASSUME Init PROVE Flags
    OBVIOUS
  <2>1. armed \in BOOLEAN /\ draining \in BOOLEAN /\ thrown \in BOOLEAN
    BY Zenon DEF Init
  <2>2. wait \in 0..DrainDelay /\ events \in 0..MaxEvents
    BY ConstantsAssumption DEF Init
  <2> QED
    BY <2>1, <2>2 DEF Flags
<1>2. Typed /\ Flags /\ [Next]_vars => Flags'
  <2> SUFFICES ASSUME Typed, Flags, [Next]_vars PROVE Flags'
    OBVIOUS
  <2>0. /\ DrainDelay \in 0..DrainDelay /\ wait \in 0..DrainDelay /\ events \in 0..MaxEvents
        /\ MaxEvents \in Nat
    BY ConstantsAssumption DEF Flags
  <2>1. \/ UNCHANGED <<armed, wait>>
        \/ armed' = TRUE /\ wait' = IF armed THEN wait ELSE DrainDelay
        \/ armed' = FALSE /\ wait' = wait
        \/ armed' = armed /\ wait' = Down(wait)
    <3>1. ASSUME NEW i, NEW q, run(i, q) \/ runThrows(i, q)
          PROVE  \/ UNCHANGED <<armed, wait>>
                 \/ armed' = TRUE /\ wait' = IF armed THEN wait ELSE DrainDelay
      BY <3>1, Zenon DEF run, runThrows, queueAction
    <3> QED
      BY <3>1, Zenon DEF Next, Browser, Event, queueAction, DrainBegins, DrainNext,
        DrainThrows, DrainEnds, TimerFires, Tick, vars, timers
  <2>2. draining' \in {draining, TRUE, FALSE} /\ thrown' \in {thrown, thrown \/ Tail(queue) # <<>>}
    BY Zenon DEF Next, Browser, Event, DrainBegins, DrainNext, DrainThrows, DrainEnds,
      TimerFires, Tick, vars
  <2>3. events' = events \/ (events < MaxEvents /\ events' = events + 1)
    BY Zenon DEF Next, Browser, Event, DrainBegins, DrainNext, DrainThrows, DrainEnds,
      TimerFires, Tick, vars
  <2>4. armed' \in BOOLEAN
    BY <2>1, Zenon DEF Flags
  <2>5. wait' \in 0..DrainDelay
    <3>1. wait' \in {wait, DrainDelay, Down(wait)}
      BY <2>1, Zenon
    <3> QED
      BY <2>0, <3>1, ConstantsAssumption DEF Down
  <2>6. draining' \in BOOLEAN /\ thrown' \in BOOLEAN
    BY <2>2, Zenon DEF Flags
  <2>7. events' \in 0..MaxEvents
    BY <2>0, <2>3
  <2> QED
    BY <2>4, <2>5, <2>6, <2>7, Zenon DEF Flags
<1>3. Inv => Typed
  BY DEF Inv
<1>4. Typed /\ Flags => TypeOK
  BY Zenon DEF Typed, Flags, TypeOK
<1> QED
  BY <1>1, <1>2, <1>3, <1>4, InvHolds, PTL DEF Spec
=============================================================================

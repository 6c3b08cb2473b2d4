---------------------------- MODULE ActionQueue ----------------------------
(***************************************************************************)
(* The queue of actions between an event of the page and its handlers      *)
(* (assets/js/goradd.js:1110-1148), over named timers (1237-1296).         *)
(*                                                                         *)
(* An event queues its action; a timer drains the queue a moment later.    *)
(* Actions without a delay run as the queue is drained, the others when a  *)
(* timer of their own fires, whose name (params.k) belongs to the event.   *)
(* Running an action may cause another event, and may throw.               *)
(*                                                                         *)
(* Time is counted in ticks.  A timer fires at its time, in the order the  *)
(* timers were set if several are due, and the user's events may come      *)
(* before or after it in the same tick: a busy browser fires timers late   *)
(* but not in another order.                                               *)
(***************************************************************************)
EXTENDS Naturals, Sequences, FiniteSets, FiniteSetsExt

CONSTANTS Events,     \* events that have an action
          Delay,      \* the delay d of an event's action, in ticks
          Last,       \* events whose action is to run last
          Causes,     \* the event that running an event's action causes
          None,       \* no event
          DrainDelay, \* the delay of the timer "goradd.actions", in ticks
          MaxEvents,  \* bound on the events of the user
          Throwing    \* events whose action may throw

ASSUME ConstantsAssumption ==
  /\ None \notin Events
  /\ Delay \in [Events -> Nat]
  /\ Causes \in [Events -> Events \cup {None}]
  /\ Last \subseteq Events
  /\ Throwing \subseteq Events
  /\ DrainDelay \in Nat
  /\ MaxEvents \in Nat

VARIABLES
  items,    \* the actions queued so far: event, delay and, as history, the
            \* actions that were in the queue, and those of the same event that
            \* waited for their timer
  queue,    \* _actionQueue, as indices of items
  armed,    \* hasTimer("goradd.actions")
  wait,     \* ticks until that timer is due
  timer,    \* the action that waits for the timer of each event, 0 for none
  left,     \* ticks until those timers are due
  draining, \* processActions is running
  ran,      \* actions in the order they ran
  events,   \* number of events of the user
  thrown    \* history: an action threw while others were in the queue

timers == <<armed, wait, timer, left>>
vars == <<items, queue, timers, draining, ran, events, thrown>>

Init ==
  /\ items = <<>>
  /\ queue = <<>>
  /\ armed = FALSE
  /\ wait = 0
  /\ timer = [e \in Events |-> 0]
  /\ left = [e \in Events |-> 0]
  /\ draining = FALSE
  /\ ran = <<>>
  /\ events = 0
  /\ thrown = FALSE

InQueue(q) == {q[i] : i \in 1..Len(q)}

\* Mutant of delayOf: the longest delay is that of the first in the queue.
delayOfFirst(e, q) ==
  IF e \in Last THEN 1 + (IF q = <<>> THEN 0 ELSE items[q[1]].d) ELSE Delay[e]

\* The delay of an action queued behind those in q: one that is to run last waits
\* longer than all of them.  Actions that have a timer already do not count.
delayOf(e, q) ==
  IF e \in Last THEN 1 + Max({0} \cup {items[i].d : i \in InQueue(q)}) ELSE Delay[e]

\* Mutant of queueAction: the timer that drains the queue waits as long as the action.
queueActionLate(e, q) ==
  /\ items' = Append(items, [ev |-> e, d |-> delayOf(e, q), after |-> InQueue(q),
                             during |-> {timer[e]} \ {0}])
  /\ queue' = Append(q, Len(items) + 1)
  /\ armed' = TRUE
  /\ wait' = IF armed THEN wait ELSE DrainDelay + delayOf(e, q)

(***************************************************************************)
(* queueAction of event e, with q the queue: the timer that drains the     *)
(* queue is set unless it is running already.                              *)
(***************************************************************************)
queueAction(e, q) ==
  /\ items' = Append(items, [ev |-> e, d |-> delayOf(e, q), after |-> InQueue(q),
                             during |-> {timer[e]} \ {0}])
  /\ queue' = Append(q, Len(items) + 1)
  /\ armed' = TRUE
  /\ wait' = IF armed THEN wait ELSE DrainDelay

\* The action of item i runs, with q the queue, and may cause an event.
run(i, q) ==
  /\ ran' = Append(ran, i)
  /\ IF Causes[items[i].ev] = None
       THEN queue' = q /\ UNCHANGED <<items, armed, wait>>
       ELSE queueAction(Causes[items[i].ev], q)

\* It throws before it has caused anything.
runThrows(i, q) ==
  /\ items[i].ev \in Throwing
  /\ ran' = Append(ran, i)
  /\ queue' = q
  /\ UNCHANGED <<items, armed, wait>>

-----------------------------------------------------------------------------

\* The user does something.
Event(e) ==
  /\ ~draining
  /\ events < MaxEvents
  /\ events' = events + 1
  /\ queueAction(e, queue)
  /\ UNCHANGED <<timer, left, draining, ran, thrown>>

\* The timer "goradd.actions" fires: it is cleared, and processActions begins.
DrainBegins ==
  /\ ~draining
  /\ armed
  /\ wait = 0
  /\ armed' = FALSE
  /\ draining' = TRUE
  /\ UNCHANGED <<items, queue, wait, timer, left, ran, events, thrown>>

\* Mutants of DrainNext: the last of the queue is taken; an action whose event
\* has a timer already is dropped, and the timer kept; only one action is taken.
DrainLast ==
  /\ draining
  /\ queue # <<>>
  /\ LET i == queue[Len(queue)]
         q == SubSeq(queue, 1, Len(queue) - 1)
     IN IF items[i].d > 0
          THEN /\ timer' = [timer EXCEPT ![items[i].ev] = i]
               /\ left' = [left EXCEPT ![items[i].ev] = items[i].d]
               /\ queue' = q
               /\ UNCHANGED <<items, armed, wait, draining, ran, events, thrown>>
          ELSE run(i, q) /\ UNCHANGED <<timer, left, draining, events, thrown>>

DrainKeepsTimer ==
  /\ draining
  /\ queue # <<>>
  /\ LET i == Head(queue)
         e == items[i].ev
     IN IF items[i].d > 0
          THEN /\ timer' = [timer EXCEPT ![e] = IF @ = 0 THEN i ELSE @]
               /\ left' = [left EXCEPT ![e] = IF timer[e] = 0 THEN items[i].d ELSE @]
               /\ queue' = Tail(queue)
               /\ UNCHANGED <<items, armed, wait, draining, ran, events, thrown>>
          ELSE run(i, Tail(queue)) /\ UNCHANGED <<timer, left, draining, events, thrown>>

DrainOne ==
  /\ draining
  /\ queue # <<>>
  /\ draining' = FALSE
  /\ LET i == Head(queue)
         e == items[i].ev
     IN IF items[i].d > 0
          THEN /\ timer' = [timer EXCEPT ![e] = i]
               /\ left' = [left EXCEPT ![e] = items[i].d]
               /\ queue' = Tail(queue)
               /\ UNCHANGED <<items, armed, wait, ran, events, thrown>>
          ELSE run(i, Tail(queue)) /\ UNCHANGED <<timer, left, events, thrown>>

\* processActions shifts the next action: it sets the timer of its event, which
\* replaces an action that waits for it, or runs it.
DrainNext ==
  /\ draining
  /\ queue # <<>>
  /\ LET i == Head(queue)
         e == items[i].ev
     IN IF items[i].d > 0
          THEN /\ timer' = [timer EXCEPT ![e] = i]
               /\ left' = [left EXCEPT ![e] = items[i].d]
               /\ queue' = Tail(queue)
               /\ UNCHANGED <<items, armed, wait, draining, ran, events, thrown>>
          ELSE run(i, Tail(queue)) /\ UNCHANGED <<timer, left, draining, events, thrown>>

\* The action throws, which ends processActions with the rest still in the queue.
DrainThrows ==
  /\ draining
  /\ queue # <<>>
  /\ items[Head(queue)].d = 0
  /\ runThrows(Head(queue), Tail(queue))
  /\ draining' = FALSE
  /\ thrown' = (thrown \/ Tail(queue) # <<>>)
  /\ UNCHANGED <<timer, left, events>>

DrainEnds ==
  /\ draining
  /\ queue = <<>>
  /\ draining' = FALSE
  /\ UNCHANGED <<items, queue, timers, ran, events, thrown>>

\* Timers are set in the order of the items.
IsDue(e) == timer[e] # 0 /\ left[e] = 0

\* The timer of event e fires and its action runs, or throws, to no one's harm.
TimerFires(e) ==
  /\ ~draining
  /\ IsDue(e)
  /\ \A f \in Events : IsDue(f) => timer[e] <= timer[f]
  /\ timer' = [timer EXCEPT ![e] = 0]
  /\ run(timer[e], queue) \/ runThrows(timer[e], queue)
  /\ UNCHANGED <<left, draining, events, thrown>>

Down(n) == IF n = 0 THEN 0 ELSE n - 1

Tick ==
  /\ ~draining
  /\ armed => wait > 0
  /\ \A e \in Events : ~IsDue(e)
  /\ armed \/ \E e \in Events : timer[e] # 0
  /\ wait' = Down(wait)
  /\ left' = [e \in Events |-> Down(left[e])]
  /\ UNCHANGED <<items, queue, armed, timer, draining, ran, events, thrown>>

Browser ==
  \/ DrainBegins \/ DrainNext \/ DrainThrows \/ DrainEnds
  \/ \E e \in Events : TimerFires(e)
  \/ Tick

Next == Browser \/ \E e \in Events : Event(e)

Spec == Init /\ [][Next]_vars

\* Timers fire and time passes; the user owes the page no event.
FairSpec == Spec /\ WF_vars(Browser)

-----------------------------------------------------------------------------
(* What must hold *)

Item == [ev : Events, d : Nat, after : SUBSET Nat, during : SUBSET Nat]
Indices == 1..Len(items)

TypeOK ==
  /\ items \in Seq(Item)
  /\ queue \in Seq(Indices)
  /\ {armed, draining, thrown} \subseteq BOOLEAN
  /\ wait \in 0..DrainDelay
  /\ timer \in [Events -> Indices \cup {0}]
  /\ left \in [Events -> Nat]
  /\ ran \in Seq(Indices)
  /\ events \in 0..MaxEvents

HasRun(i) == i \in InQueue(ran)
Waits(i) == i \in InQueue(queue) \/ timer[items[i].ev] = i

\* A later event of the same name has taken over the timer of action i.
Superseded(i) == \E j \in Indices : j > i /\ items[j].ev = items[i].ev /\ items[i].d > 0

\* Actions without delay run in the order of their events, whatever they cause or
\* throw: when one runs, the earlier ones have run.
RunInOrder ==
  \A n \in 1..Len(ran) :
    items[ran[n]].d = 0 =>
      \A i \in 1..(ran[n] - 1) : items[i].d = 0 => \E m \in 1..(n - 1) : ran[m] = i

\* No action is lost: it has run, or waits in the queue or for its timer, or its
\* event was repeated while it waited ("the action will not be repeated"); and
\* none runs twice or both runs and waits.
EachHasOneFate ==
  \A i \in Indices :
    /\ HasRun(i) \/ Waits(i) \/ Superseded(i)
    /\ ~(HasRun(i) /\ Waits(i))
    /\ Cardinality({n \in 1..Len(ran) : ran[n] = i}) <= 1

\* An action that is to run last runs after everything that was in the queue when
\* its event came, delayed or not, but for what a repeated event has postponed.
LastRunsLast ==
  \A n \in 1..Len(ran) :
    items[ran[n]].ev \in Last =>
      \A i \in items[ran[n]].after :
        Superseded(i) \/ \E m \in 1..(n - 1) : ran[m] = i

\* The same for everything that had not run when its event came.
LastRunsLastOfAll ==
  \A n \in 1..Len(ran) :
    items[ran[n]].ev \in Last =>
      \A i \in 1..(ran[n] - 1) :
        Superseded(i) \/ \E m \in 1..(n - 1) : ran[m] = i

\* "If the event is repeated during the delay, the action will not be repeated"
\* (goradd.js:1142): of an action that waits for its timer and one that the same
\* event queues meanwhile, one runs.
RepeatsDoNotRunTwice ==
  \A i \in Indices : HasRun(i) => \A j \in items[i].during : ~HasRun(j)

\* What is in the queue will be drained, whatever is thrown.
QueueIsAlwaysServed == queue # <<>> => armed \/ draining

\* Every action runs at last or is superseded, however often the queue grows while
\* it is drained, unless an action threw with others waiting behind it.
ActionsRun ==
  \A i \in 1..(2 * MaxEvents) :
    i \in Indices ~> thrown \/ (i \in Indices /\ (HasRun(i) \/ Superseded(i)))
=============================================================================

----------------------------- MODULE AjaxQueue -----------------------------
(***************************************************************************)
(* The page's side of an ajax action (assets/js/goradd.js): postAjax and   *)
(* the queue goradd.ajaxq, the record of changed controls that the next    *)
(* request carries to the server, the blocking of events, and the          *)
(* processing of a response, whose second half may wait for files to load. *)
(*                                                                         *)
(* JavaScript runs one callback at a time, so every action is one callback *)
(* with all it calls.  The server is external: it takes a request, or the  *)
(* request fails on the way, at the server or in the page.  A request that *)
(* the page has given up on, because it timed out or the connection broke, *)
(* may be on its way all the same, and the server may take it later.       *)
(*                                                                         *)
(* A control's value is the number of times it was changed, so that 0 is a *)
(* value no request needs to carry.  blockEvents is written by the event   *)
(* handlers the framework generates; it can only be set after the call of  *)
(* postAjax it belongs to, which would otherwise refuse its own event.     *)
(*                                                                         *)
(* The variable _ajaxError of goradd.js:49 is left out: it starts FALSE and*)
(* no code sets it.  (goradd-debug.js:25 assigns a global of that name,    *)
(* not the one inside the closure of goradd.js.)                           *)
(***************************************************************************)
EXTENDS Naturals, Sequences, SequencesExt

CONSTANTS Requests,     \* ajax actions the page's events trigger
          Controls,     \* controls whose value the user or a script changes
          MaxEdits,     \* bound on the changes of one control
          MaxFinals,    \* bound on the final commands of one response
          AsyncAllowed, \* TRUE: some actions are asynchronous
          BlockAllowed, \* TRUE: some events block the others
          FilesAllowed, \* TRUE: some responses load scripts or style sheets
          Failures      \* ways a request may fail: "lost", "error", "throw"

ASSUME ConstantsAssumption ==
  /\ MaxEdits \in Nat
  /\ MaxFinals \in Nat
  /\ {AsyncAllowed, BlockAllowed, FilesAllowed} \subseteq BOOLEAN
  /\ Failures \subseteq {"lost", "error", "throw"}

VARIABLES
  stage,       \* how far each request has come
  isAsync,     \* the blnAsync it was enqueued with
  blocking,    \* its event handler has set blockEvents
  queue,       \* _q
  current,     \* the keys of _currentRequests
  blockEvents, \* goradd.blockEvents
  edit,        \* the value of each control in the page
  modified,    \* _formObjsModified and _controlValues
  carried,     \* the values in a request's post data; 0 for none
  known,       \* the values the server has
  late,        \* requests given up on that the server may yet take
  tookLate,    \* history: those of them that it did take
  toRun,       \* the commands of a response whose files are loading
  finals,      \* _finalCommands
  posted,      \* queued requests in the order of their events
  started,     \* queued requests in the order they were sent
  applied,     \* requests in the order their responses were applied
  executed     \* final commands in the order they were executed

values == <<edit, modified, carried, known>>
overdue == <<late, tookLate>>
commands == <<toRun, finals, executed>>
requests == <<stage, isAsync, blocking, posted, applied>>
sending == <<queue, current, started>>
vars == <<requests, sending, values, overdue, commands, blockEvents>>

Stages == {"new", "queued", "sent", "taken", "loading", "applied", "failed",
           "broken"}
Finals(r, n) == [i \in 1..n |-> <<r, i>>]

Init ==
  /\ stage = [r \in Requests |-> "new"]
  /\ isAsync = [r \in Requests |-> FALSE]
  /\ blocking = [r \in Requests |-> FALSE]
  /\ queue = <<>>
  /\ current = {}
  /\ blockEvents = FALSE
  /\ edit = [c \in Controls |-> 0]
  /\ modified = {}
  /\ carried = [r \in Requests |-> [c \in Controls |-> 0]]
  /\ known = [c \in Controls |-> 0]
  /\ late = {}
  /\ tookLate = {}
  /\ toRun = [r \in Requests |-> <<>>]
  /\ finals = <<>>
  /\ posted = <<>>
  /\ started = <<>>
  /\ applied = <<>>
  /\ executed = <<>>

(***************************************************************************)
(* The values that _getAjaxData gathers when a request is sent, and the    *)
(* set of changed controls it leaves.                                      *)
(***************************************************************************)
getAjaxData(r) ==
  /\ carried' = [carried EXCEPT ![r] =
                   [c \in Controls |-> IF c \in modified THEN edit[c] ELSE 0]]
  /\ modified' = {}

\* _do1 of a queued request r, which leaves q in the queue.
do1(r, q, running, stages) ==
  /\ queue' = q
  /\ current' = running \cup {r}
  /\ stage' = [stages EXCEPT ![r] = "sent"]
  /\ started' = Append(started, r)
  /\ getAjaxData(r)

\* Nothing is sent.
rest(running, stages) ==
  /\ queue' = <<>>
  /\ current' = running
  /\ stage' = stages
  /\ UNCHANGED <<started, carried, modified>>

\* Mutants of dequeue: the head is not shifted; the last request is popped.
dequeuePeeks(q, running, stages) ==
  IF q = <<>> THEN rest(running, stages)
              ELSE do1(Head(q), q, running, stages)

dequeuePops(q, running, stages) ==
  IF q = <<>> THEN rest(running, stages)
              ELSE do1(Last(q), Front(q), running, stages)

(***************************************************************************)
(* _dequeue, with q and running the queue and the requests in flight when  *)
(* it is called: the first of the queue, if any, is sent.  It does not     *)
(* look at what is in flight.                                              *)
(***************************************************************************)
dequeue(q, running, stages) ==
  IF q = <<>> THEN rest(running, stages)
              ELSE do1(Head(q), Tail(q), running, stages)

-----------------------------------------------------------------------------
(* Events in the page *)

\* Mutant of formObjChanged: changes are not recorded during a request.
formObjChangedIfIdle(c) ==
  /\ edit[c] < MaxEdits
  /\ edit' = [edit EXCEPT ![c] = @ + 1]
  /\ modified' = IF current = {} THEN modified \cup {c} ELSE modified
  /\ UNCHANGED <<requests, sending, carried, known, overdue, commands, blockEvents>>

\* The user or a script changes a control: _formObjChanged, setControlValue.
formObjChanged(c) ==
  /\ edit[c] < MaxEdits
  /\ edit' = [edit EXCEPT ![c] = @ + 1]
  /\ modified' = modified \cup {c}
  /\ UNCHANGED <<requests, sending, carried, known, overdue, commands, blockEvents>>

\* A widget triggers "formObjChanged" to have its value sent, changed or not.
touched(c) ==
  /\ modified' = modified \cup {c}
  /\ UNCHANGED <<requests, sending, edit, carried, known, overdue, commands,
                 blockEvents>>

\* Mutant of postAjax: enqueue does not look whether something is running.
postAjaxAnyway(r, b) ==
  /\ stage[r] = "new"
  /\ ~blockEvents
  /\ posted' = Append(posted, r)
  /\ blocking' = [blocking EXCEPT ![r] = b]
  /\ blockEvents' = b
  /\ dequeue(Append(queue, r), current, stage)
  /\ UNCHANGED <<isAsync, edit, known, overdue, commands, applied>>

\* postAjax and enqueue of a synchronous action.  b: its event blocks others.
postAjax(r, b) ==
  /\ stage[r] = "new"
  /\ ~blockEvents
  /\ posted' = Append(posted, r)
  /\ blocking' = [blocking EXCEPT ![r] = b]
  /\ blockEvents' = b
  /\ IF current = {}
       THEN dequeue(Append(queue, r), current, stage)
       ELSE /\ queue' = Append(queue, r)
            /\ stage' = [stage EXCEPT ![r] = "queued"]
            /\ UNCHANGED <<current, started, carried, modified>>
  /\ UNCHANGED <<isAsync, edit, known, overdue, commands, applied>>

\* postAjax and enqueue of an asynchronous action, which is sent right away.
postAsync(r) ==
  /\ AsyncAllowed
  /\ stage[r] = "new"
  /\ ~blockEvents
  /\ isAsync' = [isAsync EXCEPT ![r] = TRUE]
  /\ stage' = [stage EXCEPT ![r] = "sent"]
  /\ current' = current \cup {r}
  /\ getAjaxData(r)
  /\ UNCHANGED <<blocking, posted, applied, queue, started, edit, known, overdue,
                 commands, blockEvents>>

-----------------------------------------------------------------------------
(* The server and the end of a request *)

\* What the server has when it has taken the values of a request.
knownWith(r) ==
  [c \in Controls |-> IF carried[r][c] # 0 THEN carried[r][c] ELSE known[c]]

\* The server takes the values a request carries.
ServerTakes(r) ==
  /\ stage[r] = "sent"
  /\ stage' = [stage EXCEPT ![r] = "taken"]
  /\ known' = knownWith(r)
  /\ UNCHANGED <<isAsync, blocking, posted, applied, sending, edit, modified,
                 carried, overdue, commands, blockEvents>>

\* It takes those of a request that the page has given up on, perhaps after those of
\* later ones.  Nothing in the request says that it is late, and nobody in the page
\* hears of the answer.
TakesLate(r) ==
  /\ r \in late
  /\ late' = late \ {r}
  /\ tookLate' = tookLate \cup {r}
  /\ known' = knownWith(r)
  /\ UNCHANGED <<requests, sending, edit, modified, carried, commands, blockEvents>>

\* The page gives up on a request.
GivesUp(r) ==
  /\ late' = IF stage[r] = "sent" THEN late \cup {r} ELSE late
  /\ UNCHANGED tookLate

(***************************************************************************)
(* The end of onreadystatechange, after success or error has left the      *)
(* stages as given and cmds in _finalCommands: the request is deleted, the *)
(* final commands are executed when nothing is left to do (popped, so the  *)
(* last one first), and the next request of the queue is sent.             *)
(***************************************************************************)
\* Mutant of queueComplete: asked before the request is deleted.
queueCompleteEarly(r) == queue = <<>> /\ current = {}

queueComplete(r) == queue = <<>> /\ current \ {r} = {}

finish(r, stages, cmds) ==
  /\ IF queueComplete(r)
       THEN finals' = <<>> /\ executed' = executed \o Reverse(cmds)
       ELSE finals' = cmds /\ UNCHANGED executed
  /\ dequeue(queue, current \ {r}, stages)
  /\ UNCHANGED <<isAsync, blocking, posted, edit, known>>

\* Mutant of Succeeds: events stay blocked.
SucceedsBlocked(r, n) ==
  /\ stage[r] = "taken"
  /\ r \in current
  /\ applied' = Append(applied, r)
  /\ UNCHANGED <<toRun, blockEvents, overdue>>
  /\ finish(r, [stage EXCEPT ![r] = "applied"], finals \o Finals(r, n))

\* A response with n final commands arrives and loads no file: _processAjax
\* goes straight on to _processAjax2.  The request is still in
\* _currentRequests, so the final commands are always put aside.
Succeeds(r, n) ==
  /\ stage[r] = "taken"
  /\ r \in current
  /\ applied' = Append(applied, r)
  /\ blockEvents' = FALSE
  /\ UNCHANGED <<toRun, overdue>>
  /\ finish(r, [stage EXCEPT ![r] = "applied"], finals \o Finals(r, n))

\* A response arrives that must load files first.  The rest of the success
\* handler and of onreadystatechange does not wait for them.
StartsLoading(r, n) ==
  /\ FilesAllowed
  /\ stage[r] = "taken"
  /\ r \in current
  /\ toRun' = [toRun EXCEPT ![r] = Finals(r, n)]
  /\ blockEvents' = FALSE
  /\ UNCHANGED <<applied, overdue>>
  /\ finish(r, [stage EXCEPT ![r] = "loading"], finals)

\* The last file is there and fWait calls _processAjax2.
FilesLoaded(r) ==
  /\ stage[r] = "loading"
  /\ stage' = [stage EXCEPT ![r] = "applied"]
  /\ applied' = Append(applied, r)
  /\ toRun' = [toRun EXCEPT ![r] = <<>>]
  /\ IF current # {}
       THEN finals' = finals \o toRun[r] /\ UNCHANGED executed
       ELSE executed' = executed \o toRun[r] /\ UNCHANGED finals
  /\ UNCHANGED <<isAsync, blocking, posted, sending, values, overdue, blockEvents>>

\* Mutant of Fails: an early return, the queue is not served.
FailsAndReturns(r, n) ==
  /\ \/ "lost" \in Failures /\ stage[r] = "sent"
     \/ "error" \in Failures /\ stage[r] = "taken"
  /\ r \in current
  /\ current' = current \ {r}
  /\ stage' = [stage EXCEPT ![r] = "failed"]
  /\ GivesUp(r)
  /\ UNCHANGED <<isAsync, blocking, posted, applied, queue, started, values,
                 commands, blockEvents>>

\* The request fails before the server has taken it ("lost": no network,
\* time-out), or after ("error": a status other than 200, a response that is not an
\* object, or a success handler that throws): the error handler runs and blockEvents
\* stays.  n: the final commands that were put aside before success threw.
Fails(r, n) ==
  /\ \/ "lost" \in Failures /\ stage[r] = "sent" /\ n = 0
     \/ "error" \in Failures /\ stage[r] = "taken"
  /\ r \in current
  /\ GivesUp(r)
  /\ UNCHANGED <<applied, toRun, blockEvents>>
  /\ finish(r, [stage EXCEPT ![r] = "failed"], finals \o Finals(r, n))

\* The error handler throws: displayAjaxError of goradd-debug.js uses the
\* window that window.open returns, which is null when the browser refuses a
\* popup.  The rest of onreadystatechange does not run.
FailsToReport(r) ==
  /\ "throw" \in Failures
  /\ stage[r] \in {"sent", "taken"}
  /\ r \in current
  /\ stage' = [stage EXCEPT ![r] = "broken"]
  /\ GivesUp(r)
  /\ UNCHANGED <<isAsync, blocking, posted, applied, sending, values, commands,
                 blockEvents>>

Response(r) ==
  \/ ServerTakes(r)
  \/ \E n \in 0..MaxFinals : Succeeds(r, n) \/ StartsLoading(r, n) \/ Fails(r, n)
  \/ FilesLoaded(r)
  \/ FailsToReport(r)

Next ==
  \/ \E c \in Controls : formObjChanged(c) \/ touched(c)
  \/ \E r \in Requests :
       \/ \E b \in (IF BlockAllowed THEN BOOLEAN ELSE {FALSE}) : postAjax(r, b)
       \/ postAsync(r)
       \/ Response(r)
       \/ TakesLate(r)

Spec == Init /\ [][Next]_vars

(***************************************************************************)
(* Every request in flight is answered or fails at last: the server        *)
(* answers, the connection breaks, or ajaxTimeout, which an application    *)
(* has to set, runs out.  Files load or fail to (loadJavaScriptFile passes *)
(* fDone to onload and onerror).  The page owes the user no event, so      *)
(* events have no fairness, nor has the server that takes a request late.  *)
(***************************************************************************)
FairSpec == Spec /\ \A r \in Requests : WF_vars(Response(r))

-----------------------------------------------------------------------------
(* What must hold *)

Commands == Requests \X (1..MaxFinals)

TypeOK ==
  /\ stage \in [Requests -> Stages]
  /\ isAsync \in [Requests -> BOOLEAN]
  /\ blocking \in [Requests -> BOOLEAN]
  /\ queue \in Seq({r \in Requests : stage[r] = "queued" /\ ~isAsync[r]})
  /\ current \subseteq {r \in Requests : stage[r] \notin {"new", "queued"}}
  /\ blockEvents \in BOOLEAN
  /\ edit \in [Controls -> 0..MaxEdits]
  /\ modified \subseteq Controls
  /\ carried \in [Requests -> [Controls -> 0..MaxEdits]]
  /\ known \in [Controls -> 0..MaxEdits]
  /\ late \cup tookLate \subseteq {r \in Requests : stage[r] \in {"failed", "broken"}}
  /\ toRun \in [Requests -> Seq(Commands)]
  /\ finals \in Seq(Commands)
  /\ posted \in Seq(Requests)
  /\ started \in Seq(Requests)
  /\ applied \in Seq(Requests)
  /\ executed \in Seq(Commands)

Serial == \A r \in Requests : ~isAsync[r]
Answered == {"loading", "applied", "failed"}
Before(r, s) ==
  \E i, j \in 1..Len(posted) : i < j /\ posted[i] = r /\ posted[j] = s

\* "A new Ajax request won't be started until the previous queued request has
\* finished" (goradd.js:2606): of the queued requests one at most is in flight.
OneAtATime ==
  \A r, s \in Requests :
    /\ stage[r] \in {"sent", "taken"} /\ ~isAsync[r]
    /\ stage[s] \in {"sent", "taken"} /\ ~isAsync[s]
    => r = s

\* Queued requests are sent in the order of their events, none twice and none
\* left out, whatever asynchronous requests and failures come in between.
InPostedOrder == posted = started \o queue

ended == {r \in Requests : stage[r] \in Answered}

Turns == INSTANCE RequestQueue WITH
           waiting <- queue, flying <- current, AsideAllowed <- AsyncAllowed

\* "A new Ajax request won't be started until the previous queued request has
\* finished" (goradd.js:2606), but for asynchronous ones and what their ends start:
\* the queue serves its requests in turn, and never waits for nothing.
ServesInTurn == Turns!Spec

\* When nothing is in flight, nothing is left in the queue and no final
\* command is left over: a page at rest has done all it was told to.
NoneLeftBehind ==
  current = {} => queue = <<>> /\ finals = <<>>

Kept(c) ==
  \/ known[c] = edit[c]
  \/ c \in modified
  \/ \E r \in Requests : stage[r] = "sent" /\ carried[r][c] = edit[c]

\* "Ajax error would mean that _formObjsModified is invalid. We need to submit
\* everything." (goradd.js:110): no change of a control is forgotten.  The server
\* has its value, or a request on its way carries it, or the next request will.
ChangesReachServer == \A c \in Controls : Kept(c)

\* The change of c went with a request that failed.
WentWithFailed(c) ==
  \E r \in Requests : stage[r] \in {"failed", "broken"} /\ carried[r][c] = edit[c]

\* The server has the value of c from a request it took late.
PutBack(c) ==
  \E r \in tookLate : carried[r][c] # 0 /\ known[c] = carried[r][c]

\* The same, but for what failed requests do (goradd.js:2694): a change that went with
\* one is not sent again, and one that the server takes late puts an older value back.
\* It is said of pages without asynchronous actions, whose requests do not overtake.
OnlyFailuresForget ==
  Serial => \A c \in Controls : Kept(c) \/ WentWithFailed(c) \/ PutBack(c)

\* The server's values do not go back to older ones.
ServerKeepsUp == [][\A c \in Controls : known'[c] >= known[c]]_vars

\* Responses are applied to the page in the order of the queued events that
\* asked for them, so that an older response never overwrites a newer one.
AppliedInOrder ==
  SelectSeq(applied, LAMBDA r : ~isAsync[r])
    = SelectSeq(posted, LAMBDA r : stage[r] = "applied")

\* What the queue is for, also when files are loading: the response to an event
\* comes only when the earlier events have been answered or have failed.
AnsweredInOrder ==
  Serial => \A r, s \in Requests :
    Before(r, s) /\ stage[s] \in Answered => stage[r] \in Answered

\* "block all other incoming events, until the event is processed"
\* (goradd.js:567): from the event to the end of its request, events are
\* blocked.
BlocksUntilProcessed ==
  \A r \in Requests :
    blocking[r] /\ stage[r] \in {"queued", "sent", "taken"} => blockEvents

\* The same line, the other way round: the block ends, or the page is dead.
BlockEnds == blockEvents ~> ~blockEvents

\* It does so at least when no request fails.
BlockEndsIfAnswered ==
  blockEvents ~> ~blockEvents \/ \E r \in Requests : stage[r] \in {"failed", "broken"}

\* Every queued request is sent at last, unless an error handler threw.
QueueDrains ==
  \A r \in Requests :
    stage[r] = "queued"
      ~> stage[r] # "queued" \/ \E s \in Requests : stage[s] = "broken"
=============================================================================

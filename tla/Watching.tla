------------------------------ MODULE Watching ------------------------------
(***************************************************************************)
(* How a change in the database reaches a page that watches it:            *)
(* watcher.go broadcasts on the channels of the table and of the row, the  *)
(* messenger hands the messages to the page (goradd-ws.js), the page       *)
(* notes which controls to refresh and calls updateForm, which is          *)
(* throttled by a named timer (goradd.js:498-529, 1048, 1250-1345), and    *)
(* the ajax request that is posted when the timer fires makes the server   *)
(* redraw those controls.                                                  *)
(*                                                                         *)
(* The messenger is the ordered, lossless mailbox that module Delivery     *)
(* promises of a connection that stays up (module Hub implements it).      *)
(* ajaxq is the serial queue of module AjaxQueue with its synchronous      *)
(* requests only: one request is in flight at a time, but the response to  *)
(* it, when it loads files, is applied later, and may be after those of    *)
(* later requests.  Time is counted in ticks; of the clock only what       *)
(* throttle reads is kept, the time since its timer last started to run,   *)
(* which matters up to the interval.                                       *)
(***************************************************************************)
EXTENDS Naturals, Sequences, FiniteSets

CONSTANTS Controls,      \* controls of the form
          Late,          \* controls that an ajax response adds to the form
          Rows,          \* rows of the one table; a channel each
          Table,         \* the channel of the whole table
          watch,         \* the channel a control watches (data-gr-watch)
          Slots,         \* bound: responses that wait for files at a time
          Interval,      \* minInterval of throttle, in ticks
          MaxChanges,    \* bound on the changes of the database
          MaxEvents,     \* bound on the events of the user
          BlockAllowed,  \* TRUE: some events set blockEvents
          RequestsFail   \* TRUE: ajax requests may fail

Channels == Rows \cup {Table}

ASSUME WatchAssumption ==
  /\ Late \subseteq Controls
  /\ Table \notin Rows
  /\ watch \in [Controls -> Channels]
  /\ Interval \in Nat
  /\ MaxChanges \in Nat
  /\ MaxEvents \in Nat
  /\ {BlockAllowed, RequestsFail} \subseteq BOOLEAN

VARIABLES
  version,     \* number of changes of what a channel is about
  subscribed,  \* channels the hub has the page under
  mailbox,     \* messages (their channels) on their way to the page
  asked,       \* the subscribe message on its way to the hub, once
  socket,      \* the page's socket: "connecting", "open"
  shown,       \* the version a control was last drawn with
  present,     \* the controls registered in the page, and so in _watchers
  refresh,     \* _refresh: nothing ever removes a control from it
  armed,       \* hasTimer("goradd.update")
  wait,        \* ticks until that timer is due
  age,         \* ticks since it last started to run, at most Interval
  blockEvents, \* goradd.blockEvents
  queue,       \* number of requests waiting in ajaxq
  flight,      \* the request in flight: "none", "sent", "handled"
  drawn,       \* the controls it makes the server draw, with their versions
  loading,     \* what is drawn in the responses that wait for files
  events,      \* number of events of the user
  lost         \* history: an update was dropped, or a request failed

serverVars == <<version, subscribed, mailbox, asked, socket>>
timerVars == <<armed, wait, age>>
ajaxVars == <<queue, flight, drawn>>
formVars == <<shown, present>>
watchVars == <<serverVars, formVars, refresh, timerVars, blockEvents, ajaxVars, loading,
               events, lost>>

Nothing == [c \in {} |-> 0]

WatchInit ==
  /\ version = [ch \in Channels |-> 0]
  /\ subscribed = {}
  /\ mailbox = <<>>
  /\ asked = {}
  /\ socket = "connecting"
  /\ shown = [c \in Controls |-> 0]
  /\ present = Controls \ Late
  /\ refresh = {}
  /\ armed = FALSE
  /\ wait = 0
  /\ age = Interval
  /\ blockEvents = FALSE
  /\ queue = 0
  /\ flight = "none"
  /\ drawn = Nothing
  /\ loading = [s \in Slots |-> Nothing]
  /\ events = 0
  /\ lost = FALSE

-----------------------------------------------------------------------------
(* The server side: watcher.go and the messenger *)

changes == version[Table]

\* What the page gets of a message sent on a channel.
Published(ch) == IF ch \in subscribed THEN <<ch>> ELSE <<>>

\* A row is updated and BroadcastUpdate called: the table's channel first.
BroadcastUpdate(row) ==
  /\ changes < MaxChanges
  /\ version' = [version EXCEPT ![Table] = @ + 1, ![row] = @ + 1]
  /\ mailbox' = mailbox \o Published(Table) \o Published(row)
  /\ UNCHANGED <<subscribed, asked, socket, formVars, refresh, timerVars,
                 blockEvents, ajaxVars, loading, events, lost>>

\* A row is inserted (or deleted, or many are changed): only the channel of
\* the table gets a message, so that those who watch a row learn nothing of
\* its deletion or of a bulk change.
BroadcastInsert ==
  /\ changes < MaxChanges
  /\ version' = [version EXCEPT ![Table] = @ + 1]
  /\ mailbox' = mailbox \o Published(Table)
  /\ UNCHANGED <<subscribed, asked, socket, formVars, refresh, timerVars,
                 blockEvents, ajaxVars, loading, events, lost>>

\* The socket opens: subscribeWatchers sends the keys of _watchers.
Opens ==
  /\ socket = "connecting"
  /\ socket' = "open"
  /\ asked' = {watch[c] : c \in present}
  /\ UNCHANGED <<version, subscribed, mailbox, formVars, refresh, timerVars,
                 blockEvents, ajaxVars, loading, events, lost>>

\* The hub subscribes the page.
HubSubscribes ==
  /\ asked # {}
  /\ subscribed' = subscribed \cup asked
  /\ asked' = {}
  /\ UNCHANGED <<version, mailbox, socket, formVars, refresh, timerVars,
                 blockEvents, ajaxVars, loading, events, lost>>

-----------------------------------------------------------------------------
(* Timers *)

Least(m, n) == IF m < n THEN m ELSE n

Tick ==
  /\ age' = Least(age + 1, Interval)
  /\ wait' = IF wait = 0 THEN 0 ELSE wait - 1
  /\ UNCHANGED <<serverVars, formVars, refresh, armed, blockEvents, ajaxVars, loading,
                 events, lost>>

\* Mutant of throttle: it does not look when the function last ran.
throttleForgets ==
  /\ armed' = TRUE
  /\ wait' = IF armed THEN wait ELSE 0
  /\ UNCHANGED age

\* throttle("goradd.update", Interval, ...): nothing if the timer is set, else
\* the timer is set so that runs start at least Interval apart.
throttle ==
  /\ armed' = TRUE
  /\ wait' = IF armed THEN wait ELSE Interval - age
  /\ UNCHANGED age

-----------------------------------------------------------------------------
(* The page *)

\* What a request sent now asks the server to draw.  params.refresh is _refresh
\* itself, so what was pushed while the request was queued is in it too.
send ==
  /\ flight' = "sent"
  /\ drawn' = [c \in refresh |-> 0]

\* postAjax of an event that does (b) or does not block the others.
postAjax(b) ==
  IF blockEvents
    THEN UNCHANGED <<blockEvents, ajaxVars>>
    ELSE /\ blockEvents' = b
         /\ IF flight = "none"
              THEN send /\ UNCHANGED queue
              ELSE queue' = queue + 1 /\ UNCHANGED <<flight, drawn>>

\* _handleWsMessage, _processWatcherMessage: the controls that watch the channel
\* are noted and the form is updated.
processWatcherMessage ==
  /\ mailbox # <<>>
  /\ mailbox' = Tail(mailbox)
  /\ refresh' = refresh \cup {c \in present : watch[c] = Head(mailbox)}
  /\ throttle
  /\ UNCHANGED <<version, subscribed, asked, socket, formVars, blockEvents, ajaxVars,
                 loading, events, lost>>

\* Mutant of TimerFires: the request is lost while another one is in flight.
TimerFiresIfIdle ==
  /\ armed
  /\ wait = 0
  /\ armed' = FALSE
  /\ age' = 0
  /\ IF flight = "none" THEN postAjax(FALSE) ELSE UNCHANGED <<blockEvents, ajaxVars>>
  /\ lost' = (lost \/ blockEvents)
  /\ UNCHANGED <<serverVars, formVars, refresh, wait, loading, events>>

\* The timer fires, at its time or later.
TimerFires ==
  /\ armed
  /\ wait = 0
  /\ armed' = FALSE
  /\ age' = 0
  /\ postAjax(FALSE)
  /\ lost' = (lost \/ blockEvents)
  /\ UNCHANGED <<serverVars, formVars, refresh, wait, loading, events>>

\* The user does something that posts an ajax action.
Event(b) ==
  /\ events < MaxEvents
  /\ b => BlockAllowed
  /\ events' = events + 1
  /\ postAjax(b)
  /\ UNCHANGED <<serverVars, formVars, refresh, timerVars, loading, lost>>

\* A script calls goradd.refresh for a control.
Refresh(c) ==
  /\ events < MaxEvents
  /\ events' = events + 1
  /\ refresh' = refresh \cup {c}
  /\ throttle
  /\ UNCHANGED <<serverVars, formVars, blockEvents, ajaxVars, loading, lost>>

-----------------------------------------------------------------------------
(* Requests *)

\* The server reads the database and draws the controls, and those that the
\* response adds to the form.
ServerDraws(new) ==
  /\ flight = "sent"
  /\ flight' = "handled"
  /\ drawn' = [c \in DOMAIN drawn \cup new |-> version[watch[c]]]
  /\ UNCHANGED <<serverVars, formVars, refresh, timerVars, blockEvents, queue, loading,
                 events, lost>>

\* Mutant of next: what waits is deleted with the request that ends.
nextForgets == flight' = "none" /\ drawn' = Nothing /\ queue' = 0

\* The request is deleted and the next one is sent.
next ==
  IF queue = 0
    THEN flight' = "none" /\ drawn' = Nothing /\ UNCHANGED queue
    ELSE send /\ queue' = queue - 1

\* _processAjax2: the controls of response r are drawn.  _registerControls puts
\* those that are new into _watchers, but nothing subscribes the page to their
\* channels.
processAjax2(r) ==
  /\ shown' = [c \in Controls |-> IF c \in DOMAIN r THEN r[c] ELSE shown[c]]
  /\ present' = present \cup DOMAIN r

\* A response that loads no files is applied at once.
Responds ==
  /\ flight = "handled"
  /\ processAjax2(drawn)
  /\ blockEvents' = FALSE
  /\ next
  /\ UNCHANGED <<serverVars, refresh, timerVars, loading, events, lost>>

\* One that loads files waits for them, while the queue goes on.
RespondsWithFiles(s) ==
  /\ flight = "handled"
  /\ loading[s] = Nothing
  /\ loading' = [loading EXCEPT ![s] = drawn]
  /\ blockEvents' = FALSE
  /\ next
  /\ UNCHANGED <<serverVars, formVars, refresh, timerVars, events, lost>>

\* They are loaded, or cannot be, and the response is applied, whatever has been applied since.
FilesLoaded(s) ==
  /\ loading[s] # Nothing
  /\ processAjax2(loading[s])
  /\ loading' = [loading EXCEPT ![s] = Nothing]
  /\ UNCHANGED <<serverVars, refresh, timerVars, blockEvents, ajaxVars, events, lost>>

\* The request fails at any time; blockEvents is left as it is.
Fails ==
  /\ RequestsFail
  /\ flight # "none"
  /\ lost' = TRUE
  /\ next
  /\ UNCHANGED <<serverVars, formVars, refresh, timerVars, blockEvents, loading, events>>

WatchNext ==
  \/ \E row \in Rows : BroadcastUpdate(row)
  \/ BroadcastInsert
  \/ Opens \/ HubSubscribes
  \/ Tick
  \/ processWatcherMessage
  \/ TimerFires
  \/ \E b \in BOOLEAN : Event(b)
  \/ \E c \in present : Refresh(c)
  \/ \E new \in SUBSET (Late \ present) : ServerDraws(new)
  \/ Responds
  \/ \E s \in Slots : RespondsWithFiles(s) \/ FilesLoaded(s)
  \/ Fails

WatchSpec == WatchInit /\ [][WatchNext]_watchVars

\* Messages arrive, timers fire, the server answers, files load.  Neither the user nor the
\* database has to do anything, and requests need not fail.
FairSpec ==
  /\ WatchSpec
  /\ WF_watchVars(Opens) /\ WF_watchVars(HubSubscribes) /\ WF_watchVars(processWatcherMessage)
  /\ WF_watchVars(Tick) /\ WF_watchVars(TimerFires)
  /\ WF_watchVars(\E new \in SUBSET (Late \ present) : ServerDraws(new))
  /\ WF_watchVars(Responds \/ \E s \in Slots : RespondsWithFiles(s))
  /\ \A s \in Slots : WF_watchVars(FilesLoaded(s))

-----------------------------------------------------------------------------
(* Properties *)

WatchTypeOK ==
  /\ version \in [Channels -> 0..MaxChanges]
  /\ subscribed \subseteq Channels
  /\ mailbox \in Seq(subscribed)
  /\ asked \subseteq Channels
  /\ socket \in {"connecting", "open"}
  /\ shown \in [Controls -> 0..MaxChanges]
  /\ \A c \in Controls : shown[c] <= version[watch[c]]
  /\ present \subseteq Controls
  /\ refresh \subseteq present
  /\ armed \in BOOLEAN
  /\ wait \in 0..Interval
  /\ age \in 0..Interval
  /\ blockEvents \in BOOLEAN
  /\ queue \in Nat
  /\ flight \in {"none", "sent", "handled"}
  /\ DOMAIN drawn \subseteq refresh \cup Late
  /\ flight = "none" => queue = 0 /\ drawn = Nothing
  /\ DOMAIN loading = Slots
  /\ \A s \in Slots : /\ DOMAIN loading[s] \subseteq Controls
                      /\ loading[s] \in [DOMAIN loading[s] -> 0..MaxChanges]
  /\ events \in 0..MaxEvents
  /\ lost \in BOOLEAN

\* "Use throttle to limit the execution of a function": two runs of the update
\* start at least Interval apart, however messages and scripts ask for it.
RunsAreSpaced == [][armed /\ ~armed' => age = Interval]_watchVars

\* A control is stale when what it shows is older than the database.
Stale(c) == c \in present /\ shown[c] < version[watch[c]]

Told(c) == \E i \in 1..Len(mailbox) : mailbox[i] = watch[c]

\* The control will be drawn anew: a message tells the page to, or the page has
\* noted it and will ask for it, or it has asked and the answer, which may wait for
\* files, is not out of date.
UnderWay(c) ==
  \/ Told(c)
  \/ c \in refresh /\ (armed \/ queue > 0)
  \/ c \in DOMAIN drawn /\ (flight = "sent" \/ drawn[c] = version[watch[c]])
  \/ \E s \in Slots : c \in DOMAIN loading[s] /\ loading[s][c] = version[watch[c]]

\* The page is subscribed and what it shows is up to date or about to be, unless
\* a request failed or the update was dropped.
Follows(c) ==
  /\ c \in present
  /\ watch[c] \in subscribed
  /\ Stale(c) => UnderWay(c) \/ lost

\* A response that waited for its files draws a control older than it was.
Overwrites(c) ==
  \E s \in Slots : /\ FilesLoaded(s)
                  /\ c \in DOMAIN loading[s]
                  /\ loading[s][c] < shown[c]

\* "force a refresh of this control" (goradd.js:521), and no note of it gets lost
\* between message, timer, queue and response, whatever changes meanwhile: a
\* control that follows the database goes on doing so, and only a response that
\* loaded files and was overtaken by a later one can take it back.
KeepsFollowing ==
  [][\A c \in Controls : Follows(c) => Follows(c)' \/ Overwrites(c)]_watchVars

\* Without that exception it is not so: an overtaken response goes back to what it
\* was drawn with, and no note of the control is left.
KeepsFollowingAlways == [][\A c \in Controls : Follows(c) => Follows(c)']_watchVars

\* "force a refresh of this control" (goradd.js:521): when a message for a
\* control is on its way to the page, the control is drawn again with what
\* the database holds by then.
MessageRefreshes ==
  \A c \in Controls : (c \in present /\ Told(c)) ~> ~ Stale(c)

\* It is, unless a request failed or the update was dropped: the timer fires
\* once, and when events are blocked at that moment postAjax does nothing.
RefreshesUnlessLost ==
  \A c \in Controls : (c \in present /\ Told(c)) ~> (~ Stale(c) \/ lost)

\* "allow the server to simulate a push update of the form" (goradd-ws.js:8): a
\* control that watches a channel follows the database.
PushUpdates == \A c \in Controls : Stale(c) ~> ~ Stale(c)
=============================================================================

# A verification of spekary/serve

`spekary/serve` is the server side and the page side of the goradd web
framework: middleware that turns a request into a response, sessions, static
assets, a cache, a websocket messenger, and the JavaScript of the page. This
directory holds TLA+ models of the parts whose behaviour depends on
interleaving, ordering or failure, configurations that check them with TLC, and
proofs for TLAPS. `PROJECT.json` lists the runs, the lines of source each
definition stands for, the hazards, the findings and the theorems.

## The system

| part | state | operations | modelled by |
|---|---|---|---|
| websocket hub (`messenger/ws/hub.go`) | clients by ID, IDs by channel, each client's channels | register, unregister, subscribe, send: one goroutine, one `select` | `Hub`, `Delivery` |
| client pumps (`messenger/ws/client.go`) | a connection, a buffer of 256 messages | `readPump`, `writePump`, `serveWs`, `handleMessage` | `Hub` |
| page messenger (`goradd-ws.js`), watchers (`watcher/`, `messenger/`), timers and `throttle` (`goradd.js`) | watched channels, controls to refresh, named timers | broadcasts, subscribing, handling a message, `updateForm` | `Watching` |
| ajax queue (`goradd.js`) | queue, requests in flight, changed controls, final commands, `blockEvents` | `postAjax`, `enqueue`, `_do1`, `_processAjax` | `AjaxQueue`, `RequestQueue` |
| file select (`file_select.js`) | the files, whether they are ready to upload | change, `upload`, `val` | `Posting` |
| action queue (`goradd.js:1119-1148`) | queued actions, named timers | `queueAction`, `processActions`, `setTimer`, `hasTimer`, `clearTimer` | `ActionQueue` |
| select table (`table-select.js`, `goradd-scrollIntoView.js`) | selected row, option `selectedId`, position of the scroller | construction, click, keys, `_setOption` | `SelectTable`, `ScrollIntoView` |
| image capture (`image-capture.js`) | viewing, timer, stream, canvas, option `data` | click, answers of the camera, timer, `_setOption` | `ImageCapture` |
| LRU cache (`cache/lru_cache.go`) | items with expiry times, a counter of Sets | `Set`, `Get`, `Has`, `SetGCInterval`, `gc` in a goroutine | `LruCache` |
| sessions (`session/scs.go`, `session/session.go`) | a store of tokens, a copy of the data per request, a cookie per browser | `Use`, `Set`, `Remove`, `Clear`, `Reset` | `Session` |
| response chain (`server_base.go`, `http/mux.go`, `header.go`, `bufferedOutput.go`, `error.go`), buffer pool (`pool/buffer.go`) | a writer and a buffer per request, the free buffers | buffering, disabling, resetting, flushing, panics and their report | `Response` |
| assets (`http/cacheBuster.go`, `fileSystemServer.go`, `handler.go`, `localPathMaker.go`) | a hash per path, stored variants of a file, browsers' caches | register, make a URL, choose a variant, serve | `Assets` |
| element parser (`parse/`) | | | not yet (see the plan) |
| DOM library, form submission, styles, logging, configuration, start and stop, json, session stacks | | | not modelled (see below) |

The parts interact as follows. A request runs through the response chain; its
handler is called by `ScsManager.Use` with its session, behind the buffer. Pages
link to assets by URLs that `GetAssetUrl` makes. An event of the page queues its
action; an action that concerns the server posts a request to the ajax queue, which
carries the values of changed controls. Widgets such as the select table, the file
select and the image capture tell the server their state by control values, or by
counting as changed, and the server's answers set their options or draw them anew. A change of the database is broadcast by `watcher`, through
`messenger`, to the hub; the hub's client writes it to the page, and the page
answers, throttled, with one more request of the ajax queue, in which the server
redraws what has changed.

What is hard: goroutines that meet at unbuffered and bounded channels; clients
that register again under an ID in use; responses, files and messages that
arrive late, in another order or never; handlers that panic with a buffer in
hand; requests of one browser that run at the same time; a collector that runs
some time after it was started; files replaced between two runs of a server
whose pages are still open; and callbacks of the browser (timers, loaded files and
images, the camera) that come when the widget they belong to has gone on, or has
been replaced.

## The modules

Every module is named after its part, and every action after the function, the
case of a `select` or the callback it stands for. Next to some definitions stand
*mutants*: the definition with a plausible bug. Each property of a run is
violated by some mutant (`PROJECT.json`, "mutants"), so none holds by the shape
of its model. The `MC...` modules hold the constants that a configuration
cannot write down, and the symmetry sets.

**Delivery** is what a subscriber may expect: publishing puts a message at the
end of the mailbox of every subscriber of its channel, atomically; mailboxes are
delivered in order, in batches; a broken connection loses its mailbox.

**Hub** models the hub's `select` loop, one action per case, with the fan-out of
a message as a loop that may block on a full buffer (`HubTakes`, then `HubFansOut`
per client, in any order as with Go's maps), the two pumps of every connection,
`serveWs`, and senders that block until the hub takes their message. A
connection (`Client`) and the ID it comes with are different things: a second
connection with the same ID replaces the first, while the first one's pumps go
on. `hubTodo = {}` (`AtSelect`) says the hub is at its `select`.
`DeliversInOrder` is `Delivery` with
the mailbox of a connection mapped to what the write pump is writing, its buffer,
and the message of a fan-out that has not reached it yet.

**LruCache** models `Set` in two steps, because it reads the clock before it
takes the mutex; everything else happens under the mutex. `gcs` counts the
goroutines that were started and have not run. The values are left out. Which of
several items with the same expiry goes first is a choice, as `sort.Slice` is not
stable. `began` and `ended` remember when the last access to a key began and ended.

**Session** models requests as processes between load and answer; the scs library
is external, as `Use` calls it: load by token, renew, put and commit. Tokens are
never generated twice. `Discard` is the branch for an empty session.

**RequestQueue** is what the page may expect of the ajax queue: a request waits only
while another is in flight, the end of one sends the next in the same step, and none
is sent again or lost. Stages, values, commands and failures are not seen.

**AjaxQueue** models one JavaScript callback per action. A control's value is
how often it was changed, so a lost change is a number the server never gets.
Failures are: lost before the server has it, an error afterwards (a success handler
that throws midway is one, after it has put some final commands aside), and an error
handler that throws. A request that the page has given up on (`GivesUp`) may still be
on its way, and the server may take it at any later time (`TakesLate`), also after newer
ones; `tookLate` remembers which. The request that `posting` handlers could enqueue from within
`_getAjaxData` is not modelled. `ServesInTurn` is `RequestQueue` with the queue, the
requests in flight, and those that were answered or failed (a response whose files are
still loading has been answered). A request whose error handler throws stays in flight.

**Posting** composes `AjaxQueue` with a file select control: each step of the queue
that sends a request calls the control's `val` if the control counts as changed
(`Gathers`), and the server that takes a request with files stores them (`Stores`).
`upload()` only makes the files ready; the first request that gathers them carries
them, whichever it is.

**ActionQueue** models the queue over named timers with time in ticks. Each item
remembers, as history, what was in the queue when it came. An action may cause
another event while the queue is drained, and may throw. The drain is one step per
action, as the user's events wait until the callback returns. Timers fire late at
most, and in the order they are due.

**ScrollIntoView** is `_newScrollTop` as an operator, beside a reference: a position
from which the item is in view and which is nearest to the old one (`JustInView`).

**SelectTable** models the widget with all its handlers, and the scroller that it
moves. In a scrollable table, a redraw by the server leaves the widget before it
attached to the outer scroller, so `tables` holds every widget that still hears
keys. Rows are given by the edges between them (`Edge`), which is what the browser
is asked for. `astray` remembers what set page and server apart: a redraw that crossed a
selection, or an option the server set.

**ImageCapture** models the widget's two clicks and the answers that come later: the
stream or its denial, the video that begins to play, the timer that draws it, and
pictures that are loaded. `live` is the set of streams for which the camera is on. An
image has a part inside the circle in the middle of the canvas and one outside it: with
the shape "circle" a stream paints the canvas white and clips its context (`clipped`),
which only a redraw undoes, so that what is drawn later changes the part inside alone
(`drawImage`). `hasty` remembers that viewing ended (by a capture, a denial or a redraw)
while a stream or the video was on its way; `overtaken` that the picture drawn last had
been replaced while it was loaded; `crossed` that the server set a picture, or drew the
control anew, while a captured one was on its way to it.

**Watching** composes a broadcast, the messenger, the page and the ajax queue,
the latter two reduced to what the page relies on: the ordered mailbox that `Delivery`
promises of a connection that is up, and a queue that has one request in flight at a
time, as `OneByOne` (below) says of synchronous requests. The queue does not put the
responses in order: one that loads files is applied when they are there, while the queue
goes on (`RespondsWithFiles`, `FilesLoaded`), perhaps after later ones, which is why
`AppliedInOrder` fails of `AjaxQueue`. `Slots` is the number of responses that can wait
at a time. A file that cannot be loaded is treated like one that is (`goradd.js:705`).
`_refresh` is a set (the
code pushes IDs twice; the server draws a control once); nothing ever takes an ID
out of it, as in the code. `Follows` says of a control that it is up to date or that
someone has a note of the change: a message, the timer, the queue, the server, or a
response that waits for its files (`UnderWay`). `Overwrites` is the step in which such a
response draws a control older than it was. The test-only channel "redraw" is left out.

**Response** models the chain of `MakeHandler` for concurrent requests. A buffer
is an array and a length, as `bytes.Buffer` is, so that a slice into an array
that is written again is visible; the array's length stands for the capacity that
`PutBuffer` compares. What a client gets when the connection fails is not
modelled.

**Assets** follows one file through registration, URL, choice of variant and
browser cache, over restarts. `http.ServeMux` and `http.StripPrefix` are external.
A compressed variant may be `damaged`, which shows when it is decompressed for a browser;
and the file system is `troubled` at times, so that files cannot be opened or temporary
ones made, which also covers a file that vanishes between `pathExists` and `Open`. Either
is a 404 for a compressed variant and a panic for the plain file (`unserved`); no other
variant is tried (tests `badGzip` and `badBrotli` of `fileSystemServer_test.go`).

## The runs

| run | what it shows | bounds | states |
|---|---|---|---|
| `hub` | tables agree; fan-out is complete; implements `Delivery` | 2 connections, 2 IDs, 2 channels, 2 messages, 1 read each (a list of channels and perhaps a message), buffers of 1; connections may fail at any point | 373,000 |
| `hub_live` | the hub stops only on a full buffer of a dead client, and delivers unless it does | the same with 1 channel, and clients that send nothing | 145,000 |
| `lru` | bound on the size, order of eviction, collection | 3 keys, 2 callers, limit 1, intervals 1 and 2, 6 steps of the callers, in which 3 `Set`s fit | 1,053,000 |
| `session` | isolation, reset, serial use | 2 browsers, 3 requests of which 2 at a time, 4 tokens, 1 key, 2 calls each | 124,000 |
| `ajax` | order of requests and answers, what is forgotten or put back, files of an upload | 3 requests, a file select control changed twice, 1 upload; requests that are lost or taken late, error handlers that throw; errors after the server has taken a request and final commands left out (they are in `ajax_live`) | 2,578,000 |
| `ajax_live` | implements `RequestQueue`; nothing is left over at rest, the queue drains, events are unblocked | 3 requests, 1 final command each, no controls, every failure | 134,000 |
| `watching` | no step but that of an overtaken response loses the note of a change; a message refreshes its control unless the update is lost; spacing | 3 controls of which 1 late, interval 2, 2 changes, 1 event, 1 response that waits for files | 139,000 |
| `response` | buffers, complete or error alone | 2 requests, 2 buffers, 2 operations each, buffers kept up to size 1 | 292,000 |
| `assets` | current, found, readable | 3 browsers (no encoding; gzip; gzip and brotli), all 7 sets of variants, any of the compressed ones damaged, opening fails at any time, 1 deployment | 3,224,000 |
| `actions` | order, once, last, none stranded | 4 events of 3 kinds: one that acts at once, may throw and causes another; one delayed by 2 ticks; one that is to run last | 71,000 |
| `table` | selection and scrolling | 5 rows: a header, two rows of which one is larger than the view, a "nosel" row with an id, a plain row; with and without scroller, header and reselect; 1 redraw | 62,000 |
| `capture` | camera and canvas | 3 calls of the camera, 3 frames, 2 pictures of the server, 1 redraw, shape "circle" | 2,287,000 |

The bounds are the smallest at which the cases occur: two connections for one ID
are a replacement, a buffer of one message fills up at the second, three requests
are one in flight and two that can be exchanged, one key more than the limit is an
eviction, a third `Set` makes the collector choose which two items of three it drops, four events repeat one while its action
waits and another runs last, a row larger than the view and one that is not reach
every branch of the scrolling, three calls of the camera are one that is late, one
that is denied and one after that, one browser for each set of encodings
and all sets of variants reach every branch of the choice, and one response that waits
for files is overtaken by those of the timer and of the one event. Each run finds its mutants at these
bounds. Deadlock is not checked: every one of these systems may stop, when users
do nothing more or a bound is used up.

The type invariants of `Hub`, `LruCache`, `AjaxQueue`, `Watching` and `ImageCapture` are
proved (below) and not in a run of their own.

### Where the code differs from its documentation

TLC finds these properties violated; each states what the documentation says. Where a
line says "in" a configuration, put the property in place of that configuration's
INVARIANT and PROPERTY lines.

| configuration | property | documentation | what happens |
|---|---|---|---|
| `MCSession_clear.cfg` | `EmptiedIsEmpty` | `session.go:160` "Clear removes all the values from the session store." | an empty session is not written back (`scs.go:82-86`); the values are there again at the next request |
| `MCAjaxQueue_forgotten.cfg` | `ChangesReachServer` | `goradd.js:110` "Ajax error would mean that _formObjsModified is invalid. We need to submit everything." | no code sets the `_ajaxError` of `goradd.js:49`; what a failed request carried is not sent again |
| in `MCAssets.cfg` | `UnopenedIsNotFound` | `fileSystemServer.go:65` "If the file is not found or cannot be opened, it will return false." | a plain file that cannot be opened panics (134), which becomes a 500 |
| `MCAssets_missing.cfg` | `MissingIsNotFound` | `cacheBuster.go:26` "... a 404 NotFound error will be sent back" | `cacheBuster.go:77` panics for a path without directory, which becomes a 500 |

### Further counterexamples

TLC finds the property of each line violated, with "in" used in the same way.

| configuration | property | about |
|---|---|---|
| `MCHub_stuck.cfg` | `DeadIsUnregistered` | `hub.go:109` blocks on the full buffer of a client whose write pump has returned, so its unregister (`client.go:53`) is never taken |
| `MCHub_stale.cfg` | `LiveIsRegistered` | `hub.go:101` unregisters by ID: the late unregister of a replaced connection removes the live one |
| in `MCHub_stale.cfg` (PROPERTY) | `DroppedIsClosed` | `client.go:90` "The hub closed the channel.": it never does |
| `MCSession_resurrect.cfg` | `ResetRetires` | a request that overlaps a reset stores its copy under the retired token again |
| in `MCAjaxQueue_live.cfg` | `OneAtATime` | `goradd.js:2606` "won't be started until the previous queued request has finished": the end of an asynchronous request starts it (2673) |
| in `MCAjaxQueue_live.cfg` (PROPERTY) | `BlockEnds` | the error path (`goradd.js:962-966`) leaves `blockEvents` set |
| in `MCAjaxQueue_live.cfg` | `BlocksUntilProcessed` | the success of any earlier request resets `blockEvents` (973) |
| in `MCAjaxQueue_live.cfg` | `AppliedInOrder` | a response that loads files is applied after a later one |
| in `MCPosting.cfg` (PROPERTY), without SYMMETRY and with `AsyncAllowed = FALSE` | `ServerKeepsUp` | a request that timed out (`goradd.js:2694`) is taken by the server after the next one and puts its older value back |
| in `MCWatching.cfg` (PROPERTY) | `KeepsFollowingAlways` | a response that loads files (`goradd.js:189-220`) is applied after a later one and draws a control as it was before; no note of the control is left |
| `MCWatching_blocked.cfg` | `MessageRefreshes` | an update that falls due while events are blocked is dropped (`goradd.js:941`) |
| `MCWatching_behind.cfg` | `PushUpdates` | changes before the subscription, or of channels of controls added later, are not noticed |
| `MCResponse_disabled.cfg` | `DisabledStreamsOnly` | `bufferedOutput.go:95` "will not output what has been buffered so far": line 152 does, at the end |
| `MCResponse_alias.cfg` | `ResetReturnsOutput` | `ResetOutputBuffer` returns the array that later writes overwrite |
| `MCResponse_silent.cfg` | `SilentIsPassedOn` | `mux.go:31`: a found handler that does not respond ends the chain |
| `MCAssets_edited.cfg` | `ShowsCurrent` | `cacheBuster.go:22` "when you edit the file": only a restart makes new URLs |
| `MCAssets_proxy.cfg` | `UrlsAreBusted` | with a proxy path, paths are looked up without it and not found in the table |
| in `MCAssets.cfg`, with `Subtree = FALSE` | `AssetFound` | a prefix without a final slash is an exact pattern of `ServeMux` |
| in `MCAssets.cfg` (PROPERTY) | `SoundIsFound` | `fileSystemServer.go:139-156`: a damaged brotli variant is a 404 although a sound gzip variant is stored |
| in `MCAssets_edited.cfg`, with `Processor = TRUE` | `FilesAreProcessed` | decompressed files are not processed, and compressed ones are processed as they are |
| in `MCPosting.cfg` | `UploadCarriesFiles` | a request between `upload()` and the action of its event takes the files; the event's own request has their description |
| in `MCActionQueue.cfg` | `RepeatsDoNotRunTwice` | `goradd.js:1142` "If the event is repeated during the delay, the action will not be repeated": the timer fires while the repeated event is still in the queue |
| in `MCActionQueue.cfg` | `LastRunsLastOfAll` | `goradd.js:1124` looks at the queue only, not at the timers of actions that were queued before |
| in `MCActionQueue.cfg` | `QueueIsAlwaysServed` | an action that throws leaves the rest of the queue without a timer until the next event |
| in `MCSelectTable.cfg` | `OldWidgetsAreMute` | `goradd.js:469` "so we don't attach events twice": the old widget of a redrawn scrollable table answers keys, and the server is told its selection |
| in `MCSelectTable.cfg` | `RedrawsAgree` | a redraw that crosses a selection shows the older one |
| in `MCSelectTable.cfg` | `OptionsAgree` | `table-select.js:117` calls `_setOption` of `this._super`, which is the base class and has none |
| in `MCSelectTable.cfg`, with an id in the header's row and `NoSel = {4}` | `SelectionAgrees` | `table-select.js:98` unselects within the section of the new row only: a header and a row can be selected at once |
| in `MCSelectTable.cfg` | `SelectedIsLit` | a key or click that leads to a "nosel" row unselects the selected one, whose id stays the option |
| in `MCImageCapture.cfg` | `CameraIsOffAtRest` | a stream given after the capture, or to a redrawn widget, stays on |
| in `MCImageCapture.cfg` | `CanvasShowsNewest` | pictures are drawn in the order they are loaded, over a capture too |
| in `MCImageCapture.cfg` | `CanvasShowsAll` | `image-capture.js:162` clips the canvas and nothing undoes it: a picture the server sets after a capture is drawn inside the circle only |
| in `MCImageCapture.cfg` (PROPERTY) | `CapturesAFrame` | a capture before the first frame posts what was on the canvas |
| in `MCImageCapture.cfg` | `LabelTells` | after a denial the button keeps the text of the capture mode |

Found by reading, while modelling, and not part of a model: `image-capture.js:39`
assigns the list of devices to the global `self`, so `_devices` stays null, the
switch button is never shown, and its handler (170-178) would throw;
`image-capture.js:21` calls `_showErr` before `_captureButton` is set, which throws
where there are no media devices; `Control.show` (`goradd.js:2320`) does not clear
what `hide` remembers, so an element cannot be hidden a second time; the Home and
End keys look for the first `tr` and the first `tr:last-child` of the whole table
(`table-select.js:75,78`), which is the header's row if there is one (this is in
`SelectTable`, as `newRow`).

## Fairness

Safety runs assume none. `Hub` assumes that a goroutine that can run does, that
the hub's `select` takes a case that stays ready (Go chooses at random, and the
requests are bounded), and that reads and writes on a closed connection return;
browsers and the application owe nothing, and a working connection may or may not
fail. `LruCache`: a started collection runs, a `Set` that began ends, time
passes. `AjaxQueue`: a request is answered, fails, or its error handler throws, and
files load or fail to; users need not act. `ajaxTimeout` is 0 by default
(`goradd.js:565`), which is no time-out at all (2648): that a request ends rests on the
server to answer, or on the browser to notice a broken connection, unless the
application sets a time-out. Nothing says that the server ever takes a request the page
has given up on. `Watching`: messages arrive, timers fire, the server draws and answers,
files load or fail to; the database, the user and failures are free. `ActionQueue`: a timer that is due fires,
time passes while a timer is set, and a drain that has begun goes on; the user owes
no event. All of it is weak fairness of single actions, or of all the browser's
steps together (`ActionQueue`, where time waits for the timers that are due).

## What is proved

The proof modules hold for every value of the constants that satisfies
`ConstantsAssumption` (`WatchAssumption` and `AssetsAssumption` in the modules of those
names), which TLC evaluates in every run. All invariants that the runs check, and all
their action properties and refinements, are proved; the hypotheses that some theorems
have beyond those assumptions are named below, each with the counterexample that shows
why it is needed.

*Hub.* `Typing` proves `TypeOK`, together with `Started`: only a connection with
an ID has anything to pass on. `TablesAgree` proves `Registered`, `Mirror`,
`DroppedHasNone` and `FanOutComplete`. None of the four is inductive alone. That a
fan-out never meets a client that is gone needs that tables change only at the
`select`; that an unregister clears every channel of the client needs `Mirror`
(the hub walks the client's own channels, not all of them); that replacing a
client leaves nothing behind needs `Registered`, by which a client is known under
one ID only. `PumpsAgree` says the write pump holds messages just between taking
and writing them. On these, `StepDelivers` shows each step of `Hub` to be a step of
`Delivery` or a stutter: `HubTakes` publishes to all subscribers at once,
`HubFansOut` moves a message within the mailbox it is already in, as do the two
gathering steps, and `WriteSucceeds` delivers a prefix. `HubDelivers` is the
refinement.

*LruCache* (in `CacheProofs`). `SizeIsBounded` proves `SizeBound`: each `Set` adds at most one item
and counts one, so between collections size and counter keep pace; a collection
leaves at most the limit (`CollectionFits`). It holds only while no started
collection is waiting, which is what the property says. `AgesInOrder` proves
`RealTimeOrder` from the invariant `Dated`: a `Set` on its way will not store an
expiry earlier than that of an access that ended before the `Set` began.

*AjaxQueue.* `SentInOrder` proves `InPostedOrder` from types alone: whatever
`_dequeue` is called with, it moves the head of the queue to the end of what was
sent (`DequeueKeepsOrder`, on the lemma `Shift` about sequences). `NothingLeftBehind`
proves `NoneLeftBehind`: a request is queued only while another is in flight, and
the end of the last one empties the queue, unless it sends the next, and runs the
final commands. `AnswersInOrder` proves `AnsweredInOrder`, which is not inductive: the
strengthening `Chain` says that no request is twice in the queue, that its requests
are all waiting and, without asynchronous requests, that of those sent all but the
last have been answered and only the last is in flight. `DequeueKeepsChain` needs that
all have been answered when `_dequeue` is called, `FinishKeepsChain` gets that from
`NoneLeftBehind` and `Chain` itself.

`ChangesAreKept` proves `OnlyFailuresForget`. The steps fall into a few kinds
(`StepKinds`: the page changes, a request is posted, one ends and another may be sent,
one gets on), and only sending moves values. `InFlight` ties stages to the requests in
flight, `Values` says that nobody has a newer value than the page, and `Memory` that
the request on its way carries what the page has now, or the control counts as changed
again. One step of `Memory` needs `Chain`: that a request is sent only when no other
is on its way, or an older value could come to the server after a newer one. With
asynchronous requests that happens, which is why the property excludes them. It also
happens when the server takes a request late that the page has given up on: then the
property says that the value the server has is that of such a request (`PutBack`), and
the proof follows it until a newer request replaces it.
`Typing` proves `TypeOK`, also that what is queued has not been sent.

`QueueServesInTurn` proves that `AjaxQueue` implements `RequestQueue`, asynchronous
requests and failures included. `TurnStep` maps `postAjax` and `postAsync` to posts and
whatever deletes a request to its end (`TurnEnds`); the rest stutters. It needs `TypeOK`
(what is queued was not sent, so its request is fresh and its sending ends nothing) and
`NoneLeftBehind` (a request posted when nothing is in flight is the first in the queue,
so it is the one that `_dequeue` sends).

Two sentences of the source that TLC refutes in general are proved where they hold.
`OneByOne`: without asynchronous actions one request is in flight at a time
(`goradd.js:2606`). `NothingForgotten`: if no request fails either, every change reaches
the server (`goradd.js:110`).

*Posting.* `PostingIsAjax` shows that every step of `Posting` is one of `AjaxQueue` or a
stutter, so all of this holds in the composition that the run `ajax` checks.
`FilesComeWithTheirEvent` proves `FilesArrive` by the invariant `Files`, which follows
the files of an upload from `upload()` through the request that gathers them, which is
sent no later than that of the event, to the server.

*ActionQueue.* The queue is at all times a suffix of the actions that were ever queued,
and `Gone` is the number of those that have left it: what is in the queue, waits for a
timer or has run is told by comparing numbers (`SuffixOf`, `RanOnce`, `Timers`,
`Fates`). `InOrder` proves `RunInOrder`; `OneFate` proves `EachHasOneFate`. `LastIsLast`
proves `LastRunsLast`: its delay is greater than any in the queue (`Longest`, on the
lemma `FiniteMax` that a finite set of numbers has a greatest one), so that each timer
it has to wait for is due earlier (`Earlier`). `Typing` proves `TypeOK`.

*Session.* All that the properties say follows from where a token and a value can be.
`OneOwner` and `Handed`: the requests with a token are of one browser, since tokens are
new when they are given and a browser comes with a cookie of its own. `Isolation`
proves `Isolated` from it, with `StoreOwned`: below a token there are only values of
its browser. `OldTokenSeesNothing` proves `ResetSeparates`: until its write-back a value
is in the copy of the request that set it (`Unpublished`), and a request that renewed
its token writes back under the new one, so no copy that goes to the old token has the
value (`Separated`). For a browser that awaits its answers (`Serial`),
`RenewalRetires` proves `RenewedIsRetired` (`Retired`: no request is left that could
store the old session), and `SessionsContinue` proves `SerialReads`, by `Reading`, which
says at each stage of a request what the browser's cookie leads to.

*Response.* `Exclusion` proves `BuffersAreExclusive`: a request has a buffer from the
moment it is served to the deferred release, on the way out of a panic too (`Stays`),
and what is in the pool is nobody's and empty (`Exclusive`). `OwnBytes` proves
`OwnOutput`, though the arrays go from one request to the next with the old bytes in
them: within its length a buffer has what the handler wrote since the last reset
(`Buffered`), all of it its own (`Own`). `WholeAnswers` proves `AllOrError` from `Answers`:
nothing is on the connection before the flush or the report. It assumes that no buffer
and no raised value is `None`, as the code's `nil` is neither.

*SelectTable.* `ScrollsJustIntoView` proves that `_newScrollTop` returns a
position of the scroller from which an item that fits is in view, and that none is
nearer; `LargeItemsFillTheView` that a larger item fills the view. `Geometry` shows that
the rows of any table satisfy their hypotheses, and `KeysShow` proves
`KeysShowSelection`, an action property, from the two. `Agreement` proves
`SelectionAgrees` from `Marks` (a widget, old or new, shows as selected only rows of its
option's id) and `Agreed` (option and told value change together). It has a hypothesis,
`HeaderIsNoSel`: a header's row with an id could be selected beside another (see the
counterexamples); nothing else needs it. `MCSelectTable` assumes it too.

*Watching* (in `PageProofs`). `WatchHolds` proves the types with what the timer, the
queue and `drawn` say of each other; `WatchTyping` and `UpdatesAreSpaced` (for
`RunsAreSpaced`) follow from it: when the timer fires, the time `throttle` gave it has
passed. `PageKeepsFollowing` proves the action property `KeepsFollowing`. For a control
whose content is older than the database there is a note of the change, and the proof
follows that note through each step: from the broadcast to the mailbox, by the message to
`_refresh` and the timer, by the timer to the queue, by the request to the server, and by
the response, which may wait for its files, to the control (`StaysUnderWay`). No
response, waiting or not, is newer than the database, so one with the version of the
database brings the control up to date whenever it is applied; the step that is excepted
is one that draws the control older than it was (`Overwrites`). A broadcast while a request is on its way
makes its answer out of date, but puts a message in the mailbox; a second message while
the timer is set adds to what the timer will ask for. The note ends only where `lost`
says so.

*Assets* (in `CacheProofs`). `StaysStored` and `StaysHolding` are the types: what is
stored is one version in one variant at least, and a running server has a hash.
`AssetsAreReadable` proves `Readable`, where what browsers keep has to be readable too.
`AssetIsFound` proves `AssetFound`, for an application without a proxy path and a prefix
with a final slash (TLC finds it violated in `MCAssets.cfg` with `ProxyPath <- Proxy`, and
with `Subtree = FALSE`): pages ask for the file under some hash (`StaysBusted`), and the
server finds it under any (`AnyHashIsServed`), or the variant it has chosen is damaged
or cannot be opened (`FileIsServed`); what is not found then hides nothing but a
variant that has to be decompressed (`DamageHides`), and what a cache has was found
(`StaysFound`). `UrlsHaveHashes` proves `UrlsAreBusted`
without a proxy path. `PagesAreCurrent` proves `ShowsCurrent` by the invariant
`KeepsCurrent`: what a browser keeps under a hash is not older than the hash, versions
have one place in `used`, and a running server has the hash of the last of them; so what
is kept under the hash of a new page can only be that last version (`NothingAfterLast`),
and all that comes later is in `since`. Its hypotheses are that there is no proxy path
(with one, URLs have no hash, `MCAssets_proxy.cfg`, and mostly lead nowhere), that files change only while the server
is down (`MCAssets_edited.cfg`), and that no content comes back: with `ComesBack = TRUE`
and a second deployment a browser may have kept a newer content under an old hash, which
is asked for again when the old content returns.

*ImageCapture* (in `PageProofs`). `Typing` proves `TypeOK`, and that no more streams are given than
were asked for. `CameraFollows` proves `CameraFollowsView` by the invariant `Camera`: the
one stream that is on is the one the widget knows of, and none is on while another is
on its way, so the `turnOff` of a capture or a denial stops all there is.
`CanvasFollows` proves `CanvasShowsData` by the invariant `Canvas`: nothing is drawn
while the camera is on its way, so that without video the canvas shows what can be seen of
the picture drawn last, which is that of the widget
unless it was overtaken, and a clipped canvas is white outside the circle (`Draws`,
`DrawsVisible`), so that a capture of it is what it shows (`ShowsItself`).

Every inductive invariant was checked with TLC before its proof.

Only checked by TLC: liveness (`StallsOnlyOnDead`, `DeliversUnlessStalled`,
`StartedGcCollects`, `QueueDrains`, `BlockEndsIfAnswered`, `RefreshesUnlessLost`,
`ActionsRun`), as the prover has no reasoning about fairness and `ENABLED`; and the
counterexamples. What would need induction over data, such as what `SelectSeq` or a sum
over a set returns, is avoided: the models use quantifiers over positions, given edges and
cases instead. No module declares a `RECURSIVE` operator, so that all of them can be
proved about.

## Not modelled

- The DOM library (`g$`, `Control`, `tagBuilder`) and `extendWidget`: wrappers whose
  state is the browser's. What the modelled widgets use of them (`this._super`, the
  matching of rows, redraws that keep a scroller) is part of their modules.
- Form submission (`goradd.js:872-920`): one submission replaces the page. A
  submission that html5 validation refuses leaves `Goradd__Params` set, so that a
  later implicit submission goes through.
- Periodic timers and timers of controls; reconnection of the page's websocket (there
  is none); the switch button of the image capture.
- The lazy creation of the buffer pool (`buffer.go:77`): two first requests may write
  the variable `BufferPool` without synchronisation, a data race of which Go's memory
  model promises little; the models begin when the pool is there. A `_processAjax2` that
  throws after files have loaded, outside of any handler. `Removed` of a cached item, which runs under the
  cache's mutex (`lru_cache.go:107`) and must not use the cache.
- Styles, logging, configuration, start and stop, json, HSTS, the lists of strings in
  session stacks: no state that outlives a call, or only input and output.

## Plan

Done: `Delivery`, `Hub`, `LruCache`, `Session`, `RequestQueue`, `AjaxQueue`, `Posting`,
`Watching`, `Response`, `Assets`, `ActionQueue`, `ScrollIntoView`, `SelectTable`,
`ImageCapture`, and eight modules of proofs, which cover all of them: `PageProofs` has
those of `ImageCapture` and `Watching`, `CacheProofs` those of `LruCache` and `Assets`,
`AjaxQueueProofs` those of `Posting` too, and `SelectTableProofs` those of
`ScrollIntoView`.

What is left:

1. `Watching` over `RequestQueue` itself, with a request for each number it now counts.
2. An abstract cache that `LruCache` implements, with values: what was set and not
   dropped is what `Get` returns.
3. `ParseElements`: `findGoraddElements` as a machine over tokens, against a
   reference that matches tags by depth.

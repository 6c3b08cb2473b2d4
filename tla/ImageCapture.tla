---------------------------- MODULE ImageCapture ----------------------------
(***************************************************************************)
(* The widget that takes a picture with the camera (assets/js/             *)
(* image-capture.js).                                                      *)
(*                                                                         *)
(* A click asks the browser for the camera, whose stream is given, or      *)
(* denied, some time later; the video begins to play later still, and a    *)
(* timer then draws it on the canvas.  The next click captures what is on  *)
(* the canvas.  The picture of the server is loaded and drawn on the       *)
(* canvas when it is there.                                                *)
(*                                                                         *)
(* An image has the part inside the circle in the middle of the canvas and *)
(* the part outside it, which differ when the shape is "circle": then the  *)
(* context is clipped when a stream is given, and nothing undoes it.       *)
(*                                                                         *)
(* The camera, the video element and the loading of images are external.   *)
(* A redraw by the server makes a new widget; nothing calls _destroy of    *)
(* the old one.  Left out: the switch button, which is never shown and     *)
(* whose click throws, since the list of devices goes to a global variable *)
(* (lines 39-43), and the scaling of the video.                            *)
(***************************************************************************)
EXTENDS Naturals, FiniteSets

CONSTANTS Circle,     \* the option shape is "circle"
          MaxAsks,    \* bound on the times the camera is asked for
          MaxFrames,  \* bound on the frames drawn
          MaxSets,    \* bound on the pictures set by the server
          MaxRedraws  \* bound on the redraws by the server

ASSUME ConstantsAssumption ==
  /\ Circle \in BOOLEAN
  /\ {MaxAsks, MaxFrames, MaxSets, MaxRedraws} \subseteq Nat

\* An image that is the same inside the circle and outside it.
Whole(part) == [inside |-> part, outside |-> part]

Blank == Whole(<<"blank", 0>>)
White == Whole(<<"white", 0>>)
None == Whole(<<"none", 0>>)
Picture(n) == Whole(<<"picture", n>>)  \* set by the server
Frame(n) == Whole(<<"frame", n>>)      \* of the video

VARIABLES
  viewing,  \* _viewing
  timer,    \* _timer: the video is drawn every 100 ms
  device,   \* the stream of _videoDevice, 0 for none
  starting, \* play() was called, and the event "playing" has not come
  label,    \* the text of the capture button
  disabled, \* the capture button is disabled
  data,     \* options.data
  canvas,   \* what the canvas shows
  clipped,  \* what is drawn on it is drawn inside the circle only
  asks,     \* calls of getUserMedia that are not answered
  lateAsks, \* the same of widgets the server has replaced
  loads,    \* pictures _loadNewData waits for
  pending,  \* the data in _controlValues
  server,   \* the data of the server's control
  live,     \* the streams for which the camera is on
  counts,   \* history: numbers of calls, streams, frames, pictures and redraws
  hasty,    \* history: viewing ended while the camera was on its way
  crossed,  \* history: the server set a picture while a captured one was on its way
  overtaken \* history: the picture drawn last had been replaced by another

widget == <<viewing, timer, device, starting, label, disabled>>
canvasVars == <<data, canvas, clipped, overtaken>>
vars == <<widget, canvasVars, asks, lateAsks, loads, pending, server, live,
          counts, hasty, crossed>>

\* The constructor; the picture comes with the options.
Init ==
  /\ viewing = FALSE
  /\ timer = FALSE
  /\ device = 0
  /\ starting = FALSE
  /\ label = "original"
  /\ disabled = FALSE
  /\ data = Picture(0)
  /\ canvas = Blank
  /\ clipped = FALSE
  /\ asks = 0
  /\ lateAsks = 0
  /\ loads = {Picture(0)}
  /\ pending = None
  /\ server = Picture(0)
  /\ live = {}
  /\ counts = [asked |-> 0, streams |-> 0, frames |-> 0, set |-> 0, redrawn |-> 0]
  /\ hasty = FALSE
  /\ crossed = FALSE
  /\ overtaken = FALSE

\* drawImage (and fill) on the canvas.
drawImage(p) ==
  canvas' = IF clipped THEN [canvas EXCEPT !.inside = p.inside] ELSE p

Count(what) == counts' = [counts EXCEPT ![what] = @ + 1]

\* Mutant of turnOff: the camera stays on if the widget is viewing.
turnOffTimed(others) ==
  /\ timer' = FALSE
  /\ viewing' = FALSE
  /\ live' = IF viewing THEN live ELSE live \ {device}
  /\ hasty' = (hasty \/ others > 0 \/ starting)

\* turnOff stops the stream it knows of.  others: the calls that are not answered.
turnOff(others) ==
  /\ timer' = FALSE
  /\ viewing' = FALSE
  /\ live' = live \ {device}
  /\ hasty' = (hasty \/ others > 0 \/ starting)

\* _view, on a click while not viewing.
View ==
  /\ ~disabled
  /\ ~viewing
  /\ counts.asked < MaxAsks
  /\ viewing' = TRUE
  /\ label' = "select"
  /\ asks' = asks + 1
  /\ Count("asked")
  /\ UNCHANGED <<timer, device, starting, disabled, canvasVars, lateAsks,
                 loads, pending, server, live, hasty, crossed>>

\* Mutant of Capture: the picture is posted, the option is not set.
CaptureForServer ==
  /\ ~disabled
  /\ viewing
  /\ label' = "original"
  /\ pending' = canvas
  /\ turnOff(asks)
  /\ crossed' = FALSE
  /\ overtaken' = FALSE
  /\ UNCHANGED <<device, starting, disabled, data, canvas, clipped, asks, lateAsks, loads,
                 server, counts>>

\* _capture, on a click while viewing.
Capture ==
  /\ ~disabled
  /\ viewing
  /\ label' = "original"
  /\ data' = canvas
  /\ pending' = canvas
  /\ turnOff(asks)
  /\ crossed' = FALSE
  /\ overtaken' = FALSE
  /\ UNCHANGED <<device, starting, disabled, canvas, clipped, asks, lateAsks, loads,
                 server, counts>>

-----------------------------------------------------------------------------
(* Answers of the browser *)

\* A stream is given: it becomes the source of the video and the stream the
\* widget knows of, whether or not it is still viewing.  The circle's surroundings
\* are painted white, and from then on kept from what is drawn.
GotStream ==
  /\ asks > 0
  /\ asks' = asks - 1
  /\ Count("streams")
  /\ device' = counts.streams + 1
  /\ live' = live \cup {device'}
  /\ starting' = TRUE
  /\ IF Circle THEN drawImage(White) ELSE UNCHANGED canvas
  /\ clipped' = (clipped \/ Circle)
  /\ UNCHANGED <<viewing, timer, label, disabled, data, overtaken, lateAsks, loads,
                 pending, server, hasty, crossed>>

\* The camera is denied, or there is none: the label stays.
Denied ==
  /\ asks > 0
  /\ asks' = asks - 1
  /\ turnOff(asks - 1)
  /\ disabled' = TRUE
  /\ UNCHANGED <<device, starting, label, canvasVars, lateAsks, loads,
                 pending, server, counts, crossed>>

\* A widget that was replaced is given the stream it asked for.
GotStreamLate ==
  /\ lateAsks > 0
  /\ lateAsks' = lateAsks - 1
  /\ Count("streams")
  /\ live' = live \cup {counts.streams + 1}
  /\ UNCHANGED <<widget, canvasVars, asks, loads, pending, server, hasty, crossed>>

DeniedLate ==
  /\ lateAsks > 0
  /\ lateAsks' = lateAsks - 1
  /\ UNCHANGED <<widget, canvasVars, asks, loads, pending, server, live, counts,
                 hasty, crossed>>

\* The event "playing": _playing does not look whether it is still viewing.
Playing ==
  /\ starting
  /\ starting' = FALSE
  /\ timer' = TRUE
  /\ UNCHANGED <<viewing, device, label, disabled, canvasVars, asks, lateAsks,
                 loads, pending, server, live, counts, hasty, crossed>>

\* The timer draws the video.
Draw ==
  /\ timer
  /\ counts.frames < MaxFrames
  /\ Count("frames")
  /\ drawImage(Frame(counts.frames + 1))
  /\ UNCHANGED <<widget, data, clipped, overtaken, asks, lateAsks, loads, pending, server, live,
                 hasty, crossed>>

\* A picture is there and _loadNewData goes on, also while viewing.
Loaded(p) ==
  /\ p \in loads
  /\ loads' = loads \ {p}
  /\ drawImage(p)
  /\ overtaken' = (p # data)
  /\ UNCHANGED <<widget, data, clipped, asks, lateAsks, pending, server, live, counts,
                 hasty, crossed>>

-----------------------------------------------------------------------------
(* The server *)

\* A request carries the control values, and the server takes them.
Post ==
  /\ pending # None
  /\ server' = pending
  /\ pending' = None
  /\ UNCHANGED <<widget, canvasVars, asks, lateAsks, loads, live, counts,
                 hasty, crossed>>

\* A response sets the option "data".
setOption ==
  /\ counts.set < MaxSets
  /\ Count("set")
  /\ LET p == Picture(counts.set + 1)
     IN server' = p /\ data' = p /\ loads' = loads \cup {p}
  /\ crossed' = (pending # None)
  /\ UNCHANGED <<widget, canvas, clipped, overtaken, asks, lateAsks, pending, live, hasty>>

\* A response draws the control anew.  The old widget keeps its timer, which
\* draws on a canvas no one sees, and its camera.
Redraw ==
  /\ counts.redrawn < MaxRedraws
  /\ Count("redrawn")
  /\ viewing' = FALSE
  /\ timer' = FALSE
  /\ device' = 0
  /\ starting' = FALSE
  /\ label' = "original"
  /\ disabled' = FALSE
  /\ data' = server
  /\ canvas' = Blank
  /\ clipped' = FALSE
  /\ loads' = {server}
  /\ lateAsks' = lateAsks + asks
  /\ asks' = 0
  /\ hasty' = (hasty \/ viewing \/ asks > 0 \/ starting)
  /\ crossed' = (pending # None)
  /\ overtaken' = FALSE
  /\ UNCHANGED <<pending, server, live>>

Next ==
  \/ View \/ Capture
  \/ GotStream \/ Denied \/ GotStreamLate \/ DeniedLate \/ Playing \/ Draw
  \/ \E p \in loads : Loaded(p)
  \/ Post \/ setOption \/ Redraw

Spec == Init /\ [][Next]_vars

-----------------------------------------------------------------------------
(* What must hold *)

Parts ==
  {<<"blank", 0>>, <<"white", 0>>}
    \cup {<<"picture", n>> : n \in 0..MaxSets} \cup {<<"frame", n>> : n \in 1..MaxFrames}

Images == [inside : Parts, outside : Parts]

Counts == [asked : 0..MaxAsks, streams : Nat, frames : 0..MaxFrames,
           set : 0..MaxSets, redrawn : 0..MaxRedraws]

TypeOK ==
  /\ viewing \in BOOLEAN /\ timer \in BOOLEAN /\ starting \in BOOLEAN
  /\ disabled \in BOOLEAN /\ hasty \in BOOLEAN /\ crossed \in BOOLEAN
  /\ clipped \in BOOLEAN /\ overtaken \in BOOLEAN
  /\ label \in {"original", "select"}
  /\ counts \in Counts
  /\ data \in Images /\ canvas \in Images /\ server \in Images
  /\ pending \in Images \cup {None}
  /\ loads \in SUBSET Images
  /\ asks \in Nat /\ lateAsks \in Nat
  /\ asks + lateAsks + counts.streams <= counts.asked
  /\ device \in 0..counts.streams
  /\ live \in SUBSET (1..counts.streams)

\* The camera is on, and is drawn, only while the user sees the video, and one
\* stream of it at most, whatever is denied, set or drawn anew; unless viewing
\* ended while the camera was on its way.
CameraFollowsView ==
  ~hasty =>
    /\ live # {} \/ timer \/ starting \/ asks > 0 => viewing
    /\ Cardinality(live) + asks <= 1

\* What a canvas can show of an image.
Visible(p) == IF clipped THEN [p EXCEPT !.outside = White.outside] ELSE p

\* While there is no video the canvas shows the picture the widget has, once it is
\* loaded, and only the circle of it on white when a stream has clipped the canvas;
\* unless a replaced picture was loaded later, or the camera was on its way when
\* viewing ended.  The server has that picture too or is told next, unless it set
\* one while another was on its way to it.
CanvasShowsData ==
  ~hasty =>
    /\ ~viewing /\ data \notin loads /\ ~overtaken => canvas = Visible(data)
    /\ crossed \/ (IF pending = None THEN server = data ELSE pending = data)

\* Without a stream having clipped the canvas it shows all of the picture; after
\* one it does not.
CanvasShowsAll ==
  ~hasty /\ ~overtaken /\ ~viewing /\ data \notin loads => canvas = data

\* The same of the camera whatever the user does.
CameraIsOffAtRest == ~viewing /\ asks + lateAsks = 0 => live = {}

\* The same of the canvas for a user who waits for the camera.
CanvasShowsNewest == ~hasty /\ ~viewing /\ loads = {} => canvas = Visible(data)

\* A capture takes a frame of the video.
CapturesAFrame == [][viewing /\ pending' # pending /\ pending' # None
                       => pending'.inside[1] = "frame"]_vars

\* The button tells what a click will do.
LabelTells == label = "select" <=> viewing
=============================================================================

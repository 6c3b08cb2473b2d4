----------------------------- MODULE PageProofs -----------------------------
(***************************************************************************)
(* What a page does by itself while the server and the user go on.         *)
(*                                                                         *)
(* The camera widget, for any number of clicks, answers, pictures and      *)
(* redraws: the camera is on only while the user sees the video, and       *)
(* without the video the canvas shows the picture that the server has or   *)
(* is told next.                                                           *)
(*                                                                         *)
(* The watched controls, for any form, table, interval and number of       *)
(* changes: updates start at least the interval apart, and no note of a    *)
(* change is lost between the message, the timer, the queue and the        *)
(* response.                                                               *)
(***************************************************************************)
EXTENDS ImageCapture, Watching, FiniteSetTheorems, SequenceTheorems, TLAPS

-----------------------------------------------------------------------------
(* The camera widget *)

\* Counting changes one number.
LEMMA Counting ==
  ASSUME counts \in Counts,
         NEW what \in {"asked", "streams", "frames", "set", "redrawn"}, Count(what),
         what = "asked" => counts.asked < MaxAsks,
         what = "frames" => counts.frames < MaxFrames,
         what = "set" => counts.set < MaxSets,
         what = "redrawn" => counts.redrawn < MaxRedraws
  PROVE  /\ counts' \in Counts
         /\ counts'.asked = IF what = "asked" THEN counts.asked + 1 ELSE counts.asked
         /\ counts'.streams = IF what = "streams" THEN counts.streams + 1 ELSE counts.streams
BY ConstantsAssumption DEF Counts, Count

\* Pictures, frames and the two plain colours are images.
LEMMA AreImages ==
  /\ Blank \in Images /\ White \in Images
  /\ \A n \in 0..MaxSets : Picture(n) \in Images
  /\ \A n \in 1..MaxFrames : Frame(n) \in Images
BY DEF Images, Parts, Whole, Blank, White, Picture, Frame

\* What is drawn on a canvas that shows an image leaves it showing one.
LEMMA Draws ==
  ASSUME canvas \in Images, NEW p \in Images, drawImage(p)
  PROVE  canvas' \in Images
BY DEF drawImage, Images

\* No variable leaves its type, and no more streams are given than were asked for.
THEOREM Typing == Spec => []TypeOK
<1>1. Init => TypeOK
  <2> SUFFICES ASSUME Init PROVE TypeOK
    OBVIOUS
  <2>1. Picture(0) \in Images /\ Blank \in Images
    BY AreImages, ConstantsAssumption
  <2>2. counts \in Counts /\ counts.asked = 0 /\ counts.streams = 0
    BY ConstantsAssumption DEF Init, Counts
  <2>3. /\ viewing \in BOOLEAN /\ timer \in BOOLEAN /\ starting \in BOOLEAN
        /\ disabled \in BOOLEAN /\ hasty \in BOOLEAN /\ crossed \in BOOLEAN
        /\ clipped \in BOOLEAN /\ overtaken \in BOOLEAN
        /\ label \in {"original", "select"}
    BY Zenon DEF Init
  <2>4. /\ data \in Images /\ canvas \in Images /\ server \in Images
        /\ pending \in Images \cup {None} /\ loads \in SUBSET Images
    BY <2>1 DEF Init
  <2>5. asks = 0 /\ lateAsks = 0 /\ device = 0 /\ live = {}
    BY DEF Init
  <2> QED
    BY <2>2, <2>3, <2>4, <2>5 DEF TypeOK
<1>2. TypeOK /\ [Next]_vars => TypeOK'
  <2> SUFFICES ASSUME TypeOK, [Next]_vars PROVE TypeOK'
    OBVIOUS
  <2> USE ConstantsAssumption DEF TypeOK
  <2>0. counts.asked \in Nat /\ counts.streams \in Nat /\ counts.frames \in Nat
        /\ counts.set \in Nat
    BY DEF Counts
  <2>1. CASE View
    BY <2>0, <2>1, Counting DEF View, canvasVars
  <2>2. CASE Capture
    <3>1. viewing' \in BOOLEAN /\ timer' \in BOOLEAN /\ hasty' \in BOOLEAN
          /\ crossed' \in BOOLEAN /\ overtaken' \in BOOLEAN
      BY <2>2, Zenon DEF Capture, turnOff
    <3> QED
      BY <2>0, <2>2, <3>1 DEF Capture, turnOff
  <2>3. CASE GotStream
    <3>1. Count("streams")
      BY <2>3 DEF GotStream
    <3>2. counts' \in Counts /\ counts'.asked = counts.asked
          /\ counts'.streams = counts.streams + 1
      BY <3>1, Counting
    <3>3. canvas' \in Images /\ clipped' \in BOOLEAN
      <4>1. clipped' \in BOOLEAN
        BY <2>3, Zenon DEF GotStream
      <4>2. CASE Circle
        BY <2>3, <4>1, <4>2, AreImages, Draws DEF GotStream
      <4>3. CASE ~Circle
        BY <2>3, <4>1, <4>3 DEF GotStream
      <4> QED
        BY <4>2, <4>3
    <3>4. device' \in 0..counts'.streams /\ live' \in SUBSET (1..counts'.streams)
      <4>1. counts.streams + 1 \in 0..counts'.streams
        BY <2>0, <3>2
      <4>2. 1..counts.streams \subseteq 1..counts'.streams
        BY <2>0, <3>2
      <4>3. counts.streams + 1 \in 1..counts'.streams
        BY <2>0, <3>2
      <4> QED
        BY <2>3, <4>1, <4>2, <4>3 DEF GotStream
    <3>5. asks' + lateAsks' + counts'.streams <= counts'.asked /\ asks' \in Nat
      BY <2>0, <2>3, <3>2 DEF GotStream
    <3> QED
      BY <2>3, <3>2, <3>3, <3>4, <3>5 DEF GotStream
  <2>4. CASE Denied
    <3>1. viewing' \in BOOLEAN /\ timer' \in BOOLEAN /\ hasty' \in BOOLEAN
          /\ disabled' \in BOOLEAN
      BY <2>4, Zenon DEF Denied, turnOff
    <3> QED
      BY <2>0, <2>4, <3>1 DEF Denied, turnOff, canvasVars
  <2>5. CASE GotStreamLate
    <3>1. Count("streams")
      BY <2>5 DEF GotStreamLate
    <3>2. counts' \in Counts /\ counts'.asked = counts.asked
          /\ counts'.streams = counts.streams + 1
      BY <3>1, Counting
    <3>3. device' \in 0..counts'.streams /\ live' \in SUBSET (1..counts'.streams)
      <4>1. device \in 0..counts'.streams
        BY <2>0, <3>2
      <4>2. 1..counts.streams \subseteq 1..counts'.streams
        BY <2>0, <3>2
      <4>3. counts.streams + 1 \in 1..counts'.streams
        BY <2>0, <3>2
      <4> QED
        BY <2>5, <4>1, <4>2, <4>3 DEF GotStreamLate, widget
    <3>4. asks' + lateAsks' + counts'.streams <= counts'.asked /\ lateAsks' \in Nat
      BY <2>0, <2>5, <3>2 DEF GotStreamLate
    <3> QED
      BY <2>5, <3>2, <3>3, <3>4 DEF GotStreamLate, widget, canvasVars
  <2>6. CASE DeniedLate
    BY <2>0, <2>6 DEF DeniedLate, widget, canvasVars
  <2>7. CASE Playing
    BY <2>0, <2>7 DEF Playing, canvasVars
  <2>8. CASE Draw
    <3>1. counts.frames + 1 \in 1..MaxFrames /\ drawImage(Frame(counts.frames + 1))
      BY <2>0, <2>8 DEF Draw
    <3>2. canvas' \in Images
      BY <3>1, AreImages, Draws
    <3> QED
      BY <2>0, <2>8, <3>2, Counting DEF Draw, widget
  <2>9. ASSUME NEW p \in loads, Loaded(p) PROVE TypeOK'
    <3>1. canvas' \in Images
      BY <2>9, Draws DEF Loaded
    <3>2. overtaken' \in BOOLEAN
      BY <2>9, Zenon DEF Loaded
    <3> QED
      BY <2>0, <2>9, <3>1, <3>2 DEF Loaded, widget
  <2>10. CASE Post
    BY <2>0, <2>10 DEF Post, widget, canvasVars
  <2>11. CASE setOption
    <3>1. crossed' \in BOOLEAN
      BY <2>11, Zenon DEF setOption
    <3>2. Picture(counts.set + 1) \in Images
      <4>1. counts.set + 1 \in 0..MaxSets
        BY <2>0, <2>11 DEF setOption
      <4> QED
        BY <4>1, AreImages
    <3> QED
      BY <2>0, <2>11, <3>1, <3>2, Counting DEF setOption, widget
  <2>12. CASE Redraw
    <3>1. viewing' \in BOOLEAN /\ timer' \in BOOLEAN /\ starting' \in BOOLEAN
          /\ disabled' \in BOOLEAN /\ hasty' \in BOOLEAN /\ crossed' \in BOOLEAN
          /\ clipped' \in BOOLEAN /\ overtaken' \in BOOLEAN
      BY <2>12, Zenon DEF Redraw
    <3> QED
      BY <2>0, <2>12, <3>1, Counting, AreImages DEF Redraw
  <2>13. CASE UNCHANGED vars
    BY <2>13 DEF vars, widget, canvasVars
  <2> QED
    BY <2>1, <2>2, <2>3, <2>4, <2>5, <2>6, <2>7, <2>8, <2>9, <2>10, <2>11, <2>12,
       <2>13 DEF Next
<1> QED
  BY <1>1, <1>2, PTL DEF Spec

\* The variables that the camera depends on keep their types.
Typed ==
  /\ viewing \in BOOLEAN /\ timer \in BOOLEAN /\ starting \in BOOLEAN /\ hasty \in BOOLEAN
  /\ asks \in Nat /\ lateAsks \in Nat

\* What makes CameraFollowsView inductive: the one stream that is on is the one the
\* widget knows of, and it is not on while another is on its way.
Camera ==
  ~hasty =>
    /\ live # {} \/ timer \/ starting \/ asks > 0 => viewing
    /\ live \subseteq {device}
    /\ asks <= 1 /\ lateAsks = 0
    /\ asks > 0 => live = {}

\* They hold in every state.
LEMMA CameraHolds == Spec => [](Typed /\ Camera)
<1>1. Init => Typed /\ Camera
  <2>1. ASSUME Init PROVE Typed
    BY <2>1 DEF Init, Typed
  <2>2. ASSUME Init PROVE Camera
    <3>1. live = {} /\ asks = 0 /\ lateAsks = 0 /\ ~timer /\ ~starting
      BY <2>2, Zenon DEF Init
    <3> QED
      BY <3>1 DEF Camera
  <2> QED
    BY <2>1, <2>2
<1>2. Typed /\ Camera /\ [Next]_vars => Typed' /\ Camera'
  <2> SUFFICES ASSUME Typed, Camera, [Next]_vars PROVE Typed' /\ Camera'
    OBVIOUS
  <2> USE DEF Typed, Camera
  <2>1. CASE View
    BY <2>1 DEF View
  <2>2. CASE Capture
    BY <2>2 DEF Capture, turnOff
  <2>3. CASE GotStream
    BY <2>3 DEF GotStream
  <2>4. CASE Denied
    <3>1. Typed'
      <4>1. /\ viewing' \in BOOLEAN /\ timer' \in BOOLEAN /\ starting' \in BOOLEAN
            /\ hasty' \in BOOLEAN
        BY <2>4, Zenon DEF Denied, turnOff
      <4>2. asks' \in Nat /\ lateAsks' \in Nat
        BY <2>4 DEF Denied
      <4> QED
        BY <4>1, <4>2
    <3>2. Camera'
      <4> SUFFICES ASSUME ~hasty'
                   PROVE  /\ live' = {} /\ ~timer' /\ ~starting'
                          /\ asks' = 0 /\ lateAsks' = 0
        BY DEF Camera
      <4>1. ~hasty /\ ~starting /\ ~(asks - 1 > 0)
        BY <2>4, Zenon DEF Denied, turnOff
      <4>2. asks = 1 /\ lateAsks = 0 /\ live = {}
        BY <2>4, <4>1 DEF Denied
      <4> QED
        BY <2>4, <4>1, <4>2 DEF Denied, turnOff
    <3> QED
      BY <3>1, <3>2
  <2>5. CASE GotStreamLate
    BY <2>5 DEF GotStreamLate, widget
  <2>6. CASE DeniedLate
    BY <2>6 DEF DeniedLate, widget
  <2>7. CASE Playing
    BY <2>7 DEF Playing
  <2>8. CASE Draw
    BY <2>8 DEF Draw, widget
  <2>9. ASSUME NEW p \in loads, Loaded(p) PROVE Typed' /\ Camera'
    BY <2>9 DEF Loaded, widget
  <2>10. CASE Post
    BY <2>10 DEF Post, widget
  <2>11. CASE setOption
    BY <2>11 DEF setOption, widget
  <2>12. CASE Redraw
    <3>1. Typed'
      <4>1. /\ viewing' \in BOOLEAN /\ timer' \in BOOLEAN /\ starting' \in BOOLEAN
            /\ hasty' \in BOOLEAN
        BY <2>12, Zenon DEF Redraw
      <4>2. asks' \in Nat /\ lateAsks' \in Nat
        BY <2>12 DEF Redraw
      <4> QED
        BY <4>1, <4>2
    <3>2. Camera'
      <4> SUFFICES ASSUME ~hasty'
                   PROVE  /\ live' = {} /\ ~timer' /\ ~starting'
                          /\ asks' = 0 /\ lateAsks' = 0
        BY DEF Camera
      <4>1. ~hasty /\ ~viewing /\ ~(asks > 0)
        BY <2>12, Zenon DEF Redraw
      <4>2. asks = 0 /\ lateAsks = 0 /\ live = {}
        BY <4>1
      <4>3. live' = live /\ ~timer' /\ ~starting' /\ asks' = 0
        BY <2>12, Zenon DEF Redraw
      <4>4. lateAsks' = lateAsks + asks
        BY <2>12 DEF Redraw
      <4> QED
        BY <4>2, <4>3, <4>4
    <3> QED
      BY <3>1, <3>2
  <2>13. CASE UNCHANGED vars
    BY <2>13 DEF vars, widget
  <2> QED
    BY <2>1, <2>2, <2>3, <2>4, <2>5, <2>6, <2>7, <2>8, <2>9, <2>10, <2>11, <2>12,
       <2>13 DEF Next
<1> QED
  BY <1>1, <1>2, PTL DEF Spec

\* Unless viewing ended while the camera was on its way, it is on only while the
\* user sees the video, with one stream.
THEOREM CameraFollows == Spec => []CameraFollowsView
<1>1. Typed /\ Camera => CameraFollowsView
  <2> SUFFICES ASSUME Typed, Camera, ~hasty
               PROVE  /\ live # {} \/ timer \/ starting \/ asks > 0 => viewing
                      /\ Cardinality(live) + asks <= 1
    BY DEF CameraFollowsView
  <2>1. asks \in Nat /\ asks <= 1 /\ (asks > 0 => live = {}) /\ live \subseteq {device}
    BY DEF Typed, Camera
  <2>2. CASE live = {}
    BY <2>1, <2>2, FS_EmptySet DEF Camera
  <2>3. CASE live = {device}
    <3>1. Cardinality(live) = 1
      BY <2>3, FS_Singleton
    <3>2. asks = 0
      BY <2>1, <2>3
    <3> QED
      BY <2>3, <3>1, <3>2 DEF Camera
  <2> QED
    BY <2>1, <2>2, <2>3
<1> QED
  BY <1>1, CameraHolds, PTL

\* What makes CanvasShowsData inductive: nothing is drawn while the camera is on
\* its way, and a clipped canvas is white outside the circle.
Canvas ==
  /\ ~hasty => (asks > 0 => ~timer /\ ~starting)
  /\ clipped => canvas.outside = White.outside
  /\ ~hasty /\ (~viewing \/ asks > 0) /\ data \notin loads /\ ~overtaken
       => canvas = Visible(data)
  /\ ~hasty /\ ~crossed =>
       /\ pending = None => server = data
       /\ pending # None => pending = data

\* An image is drawn as far as the canvas can show it, and what a clipped canvas has
\* outside the circle stays.
LEMMA DrawsVisible ==
  ASSUME canvas \in Images, clipped => canvas.outside = White.outside,
         NEW p \in Images, drawImage(p)
  PROVE  canvas' = Visible(p) /\ (clipped => canvas'.outside = White.outside)
<1>1. CASE clipped
  <2>1. /\ canvas' = [inside |-> p.inside, outside |-> canvas.outside]
        /\ Visible(p) = [inside |-> p.inside, outside |-> White.outside]
    BY <1>1 DEF drawImage, Visible, Images
  <2> QED
    BY <1>1, <2>1
<1>2. CASE ~clipped
  BY <1>2 DEF drawImage, Visible
<1> QED
  BY <1>1, <1>2

\* What a canvas shows can be seen of it.
LEMMA ShowsItself ==
  ASSUME canvas \in Images, clipped => canvas.outside = White.outside
  PROVE  Visible(canvas) = canvas
BY DEF Visible, Images

\* Each step keeps it.
LEMMA CanvasStep ==
  ASSUME TypeOK, Typed, Camera, Canvas, [Next]_vars
  PROVE  Canvas'
<1> USE DEF Typed, Camera, Canvas
<1>0. /\ canvas \in Images /\ data \in Images /\ loads \subseteq Images
      /\ clipped \in BOOLEAN
  BY DEF TypeOK
<1>1. CASE View
  BY <1>1 DEF View, canvasVars, Visible
<1>2. CASE Capture
  <2>1. canvas # None
    <3>1. \A p \in Parts : p # <<"none", 0>>
      BY DEF Parts
    <3>2. canvas.inside \in Parts
      BY <1>0 DEF Images
    <3> QED
      BY <3>1, <3>2 DEF None, Whole
  <2>2. Visible(data)' = canvas'
    BY <1>0, <1>2, ShowsItself DEF Capture, Visible
  <2>3. ~hasty' => ~hasty /\ ~starting /\ ~(asks > 0)
    BY <1>2, Zenon DEF Capture, turnOff
  <2> QED
    BY <1>2, <2>1, <2>2, <2>3 DEF Capture, turnOff
<1>3. CASE GotStream
  <2>1. clipped' => canvas'.outside = White.outside
    <3>1. CASE Circle
      <4>1. drawImage(White) /\ White \in Images
        BY <1>3, <3>1, AreImages DEF GotStream
      <4>2. CASE clipped
        BY <1>0, <4>1, <4>2, DrawsVisible
      <4>3. CASE ~clipped
        BY <4>1, <4>3 DEF drawImage
      <4> QED
        BY <4>2, <4>3
    <3>2. CASE ~Circle
      BY <1>3, <3>2 DEF GotStream
    <3> QED
      BY <3>1, <3>2
  <2>2. ~hasty' => viewing' /\ ~(asks' > 0)
    BY <1>3 DEF GotStream
  <2>3. UNCHANGED <<hasty, crossed, pending, server, data>>
    BY <1>3 DEF GotStream
  <2> QED
    BY <2>1, <2>2, <2>3
<1>4. CASE Denied
  <2>1. ~hasty' => ~hasty /\ ~starting /\ asks > 0
    BY <1>4, Zenon DEF Denied, turnOff
  <2> QED
    BY <1>4, <2>1 DEF Denied, turnOff, canvasVars, Visible
<1>5. CASE GotStreamLate
  BY <1>5 DEF GotStreamLate, widget, canvasVars, Visible
<1>6. CASE DeniedLate
  BY <1>6 DEF DeniedLate, widget, canvasVars, Visible
<1>7. CASE Playing
  BY <1>7 DEF Playing, canvasVars, Visible
<1>8. CASE Draw
  <2>1. ~hasty => viewing /\ ~(asks > 0)
    BY <1>8 DEF Draw
  <2>2. clipped => canvas'.outside = White.outside
    BY <1>0, <1>8 DEF Draw, drawImage
  <2> QED
    BY <1>8, <2>1, <2>2 DEF Draw, widget
<1>9. ASSUME NEW p \in loads, Loaded(p) PROVE Canvas'
  <2>1. canvas' = Visible(p) /\ (clipped => canvas'.outside = White.outside)
    BY <1>0, <1>9, DrawsVisible DEF Loaded
  <2>2. overtaken' <=> p # data
    BY <1>9, Zenon DEF Loaded
  <2>3. UNCHANGED <<widget, data, clipped, asks, lateAsks, pending, server, hasty, crossed>>
    BY <1>9 DEF Loaded
  <2>4. ~overtaken' => canvas' = Visible(data)'
    BY <2>1, <2>2, <2>3 DEF Visible
  <2> QED
    BY <2>1, <2>3, <2>4 DEF widget
<1>10. CASE Post
  BY <1>10 DEF Post, widget, canvasVars, Visible
<1>11. CASE setOption
  <2>1. data' \in loads'
    BY <1>11 DEF setOption
  <2>2. ~crossed' => pending = None
    BY <1>11, Zenon DEF setOption
  <2>3. server' = data' /\ UNCHANGED <<widget, canvas, clipped, asks, pending, hasty>>
    BY <1>11 DEF setOption
  <2> QED
    BY <2>1, <2>2, <2>3 DEF widget
<1>12. CASE Redraw
  <2>1. ~crossed' => pending = None
    BY <1>12, Zenon DEF Redraw
  <2>2. /\ data' \in loads' /\ data' = server' /\ asks' = 0 /\ ~clipped'
        /\ UNCHANGED pending
    BY <1>12 DEF Redraw
  <2> QED
    BY <2>1, <2>2
<1>13. CASE UNCHANGED vars
  BY <1>13 DEF vars, widget, canvasVars, Visible
<1> QED
  BY <1>1, <1>2, <1>3, <1>4, <1>5, <1>6, <1>7, <1>8, <1>9, <1>10, <1>11, <1>12, <1>13
     DEF Next

\* While there is no video the canvas shows what it can of the picture that the
\* widget has, unless a replaced one was loaded later, and the server has that picture
\* or is told next, unless pictures crossed; if the camera was not on its way when
\* viewing ended.
THEOREM CanvasFollows == Spec => []CanvasShowsData
<1>1. Init => Canvas
  BY DEF Init, Canvas
<1>2. TypeOK /\ Typed /\ Camera /\ Canvas /\ [Next]_vars => Canvas'
  BY CanvasStep
<1>3. Canvas => CanvasShowsData
  BY DEF Canvas, CanvasShowsData
<1> QED
  BY <1>1, <1>2, <1>3, Typing, CameraHolds, PTL DEF Spec

-----------------------------------------------------------------------------
(* The watched controls *)

\* What a page shows, has asked for and is told, and when it will ask again.
WatchInv ==
  /\ WatchTypeOK
  /\ \A row \in Rows : version[row] <= version[Table]
  /\ drawn \in [DOMAIN drawn -> 0..MaxChanges]
  /\ \A c \in DOMAIN drawn : drawn[c] <= version[watch[c]]
  /\ \A s \in Slots : \A c \in DOMAIN loading[s] : loading[s][c] <= version[watch[c]]
  /\ flight = "handled" => \A c \in DOMAIN drawn :
       /\ shown[c] <= drawn[c]
       /\ \A s \in Slots : c \in DOMAIN loading[s] => loading[s][c] <= drawn[c]
  /\ armed => age + wait >= Interval

\* A page that subscribes to more can get the messages it was sent before.
LEMMA MoreChannels ==
  ASSUME NEW S, NEW T, S \subseteq T, NEW s \in Seq(S)
  PROVE  s \in Seq(T)
BY SeqDef

\* A page gets the messages of channels it is subscribed to.
LEMMA GetsPublished ==
  ASSUME NEW ch
  PROVE  Published(ch) \in Seq(subscribed)
BY DEF Published

\* A request that is sent asks for the controls that were noted, whose versions
\* are not known yet.
Asked ==
  /\ queue' \in Nat
  /\ flight' \in {"none", "sent", "handled"}
  /\ drawn' \in [DOMAIN drawn' -> 0..MaxChanges]
  /\ DOMAIN drawn' \subseteq refresh \cup Late
  /\ \A c \in DOMAIN drawn' : drawn'[c] <= version[watch[c]]
  /\ flight' = "none" => queue' = 0 /\ drawn' = Nothing
  /\ flight' = "handled" => flight = "handled" /\ drawn' = drawn

\* throttle sets a timer that is due when the interval is over, or leaves one.
LEMMA Throttles ==
  ASSUME WatchInv, throttle
  PROVE  /\ armed' = TRUE /\ armed' \in BOOLEAN /\ age' \in 0..Interval
         /\ wait' \in 0..Interval /\ age' + wait' >= Interval
<1>1. armed' = TRUE /\ armed' \in BOOLEAN
  BY Zenon DEF throttle
<1> QED
  BY <1>1, WatchAssumption DEF throttle, WatchInv, WatchTypeOK

\* Posting an event keeps the requests as they should be.
LEMMA Posts ==
  ASSUME WatchInv, NEW b \in BOOLEAN, postAjax(b)
  PROVE  Asked /\ blockEvents' \in BOOLEAN
<1> USE WatchAssumption DEF WatchInv, WatchTypeOK, ajaxVars
<1>1. blockEvents' \in BOOLEAN
  BY Zenon DEF postAjax
<1>2. CASE blockEvents
  BY <1>2 DEF postAjax, Asked
<1>3. CASE ~blockEvents /\ flight = "none"
  BY <1>3 DEF postAjax, Asked, send
<1>4. CASE ~blockEvents /\ flight # "none"
  BY <1>4 DEF postAjax, Asked
<1> QED
  BY <1>1, <1>2, <1>3, <1>4

\* So does the end of a request.
LEMMA Deletes ==
  ASSUME WatchInv, next
  PROVE  Asked /\ flight' # "handled"
<1> USE WatchAssumption DEF WatchInv, WatchTypeOK
<1>1. CASE queue = 0
  BY <1>1 DEF next, Asked, Nothing
<1>2. CASE queue # 0
  BY <1>2 DEF next, Asked, send
<1> QED
  BY <1>1, <1>2

\* Changes of the database leave the page's invariant.
LEMMA ChangesOnly ==
  ASSUME WatchInv,
         version' \in [Channels -> 0..MaxChanges],
         \A ch \in Channels : version[ch] <= version'[ch],
         \A r \in Rows : version'[r] <= version'[Table],
         mailbox' \in Seq(subscribed),
         UNCHANGED <<subscribed, asked, socket, formVars, refresh, timerVars,
                     blockEvents, ajaxVars, loading, events, lost>>
  PROVE  WatchInv'
<1> USE WatchAssumption DEF WatchInv, WatchTypeOK, timerVars, ajaxVars, formVars
<1>1. \A c \in Controls : watch[c] \in Channels
  OBVIOUS
<1>2. \A c \in Controls : shown'[c] <= version'[watch[c]]
  BY <1>1
<1>3. \A c \in DOMAIN drawn' : drawn'[c] <= version'[watch[c]]
  BY <1>1
<1>4. \A s \in Slots : \A c \in DOMAIN loading'[s] : loading'[s][c] <= version'[watch[c]]
  <2> SUFFICES ASSUME NEW s \in Slots, NEW c \in DOMAIN loading[s]
               PROVE  loading[s][c] <= version'[watch[c]]
    OBVIOUS
  <2>1. /\ c \in Controls /\ watch[c] \in Channels
        /\ loading[s][c] \in Nat /\ loading[s][c] <= version[watch[c]]
    BY <1>1
  <2>2. version[watch[c]] \in Nat /\ version'[watch[c]] \in Nat
        /\ version[watch[c]] <= version'[watch[c]]
    BY <2>1
  <2> QED
    BY <2>1, <2>2
<1> QED
  BY <1>2, <1>3, <1>4

\* The invariant holds when the page is made.
LEMMA WatchStarts == WatchInit => WatchInv
<1> SUFFICES ASSUME WatchInit PROVE WatchInv
  OBVIOUS
<1>1. /\ version \in [Channels -> 0..MaxChanges] /\ \A ch \in Channels : version[ch] = 0
      /\ shown \in [Controls -> 0..MaxChanges] /\ \A c \in Controls : shown[c] = 0
      /\ watch \in [Controls -> Channels] /\ Table \in Channels /\ Rows \subseteq Channels
  BY WatchAssumption DEF WatchInit, Channels
<1>2. drawn = Nothing /\ DOMAIN drawn = {} /\ drawn \in [DOMAIN drawn -> 0..MaxChanges]
  BY DEF WatchInit, Nothing
<1>3. mailbox \in Seq(subscribed) /\ wait \in 0..Interval /\ age \in 0..Interval
      /\ events \in 0..MaxEvents /\ queue = 0
  BY WatchAssumption DEF WatchInit
<1>4. armed = FALSE /\ armed \in BOOLEAN /\ blockEvents \in BOOLEAN /\ lost \in BOOLEAN
  BY Zenon DEF WatchInit
<1>5. present \subseteq Controls /\ refresh = {} /\ subscribed = {} /\ asked = {}
      /\ socket = "connecting" /\ flight = "none"
  BY DEF WatchInit
<1>6. \A c \in Controls : shown[c] <= version[watch[c]]
  BY <1>1
<1>7. \A row \in Rows : version[row] <= version[Table]
  BY <1>1
<1>8. /\ DOMAIN loading = Slots
      /\ \A s \in Slots : /\ loading[s] = Nothing /\ DOMAIN loading[s] = {}
                          /\ loading[s] \in [DOMAIN loading[s] -> 0..MaxChanges]
  BY DEF WatchInit, Nothing
<1> QED
  BY <1>1, <1>2, <1>3, <1>4, <1>5, <1>6, <1>7, <1>8 DEF WatchInv, WatchTypeOK

\* The invariant holds whatever the server, the timer and the user do.
LEMMA WatchHolds == WatchSpec => []WatchInv
<1>1. WatchInit => WatchInv
  BY WatchStarts
<1>2. WatchInv /\ [WatchNext]_watchVars => WatchInv'
  <2> SUFFICES ASSUME WatchInv, [WatchNext]_watchVars PROVE WatchInv'
    OBVIOUS
  <2> USE WatchAssumption DEF WatchInv, WatchTypeOK, serverVars, timerVars, ajaxVars,
          formVars, Channels, Asked
  <2>1. ASSUME NEW row \in Rows, BroadcastUpdate(row) PROVE WatchInv'
    <3>1. /\ version' \in [Channels -> 0..MaxChanges]
          /\ \A ch \in Channels : version[ch] <= version'[ch]
          /\ \A r \in Rows : version'[r] <= version'[Table]
      <4>1. version[Table] \in Nat /\ version[Table] < MaxChanges /\ row # Table
            /\ \A r \in Rows : version[r] \in Nat /\ version[r] <= version[Table] /\ r # Table
        BY <2>1 DEF BroadcastUpdate, changes
      <4>2. \A ch \in Channels : version'[ch] = IF ch \in {Table, row} THEN version[ch] + 1
                                                ELSE version[ch]
        BY <2>1 DEF BroadcastUpdate
      <4>3. \A ch \in Channels : version'[ch] \in 0..MaxChanges
        <5> SUFFICES ASSUME NEW ch \in Channels PROVE version'[ch] \in 0..MaxChanges
          OBVIOUS
        <5>1. version[ch] \in 0..MaxChanges /\ MaxChanges \in Nat
          OBVIOUS
        <5>2. version[ch] + 1 <= MaxChanges
          BY <4>1, <5>1
        <5>3. version'[ch] \in {version[ch], version[ch] + 1}
          BY <4>2
        <5> QED
          BY <5>1, <5>2, <5>3
      <4>4. version' \in [Channels -> 0..MaxChanges]
        BY <2>1, <4>3 DEF BroadcastUpdate
      <4>5. \A ch \in Channels : version[ch] <= version'[ch]
        BY <4>2
      <4>6. \A r \in Rows : version'[r] <= version'[Table]
        <5> SUFFICES ASSUME NEW r \in Rows PROVE version'[r] <= version'[Table]
          OBVIOUS
        <5>1. version'[Table] = version[Table] + 1 /\ version'[r] \in {version[r], version[r] + 1}
          BY <4>2
        <5> QED
          BY <4>1, <5>1
      <4> QED
        BY <4>4, <4>5, <4>6
    <3>2. mailbox' \in Seq(subscribed)
      BY <2>1, GetsPublished DEF BroadcastUpdate
    <3> QED
      BY <2>1, <3>1, <3>2, ChangesOnly DEF BroadcastUpdate
  <2>2. CASE BroadcastInsert
    <3>1. /\ version' \in [Channels -> 0..MaxChanges]
          /\ \A ch \in Channels : version[ch] <= version'[ch]
          /\ \A r \in Rows : version'[r] <= version'[Table]
      BY <2>2 DEF BroadcastInsert, changes
    <3>2. mailbox' \in Seq(subscribed)
      BY <2>2, GetsPublished DEF BroadcastInsert
    <3> QED
      BY <2>2, <3>1, <3>2, ChangesOnly DEF BroadcastInsert
  <2>3. CASE Opens
    BY <2>3 DEF Opens
  <2>4. CASE HubSubscribes
    BY <2>4, MoreChannels DEF HubSubscribes
  <2>5. CASE Tick
    <3>1. /\ age' \in 0..Interval /\ wait' \in 0..Interval
          /\ armed => age' + wait' >= Interval
      BY <2>5 DEF Tick, Least
    <3>2. UNCHANGED <<serverVars, formVars, refresh, armed, blockEvents, ajaxVars,
                      loading, events, lost>>
      BY <2>5 DEF Tick
    <3> QED
      BY <3>1, <3>2
  <2>6. CASE processWatcherMessage
    <3>1. throttle /\ mailbox' = Tail(mailbox) /\ mailbox # <<>>
          /\ UNCHANGED <<version, subscribed, asked, socket, formVars,
                          blockEvents, ajaxVars, loading, events, lost>>
      BY <2>6 DEF processWatcherMessage
    <3>2. refresh \subseteq refresh' /\ refresh' \subseteq present
      BY <2>6 DEF processWatcherMessage
    <3>3. mailbox' \in Seq(subscribed)
      BY <3>1, HeadTailProperties
    <3> QED
      BY <3>1, <3>2, <3>3, Throttles
  <2>7. CASE TimerFires
    <3>1. Asked /\ blockEvents' \in BOOLEAN
      <4>1. postAjax(FALSE) /\ FALSE \in BOOLEAN
        BY <2>7 DEF TimerFires
      <4> HIDE DEF Asked
      <4> QED
        BY <4>1, Posts
    <3>2. age' = 0 /\ armed' = FALSE /\ armed' \in BOOLEAN /\ lost' \in BOOLEAN
      BY <2>7, Zenon DEF TimerFires
    <3>3. UNCHANGED <<serverVars, formVars, refresh, wait, loading, events>>
      BY <2>7 DEF TimerFires
    <3> QED
      BY <3>1, <3>2, <3>3
  <2>8. ASSUME NEW b \in BOOLEAN, Event(b) PROVE WatchInv'
    <3>1. Asked /\ blockEvents' \in BOOLEAN
      <4>1. postAjax(b)
        BY <2>8 DEF Event
      <4> HIDE DEF Asked
      <4> QED
        BY <4>1, Posts
    <3>2. events' \in 0..MaxEvents
          /\ UNCHANGED <<serverVars, formVars, refresh, timerVars, loading, lost>>
      BY <2>8 DEF Event
    <3> QED
      BY <3>1, <3>2
  <2>9. ASSUME NEW c \in present, Refresh(c) PROVE WatchInv'
    <3>1. throttle /\ refresh' = refresh \cup {c} /\ events' \in 0..MaxEvents
          /\ UNCHANGED <<serverVars, formVars, blockEvents, ajaxVars, loading, lost>>
      BY <2>9 DEF Refresh
    <3> QED
      BY <3>1, Throttles
  <2>10. ASSUME NEW new \in SUBSET (Late \ present), ServerDraws(new) PROVE WatchInv'
    <3>1. /\ DOMAIN drawn' = DOMAIN drawn \cup new /\ DOMAIN drawn' \subseteq Controls
          /\ \A c \in DOMAIN drawn' : drawn'[c] = version[watch[c]]
          /\ drawn' \in [DOMAIN drawn' -> 0..MaxChanges]
      BY <2>10 DEF ServerDraws
    <3>2. flight' = "handled"
          /\ UNCHANGED <<serverVars, formVars, refresh, timerVars, blockEvents, queue,
                          loading, events, lost>>
      BY <2>10 DEF ServerDraws
    <3>3. \A c \in DOMAIN drawn' :
            /\ drawn'[c] <= version[watch[c]] /\ shown[c] <= drawn'[c]
            /\ \A s \in Slots : c \in DOMAIN loading[s] => loading[s][c] <= drawn'[c]
      BY <3>1
    <3> QED
      BY <3>1, <3>2, <3>3
  <2>11. CASE Responds
    <3>1. shown' \in [Controls -> 0..MaxChanges]
          /\ \A c \in Controls : shown'[c] <= version[watch[c]]
      BY <2>11 DEF Responds, processAjax2
    <3>2. next /\ blockEvents' = FALSE /\ blockEvents' \in BOOLEAN
      BY <2>11, Zenon DEF Responds
    <3>3. present' \subseteq Controls /\ refresh \subseteq present'
      BY <2>11 DEF Responds, processAjax2
    <3>4. UNCHANGED <<serverVars, refresh, timerVars, loading, events, lost>>
      BY <2>11 DEF Responds
    <3> QED
      BY <3>1, <3>2, <3>3, <3>4, Deletes
  <2>14. ASSUME NEW s \in Slots, RespondsWithFiles(s) PROVE WatchInv'
    <3>1. next /\ blockEvents' = FALSE /\ blockEvents' \in BOOLEAN
      BY <2>14, Zenon DEF RespondsWithFiles
    <3>2. /\ DOMAIN loading' = Slots
          /\ \A q \in Slots : loading'[q] = IF q = s THEN drawn ELSE loading[q]
      BY <2>14 DEF RespondsWithFiles
    <3>3. UNCHANGED <<serverVars, formVars, refresh, timerVars, events, lost>>
      BY <2>14 DEF RespondsWithFiles
    <3>4. \A q \in Slots :
            /\ DOMAIN loading'[q] \subseteq Controls
            /\ loading'[q] \in [DOMAIN loading'[q] -> 0..MaxChanges]
            /\ \A c \in DOMAIN loading'[q] : loading'[q][c] <= version[watch[c]]
      BY <3>2
    <3> QED
      BY <3>1, <3>2, <3>3, <3>4, Deletes
  <2>15. ASSUME NEW s \in Slots, FilesLoaded(s) PROVE WatchInv'
    <3>1. /\ DOMAIN loading' = Slots
          /\ \A q \in Slots : loading'[q] = IF q = s THEN Nothing ELSE loading[q]
          /\ DOMAIN Nothing = {} /\ Nothing \in [DOMAIN Nothing -> 0..MaxChanges]
      BY <2>15 DEF FilesLoaded, Nothing
    <3>2. /\ shown' \in [Controls -> 0..MaxChanges]
          /\ \A c \in Controls : shown'[c] \in {shown[c]} \cup {loading[s][d] : d \in {c} \cap DOMAIN loading[s]}
          /\ \A c \in Controls : shown'[c] <= version[watch[c]]
      BY <2>15 DEF FilesLoaded, processAjax2
    <3>3. present' \subseteq Controls /\ refresh \subseteq present'
      BY <2>15 DEF FilesLoaded, processAjax2
    <3>4. UNCHANGED <<serverVars, refresh, timerVars, blockEvents, ajaxVars, events, lost>>
      BY <2>15 DEF FilesLoaded
    <3>5. flight = "handled" => \A c \in DOMAIN drawn :
            /\ shown'[c] <= drawn[c]
            /\ \A q \in Slots : c \in DOMAIN loading'[q] => loading'[q][c] <= drawn[c]
      BY <3>1, <2>15 DEF FilesLoaded, processAjax2
    <3>6. \A q \in Slots :
            /\ DOMAIN loading'[q] \subseteq Controls
            /\ loading'[q] \in [DOMAIN loading'[q] -> 0..MaxChanges]
            /\ \A c \in DOMAIN loading'[q] : loading'[q][c] <= version[watch[c]]
      BY <3>1
    <3> QED
      BY <3>1, <3>2, <3>3, <3>4, <3>5, <3>6
  <2>12. CASE Fails
    <3>1. next /\ lost' = TRUE /\ lost' \in BOOLEAN
      BY <2>12, Zenon DEF Fails
    <3> QED
      BY <2>12, <3>1, Deletes DEF Fails
  <2>13. CASE UNCHANGED watchVars
    BY <2>13 DEF watchVars
  <2> QED
    BY <2>1, <2>2, <2>3, <2>4, <2>5, <2>6, <2>7, <2>8, <2>9, <2>10, <2>11, <2>12,
       <2>13, <2>14, <2>15 DEF WatchNext
<1> QED
  BY <1>1, <1>2, PTL DEF WatchSpec

\* Every variable of the page, of its timer and of its queue keeps its type.
THEOREM WatchTyping == WatchSpec => []WatchTypeOK
<1>1. WatchInv => WatchTypeOK
  BY DEF WatchInv
<1> QED
  BY <1>1, WatchHolds, PTL

\* Runs of the update start at least Interval apart: a timer that is due says that
\* the time has passed.
THEOREM UpdatesAreSpaced == WatchSpec => RunsAreSpaced
<1>1. WatchInv /\ [WatchNext]_watchVars => [armed /\ ~armed' => age = Interval]_watchVars
  <2> SUFFICES ASSUME WatchInv, [WatchNext]_watchVars, armed, ~armed' PROVE age = Interval
    OBVIOUS
  <2>1. TimerFires
    BY DEF WatchNext, watchVars, timerVars, BroadcastUpdate, BroadcastInsert, Opens,
           HubSubscribes, Tick, processWatcherMessage, throttle, Event, Refresh,
           ServerDraws, Responds, RespondsWithFiles, FilesLoaded, Fails
  <2> QED
    BY <2>1, WatchAssumption DEF TimerFires, WatchInv, WatchTypeOK
<1> QED
  BY <1>1, WatchHolds, PTL DEF WatchSpec, RunsAreSpaced

\* Nothing takes a control from the page or from the hub.
LEMMA StaysPresent ==
  ASSUME [WatchNext]_watchVars
  PROVE  present \subseteq present' /\ subscribed \subseteq subscribed' /\ (lost => lost')
<1> USE DEF serverVars, formVars
<1>1. ASSUME NEW row \in Rows, BroadcastUpdate(row)
      PROVE  UNCHANGED <<present, subscribed, lost>>
  BY <1>1 DEF BroadcastUpdate
<1>2. CASE BroadcastInsert
  BY <1>2 DEF BroadcastInsert
<1>3. CASE Opens
  BY <1>3 DEF Opens
<1>4. CASE HubSubscribes
  BY <1>4 DEF HubSubscribes
<1>5. CASE Tick
  BY <1>5 DEF Tick
<1>6. CASE processWatcherMessage
  BY <1>6 DEF processWatcherMessage
<1>7. CASE TimerFires
  BY <1>7 DEF TimerFires
<1>8. ASSUME NEW b \in BOOLEAN, Event(b)
      PROVE  UNCHANGED <<present, subscribed, lost>>
  BY <1>8 DEF Event
<1>9. ASSUME NEW c \in present, Refresh(c)
      PROVE  UNCHANGED <<present, subscribed, lost>>
  BY <1>9 DEF Refresh
<1>10. ASSUME NEW new \in SUBSET (Late \ present), ServerDraws(new)
       PROVE  UNCHANGED <<present, subscribed, lost>>
  BY <1>10 DEF ServerDraws
<1>11. CASE Responds
  BY <1>11 DEF Responds, processAjax2
<1>14. ASSUME NEW s \in Slots, RespondsWithFiles(s)
       PROVE  UNCHANGED <<present, subscribed, lost>>
  BY <1>14 DEF RespondsWithFiles
<1>15. ASSUME NEW s \in Slots, FilesLoaded(s)
       PROVE  present \subseteq present' /\ UNCHANGED <<subscribed, lost>>
  BY <1>15 DEF FilesLoaded, processAjax2
<1>12. CASE Fails
  BY <1>12 DEF Fails
<1>13. CASE UNCHANGED watchVars
  BY <1>13 DEF watchVars
<1> QED
  BY <1>1, <1>2, <1>3, <1>4, <1>5, <1>6, <1>7, <1>8, <1>9, <1>10, <1>11, <1>12, <1>13,
     <1>14, <1>15 DEF WatchNext

\* A message is among those of a sequence.
Among(m, messages) == \E i \in 1..Len(messages) : messages[i] = m

\* What is among the messages of either sequence is among those of both together.
LEMMA AmongBoth ==
  ASSUME NEW S, NEW s \in Seq(S), NEW t \in Seq(S), NEW m, Among(m, s) \/ Among(m, t)
  PROVE  Among(m, s \o t)
<1>1. ASSUME NEW i \in 1..Len(s), s[i] = m PROVE Among(m, s \o t)
  <2>1. i \in 1..Len(s \o t) /\ (s \o t)[i] = m
    BY <1>1
  <2> QED
    BY <2>1 DEF Among
<1>2. ASSUME NEW i \in 1..Len(t), t[i] = m PROVE Among(m, s \o t)
  <2>1. Len(s) + i \in 1..Len(s \o t) /\ (s \o t)[Len(s) + i] = m
    BY <1>2
  <2> QED
    BY <2>1 DEF Among
<1> QED
  BY <1>1, <1>2 DEF Among

\* A message that is not the first stays when the first is taken.
LEMMA AmongRest ==
  ASSUME NEW S, NEW s \in Seq(S), s # <<>>, NEW m, Among(m, s), m # Head(s)
  PROVE  Among(m, Tail(s))
<1>1. PICK i \in 1..Len(s) : s[i] = m
  BY DEF Among
<1>2. i # 1
  BY <1>1
<1>3. i - 1 \in 1..Len(Tail(s)) /\ Tail(s)[i - 1] = m
  BY <1>1, <1>2
<1> QED
  BY <1>3 DEF Among

\* A message that is sent on a subscribed channel is added to those before it.
LEMMA Tells ==
  ASSUME NEW s \in Seq(subscribed), NEW ch, NEW m \in subscribed, m = ch \/ Among(m, s)
  PROVE  s \o Published(ch) \in Seq(subscribed) /\ Among(m, s \o Published(ch))
<1>1. Published(ch) \in Seq(subscribed)
  BY GetsPublished
<1>2. m = ch => Among(m, Published(ch))
  BY DEF Among, Published
<1> QED
  BY <1>1, <1>2, AmongBoth

\* A step of the page or of the server's side that leaves a control stale leaves
\* its update under way.
LEMMA StaysUnderWay ==
  ASSUME WatchInv, [WatchNext]_watchVars, NEW c \in Controls, Follows(c), Stale(c)', ~lost',
         ~Overwrites(c)
  PROVE  UnderWay(c)'
<1> USE WatchAssumption DEF WatchInv, WatchTypeOK, serverVars, timerVars, ajaxVars, formVars
<1>0. /\ c \in present /\ watch[c] \in subscribed /\ ~lost
      /\ watch[c] \in Channels /\ Table \in Channels /\ Rows \subseteq Channels
      /\ Stale(c) => UnderWay(c)
  BY StaysPresent DEF Follows, Channels
<1>t. /\ Told(c) <=> Among(watch[c], mailbox)
      /\ Told(c)' <=> Among(watch[c], mailbox')
      /\ mailbox \in Seq(subscribed)
  BY DEF Told, Among
<1>1. ASSUME NEW row \in Rows, BroadcastUpdate(row) PROVE UnderWay(c)'
  <2>1. watch[c] \in {Table, row} \/ Told(c) => Told(c)'
    <3>1. mailbox' = mailbox \o Published(Table) \o Published(row)
      BY <1>1 DEF BroadcastUpdate
    <3>2. mailbox \o Published(Table) \in Seq(subscribed)
      BY <1>t, GetsPublished
    <3>3. watch[c] = Table \/ Told(c) => Among(watch[c], mailbox \o Published(Table))
      BY <1>0, <1>t, Tells
    <3> QED
      BY <1>0, <1>t, <3>1, <3>2, <3>3, Tells
  <2>2. CASE watch[c] \in {Table, row}
    BY <2>1, <2>2 DEF UnderWay
  <2>3. CASE watch[c] \notin {Table, row}
    <3>1. version'[watch[c]] = version[watch[c]] /\ UNCHANGED <<shown, present>>
      BY <1>0, <1>1, <2>3 DEF BroadcastUpdate
    <3>2. UnderWay(c)
      BY <1>0, <3>1 DEF Stale
    <3> QED
      BY <1>1, <2>1, <3>1, <3>2 DEF BroadcastUpdate, UnderWay
  <2> QED
    BY <2>2, <2>3
<1>2. CASE BroadcastInsert
  <2>1. watch[c] = Table \/ Told(c) => Told(c)'
    BY <1>0, <1>t, <1>2, Tells DEF BroadcastInsert
  <2>2. CASE watch[c] = Table
    BY <2>1, <2>2 DEF UnderWay
  <2>3. CASE watch[c] # Table
    <3>1. version'[watch[c]] = version[watch[c]] /\ UNCHANGED <<shown, present>>
      BY <1>0, <1>2, <2>3 DEF BroadcastInsert
    <3>2. UnderWay(c)
      BY <1>0, <3>1 DEF Stale
    <3> QED
      BY <1>2, <2>1, <3>1, <3>2 DEF BroadcastInsert, UnderWay
  <2> QED
    BY <2>2, <2>3
<1>3. CASE Opens
  BY <1>0, <1>3 DEF Opens, Stale, UnderWay, Told
<1>4. CASE HubSubscribes
  BY <1>0, <1>4 DEF HubSubscribes, Stale, UnderWay, Told
<1>5. CASE Tick
  BY <1>0, <1>5 DEF Tick, Stale, UnderWay, Told
<1>6. CASE processWatcherMessage
  <2>1. UnderWay(c) /\ armed' = TRUE
    BY <1>0, <1>6 DEF processWatcherMessage, throttle, Stale
  <2>2. CASE Told(c)
    <3>1. mailbox # <<>> /\ mailbox' = Tail(mailbox)
      BY <1>6 DEF processWatcherMessage
    <3>2. CASE watch[c] = Head(mailbox)
      <4>1. c \in refresh'
        BY <1>0, <1>6, <3>2 DEF processWatcherMessage
      <4> QED
        BY <2>1, <4>1 DEF UnderWay
    <3>3. CASE watch[c] # Head(mailbox)
      BY <1>t, <2>2, <3>1, <3>3, AmongRest DEF UnderWay
    <3> QED
      BY <3>2, <3>3
  <2>3. CASE ~Told(c)
    BY <1>6, <2>1, <2>3 DEF processWatcherMessage, UnderWay
  <2> QED
    BY <2>2, <2>3
<1>7. CASE TimerFires
  <2>1. UnderWay(c) /\ ~blockEvents
    BY <1>0, <1>7 DEF TimerFires, Stale
  <2>2. /\ UNCHANGED <<serverVars, refresh, loading>>
        /\ IF flight = "none" THEN send ELSE queue' = queue + 1 /\ UNCHANGED <<flight, drawn>>
    BY <1>7, <2>1 DEF TimerFires, postAjax
  <2>3. CASE Told(c)
    BY <2>2, <2>3 DEF UnderWay, Told
  <2>4. CASE c \in refresh
    BY <2>2, <2>4 DEF UnderWay, send
  <2>5. CASE ~Told(c) /\ c \notin refresh
    <3>1. flight = "none" => drawn = Nothing /\ DOMAIN Nothing = {}
      BY DEF Nothing
    <3> QED
      BY <2>1, <2>2, <2>5, <3>1 DEF UnderWay
  <2> QED
    BY <2>3, <2>4, <2>5
<1>8. ASSUME NEW b \in BOOLEAN, Event(b) PROVE UnderWay(c)'
  <2>1. UnderWay(c)
    BY <1>0, <1>8 DEF Event, Stale
  <2>2. /\ UNCHANGED <<serverVars, refresh, timerVars, loading>>
        /\ \/ UNCHANGED ajaxVars
           \/ flight = "none" /\ send /\ UNCHANGED queue
           \/ queue' = queue + 1 /\ UNCHANGED <<flight, drawn>>
    BY <1>8 DEF Event, postAjax
  <2>3. CASE Told(c)
    BY <2>2, <2>3 DEF UnderWay, Told
  <2>4. CASE c \in refresh
    BY <2>1, <2>2, <2>3, <2>4 DEF UnderWay, send
  <2>5. CASE ~Told(c) /\ c \notin refresh
    <3>1. flight = "none" => drawn = Nothing /\ DOMAIN Nothing = {}
      BY DEF Nothing
    <3> QED
      BY <2>1, <2>2, <2>5, <3>1 DEF UnderWay
  <2> QED
    BY <2>3, <2>4, <2>5
<1>9. ASSUME NEW d \in present, Refresh(d) PROVE UnderWay(c)'
  BY <1>0, <1>9 DEF Refresh, throttle, Stale, UnderWay, Told
<1>10. ASSUME NEW new \in SUBSET (Late \ present), ServerDraws(new) PROVE UnderWay(c)'
  BY <1>0, <1>10 DEF ServerDraws, Stale, UnderWay, Told
<1>11. CASE Responds
  <2>1. /\ UNCHANGED <<serverVars, refresh, timerVars, loading>> /\ next /\ flight = "handled"
        /\ shown'[c] = IF c \in DOMAIN drawn THEN drawn[c] ELSE shown[c]
    BY <1>0, <1>11 DEF Responds, processAjax2
  <2>2. UnderWay(c) /\ ~(c \in DOMAIN drawn /\ drawn[c] = version[watch[c]])
    BY <1>0, <2>1 DEF Stale
  <2>3. CASE Told(c)
    BY <2>1, <2>3 DEF UnderWay, Told
  <2>4. CASE c \in refresh /\ (armed \/ queue > 0)
    BY <2>1, <2>4 DEF UnderWay, next, send
  <2>5. CASE \E s \in Slots : c \in DOMAIN loading[s] /\ loading[s][c] = version[watch[c]]
    BY <2>1, <2>5 DEF UnderWay
  <2> QED
    BY <2>1, <2>2, <2>3, <2>4, <2>5 DEF UnderWay
<1>14. ASSUME NEW s \in Slots, RespondsWithFiles(s) PROVE UnderWay(c)'
  <2>1. /\ UNCHANGED <<serverVars, formVars, refresh, timerVars>> /\ next /\ flight = "handled"
        /\ loading[s] = Nothing /\ DOMAIN Nothing = {}
        /\ loading' = [loading EXCEPT ![s] = drawn]
    BY <1>14 DEF RespondsWithFiles, Nothing
  <2>2. UnderWay(c)
    BY <1>0, <2>1 DEF Stale
  <2>3. CASE Told(c)
    BY <2>1, <2>3 DEF UnderWay, Told
  <2>4. CASE c \in refresh /\ (armed \/ queue > 0)
    BY <2>1, <2>4 DEF UnderWay, next, send
  <2>5. CASE c \in DOMAIN drawn /\ drawn[c] = version[watch[c]]
    BY <2>1, <2>5 DEF UnderWay
  <2>6. CASE \E q \in Slots : c \in DOMAIN loading[q] /\ loading[q][c] = version[watch[c]]
    <3>1. PICK q \in Slots : c \in DOMAIN loading[q] /\ loading[q][c] = version[watch[c]]
      BY <2>6
    <3>2. loading'[q] = loading[q] /\ UNCHANGED version
      BY <2>1, <3>1
    <3> QED
      BY <3>1, <3>2 DEF UnderWay
  <2> QED
    BY <2>1, <2>2, <2>3, <2>4, <2>5, <2>6 DEF UnderWay
<1>15. ASSUME NEW s \in Slots, FilesLoaded(s) PROVE UnderWay(c)'
  <2>1. /\ UNCHANGED <<serverVars, refresh, timerVars, ajaxVars>>
        /\ loading' = [loading EXCEPT ![s] = Nothing]
        /\ shown'[c] = IF c \in DOMAIN loading[s] THEN loading[s][c] ELSE shown[c]
    BY <1>15 DEF FilesLoaded, processAjax2
  <2>2. c \in DOMAIN loading[s] => loading[s][c] >= shown[c] /\ loading[s][c] < version[watch[c]]
    BY <1>15, <2>1 DEF Overwrites, Stale
  <2>3. UnderWay(c)
    BY <1>0, <2>1, <2>2 DEF Stale
  <2>4. CASE \E q \in Slots : c \in DOMAIN loading[q] /\ loading[q][c] = version[watch[c]]
    <3>1. PICK q \in Slots : c \in DOMAIN loading[q] /\ loading[q][c] = version[watch[c]]
      BY <2>4
    <3>2. q # s
      BY <2>2, <3>1
    <3>3. loading'[q] = loading[q] /\ UNCHANGED version
      BY <2>1, <3>1, <3>2
    <3> QED
      BY <3>1, <3>3 DEF UnderWay
  <2>5. CASE ~\E q \in Slots : c \in DOMAIN loading[q] /\ loading[q][c] = version[watch[c]]
    BY <2>1, <2>3, <2>5 DEF UnderWay, Told
  <2> QED
    BY <2>4, <2>5
<1>12. CASE Fails
  BY <1>12 DEF Fails
<1>13. CASE UNCHANGED watchVars
  BY <1>0, <1>13 DEF watchVars, Stale, UnderWay, Told
<1> QED
  BY <1>1, <1>2, <1>3, <1>4, <1>5, <1>6, <1>7, <1>8, <1>9, <1>10, <1>11, <1>12, <1>13,
     <1>14, <1>15 DEF WatchNext

\* No note of an update is lost between message, timer, queue and response, unless
\* a response that waited for its files draws the control as it was before.
THEOREM PageKeepsFollowing == WatchSpec => KeepsFollowing
<1>1. WatchInv /\ [WatchNext]_watchVars
        => [\A c \in Controls : Follows(c) => Follows(c)' \/ Overwrites(c)]_watchVars
  <2> SUFFICES ASSUME WatchInv, [WatchNext]_watchVars, NEW c \in Controls, Follows(c),
                      ~Overwrites(c)
               PROVE  Follows(c)'
    OBVIOUS
  <2>1. c \in present' /\ watch[c] \in subscribed'
    BY StaysPresent DEF Follows
  <2>2. Stale(c)' => UnderWay(c)' \/ lost'
    BY StaysUnderWay
  <2> QED
    BY <2>1, <2>2 DEF Follows
<1> QED
  BY <1>1, WatchHolds, PTL DEF WatchSpec, KeepsFollowing
=============================================================================

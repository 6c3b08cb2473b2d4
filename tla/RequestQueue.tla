---------------------------- MODULE RequestQueue ----------------------------
(***************************************************************************)
(* What the ajax queue promises to the rest of the page, with no stages,   *)
(* no values, no commands and no failures: a request waits only while      *)
(* another is in flight, the one that has waited longest is sent in the    *)
(* same step in which one ends, and no request is sent again or is lost.   *)
(* A page without asynchronous requests has one in flight at a time, which *)
(* is how the other modules see the queue.  AjaxQueue refines this         *)
(* specification.                                                          *)
(***************************************************************************)
EXTENDS Naturals, Sequences

CONSTANTS Requests,      \* requests that events may post
          AsideAllowed   \* TRUE: some are sent beside the queue

VARIABLES waiting,   \* requests to be sent, in the order of their events
          flying,    \* requests that are sent and have not ended
          ended      \* requests that were answered or failed

vars == <<waiting, flying, ended>>

Init ==
  /\ waiting = <<>>
  /\ flying = {}
  /\ ended = {}

Fresh(r) ==
  /\ \A i \in 1..Len(waiting) : waiting[i] # r
  /\ r \notin flying \cup ended

\* An event posts a request, which is sent at once if nothing is in flight.
Post(r) ==
  /\ Fresh(r)
  /\ \/ flying = {} /\ flying' = {r} /\ UNCHANGED waiting
     \/ flying # {} /\ waiting' = Append(waiting, r) /\ UNCHANGED flying
  /\ UNCHANGED ended

PostAside(r) ==
  /\ AsideAllowed
  /\ Fresh(r)
  /\ flying' = flying \cup {r}
  /\ UNCHANGED <<waiting, ended>>

\* A request ends, one way or another, and makes room for the next.
End(r) ==
  /\ r \in flying
  /\ ended' = ended \cup {r}
  /\ \/ /\ waiting = <<>>
        /\ flying' = flying \ {r}
        /\ UNCHANGED waiting
     \/ /\ waiting # <<>>
        /\ flying' = (flying \ {r}) \cup {Head(waiting)}
        /\ waiting' = Tail(waiting)

Next == \E r \in Requests : Post(r) \/ PostAside(r) \/ End(r)

Spec == Init /\ [][Next]_vars
=============================================================================

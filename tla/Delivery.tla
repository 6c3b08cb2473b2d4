------------------------------ MODULE Delivery ------------------------------
(***************************************************************************)
(* What the websocket messenger promises its subscribers, with no hub, no  *)
(* pump and no buffer: publishing a message hands it, in one step, to      *)
(* every connection subscribed to its channel, and a connection that stays *)
(* up is given its messages in the order they were published, each once.   *)
(* Hub refines this specification.                                         *)
(***************************************************************************)
EXTENDS Naturals, Sequences

CONSTANTS Conns,      \* the connections
          Channels,   \* the channels
          Messages    \* what can be published: records with a field ch

VARIABLES subs,       \* subs[c]: the channels c is subscribed to
          mailbox,    \* mailbox[c]: what has been published to c, not yet delivered
          received,   \* received[c]: what has been delivered to c
          broken      \* broken[c]: the connection will deliver nothing more

vars == <<subs, mailbox, received, broken>>

Init ==
  /\ subs = [c \in Conns |-> {}]
  /\ mailbox = [c \in Conns |-> <<>>]
  /\ received = [c \in Conns |-> <<>>]
  /\ broken = [c \in Conns |-> FALSE]

Subscribe(c, ch) ==
  /\ subs' = [subs EXCEPT ![c] = @ \cup {ch}]
  /\ UNCHANGED <<mailbox, received, broken>>

Leave(c) ==
  /\ subs' = [subs EXCEPT ![c] = {}]
  /\ UNCHANGED <<mailbox, received, broken>>

\* One atomic fan-out to the subscribers of the message's channel.
Publish(m) ==
  /\ mailbox' = [c \in Conns |-> IF m.ch \in subs[c] THEN Append(mailbox[c], m)
                                                     ELSE mailbox[c]]
  /\ UNCHANGED <<subs, received, broken>>

\* A live connection is given the oldest k messages of its mailbox.
Deliver(c) ==
  /\ ~ broken[c]
  /\ \E k \in 1..Len(mailbox[c]) :
       /\ received' = [received EXCEPT ![c] = @ \o SubSeq(mailbox[c], 1, k)]
       /\ mailbox' = [mailbox EXCEPT ![c] = SubSeq(@, k + 1, Len(@))]
  /\ UNCHANGED <<subs, broken>>

\* A connection fails; the k oldest messages, those being written, are lost.
Break(c) ==
  /\ broken' = [broken EXCEPT ![c] = TRUE]
  /\ \E k \in 0..Len(mailbox[c]) :
       mailbox' = [mailbox EXCEPT ![c] = SubSeq(@, k + 1, Len(@))]
  /\ UNCHANGED <<subs, received>>

Next ==
  \/ \E c \in Conns, ch \in Channels : Subscribe(c, ch)
  \/ \E c \in Conns : Leave(c) \/ Deliver(c) \/ Break(c)
  \/ \E m \in Messages : Publish(m)

Spec == Init /\ [][Next]_vars

\* A connection that is not broken is eventually given what waits for it.
Delivered(c) == WF_vars(Deliver(c))

FairSpec == Spec /\ \A c \in Conns : Delivered(c)
=============================================================================

-------------------------------- MODULE Hub --------------------------------
(***************************************************************************)
(* The websocket messenger: the hub goroutine (messenger/ws/hub.go) that   *)
(* owns the tables of clients and channels, and for every connection its   *)
(* Client with a read pump and a write pump (messenger/ws/client.go).      *)
(*                                                                         *)
(* The Go channels register, unregister, send and subscribe are            *)
(* unbuffered: a goroutine that sends on one of them is blocked until the  *)
(* hub is back at its select, and the hub then runs the whole case.  The   *)
(* exception is the case send, whose loop over the subscribed clients      *)
(* blocks on each client's own buffer (hub.go:109), so it is one step per  *)
(* client.  hubTodo is the set of client IDs the loop has still to visit;  *)
(* the hub is at its select exactly when hubTodo is empty.                 *)
(*                                                                         *)
(* A map of the code that has no key is here a function that has the value *)
(* None (clients) or the empty set (channels: unsubscribeChannel deletes   *)
(* the entry it empties, so an absent entry and an empty one are never     *)
(* told apart).                                                            *)
(***************************************************************************)
EXTENDS Naturals, Sequences, FiniteSets

CONSTANTS Conns,        \* Client objects, one per accepted connection
          Ids,          \* client IDs; a page that reconnects keeps its ID
          Channels,     \* names of channels
          Senders,      \* goroutines of the application that call Send
          None,         \* no client, no ID, no message
          BufCap,       \* capacity of Client.send (256 in client.go:139)
          MaxSend,      \* bound on the number of messages ever sent
          MaxRead,      \* bound on the messages one browser sends
          Requests,     \* subscribe lists a browser sends: sequences of channels
          ClientSends,  \* channels a browser sends messages to
          PeersFail     \* TRUE: browsers may go away or stop reading

ASSUME ConstantsAssumption ==
  /\ None \notin Conns \cup Ids
  /\ Senders \cap Conns = {}
  /\ BufCap \in Nat \ {0}
  /\ MaxSend \in Nat
  /\ MaxRead \in Nat
  /\ Requests \subseteq Seq(Channels)
  /\ ClientSends \subseteq Channels
  /\ PeersFail \in BOOLEAN

Message == [ch : Channels, n : 1..MaxSend]

VARIABLES
  clients,    \* hub.clients: the Client registered under an ID, or None
  channels,   \* hub.channels: the IDs subscribed to a channel
  subs,       \* Client.channels
  clientID,   \* Client.clientID
  buf,        \* Client.send, the buffered channel to the write pump
  hubMsg,     \* the message the hub is fanning out
  hubTodo,    \* the IDs that loop has not visited
  rd,         \* where the read pump (and, before it, serveWs) is
  asked,      \* subscriptions the read pump has still to pass to the hub
  reads,      \* number of browser messages read
  wr,         \* where the write pump is
  batch,      \* the messages the write pump is writing
  isOpen,     \* the network connection works
  pending,    \* the message a sender is blocked on, or None
  sent,       \* number of messages ever sent; numbers them
  received    \* what has been written to the browser

hubVars == <<clients, channels, subs, hubMsg, hubTodo>>
readVars == <<clientID, rd, asked, reads>>
writeVars == <<wr, batch, received>>
vars == <<hubVars, readVars, writeVars, buf, isOpen, pending, sent>>

Init ==
  /\ clients = [id \in Ids |-> None]
  /\ channels = [ch \in Channels |-> {}]
  /\ subs = [c \in Conns |-> {}]
  /\ clientID = [c \in Conns |-> None]
  /\ buf = [c \in Conns |-> <<>>]
  /\ hubMsg = None
  /\ hubTodo = {}
  /\ rd = [c \in Conns |-> "none"]
  /\ asked = [c \in Conns |-> <<>>]
  /\ reads = [c \in Conns |-> 0]
  /\ wr = [c \in Conns |-> "none"]
  /\ batch = [c \in Conns |-> <<>>]
  /\ isOpen = [c \in Conns |-> FALSE]
  /\ pending = [s \in Senders \cup Conns |-> None]
  /\ sent = 0
  /\ received = [c \in Conns |-> <<>>]

(***************************************************************************)
(* The tables after unregisterClient(id), that is after unsubscribeChannel *)
(* of every channel of the client and the deletion of the client itself.   *)
(* All three are no-ops when no client has the ID (hub.go:139).            *)
(***************************************************************************)
unsubscribeChannel(id, ch) ==
  IF clients[id] # None /\ ch \in subs[clients[id]]
    THEN channels[ch] \ {id} ELSE channels[ch]

channelsWithout(id) == [ch \in Channels |-> unsubscribeChannel(id, ch)]

subsWithout(id) == [c \in Conns |-> IF c = clients[id] THEN {} ELSE subs[c]]

AtSelect == hubTodo = {}

-----------------------------------------------------------------------------
(* Connections come and go *)

\* serveWs: a browser connects with an ID and the handler blocks on register.
serveWs(c, id) ==
  /\ rd[c] = "none"
  /\ rd' = [rd EXCEPT ![c] = "registering"]
  /\ clientID' = [clientID EXCEPT ![c] = id]
  /\ isOpen' = [isOpen EXCEPT ![c] = TRUE]
  /\ UNCHANGED <<hubVars, asked, reads, writeVars, buf, pending, sent>>

\* run, case register: an ID that is already registered is unregistered
\* first.  serveWs then starts the two pumps.
HubRegister(c) ==
  /\ AtSelect
  /\ rd[c] = "registering"
  /\ channels' = channelsWithout(clientID[c])
  /\ subs' = subsWithout(clientID[c])
  /\ clients' = [clients EXCEPT ![clientID[c]] = c]
  /\ rd' = [rd EXCEPT ![c] = "reading"]
  /\ wr' = [wr EXCEPT ![c] = "idle"]
  /\ UNCHANGED <<clientID, asked, reads, buf, hubMsg, hubTodo, batch, isOpen,
                 pending, sent, received>>

\* The browser goes away (page closed, network lost).
PeerCloses(c) ==
  /\ PeersFail
  /\ isOpen[c]
  /\ isOpen' = [isOpen EXCEPT ![c] = FALSE]
  /\ UNCHANGED <<hubVars, readVars, writeVars, buf, pending, sent>>

-----------------------------------------------------------------------------
(* The read pump *)

ReadIdle(c) == rd[c] = "reading" /\ asked[c] = <<>> /\ pending[c] = None

\* ReadMessage returns a message and handleMessage starts on it: a list of
\* channels to subscribe to, and possibly a message to send on a channel.
ReadMessage(c, list, ch) ==
  /\ ReadIdle(c)
  /\ isOpen[c]
  /\ reads[c] < MaxRead
  /\ reads' = [reads EXCEPT ![c] = @ + 1]
  /\ asked' = [asked EXCEPT ![c] = list]
  /\ IF ch = None
       THEN UNCHANGED <<pending, sent>>
       ELSE /\ sent < MaxSend
            /\ sent' = sent + 1
            /\ pending' = [pending EXCEPT ![c] = [ch |-> ch, n |-> sent + 1]]
  /\ UNCHANGED <<hubVars, clientID, rd, writeVars, buf, isOpen>>

\* run, case subscribe: the next channel of the list.  subscribeChannel acts
\* on the client that has the ID now, whichever connection asked.
HubSubscribe(c) ==
  /\ AtSelect
  /\ asked[c] # <<>>
  /\ asked' = [asked EXCEPT ![c] = Tail(@)]
  /\ LET id == clientID[c]
         ch == Head(asked[c])
     IN  IF clients[id] = None
           THEN UNCHANGED <<subs, channels>>
           ELSE /\ subs' = [subs EXCEPT ![clients[id]] = @ \cup {ch}]
                /\ channels' = [channels EXCEPT ![ch] = @ \cup {id}]
  /\ UNCHANGED <<clients, hubMsg, hubTodo, clientID, rd, reads, writeVars, buf,
                 isOpen, pending, sent>>

\* ReadMessage fails: the connection is closed, or no pong came in time.  The
\* pump is then blocked on unregister.
ReadFails(c) ==
  /\ ReadIdle(c)
  /\ ~ isOpen[c] \/ PeersFail
  /\ rd' = [rd EXCEPT ![c] = "leaving"]
  /\ UNCHANGED <<hubVars, clientID, asked, reads, writeVars, buf, isOpen,
                 pending, sent>>

\* Mutant of HubUnregister: the client stays in hub.clients.
HubUnregisterKeeps(c) ==
  /\ AtSelect
  /\ rd[c] = "leaving"
  /\ channels' = channelsWithout(clientID[c])
  /\ subs' = subsWithout(clientID[c])
  /\ rd' = [rd EXCEPT ![c] = "closing"]
  /\ UNCHANGED <<clients, clientID, asked, reads, writeVars, buf, hubMsg,
                 hubTodo, isOpen, pending, sent>>

\* run, case unregister: by the ID of the client that leaves.
HubUnregister(c) ==
  /\ AtSelect
  /\ rd[c] = "leaving"
  /\ channels' = channelsWithout(clientID[c])
  /\ subs' = subsWithout(clientID[c])
  /\ clients' = [clients EXCEPT ![clientID[c]] = None]
  /\ rd' = [rd EXCEPT ![c] = "closing"]
  /\ UNCHANGED <<clientID, asked, reads, writeVars, buf, hubMsg, hubTodo,
                 isOpen, pending, sent>>

\* The second statement of readPump's deferred function.
ReadPumpCloses(c) ==
  /\ rd[c] = "closing"
  /\ rd' = [rd EXCEPT ![c] = "done"]
  /\ isOpen' = [isOpen EXCEPT ![c] = FALSE]
  /\ UNCHANGED <<hubVars, clientID, asked, reads, writeVars, buf, pending, sent>>

-----------------------------------------------------------------------------
(* Sending *)

\* WsMessenger.Send called by the application: it blocks until the hub takes
\* the message.
Send(s, ch) ==
  /\ pending[s] = None
  /\ sent < MaxSend
  /\ sent' = sent + 1
  /\ pending' = [pending EXCEPT ![s] = [ch |-> ch, n |-> sent + 1]]
  /\ UNCHANGED <<hubVars, readVars, writeVars, buf, isOpen>>

\* run, case send: the hub takes a message and starts the loop over the
\* channel's clients.  A read pump sends only after its subscriptions.
HubTakes(s) ==
  /\ AtSelect
  /\ pending[s] # None
  /\ s \in Conns => asked[s] = <<>>
  /\ hubMsg' = pending[s]
  /\ hubTodo' = channels[pending[s].ch]
  /\ pending' = [pending EXCEPT ![s] = None]
  /\ UNCHANGED <<clients, channels, subs, readVars, writeVars, buf, isOpen, sent>>

\* Mutant of HubFansOut: the hub waits for one free place too many.
HubWaitsForTwo(id) ==
  /\ id \in hubTodo
  /\ IF clients[id] = None
       THEN UNCHANGED buf
       ELSE /\ Len(buf[clients[id]]) + 1 < BufCap
            /\ buf' = [buf EXCEPT ![clients[id]] = Append(@, hubMsg)]
  /\ hubTodo' = hubTodo \ {id}
  /\ UNCHANGED <<clients, channels, subs, hubMsg, readVars, writeVars, isOpen,
                 pending, sent>>

\* One iteration of that loop, in the arbitrary order of a Go map.  The hub
\* waits here while the client's buffer is full.
HubFansOut(id) ==
  /\ id \in hubTodo
  /\ IF clients[id] = None
       THEN UNCHANGED buf
       ELSE /\ Len(buf[clients[id]]) < BufCap
            /\ buf' = [buf EXCEPT ![clients[id]] = Append(@, hubMsg)]
  /\ hubTodo' = hubTodo \ {id}
  /\ UNCHANGED <<clients, channels, subs, hubMsg, readVars, writeVars, isOpen,
                 pending, sent>>

-----------------------------------------------------------------------------
(* The write pump *)

\* The pump receives one message ...
WriteTakes(c) ==
  /\ wr[c] = "idle"
  /\ buf[c] # <<>>
  /\ batch' = [batch EXCEPT ![c] = <<Head(buf[c])>>]
  /\ buf' = [buf EXCEPT ![c] = Tail(@)]
  /\ wr' = [wr EXCEPT ![c] = "gathering"]
  /\ UNCHANGED <<hubVars, readVars, isOpen, pending, sent, received>>

\* Mutants of WriteGathers: it receives once more than there are messages, and so
\* waits for the next; the messages behind the first are put before it.
WriteGathersWaits(c) ==
  /\ wr[c] = "gathering"
  /\ buf[c] # <<>>
  /\ batch' = [batch EXCEPT ![c] = @ \o buf[c]]
  /\ buf' = [buf EXCEPT ![c] = <<>>]
  /\ wr' = [wr EXCEPT ![c] = "writing"]
  /\ UNCHANGED <<hubVars, readVars, isOpen, pending, sent, received>>

WriteGathersFirst(c) ==
  /\ wr[c] = "gathering"
  /\ batch' = [batch EXCEPT ![c] = buf[c] \o @]
  /\ buf' = [buf EXCEPT ![c] = <<>>]
  /\ wr' = [wr EXCEPT ![c] = "writing"]
  /\ UNCHANGED <<hubVars, readVars, isOpen, pending, sent, received>>

\* ... and adds those that are queued behind it.
WriteGathers(c) ==
  /\ wr[c] = "gathering"
  /\ batch' = [batch EXCEPT ![c] = @ \o buf[c]]
  /\ buf' = [buf EXCEPT ![c] = <<>>]
  /\ wr' = [wr EXCEPT ![c] = "writing"]
  /\ UNCHANGED <<hubVars, readVars, isOpen, pending, sent, received>>

\* NextWriter, Write and Close succeed.
WriteSucceeds(c) ==
  /\ wr[c] = "writing"
  /\ isOpen[c]
  /\ received' = [received EXCEPT ![c] = @ \o batch[c]]
  /\ batch' = [batch EXCEPT ![c] = <<>>]
  /\ wr' = [wr EXCEPT ![c] = "idle"]
  /\ UNCHANGED <<hubVars, readVars, buf, isOpen, pending, sent>>

\* A write, or a ping while the pump is idle, fails: the connection is closed,
\* or the browser did not read for WriteWait.  The pump returns and closes
\* the connection; nothing is ever taken from Client.send again.
WriteFails(c) ==
  /\ wr[c] \in {"idle", "writing"}
  /\ ~ isOpen[c] \/ PeersFail
  /\ wr' = [wr EXCEPT ![c] = "done"]
  /\ batch' = [batch EXCEPT ![c] = <<>>]
  /\ isOpen' = [isOpen EXCEPT ![c] = FALSE]
  /\ UNCHANGED <<hubVars, readVars, buf, pending, sent, received>>

-----------------------------------------------------------------------------
HubStep ==
  \/ \E c \in Conns : HubRegister(c) \/ HubSubscribe(c) \/ HubUnregister(c)
  \/ \E s \in Senders \cup Conns : HubTakes(s)
  \/ \E id \in Ids : HubFansOut(id)

ReadPumpStep ==
  \/ \E c \in Conns, list \in Requests, ch \in ClientSends \cup {None} :
       ReadMessage(c, list, ch)
  \/ \E c \in Conns : ReadFails(c) \/ ReadPumpCloses(c)

WritePumpStep ==
  \E c \in Conns :
    WriteTakes(c) \/ WriteGathers(c) \/ WriteSucceeds(c) \/ WriteFails(c)

OutsideStep ==
  \/ \E c \in Conns, id \in Ids : serveWs(c, id)
  \/ \E c \in Conns : PeerCloses(c)
  \/ \E s \in Senders, ch \in Channels : Send(s, ch)

Next == HubStep \/ ReadPumpStep \/ WritePumpStep \/ OutsideStep

Spec == Init /\ [][Next]_vars

(***************************************************************************)
(* Every goroutine that can run keeps running.  Browsers owe nothing: they *)
(* need not connect, write or close, and a working connection need not     *)
(* fail; but reads and writes on a connection that is closed do return an  *)
(* error.  Weak fairness of the hub's cases is enough although Go's select *)
(* chooses among them at random, because the number of requests is         *)
(* bounded: a case that stays ready is eventually the only one.            *)
(***************************************************************************)
Fairness ==
  /\ \A c \in Conns :
       /\ WF_vars(HubRegister(c)) /\ WF_vars(HubSubscribe(c))
       /\ WF_vars(HubUnregister(c))
       /\ WF_vars(~ isOpen[c] /\ ReadFails(c)) /\ WF_vars(ReadPumpCloses(c))
       /\ WF_vars(WriteTakes(c)) /\ WF_vars(WriteGathers(c))
       /\ WF_vars(WriteSucceeds(c)) /\ WF_vars(~ isOpen[c] /\ WriteFails(c))
  /\ \A s \in Senders \cup Conns : WF_vars(HubTakes(s))
  /\ \A id \in Ids : WF_vars(HubFansOut(id))

FairSpec == Spec /\ Fairness
-----------------------------------------------------------------------------
(* Properties *)

TypeOK ==
  /\ clients \in [Ids -> Conns \cup {None}]
  /\ channels \in [Channels -> SUBSET Ids]
  /\ subs \in [Conns -> SUBSET Channels]
  /\ clientID \in [Conns -> Ids \cup {None}]
  /\ buf \in [Conns -> Seq(Message)]
  /\ \A c \in Conns : Len(buf[c]) <= BufCap
  /\ hubMsg \in Message \cup {None}
  /\ hubTodo \in SUBSET Ids
  /\ hubTodo # {} => hubMsg \in Message
  /\ rd \in [Conns -> {"none", "registering", "reading", "leaving", "closing", "done"}]
  /\ asked \in [Conns -> Seq(Channels)]
  /\ reads \in [Conns -> 0..MaxRead]
  /\ wr \in [Conns -> {"none", "idle", "gathering", "writing", "done"}]
  /\ batch \in [Conns -> Seq(Message)]
  /\ isOpen \in [Conns -> BOOLEAN]
  /\ pending \in [Senders \cup Conns -> Message \cup {None}]
  /\ sent \in 0..MaxSend
  /\ received \in [Conns -> Seq(Message)]

\* A client is registered under its own ID only, and only while its read pump
\* runs: once the pump has unregistered, the hub will not send to it again.
Registered ==
  \A id \in Ids :
    clients[id] # None => /\ clientID[clients[id]] = id
                          /\ rd[clients[id]] \in {"reading", "leaving"}

\* The two tables the hub keeps in step, hub.channels and Client.channels, say
\* the same thing of every ID, whatever order clients register again,
\* subscribe and unregister in.
Mirror ==
  \A id \in Ids, ch \in Channels :
    id \in channels[ch] <=> clients[id] # None /\ ch \in subs[clients[id]]

\* A client the hub has dropped or replaced keeps no subscription.
DroppedHasNone ==
  \A c \in Conns : (\A id \in Ids : clients[id] # c) => subs[c] = {}

\* While the hub is in the loop of case send, every ID it has still to visit is
\* registered and subscribed: no subscriber goes away between the start of
\* the fan-out and its own turn (the test at hub.go:108 never fails).
FanOutComplete ==
  \A id \in hubTodo :
    clients[id] # None /\ hubMsg.ch \in subs[clients[id]]

\* The hub's tables agree, in the middle of a fan-out too.  None of the four parts
\* is inductive without the others.
Tables == Registered /\ Mirror /\ DroppedHasNone /\ FanOutComplete

\* Only a connection that has been accepted has an ID, and only a running read
\* pump has subscriptions to pass on (used by the proofs).
Started ==
  \A c \in Conns : /\ rd[c] # "none" => clientID[c] \in Ids
                   /\ asked[c] # <<>> => rd[c] = "reading"

\* What the hub and the pumps do, seen from the subscribers, is atomic, ordered
\* delivery: a connection's mailbox is what its write pump is writing, then
\* its buffer, then the message of a fan-out that has not reached it yet.
onItsWay(c) == IF \E id \in hubTodo : clients[id] = c THEN <<hubMsg>> ELSE <<>>

mailbox == [c \in Conns |-> batch[c] \o buf[c] \o onItsWay(c)]

broken == [c \in Conns |-> wr[c] = "done"]

Subscribers == INSTANCE Delivery WITH Messages <- Message

DeliversInOrder == Subscribers!Spec

\* A connection whose write pump has given up (a write or a ping failed) is
\* taken out of the hub's tables.
DeadIsUnregistered ==
  \A c \in Conns : wr[c] = "done" ~> \A id \in Ids : clients[id] # c

\* The hub is sending to a client whose write pump has returned and whose buffer
\* is full.
OnDead == \E id \in hubTodo : /\ wr[clients[id]] = "done"
                              /\ Len(buf[clients[id]]) = BufCap

\* The hub stays away from its select for good only in that case; slow
\* browsers, senders and reconnections alone never stop it.
StallsOnlyOnDead == []<>AtSelect \/ <>[]OnDead

\* In the other cases a message published on a channel reaches every connection
\* that is subscribed to it, unless that connection itself fails.
DeliversUnlessStalled == (\A c \in Conns : Subscribers!Delivered(c)) \/ <>[]OnDead

\* An ID for which a connection is being read is registered.
LiveIsRegistered ==
  \A c \in Conns : rd[c] = "reading" => clients[clientID[c]] # None

\* When the hub drops or replaces a client it closes the client's channel, so
\* that the write pump stops.
DroppedIsClosed ==
  \A c \in Conns :
    (rd[c] = "reading" /\ clients[clientID[c]] # c) ~> wr[c] = "done"
=============================================================================

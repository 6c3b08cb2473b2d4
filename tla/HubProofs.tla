----------------------------- MODULE HubProofs -----------------------------
(***************************************************************************)
(* For any number of connections, IDs, channels and senders and any buffer *)
(* capacity: the hub's tables are well typed and consistent in every       *)
(* reachable state, and the hub and its pumps implement Delivery.          *)
(***************************************************************************)
EXTENDS Hub, SequenceTheorems, TLAPS

\* A goroutine waits on the hub only for a connection that has been accepted and
\* has an ID; with that, no step of the hub, of a pump, of a sender or of a
\* browser leaves the types of the variables.
THEOREM Typing == Spec => [](TypeOK /\ Started)
<1>1. Init => TypeOK /\ Started
  BY ConstantsAssumption DEF Init, TypeOK, Started
<1>2. TypeOK /\ Started /\ [Next]_vars => TypeOK'
  <2> SUFFICES ASSUME TypeOK, Started, [Next]_vars PROVE TypeOK'
    OBVIOUS
  <2> USE ConstantsAssumption DEF TypeOK, hubVars, readVars, writeVars
  <2>1. ASSUME NEW c \in Conns, NEW id \in Ids, serveWs(c, id) PROVE TypeOK'
    BY <2>1 DEF serveWs
  <2>2. ASSUME NEW c \in Conns, PeerCloses(c) PROVE TypeOK'
    BY <2>2 DEF PeerCloses
  <2>3. ASSUME NEW c \in Conns, NEW list \in Requests,
               NEW ch \in ClientSends \cup {None}, ReadMessage(c, list, ch)
        PROVE TypeOK'
    <3>1. list \in Seq(Channels) /\ reads'[c] \in 0..MaxRead
      BY <2>3 DEF ReadMessage
    <3>2. CASE ch = None
      BY <2>3, <3>1, <3>2 DEF ReadMessage
    <3>3. CASE ch # None
      <4>1. [ch |-> ch, n |-> sent + 1] \in Message /\ sent + 1 \in 0..MaxSend
        BY <2>3, <3>3 DEF ReadMessage, Message
      <4> DEFINE m == [ch |-> ch, n |-> sent + 1]
      <4>0. sent' = sent + 1 /\ pending' = [pending EXCEPT ![c] = m]
        BY <2>3, <3>3 DEF ReadMessage
      <4>2. sent' \in 0..MaxSend /\ pending' \in [Senders \cup Conns -> Message \cup {None}]
        <5> m \in Message
          BY <4>1
        <5> HIDE DEF m
        <5> QED
          BY <4>0, <4>1
      <4>3. /\ asked' \in [Conns -> Seq(Channels)]
            /\ reads' \in [Conns -> 0..MaxRead]
        BY <2>3, <3>1 DEF ReadMessage
      <4> QED
        BY <2>3, <4>2, <4>3 DEF ReadMessage
    <3> QED
      BY <3>2, <3>3
  <2>4. ASSUME NEW c \in Conns, ReadFails(c) PROVE TypeOK'
    BY <2>4 DEF ReadFails
  <2>5. ASSUME NEW c \in Conns, ReadPumpCloses(c) PROVE TypeOK'
    BY <2>5 DEF ReadPumpCloses
  <2>6. ASSUME NEW s \in Senders, NEW ch \in Channels, Send(s, ch) PROVE TypeOK'
    <3>1. [ch |-> ch, n |-> sent + 1] \in Message /\ sent + 1 \in 0..MaxSend
      BY <2>6 DEF Send, Message
    <3> QED
      BY <2>6, <3>1 DEF Send
  <2>7. ASSUME NEW c \in Conns, HubRegister(c) PROVE TypeOK'
    BY <2>7 DEF HubRegister, channelsWithout, unsubscribeChannel, subsWithout
  <2>8. ASSUME NEW c \in Conns, HubSubscribe(c) PROVE TypeOK'
    <3>1. /\ Head(asked[c]) \in Channels /\ Tail(asked[c]) \in Seq(Channels)
          /\ clientID[c] \in Ids
      BY <2>8 DEF HubSubscribe, Started
    <3>2. asked' \in [Conns -> Seq(Channels)]
      BY <2>8, <3>1 DEF HubSubscribe
    <3>3. subs' \in [Conns -> SUBSET Channels] /\ channels' \in [Channels -> SUBSET Ids]
      <4>1. CASE clients[clientID[c]] = None
        BY <2>8, <4>1 DEF HubSubscribe
      <4>2. CASE clients[clientID[c]] # None
        <5>1. /\ subs' = [subs EXCEPT ![clients[clientID[c]]] = @ \cup {Head(asked[c])}]
              /\ channels' = [channels EXCEPT ![Head(asked[c])] = @ \cup {clientID[c]}]
          BY <2>8, <4>2 DEF HubSubscribe
        <5> QED
          BY <3>1, <4>2, <5>1
      <4> QED
        BY <4>1, <4>2
    <3> QED
      BY <2>8, <3>2, <3>3 DEF HubSubscribe
  <2>9. ASSUME NEW c \in Conns, HubUnregister(c) PROVE TypeOK'
    BY <2>9 DEF HubUnregister, channelsWithout, unsubscribeChannel, subsWithout
  <2>10. ASSUME NEW s \in Senders \cup Conns, HubTakes(s) PROVE TypeOK'
    <3>1. pending[s] \in Message /\ pending[s].ch \in Channels
      BY <2>10 DEF HubTakes, Message
    <3> QED
      BY <2>10, <3>1 DEF HubTakes
  <2>11. ASSUME NEW id \in Ids, HubFansOut(id) PROVE TypeOK'
    <3>1. hubTodo' \in SUBSET Ids /\ hubMsg \in Message
      BY <2>11 DEF HubFansOut
    <3>2. CASE clients[id] = None
      BY <2>11, <3>1, <3>2 DEF HubFansOut
    <3>3. CASE clients[id] # None
      <4>1. clients[id] \in Conns /\ Append(buf[clients[id]], hubMsg) \in Seq(Message)
        BY <3>1, <3>3
      <4>2. buf' = [buf EXCEPT ![clients[id]] = Append(@, hubMsg)]
        BY <2>11, <3>3 DEF HubFansOut
      <4>3. Len(buf[clients[id]]) < BufCap
        BY <2>11, <3>3 DEF HubFansOut
      <4>4. Len(Append(buf[clients[id]], hubMsg)) = Len(buf[clients[id]]) + 1
        BY <3>1, <4>1
      <4>5. /\ buf' \in [Conns -> Seq(Message)]
            /\ \A c \in Conns : Len(buf'[c]) <= BufCap
        BY <4>1, <4>2, <4>3, <4>4
      <4> QED
        BY <2>11, <3>1, <4>5 DEF HubFansOut
    <3> QED
      BY <3>2, <3>3
  <2>12. ASSUME NEW c \in Conns, WriteTakes(c) PROVE TypeOK'
    <3>1. /\ <<Head(buf[c])>> \in Seq(Message)
          /\ Tail(buf[c]) \in Seq(Message)
          /\ Len(Tail(buf[c])) <= BufCap
      BY <2>12 DEF WriteTakes
    <3> QED
      BY <2>12, <3>1 DEF WriteTakes
  <2>13. ASSUME NEW c \in Conns, WriteGathers(c) PROVE TypeOK'
    <3>1. batch[c] \o buf[c] \in Seq(Message)
      OBVIOUS
    <3> QED
      BY <2>13, <3>1 DEF WriteGathers
  <2>14. ASSUME NEW c \in Conns, WriteSucceeds(c) PROVE TypeOK'
    <3>1. received[c] \o batch[c] \in Seq(Message)
      OBVIOUS
    <3> QED
      BY <2>14, <3>1 DEF WriteSucceeds
  <2>15. ASSUME NEW c \in Conns, WriteFails(c) PROVE TypeOK'
    BY <2>15 DEF WriteFails
  <2>16. CASE UNCHANGED vars
    BY <2>16 DEF vars
  <2> QED
    BY <2>1, <2>2, <2>3, <2>4, <2>5, <2>6, <2>7, <2>8, <2>9, <2>10, <2>11,
       <2>12, <2>13, <2>14, <2>15, <2>16
    DEF Next, HubStep, ReadPumpStep, WritePumpStep, OutsideStep
<1>3. TypeOK /\ Started /\ [Next]_vars => Started'
  <2> SUFFICES ASSUME TypeOK, Started, [Next]_vars PROVE Started'
    OBVIOUS
  <2> USE DEF TypeOK, Started, hubVars, readVars, writeVars
  <2>1. ASSUME NEW c \in Conns,
               \/ HubRegister(c) \/ HubSubscribe(c) \/ HubUnregister(c)
               \/ ReadFails(c) \/ ReadPumpCloses(c) \/ PeerCloses(c)
        PROVE  Started'
    BY <2>1 DEF HubRegister, HubSubscribe, HubUnregister, ReadFails, ReadIdle,
                ReadPumpCloses, PeerCloses
  <2>2. ASSUME NEW c \in Conns,
               \/ WriteTakes(c) \/ WriteGathers(c)
               \/ WriteSucceeds(c) \/ WriteFails(c)
        PROVE  Started'
    BY <2>2 DEF WriteTakes, WriteGathers, WriteSucceeds, WriteFails
  <2>3. ASSUME NEW c \in Conns, NEW id \in Ids, serveWs(c, id) PROVE Started'
    BY <2>3 DEF serveWs
  <2>4. ASSUME NEW c \in Conns, NEW list \in Requests,
               NEW ch \in ClientSends \cup {None}, ReadMessage(c, list, ch)
        PROVE  Started'
    BY <2>4 DEF ReadMessage, ReadIdle
  <2>5. ASSUME NEW s \in Senders \cup Conns, HubTakes(s) PROVE Started'
    BY <2>5 DEF HubTakes
  <2>6. ASSUME NEW id \in Ids, HubFansOut(id) PROVE Started'
    BY <2>6 DEF HubFansOut
  <2>7. ASSUME NEW s \in Senders, NEW ch \in Channels, Send(s, ch) PROVE Started'
    BY <2>7 DEF Send
  <2>8. CASE UNCHANGED vars
    BY <2>8 DEF vars
  <2> QED
    BY <2>1, <2>2, <2>3, <2>4, <2>5, <2>6, <2>7, <2>8
    DEF Next, HubStep, ReadPumpStep, WritePumpStep, OutsideStep
<1> QED
  BY <1>1, <1>2, <1>3, PTL DEF Spec

\* A step of a goroutine other than the hub cannot disturb the hub's tables, as
\* long as it leaves the ID and the read pump of a registered client alone.
LEMMA OthersKeepTables ==
  ASSUME TypeOK, Tables, UNCHANGED hubVars,
         \A c \in Conns : rd[c] \in {"reading", "leaving"} =>
           clientID'[c] = clientID[c] /\ rd'[c] \in {"reading", "leaving"}
  PROVE  Tables'
<1>1. Registered'
  BY ConstantsAssumption DEF TypeOK, Tables, Registered, hubVars
<1>2. Mirror' /\ DroppedHasNone' /\ FanOutComplete'
  BY DEF Tables, Mirror, DroppedHasNone, FanOutComplete, hubVars
<1> QED
  BY <1>1, <1>2 DEF Tables

\* Dropping the client of an ID, as the cases register and unregister do, takes
\* the ID out of every channel and empties the client's subscriptions.
LEMMA DropEffect ==
  ASSUME TypeOK, Tables, NEW id \in Ids
  PROVE  /\ \A x \in Ids, ch \in Channels :
              x \in channelsWithout(id)[ch] <=> x # id /\ x \in channels[ch]
         /\ \A c \in Conns :
              subsWithout(id)[c] = IF c = clients[id] THEN {} ELSE subs[c]
<1>1. \A ch \in Channels : id \in channels[ch] <=> clients[id] # None /\ ch \in subs[clients[id]]
  BY DEF Tables, Mirror
<1> QED
  BY <1>1 DEF channelsWithout, unsubscribeChannel, subsWithout

\* Whatever the order of connections, subscriptions, replacements and failures,
\* the hub knows a client under its ID exactly while its read pump may run, the
\* two records of subscriptions agree, a dropped client has none, and a
\* message in the middle of its fan-out has only registered clients to go to.
THEOREM TablesAgree == Spec => []Tables
<1>1. Init => Tables
  BY DEF Init, Tables, Registered, Mirror, DroppedHasNone, FanOutComplete
<1>2. TypeOK /\ Started /\ Tables /\ [Next]_vars => Tables'
  <2> SUFFICES ASSUME TypeOK, Started, Tables, [Next]_vars PROVE Tables'
    OBVIOUS
  <2>1. ASSUME NEW c \in Conns, HubRegister(c) PROVE Tables'
    <3> DEFINE id == clientID[c]
    <3>1. /\ id \in Ids /\ hubTodo = {} /\ hubTodo' = {} /\ rd[c] = "registering"
          /\ clients' = [clients EXCEPT ![id] = c] /\ rd' = [rd EXCEPT ![c] = "reading"]
          /\ channels' = channelsWithout(id) /\ subs' = subsWithout(id)
          /\ clientID' = clientID
      BY <2>1 DEF HubRegister, AtSelect, Started, TypeOK
    <3>0. \A x \in Ids : clients[x] # c
      BY <3>1, ConstantsAssumption DEF Tables, Registered
    <3> HIDE DEF id
    <3>2. Registered'
      BY SMTT(60), <3>0, <3>1, ConstantsAssumption DEF TypeOK, Tables, Registered, id
    <3>3. subs[c] = {} /\ subs'[c] = {}
      BY <3>0, <3>1, DropEffect DEF Tables, DroppedHasNone
    <3>4. Mirror'
      <4>1. ASSUME NEW x \in Ids, NEW ch \in Channels, x # id
            PROVE  (x \in channels[ch] <=> clients[x] # None /\ ch \in subs[clients[x]])'
        <5>1. clients'[x] = clients[x] /\ (x \in channels'[ch] <=> x \in channels[ch])
          BY <3>1, <4>1, DropEffect DEF TypeOK
        <5>2. clients[x] # None => clients[x] # clients[id]
          BY <3>1, <4>1, ConstantsAssumption DEF TypeOK, Tables, Registered
        <5>3. clients[x] # None => subs'[clients[x]] = subs[clients[x]]
          BY <3>1, <5>2, DropEffect DEF TypeOK
        <5> QED
          BY <5>1, <5>3 DEF Tables, Mirror
      <4>2. ASSUME NEW ch \in Channels
            PROVE  id \in channels'[ch] <=> clients'[id] # None /\ ch \in subs'[clients'[id]]
        BY <3>0, <3>1, <3>3, DropEffect DEF TypeOK
      <4> SUFFICES ASSUME NEW x \in Ids, NEW ch \in Channels
                   PROVE  x \in channels'[ch] <=> clients'[x] # None /\ ch \in subs'[clients'[x]]
        BY DEF Mirror
      <4> QED
        BY <4>1, <4>2
    <3>5. DroppedHasNone'
      <4> SUFFICES ASSUME NEW d \in Conns, \A x \in Ids : clients'[x] # d, d # c
                   PROVE  subs'[d] = {}
        BY <3>3 DEF DroppedHasNone
      <4>1. CASE d = clients[id]
        BY <3>1, <4>1, DropEffect
      <4>2. CASE d # clients[id]
        <5>1. \A x \in Ids : clients[x] # d
          BY <3>1, <4>2 DEF TypeOK
        <5> QED
          BY <3>1, <4>2, <5>1, DropEffect DEF Tables, DroppedHasNone
      <4> QED
        BY <4>1, <4>2
    <3>6. FanOutComplete'
      BY <3>1 DEF FanOutComplete
    <3> QED
      BY <3>2, <3>4, <3>5, <3>6 DEF Tables
  <2>2. ASSUME NEW c \in Conns, HubUnregister(c) PROVE Tables'
    <3> DEFINE id == clientID[c]
    <3>1. /\ id \in Ids /\ hubTodo = {} /\ hubTodo' = {} /\ rd[c] = "leaving"
          /\ clients' = [clients EXCEPT ![id] = None] /\ rd' = [rd EXCEPT ![c] = "closing"]
          /\ channels' = channelsWithout(id) /\ subs' = subsWithout(id)
          /\ clientID' = clientID
          /\ \A x \in Ids : clients[x] = c => x = id
      BY <2>2, ConstantsAssumption
      DEF HubUnregister, AtSelect, Started, TypeOK, Tables, Registered
    <3> HIDE DEF id
    <3>2. Registered'
      BY <3>1, ConstantsAssumption DEF TypeOK, Tables, Registered, id
    <3>3. Mirror'
      <4>1. ASSUME NEW x \in Ids, NEW ch \in Channels, x # id
            PROVE  (x \in channels[ch] <=> clients[x] # None /\ ch \in subs[clients[x]])'
        <5>1. clients'[x] = clients[x] /\ (x \in channels'[ch] <=> x \in channels[ch])
          BY <3>1, <4>1, DropEffect DEF TypeOK
        <5>2. clients[x] # None => clients[x] # clients[id]
          BY <3>1, <4>1, ConstantsAssumption DEF TypeOK, Tables, Registered
        <5>3. clients[x] # None => subs'[clients[x]] = subs[clients[x]]
          BY SMTT(60), <3>1, <5>2, DropEffect DEF TypeOK
        <5> QED
          BY <5>1, <5>3 DEF Tables, Mirror
      <4>2. ASSUME NEW ch \in Channels
            PROVE  id \in channels'[ch] <=> clients'[id] # None /\ ch \in subs'[clients'[id]]
        BY <3>1, DropEffect DEF TypeOK
      <4> SUFFICES ASSUME NEW x \in Ids, NEW ch \in Channels
                   PROVE  x \in channels'[ch] <=> clients'[x] # None /\ ch \in subs'[clients'[x]]
        BY DEF Mirror
      <4> QED
        BY <4>1, <4>2
    <3>4. DroppedHasNone'
      <4> SUFFICES ASSUME NEW d \in Conns, \A x \in Ids : clients'[x] # d
                   PROVE  subs'[d] = {}
        BY DEF DroppedHasNone
      <4>1. CASE d = clients[id]
        BY <3>1, <4>1, DropEffect
      <4>2. CASE d # clients[id]
        <5>1. \A x \in Ids : clients[x] # d
          BY <3>1, <4>2 DEF TypeOK
        <5> QED
          BY <3>1, <4>2, <5>1, DropEffect DEF Tables, DroppedHasNone
      <4> QED
        BY <4>1, <4>2
    <3>5. FanOutComplete'
      BY <3>1 DEF FanOutComplete
    <3> QED
      BY <3>2, <3>3, <3>4, <3>5 DEF Tables
  <2>3. ASSUME NEW c \in Conns, HubSubscribe(c) PROVE Tables'
    <3> DEFINE id == clientID[c]
               ch == Head(asked[c])
    <3>1. /\ id \in Ids /\ ch \in Channels /\ hubTodo = {} /\ hubTodo' = {}
          /\ clients' = clients /\ rd' = rd /\ clientID' = clientID
      BY <2>3 DEF HubSubscribe, AtSelect, Started, TypeOK, hubVars, readVars
    <3>2. Registered' /\ FanOutComplete'
      BY <3>1 DEF Tables, Registered, FanOutComplete
    <3>3. CASE clients[id] = None
      BY <2>3, <3>1, <3>2, <3>3 DEF HubSubscribe, Tables, Mirror, DroppedHasNone
    <3>4. CASE clients[id] # None
      <4>1. /\ subs' = [subs EXCEPT ![clients[id]] = @ \cup {ch}]
            /\ channels' = [channels EXCEPT ![ch] = @ \cup {id}]
        BY <2>3, <3>4 DEF HubSubscribe
      <4> HIDE DEF id, ch
      <4>2. \A x \in Ids : x # id /\ clients[x] # None => clients[x] # clients[id]
        BY <3>1, <3>4 DEF Tables, Registered
      <4>3. Mirror'
        BY <3>1, <3>4, <4>1, <4>2 DEF TypeOK, Tables, Mirror
      <4>4. DroppedHasNone'
        BY <3>1, <3>4, <4>1 DEF TypeOK, Tables, DroppedHasNone
      <4> QED
        BY <3>2, <4>3, <4>4 DEF Tables
    <3> QED
      BY <3>3, <3>4
  <2>4. ASSUME NEW s \in Senders \cup Conns, HubTakes(s) PROVE Tables'
    <3>1. pending[s].ch \in Channels
      BY <2>4 DEF HubTakes, TypeOK, Message
    <3>2. /\ UNCHANGED <<clients, channels, subs, clientID, rd>>
          /\ hubMsg' = pending[s] /\ hubTodo' = channels[hubMsg'.ch]
      BY <2>4 DEF HubTakes, readVars
    <3>3. Registered' /\ Mirror' /\ DroppedHasNone'
      BY <3>2 DEF Tables, Registered, Mirror, DroppedHasNone
    <3>4. \A id \in channels[pending[s].ch] :
            clients[id] # None /\ pending[s].ch \in subs[clients[id]]
      BY <3>1 DEF Tables, Mirror, TypeOK
    <3>5. FanOutComplete'
      BY <3>2, <3>4 DEF FanOutComplete
    <3> QED
      BY <3>3, <3>5 DEF Tables
  <2>5. ASSUME NEW id \in Ids, HubFansOut(id) PROVE Tables'
    BY <2>5 DEF HubFansOut, readVars, Tables, Registered, Mirror, DroppedHasNone,
                FanOutComplete
  <2>6. ASSUME NEW c \in Conns, NEW id \in Ids, serveWs(c, id) PROVE Tables'
    BY <2>6, OthersKeepTables DEF serveWs, TypeOK
  <2>7. ASSUME NEW c \in Conns, NEW list \in Requests,
               NEW ch \in ClientSends \cup {None}, ReadMessage(c, list, ch)
        PROVE  Tables'
    BY <2>7, OthersKeepTables DEF ReadMessage
  <2>8. ASSUME NEW c \in Conns,
               ReadFails(c) \/ ReadPumpCloses(c) \/ PeerCloses(c)
        PROVE  Tables'
    BY <2>8, OthersKeepTables
    DEF ReadFails, ReadIdle, ReadPumpCloses, PeerCloses, readVars, TypeOK
  <2>9. ASSUME NEW c \in Conns,
               \/ WriteTakes(c) \/ WriteGathers(c)
               \/ WriteSucceeds(c) \/ WriteFails(c)
        PROVE  Tables'
    BY <2>9, OthersKeepTables
    DEF WriteTakes, WriteGathers, WriteSucceeds, WriteFails, readVars
  <2>10. ASSUME NEW s \in Senders, NEW ch \in Channels, Send(s, ch) PROVE Tables'
    BY <2>10, OthersKeepTables DEF Send, readVars
  <2>11. CASE UNCHANGED vars
    BY <2>11, OthersKeepTables DEF vars, readVars
  <2> QED
    BY <2>1, <2>2, <2>3, <2>4, <2>5, <2>6, <2>7, <2>8, <2>9, <2>10, <2>11
    DEF Next, HubStep, ReadPumpStep, WritePumpStep, OutsideStep
<1> QED
  BY <1>1, <1>2, Typing, PTL DEF Spec

-----------------------------------------------------------------------------
(* The hub and its pumps implement ordered delivery. *)

\* A write pump runs only for a connection that has registered, and holds
\* messages exactly between taking them and having written them.
Pumps ==
  \A c \in Conns : /\ rd[c] \in {"none", "registering"} => wr[c] = "none"
                   /\ batch[c] # <<>> <=> wr[c] \in {"gathering", "writing"}

\* The write pump's place and its batch of messages agree at all times.
THEOREM PumpsAgree == Spec => []Pumps
<1>1. Init => Pumps
  BY DEF Init, Pumps
<1>2. TypeOK /\ Pumps /\ [Next]_vars => Pumps'
  <2> SUFFICES ASSUME TypeOK, Pumps, [Next]_vars PROVE Pumps'
    OBVIOUS
  <2> USE DEF TypeOK, Pumps, hubVars, readVars, writeVars
  <2>1. ASSUME NEW c \in Conns,
               \/ HubRegister(c) \/ HubSubscribe(c) \/ HubUnregister(c)
               \/ ReadFails(c) \/ ReadPumpCloses(c) \/ PeerCloses(c)
        PROVE  Pumps'
    BY SMTT(60), <2>1 DEF HubRegister, HubSubscribe, HubUnregister, ReadFails, ReadIdle,
                ReadPumpCloses, PeerCloses
  <2>2. ASSUME NEW c \in Conns, NEW id \in Ids, serveWs(c, id) PROVE Pumps'
    BY <2>2 DEF serveWs
  <2>3. ASSUME NEW c \in Conns, NEW list \in Requests,
               NEW ch \in ClientSends \cup {None}, ReadMessage(c, list, ch)
        PROVE  Pumps'
    BY <2>3 DEF ReadMessage
  <2>4. ASSUME NEW s \in Senders \cup Conns, HubTakes(s) PROVE Pumps'
    BY <2>4 DEF HubTakes
  <2>5. ASSUME NEW id \in Ids, HubFansOut(id) PROVE Pumps'
    BY <2>5 DEF HubFansOut
  <2>6. ASSUME NEW s \in Senders, NEW ch \in Channels, Send(s, ch) PROVE Pumps'
    BY <2>6 DEF Send
  <2>7. ASSUME NEW c \in Conns, WriteTakes(c) PROVE Pumps'
    <3>1. <<Head(buf[c])>> # <<>>
      OBVIOUS
    <3> QED
      BY <2>7, <3>1 DEF WriteTakes
  <2>8. ASSUME NEW c \in Conns, WriteGathers(c) PROVE Pumps'
    <3>1. batch[c] # <<>>
      BY <2>8 DEF WriteGathers
    <3>2. batch[c] \o buf[c] # <<>>
      <4>1. batch[c] \in Seq(Message) /\ buf[c] \in Seq(Message)
        OBVIOUS
      <4> QED
        BY <3>1, <4>1, ConcatEqualIffEmpty
    <3> QED
      BY <2>8, <3>2 DEF WriteGathers
  <2>9. ASSUME NEW c \in Conns, WriteSucceeds(c) \/ WriteFails(c) PROVE Pumps'
    BY SMTT(60), <2>9 DEF WriteSucceeds, WriteFails
  <2>10. CASE UNCHANGED vars
    BY <2>10 DEF vars
  <2> QED
    BY <2>1, <2>2, <2>3, <2>4, <2>5, <2>6, <2>7, <2>8, <2>9, <2>10
    DEF Next, HubStep, ReadPumpStep, WritePumpStep, OutsideStep
<1> QED
  BY <1>1, <1>2, Typing, PTL DEF Spec

\* Concatenation of sequences of messages is associative.
LEMMA MessagesConcat ==
  ASSUME NEW s \in Seq(Message), NEW t \in Seq(Message), NEW u \in Seq(Message)
  PROVE  (s \o t) \o u = s \o (t \o u)
<1>1. (s \o t) \in Seq(Message) /\ (t \o u) \in Seq(Message)
  BY ConcatProperties
<1> QED
  BY ConcatAssociative, Z3

\* The parts of a mailbox are sequences of messages.
LEMMA MailboxParts ==
  ASSUME TypeOK, NEW c \in Conns
  PROVE  /\ batch[c] \in Seq(Message) /\ buf[c] \in Seq(Message)
         /\ onItsWay(c) \in Seq(Message)
         /\ mailbox[c] = batch[c] \o buf[c] \o onItsWay(c)
         /\ mailbox[c] = batch[c] \o (buf[c] \o onItsWay(c))
         /\ mailbox[c] \in Seq(Message)
<1>1. batch[c] \in Seq(Message) /\ buf[c] \in Seq(Message)
  BY DEF TypeOK
<1>2. onItsWay(c) \in Seq(Message)
  BY DEF TypeOK, onItsWay
<1>3. mailbox[c] = batch[c] \o buf[c] \o onItsWay(c)
  BY DEF mailbox
<1>4. (batch[c] \o buf[c]) \o onItsWay(c) = batch[c] \o (buf[c] \o onItsWay(c))
  BY <1>1, <1>2, MessagesConcat
<1>5. buf[c] \o onItsWay(c) \in Seq(Message)
  BY <1>1, <1>2, ConcatProperties
<1>6. batch[c] \o (buf[c] \o onItsWay(c)) \in Seq(Message)
  BY <1>1, <1>5, ConcatProperties
<1> QED
  BY <1>1, <1>2, <1>3, <1>4, <1>6

\* Taking the first n elements off a concatenation whose first part has n.
LEMMA CutConcat ==
  ASSUME NEW S, NEW s \in Seq(S), NEW t \in Seq(S)
  PROVE  /\ SubSeq(s \o t, 1, Len(s)) = s
         /\ SubSeq(s \o t, Len(s) + 1, Len(s \o t)) = t
<1>1. Len(s) \in Nat /\ Len(t) \in Nat /\ Len(s \o t) = Len(s) + Len(t)
  BY ConcatProperties, LenProperties
<1>2. SubSeq(s \o t, 1, Len(s)) = s
  <2>1. CASE s = <<>>
    BY <1>1, <2>1, SubSeqEmpty, EmptySeq
  <2>2. CASE s # <<>>
    <3>1. Len(s) \in 1..Len(s) /\ 1 \in 1..Len(s)
      BY <1>1, <2>2, EmptySeq
    <3> QED
      BY <3>1, SubSeqOfConcat1, SubSeqFull
  <2> QED
    BY <2>1, <2>2
<1>3. SubSeq(s \o t, Len(s) + 1, Len(s \o t)) = t
  <2>1. CASE t = <<>>
    BY <1>1, <2>1, SubSeqEmpty, EmptySeq
  <2>2. CASE t # <<>>
    <3>1. Len(t) >= 1
      BY <1>1, <2>2, EmptySeq
    <3>2. /\ Len(s) + 1 \in Len(s)+1 .. Len(s)+Len(t)
          /\ Len(s) + Len(t) \in Len(s)+1 .. Len(s)+Len(t)
      BY <1>1, <3>1
    <3>3. SubSeq(s \o t, Len(s) + 1, Len(s) + Len(t)) = SubSeq(t, 1, Len(t))
      BY <1>1, <3>2, SubSeqOfConcat2
    <3> QED
      BY <1>1, <3>3, SubSeqFull
  <2> QED
    BY <2>1, <2>2
<1> QED
  BY <1>2, <1>3

\* Every step of the code is a step of the subscribers' specification, or leaves
\* what the subscribers see unchanged.
LEMMA StepDelivers ==
  ASSUME TypeOK, Started, Tables, Pumps, [Next]_vars
  PROVE  [Subscribers!Next]_(Subscribers!vars)
<1> DEFINE Seen == <<subs, mailbox, received, broken>>
<1>1. ASSUME UNCHANGED <<subs, batch, buf, received, wr, hubMsg, hubTodo, clients>>
      PROVE  UNCHANGED Seen
  BY <1>1 DEF mailbox, onItsWay, broken
<1>2. ASSUME hubTodo = {}, hubTodo' = {}, UNCHANGED <<batch, buf, received>>
      PROVE  UNCHANGED <<mailbox, received>>
  BY <1>2 DEF mailbox, onItsWay
<1>3. ASSUME NEW c \in Conns, HubRegister(c) PROVE Subscribers!Next \/ UNCHANGED Seen
  <2>1. UNCHANGED <<mailbox, received>>
    BY <1>3, <1>2 DEF HubRegister, AtSelect
  <2>2. broken' = broken
    BY <1>3 DEF HubRegister, broken, Pumps, TypeOK
  <2>3. CASE clients[clientID[c]] = None
    <3>1. subs' = subs
      BY <1>3, <2>3, ConstantsAssumption DEF HubRegister, subsWithout, TypeOK
    <3> QED
      BY <2>1, <2>2, <3>1
  <2>4. CASE clients[clientID[c]] # None
    <3>1. clients[clientID[c]] \in Conns
      BY <1>3, <2>4 DEF HubRegister, Started, TypeOK
    <3>2. subs' = [subs EXCEPT ![clients[clientID[c]]] = {}]
      BY <1>3, <3>1 DEF HubRegister, subsWithout, TypeOK
    <3>3. Subscribers!Leave(clients[clientID[c]])
      BY <2>1, <2>2, <3>2 DEF Subscribers!Leave
    <3> QED
      BY <3>1, <3>3 DEF Subscribers!Next
  <2> QED
    BY <2>3, <2>4
<1>4. ASSUME NEW c \in Conns, HubUnregister(c) PROVE Subscribers!Next \/ UNCHANGED Seen
  <2>1. UNCHANGED <<mailbox, received>>
    BY <1>4, <1>2 DEF HubUnregister, AtSelect, writeVars
  <2>2. broken' = broken
    BY <1>4 DEF HubUnregister, broken, writeVars
  <2>3. CASE clients[clientID[c]] = None
    <3>1. subs' = subs
      BY <1>4, <2>3, ConstantsAssumption DEF HubUnregister, subsWithout, TypeOK
    <3> QED
      BY <2>1, <2>2, <3>1
  <2>4. CASE clients[clientID[c]] # None
    <3>1. clients[clientID[c]] \in Conns
      BY <1>4, <2>4 DEF HubUnregister, Started, TypeOK
    <3>2. subs' = [subs EXCEPT ![clients[clientID[c]]] = {}]
      BY <1>4, <3>1 DEF HubUnregister, subsWithout, TypeOK
    <3>3. Subscribers!Leave(clients[clientID[c]])
      BY <2>1, <2>2, <3>2 DEF Subscribers!Leave
    <3> QED
      BY <3>1, <3>3 DEF Subscribers!Next
  <2> QED
    BY <2>3, <2>4
<1>5. ASSUME NEW c \in Conns, HubSubscribe(c) PROVE Subscribers!Next \/ UNCHANGED Seen
  <2>1. UNCHANGED <<mailbox, received, broken>>
    BY <1>5, <1>2 DEF HubSubscribe, AtSelect, writeVars, broken
  <2>2. Head(asked[c]) \in Channels /\ clientID[c] \in Ids
    BY <1>5 DEF HubSubscribe, Started, TypeOK
  <2>3. CASE clients[clientID[c]] = None
    BY <1>5, <2>1, <2>3 DEF HubSubscribe
  <2>4. CASE clients[clientID[c]] # None
    <3>1. clients[clientID[c]] \in Conns
      BY <2>2, <2>4 DEF TypeOK
    <3>2. subs' = [subs EXCEPT ![clients[clientID[c]]] = @ \cup {Head(asked[c])}]
      BY <1>5, <2>4 DEF HubSubscribe
    <3>3. Subscribers!Subscribe(clients[clientID[c]], Head(asked[c]))
      BY <2>1, <3>2 DEF Subscribers!Subscribe
    <3> QED
      BY <2>2, <3>1, <3>3 DEF Subscribers!Next
  <2> QED
    BY <2>3, <2>4
<1>6. ASSUME NEW s \in Senders \cup Conns, HubTakes(s) PROVE Subscribers!Next
  <2> DEFINE m == pending[s]
  <2>1. /\ m \in Message /\ m.ch \in Channels
        /\ UNCHANGED <<subs, batch, buf, received, wr, clients>>
        /\ hubTodo = {} /\ hubMsg' = m /\ hubTodo' = channels[m.ch]
    BY <1>6 DEF HubTakes, TypeOK, Message, AtSelect, writeVars
  <2> HIDE DEF m
  <2>2. ASSUME NEW c \in Conns
        PROVE  mailbox'[c] = IF m.ch \in subs[c] THEN Append(mailbox[c], m) ELSE mailbox[c]
    <3>1. (\E id \in channels[m.ch] : clients[id] = c) <=> m.ch \in subs[c]
      <4>1. ASSUME NEW id \in channels[m.ch], clients[id] = c PROVE m.ch \in subs[c]
        BY <2>1, <4>1 DEF Tables, Mirror, TypeOK
      <4>2. ASSUME m.ch \in subs[c] PROVE \E id \in channels[m.ch] : clients[id] = c
        <5>1. PICK id \in Ids : clients[id] = c
          BY <4>2 DEF Tables, DroppedHasNone
        <5>2. id \in channels[m.ch]
          BY <2>1, <4>2, <5>1, ConstantsAssumption DEF Tables, Mirror
        <5> QED
          BY <5>1, <5>2
      <4> QED
        BY <4>1, <4>2
    <3>2. mailbox'[c] = batch[c] \o buf[c] \o (IF m.ch \in subs[c] THEN <<m>> ELSE <<>>)
      BY <2>1, <3>1 DEF mailbox, onItsWay
    <3>3. /\ batch[c] \o buf[c] \in Seq(Message)
          /\ mailbox[c] = batch[c] \o buf[c] \o <<>>
      BY <2>1, ConcatProperties DEF TypeOK, mailbox, onItsWay
    <3>4. mailbox[c] = batch[c] \o buf[c]
      BY <3>3, ConcatEmptySeq
    <3>5. Append(mailbox[c], m) = batch[c] \o buf[c] \o <<m>>
      BY <2>1, <3>3, <3>4, AppendIsConcat
    <3> QED
      BY <3>2, <3>3, <3>5
  <2>3. mailbox' = [c \in Conns |-> IF m.ch \in subs[c] THEN Append(mailbox[c], m)
                                                        ELSE mailbox[c]]
    BY <2>2 DEF mailbox
  <2>4. Subscribers!Publish(m)
    BY <2>1, <2>3 DEF Subscribers!Publish, broken
  <2> QED
    BY <2>1, <2>4 DEF Subscribers!Next
<1>7. ASSUME NEW id \in Ids, HubFansOut(id) PROVE UNCHANGED Seen
  <2> DEFINE c == clients[id]
  <2>1. /\ id \in hubTodo /\ hubTodo' = hubTodo \ {id}
        /\ UNCHANGED <<subs, clients, hubMsg, batch, received, wr>>
    BY <1>7 DEF HubFansOut, writeVars
  <2>2. c \in Conns /\ hubMsg \in Message
    BY <2>1 DEF Tables, FanOutComplete, TypeOK
  <2>3. buf' = [buf EXCEPT ![c] = Append(@, hubMsg)]
    BY <1>7, <2>2, ConstantsAssumption DEF HubFansOut
  <2>4. \A x \in hubTodo : clients[x] = c => x = id
    <3>1. \A x \in Ids : clients[x] = c => x = clientID[c]
      BY <2>2, ConstantsAssumption DEF Tables, Registered
    <3>2. hubTodo \subseteq Ids
      BY DEF TypeOK
    <3> QED
      BY <2>1, <3>1, <3>2
  <2>5. mailbox'[c] = mailbox[c]
    <3>1. onItsWay(c) = <<hubMsg>>
      BY <2>1 DEF onItsWay
    <3>2. (IF \E x \in hubTodo' : clients'[x] = c THEN <<hubMsg'>> ELSE <<>>) = <<>>
      BY <2>1, <2>4
    <3>3. mailbox'[c] = batch[c] \o Append(buf[c], hubMsg) \o <<>>
      BY <2>1, <2>2, <2>3, <3>2 DEF mailbox, onItsWay, TypeOK
    <3>4. /\ batch[c] \in Seq(Message) /\ buf[c] \in Seq(Message)
          /\ <<hubMsg>> \in Seq(Message)
          /\ Append(buf[c], hubMsg) = buf[c] \o <<hubMsg>>
      BY <2>2, AppendIsConcat DEF TypeOK
    <3>5. batch[c] \o (buf[c] \o <<hubMsg>>) = (batch[c] \o buf[c]) \o <<hubMsg>>
      BY <3>4, MessagesConcat
    <3>6. batch[c] \o (buf[c] \o <<hubMsg>>) \in Seq(Message)
      BY <3>4, ConcatProperties
    <3>7. mailbox'[c] = batch[c] \o (buf[c] \o <<hubMsg>>)
      BY <3>3, <3>4, <3>6, ConcatEmptySeq
    <3> QED
      BY <2>2, <3>1, <3>5, <3>7 DEF mailbox
  <2>6. ASSUME NEW d \in Conns, d # c PROVE mailbox'[d] = mailbox[d]
    <3>1. (\E x \in hubTodo' : clients'[x] = d) <=> (\E x \in hubTodo : clients[x] = d)
      BY <2>1, <2>6
    <3>2. buf'[d] = buf[d]
      BY <2>3, <2>6 DEF TypeOK
    <3> QED
      BY <2>1, <3>1, <3>2 DEF mailbox, onItsWay
  <2>7. mailbox' = mailbox
    <3>1. \A d \in Conns : mailbox'[d] = mailbox[d]
      BY <2>5, <2>6
    <3> QED
      BY <3>1 DEF mailbox
  <2> QED
    BY <2>1, <2>7 DEF broken
<1>8. ASSUME NEW c \in Conns, WriteTakes(c) \/ WriteGathers(c) PROVE UNCHANGED Seen
  <2>1. /\ UNCHANGED <<subs, clients, hubMsg, hubTodo, received>>
        /\ \A d \in Conns : d # c => batch'[d] = batch[d] /\ buf'[d] = buf[d]
        /\ broken' = broken
    BY SMTT(60), <1>8 DEF WriteTakes, WriteGathers, hubVars, broken, TypeOK
  <2>2. batch'[c] \o buf'[c] = batch[c] \o buf[c]
    <3>1. CASE WriteTakes(c)
      <4>1. batch[c] = <<>> /\ buf[c] # <<>> /\ buf[c] \in Seq(Message)
        BY <3>1 DEF WriteTakes, Pumps, TypeOK
      <4>2. batch'[c] = <<Head(buf[c])>> /\ buf'[c] = Tail(buf[c])
        BY <3>1 DEF WriteTakes, TypeOK
      <4>3. <<Head(buf[c])>> \o Tail(buf[c]) = buf[c]
        BY <4>1, SubSeqRecursiveFirst, SubSeqFull, TailIsSubSeq, EmptySeq
      <4> QED
        BY <4>1, <4>2, <4>3, ConcatEmptySeq
    <3>2. CASE WriteGathers(c)
      <4>1. batch'[c] = batch[c] \o buf[c] /\ buf'[c] = <<>>
        BY <3>2 DEF WriteGathers, TypeOK
      <4>2. batch[c] \o buf[c] \in Seq(Message)
        BY ConcatProperties DEF TypeOK
      <4> QED
        BY <4>1, <4>2, ConcatEmptySeq
    <3> QED
      BY <1>8, <3>1, <3>2
  <2>3. \A d \in Conns : mailbox'[d] = mailbox[d]
    BY <2>1, <2>2 DEF mailbox, onItsWay
  <2>4. mailbox' = mailbox
    BY <2>3 DEF mailbox
  <2> QED
    BY <2>1, <2>4
<1>9. ASSUME NEW c \in Conns, WriteSucceeds(c) PROVE Subscribers!Next
  <2> DEFINE k == Len(batch[c])
             rest == buf[c] \o onItsWay(c)
  <2>1. /\ UNCHANGED <<subs, clients, hubMsg, hubTodo, buf>> /\ broken' = broken
        /\ received' = [received EXCEPT ![c] = @ \o batch[c]]
        /\ batch' = [batch EXCEPT ![c] = <<>>] /\ wr[c] = "writing"
    BY <1>9 DEF WriteSucceeds, hubVars, broken, TypeOK
  <2>2. rest \in Seq(Message) /\ batch[c] \in Seq(Message) /\ mailbox[c] = batch[c] \o rest
    BY MailboxParts, ConcatProperties
  <2> HIDE DEF rest
  <2>3. Len(mailbox[c]) = k + Len(rest)
    BY <2>2, ConcatProperties
  <2>4. k \in Nat \ {0} /\ Len(rest) \in Nat
    BY <2>1, <2>2, MailboxParts, EmptySeq, LenProperties DEF Pumps
  <2>5. k \in 1..Len(mailbox[c])
    BY <2>3, <2>4
  <2>6. /\ SubSeq(mailbox[c], 1, k) = batch[c]
        /\ SubSeq(mailbox[c], k + 1, Len(mailbox[c])) = rest
    BY <2>2, CutConcat
  <2>7. mailbox'[c] = rest
    <3>1. mailbox'[c] = <<>> \o buf[c] \o onItsWay(c)
      BY <2>1 DEF mailbox, onItsWay, TypeOK
    <3> QED
      BY <3>1, MailboxParts, ConcatEmptySeq DEF rest
  <2>8. \A d \in Conns : d # c => mailbox'[d] = mailbox[d]
    BY <2>1 DEF mailbox, onItsWay, TypeOK
  <2>9. mailbox' = [mailbox EXCEPT ![c] = SubSeq(@, k + 1, Len(@))]
    BY <2>6, <2>7, <2>8 DEF mailbox
  <2>10. ~ broken[c]
    BY <2>1 DEF broken
  <2>11. received' = [received EXCEPT ![c] = @ \o SubSeq(mailbox[c], 1, k)]
    BY <2>1, <2>6
  <2>12. Subscribers!Deliver(c)
    BY <2>1, <2>5, <2>9, <2>10, <2>11 DEF Subscribers!Deliver
  <2> QED
    BY <2>12 DEF Subscribers!Next
<1>10. ASSUME NEW c \in Conns, WriteFails(c) PROVE Subscribers!Next
  <2> DEFINE k == Len(batch[c])
             rest == buf[c] \o onItsWay(c)
  <2>1. /\ UNCHANGED <<subs, clients, hubMsg, hubTodo, buf, received>>
        /\ broken' = [broken EXCEPT ![c] = TRUE]
        /\ batch' = [batch EXCEPT ![c] = <<>>]
    BY <1>10 DEF WriteFails, hubVars, broken, TypeOK
  <2>2. rest \in Seq(Message) /\ batch[c] \in Seq(Message) /\ mailbox[c] = batch[c] \o rest
    BY MailboxParts, ConcatProperties
  <2> HIDE DEF rest
  <2>3. Len(mailbox[c]) = k + Len(rest)
    BY <2>2, ConcatProperties
  <2>4. k \in Nat /\ Len(rest) \in Nat
    BY <2>2, MailboxParts, LenProperties
  <2>5. k \in 0..Len(mailbox[c])
    BY <2>3, <2>4
  <2>6. SubSeq(mailbox[c], k + 1, Len(mailbox[c])) = rest
    BY <2>2, CutConcat
  <2>7. mailbox'[c] = rest
    <3>1. mailbox'[c] = <<>> \o buf[c] \o onItsWay(c)
      BY <2>1 DEF mailbox, onItsWay, TypeOK
    <3> QED
      BY <3>1, MailboxParts, ConcatEmptySeq DEF rest
  <2>8. \A d \in Conns : d # c => mailbox'[d] = mailbox[d]
    BY <2>1 DEF mailbox, onItsWay, TypeOK
  <2>9. mailbox' = [mailbox EXCEPT ![c] = SubSeq(@, k + 1, Len(@))]
    BY <2>6, <2>7, <2>8 DEF mailbox
  <2>10. Subscribers!Break(c)
    BY <2>1, <2>5, <2>9 DEF Subscribers!Break
  <2> QED
    BY <2>10 DEF Subscribers!Next
<1>11. ASSUME NEW c \in Conns,
              ReadFails(c) \/ ReadPumpCloses(c) \/ PeerCloses(c)
       PROVE  UNCHANGED Seen
  BY <1>11, <1>1 DEF ReadFails, ReadPumpCloses, PeerCloses, hubVars, writeVars
<1>12. ASSUME NEW c \in Conns, NEW id \in Ids, serveWs(c, id) PROVE UNCHANGED Seen
  BY <1>12, <1>1 DEF serveWs, hubVars, writeVars
<1>13. ASSUME NEW c \in Conns, NEW list \in Requests,
              NEW ch \in ClientSends \cup {None}, ReadMessage(c, list, ch)
       PROVE  UNCHANGED Seen
  BY <1>13, <1>1 DEF ReadMessage, hubVars, writeVars
<1>14. ASSUME NEW s \in Senders, NEW ch \in Channels, Send(s, ch) PROVE UNCHANGED Seen
  BY <1>14, <1>1 DEF Send, hubVars, writeVars
<1>15. ASSUME UNCHANGED vars PROVE UNCHANGED Seen
  BY <1>15, <1>1 DEF vars, hubVars, writeVars
<1>16. Subscribers!Next \/ UNCHANGED Seen
  BY <1>3, <1>4, <1>5, <1>6, <1>7, <1>8, <1>9, <1>10, <1>11, <1>12, <1>13,
     <1>14, <1>15
  DEF Next, HubStep, ReadPumpStep, WritePumpStep, OutsideStep
<1> QED
  BY <1>16 DEF Subscribers!vars

\* The hub, its buffers and its pumps implement ordered delivery: however their
\* steps interleave and whatever connections fail, a connection is given the
\* messages published on its channels in the order the hub took them, each
\* once, and a connection that breaks loses only the batch being written and
\* what comes after.
THEOREM HubDelivers == Spec => DeliversInOrder
<1>1. Init => Subscribers!Init
  <2> SUFFICES ASSUME Init PROVE Subscribers!Init
    OBVIOUS
  <2>1. \A c \in Conns : mailbox[c] = <<>> /\ ~ broken[c]
    <3> SUFFICES ASSUME NEW c \in Conns PROVE mailbox[c] = <<>> /\ ~ broken[c]
      OBVIOUS
    <3>1. mailbox[c] = <<>> \o <<>> \o <<>> /\ ~ broken[c]
      BY DEF Init, mailbox, onItsWay, broken
    <3> QED
      BY <3>1
  <2> QED
    BY <2>1 DEF Init, Subscribers!Init, mailbox, broken
<1> QED
  BY <1>1, StepDelivers, Typing, TablesAgree, PumpsAgree, PTL
  DEF Spec, DeliversInOrder, Subscribers!Spec
=============================================================================

---------------------------- MODULE ResponseProofs ----------------------------
(***************************************************************************)
(* For any number of requests at a time, any pool of buffers and any       *)
(* program of handlers: no two requests share a buffer, a browser gets     *)
(* what its own request wrote, and a handler behind the buffer answers     *)
(* with all of its output or with its error alone.                         *)
(*                                                                         *)
(* Why a response is not mixed up: a request has a buffer from the time it *)
(* is served until the deferred release, also on the way out of a panic    *)
(* (Stays), the buffer is its own and was empty when it came (Exclusive),  *)
(* so what is in it is what the handler wrote since the last reset         *)
(* (Buffered).  Nothing is on the connection before the flush, and then    *)
(* all of it is (Answers).                                                 *)
(***************************************************************************)
EXTENDS Response, SequenceTheorems, TLAPS

-----------------------------------------------------------------------------
(* The inductive invariant *)

\* WithBufferedOutput has a buffer for r: until the deferred PutBuffer.
HasBuffer(r) == stage[r] \in {"handling", "flushing", "releasing", "unwinding"}

\* How the parts of a request go together: it has a buffer on the buffered path
\* only, and has panicked when the panic is unwinding or being reported.
Stays ==
  \A r \in Requests :
    /\ HasBuffer(r) <=> buffer[r] # None
    /\ HasBuffer(r) => kind[r] = "app"
    /\ stage[r] = "direct" => kind[r] = "static"
    /\ stage[r] = "idle" => /\ body[r] = <<>> /\ status[r] = 0 /\ raised[r] = None
                            /\ written[r] = <<>>
    /\ stage[r] \in {"unwinding", "reporting"} <=> raised[r] # None /\ stage[r] # "done"

\* BuffersAreExclusive, for the requests under way.
Exclusive ==
  /\ \A r, s \in Requests : buffer[r] # None /\ buffer[r] = buffer[s] => r = s
  /\ \A b \in pool : b \notin Held /\ len[b] = 0

\* The first n chunks of the array m are w.
Tracks(w, m, n) == Len(w) = n /\ \A i \in 1..n : m[i] = w[i]

\* The buffer of a request has what its handler wrote and did not reset.
Buffered ==
  \A r \in Requests :
    stage[r] \in {"handling", "flushing"} =>
      Tracks(written[r], mem[buffer[r]], len[buffer[r]])

\* All of s was written by r.
Of(r, s) == \A i \in 1..Len(s) : s[i][1] = r

\* OwnOutput, for what has not been sent as well.
Own == \A r \in Requests : Of(r, body[r]) /\ Of(r, written[r])

\* What is on the connection of a buffered request at each stage: nothing until
\* the flush or the report, then all of the output, or the error.
Answer(r) ==
  /\ stage[r] \in {"handling", "flushing", "unwinding", "reporting"} =>
       body[r] = <<>> /\ status[r] = 0
  /\ stage[r] = "releasing" => body[r] = written[r] /\ status[r] = finalCode(r)
  /\ stage[r] = "done" =>
       IF raised[r] = None
         THEN body[r] = written[r] /\ status[r] = finalCode(r)
         ELSE /\ body[r] = IF raised[r].message THEN message(r) ELSE <<>>
              /\ status[r] = raised[r].code

\* A handler that turned the buffering off answers for itself.
Answers ==
  \A r \in Requests : kind[r] = "app" /\ ~ disabled[r] => Answer(r)

Inv == TypeOK /\ Stays /\ Exclusive /\ Buffered /\ Own /\ Answers

-----------------------------------------------------------------------------
(* Buffers as sequences *)

\* A write puts its chunk behind the content, in the array or at its end.
LEMMA BufferWrite ==
  ASSUME NEW m \in Seq(Chunks), NEW n \in 0..Len(m), NEW c \in Chunks, NEW m2,
         m2 = IF n < Len(m) THEN [m EXCEPT ![n + 1] = c] ELSE Append(m, c)
  PROVE  /\ m2 \in Seq(Chunks) /\ n + 1 \in 0..Len(m2)
         /\ m2[n + 1] = c /\ \A i \in 1..n : m2[i] = m[i]
<1>1. CASE n < Len(m)
  <2>1. n + 1 \in 1..Len(m)
    BY <1>1
  <2> QED
    BY <1>1, <2>1, ExceptSeq
<1>2. CASE ~ (n < Len(m))
  BY <1>2, AppendProperties
<1> QED
  BY <1>1, <1>2

\* What a buffer tracks is its content.
LEMMA TracksIsContent ==
  ASSUME NEW m \in Seq(Chunks), NEW n \in 0..Len(m), NEW w \in Seq(Chunks), Tracks(w, m, n)
  PROVE  SubSeq(m, 1, n) = w
<1>1. /\ SubSeq(m, 1, n) \in Seq(Chunks) /\ Len(SubSeq(m, 1, n)) = n
      /\ \A i \in 1..n : SubSeq(m, 1, n)[i] = m[i]
  <2>1. \A i \in 1..n : m[i] \in Chunks
    BY ElementOfSeq
  <2> QED
    BY <2>1, SubSeqProperties
<1> QED
  BY <1>1, SeqEqual DEF Tracks

\* A chunk written to the buffer and noted is tracked.
LEMMA TracksWrite ==
  ASSUME NEW m \in Seq(Chunks), NEW n \in 0..Len(m), NEW w \in Seq(Chunks), Tracks(w, m, n),
         NEW c \in Chunks, NEW m2, m2[n + 1] = c, \A i \in 1..n : m2[i] = m[i]
  PROVE  Tracks(Append(w, c), m2, n + 1)
BY AppendProperties DEF Tracks

\* Output of a request behind output of the same request.
LEMMA ConcatOf ==
  ASSUME NEW r, NEW s \in Seq(Chunks), Of(r, s), NEW t \in Seq(Chunks), Of(r, t)
  PROVE  Of(r, s \o t)
<1> SUFFICES ASSUME NEW i \in 1..Len(s \o t) PROVE (s \o t)[i][1] = r
  BY DEF Of
<1>1. /\ Len(s \o t) = Len(s) + Len(t) /\ Len(s) \in Nat /\ Len(t) \in Nat
      /\ (s \o t)[i] = IF i <= Len(s) THEN s[i] ELSE t[i - Len(s)]
  BY ConcatProperties, LenProperties
<1>2. CASE i <= Len(s)
  BY <1>1, <1>2 DEF Of
<1>3. CASE ~ (i <= Len(s))
  <2>1. i - Len(s) \in 1..Len(t)
    BY <1>1, <1>3
  <2> QED
    BY <1>1, <1>3, <2>1 DEF Of
<1> QED
  BY <1>2, <1>3

\* One chunk of a request.
LEMMA ChunkOf ==
  ASSUME NEW r \in Requests, NEW n \in 0..MaxOps
  PROVE  /\ <<r, n>> \in Chunks /\ <<r, n>>[1] = r
         /\ <<<<r, n>>>> \in Seq(Chunks) /\ Of(r, <<<<r, n>>>>)
BY DEF Chunks, Of

-----------------------------------------------------------------------------
(* What the actions do *)

\* Every step is an action or a stutter.
LEMMA NextCases ==
  ASSUME [Next]_vars
  PROVE  \/ \E r \in Requests : Refuse(r) \/ ServeStatic(r)
         \/ \E r \in Requests : ServeBuffered(r)
         \/ \E r \in Requests : Write(r)
         \/ \E r \in Requests : BadHeader(r) \/ Disable(r)
         \/ \E r \in Requests, c \in Codes : WriteHeader(r, c)
         \/ \E r \in Requests : ResetOutputBuffer(r)
         \/ \E r \in Requests : Return(r)
         \/ \E r \in Requests : Flush(r)
         \/ \E r \in Requests : Release(r)
         \/ \E r \in Requests, p \in Panics : Panic(r, p)
         \/ \E r \in Requests : Report(r)
         \/ UNCHANGED vars
BY DEF Next

\* A function changed at one argument.
LEMMA Update ==
  ASSUME NEW S, NEW T, NEW f \in [S -> T], NEW x \in S, NEW v \in T
  PROVE  [f EXCEPT ![x] = v] \in [S -> T]
OBVIOUS

\* Sending a header sets the status of that connection, once.
LEMMA StatusType ==
  ASSUME TypeOK, NEW r \in Requests, NEW c \in Codes \cup {200, 400, 500}, sendHeader(r, c)
  PROVE  /\ status' \in [Requests -> Codes \cup {0, 200, 400, 500}]
         /\ \A q \in Requests \ {r} : status'[q] = status[q]
         /\ status'[r] = IF status[r] = 0 THEN c ELSE status[r]
BY DEF TypeOK, sendHeader

\* What all steps of a handler share.
LEMMA HandlingEffect ==
  ASSUME TypeOK, Stays, NEW r \in Requests, NEW op, Handling(r, op)
  PROVE  /\ stage[r] \in {"direct", "handling"}
         /\ ops' \in [Requests -> 0..MaxOps] /\ ops'[r] \in 0..MaxOps
         /\ UNCHANGED <<stage, kind, buffer, raised, pool>>
         /\ stage[r] = "handling" => buffer[r] \in Buffers
<1>1. ops[r] \in 0..MaxOps /\ ops[r] < MaxOps /\ ops[r] + 1 \in 0..MaxOps
  BY ConstantsAssumption DEF TypeOK, Handling
<1>2. ops' \in [Requests -> 0..MaxOps] /\ ops'[r] \in 0..MaxOps
  BY <1>1 DEF TypeOK, Handling
<1> QED
  BY <1>2 DEF TypeOK, Stays, HasBuffer, Handling

\* Setting a header or turning the buffering off leaves all output alone.
LEMMA OutputRests ==
  ASSUME \E r \in Requests : BadHeader(r) \/ Disable(r)
  PROVE  UNCHANGED <<stage, kind, buffer, raised, pool, status, body, mem, len, written>>
BY DEF BadHeader, Disable, Handling, conn, history

\* Replacing the output so far empties the buffer of the request.
LEMMA ResetEffect ==
  ASSUME TypeOK, Stays, NEW r \in Requests, ResetOutputBuffer(r)
  PROVE  /\ stage[r] = "handling" /\ buffer[r] \in Buffers
         /\ len' = [len EXCEPT ![buffer[r]] = 0]
         /\ written' = [written EXCEPT ![r] = <<>>]
         /\ UNCHANGED <<stage, kind, buffer, raised, pool, disabled, code, invalid, status,
                       body, mem, streamed>>
BY HandlingEffect DEF ResetOutputBuffer, conn

\* Putting a buffer back empties it, or leaves it to the garbage collector.
LEMMA ReleaseEffect ==
  ASSUME TypeOK, Stays, NEW r \in Requests, Release(r)
  PROVE  /\ stage[r] \in {"releasing", "unwinding"} /\ buffer[r] \in Buffers
         /\ buffer' = [buffer EXCEPT ![r] = None]
         /\ stage' = [stage EXCEPT ![r] = IF @ = "releasing" THEN "done" ELSE "reporting"]
         /\ \/ pool' = pool \cup {buffer[r]} /\ len' = [len EXCEPT ![buffer[r]] = 0]
            \/ UNCHANGED <<pool, len>>
         /\ UNCHANGED <<kind, disabled, code, invalid, raised, status, body, mem, written>>
<1>1. buffer[r] \in Buffers
  BY DEF Release, TypeOK, Stays, HasBuffer
<1> QED
  BY <1>1 DEF Release, PutBuffer, writer, conn, history

\* A write that goes to the connection.
LEMMA StreamedWrite ==
  ASSUME TypeOK, Stays, NEW r \in Requests, Write(r), Streams(r)
  PROVE  /\ Handling(r, "Write")
         /\ body' = [body EXCEPT ![r] = @ \o <<<<r, ops'[r]>>>>]
         /\ streamed' = [streamed EXCEPT ![r] = Append(@, <<r, ops'[r]>>)]
         /\ sendHeader(r, 200)
         /\ UNCHANGED <<disabled, code, invalid, mem, len, written, kept>>
BY DEF Write, sendBody

\* A write that goes to the buffer: its own array only, behind the content.
LEMMA BufferedWrite ==
  ASSUME TypeOK, Stays, NEW r \in Requests, Write(r), ~ Streams(r)
  PROVE  /\ Handling(r, "Write") /\ stage[r] = "handling" /\ buffer[r] \in Buffers
         /\ UNCHANGED <<disabled, code, invalid, conn, streamed, kept>>
         /\ written' = [written EXCEPT ![r] = Append(@, <<r, ops'[r]>>)]
         /\ len' = [len EXCEPT ![buffer[r]] = @ + 1]
         /\ mem' \in [Buffers -> Seq(Chunks)]
         /\ len[buffer[r]] + 1 \in 0..Len(mem'[buffer[r]])
         /\ \A b \in Buffers \ {buffer[r]} : mem'[b] = mem[b]
         /\ mem'[buffer[r]][len[buffer[r]] + 1] = <<r, ops'[r]>>
         /\ \A i \in 1..len[buffer[r]] : mem'[buffer[r]][i] = mem[buffer[r]][i]
<1> DEFINE b == buffer[r]
           chunk == <<r, ops'[r]>>
<1>1. /\ Handling(r, "Write") /\ stage[r] = "handling" /\ b \in Buffers
      /\ ops'[r] \in 0..MaxOps
  <2>1. Handling(r, "Write")
    BY DEF Write
  <2> QED
    BY <2>1, HandlingEffect DEF Streams
<1>2. chunk \in Chunks
  BY <1>1, ChunkOf
<1>3. mem[b] \in Seq(Chunks) /\ len[b] \in 0..Len(mem[b])
  BY <1>1 DEF TypeOK
<1>4. mem' = [mem EXCEPT ![b] = IF len[b] < Len(mem[b]) THEN [mem[b] EXCEPT ![len[b] + 1] = chunk]
                                                       ELSE Append(mem[b], chunk)]
  BY DEF Write
<1>5. /\ mem'[b] = IF len[b] < Len(mem[b]) THEN [mem[b] EXCEPT ![len[b] + 1] = chunk]
                                           ELSE Append(mem[b], chunk)
      /\ \A c \in Buffers \ {b} : mem'[c] = mem[c]
  BY <1>1, <1>4 DEF TypeOK
<1>6. /\ mem'[b] \in Seq(Chunks) /\ len[b] + 1 \in 0..Len(mem'[b])
      /\ mem'[b][len[b] + 1] = chunk /\ \A i \in 1..len[b] : mem'[b][i] = mem[b][i]
  BY <1>2, <1>3, <1>5, BufferWrite
<1>7. mem' \in [Buffers -> Seq(Chunks)]
  BY <1>4, <1>5, <1>6 DEF TypeOK
<1>8. /\ UNCHANGED <<disabled, code, invalid, conn, streamed, kept>>
      /\ written' = [written EXCEPT ![r] = Append(@, chunk)]
      /\ len' = [len EXCEPT ![b] = @ + 1]
  BY DEF Write
<1> QED
  BY <1>1, <1>5, <1>6, <1>7, <1>8

-----------------------------------------------------------------------------
(* Types *)

\* The variables have their types at first.
LEMMA TypeInit == Init => TypeOK
BY ConstantsAssumption, EmptySeq DEF Init, TypeOK, Stages

\* Every step keeps the types; a buffer's length is within its array.
LEMMA TypeStep ==
  ASSUME TypeOK, Stays, [Next]_vars
  PROVE  TypeOK'
<1> USE ConstantsAssumption
<1>1. CASE \E r \in Requests : Refuse(r) \/ ServeStatic(r)
  <2> PICK r \in Requests : Refuse(r) \/ ServeStatic(r)
    BY <1>1
  <2>1. /\ stage' \in [Requests -> Stages]
        /\ kind' \in [Requests -> Kinds \cup {None}]
    <3>1. CASE Refuse(r)
      BY <3>1, Update DEF TypeOK, Refuse, Stages
    <3>2. CASE ServeStatic(r)
      BY <3>2, Update DEF TypeOK, ServeStatic, Stages
    <3> QED
      BY <3>1, <3>2
  <2>2. status' \in [Requests -> Codes \cup {0, 200, 400, 500}]
    BY StatusType DEF TypeOK, Refuse, ServeStatic, conn
  <2> QED
    BY <2>1, <2>2 DEF TypeOK, Refuse, ServeStatic, writer, conn, buffers, history
<1>2. CASE \E r \in Requests : ServeBuffered(r)
  <2> PICK r \in Requests : ServeBuffered(r)
    BY <1>2
  <2>1. stage' \in [Requests -> Stages] /\ kind' \in [Requests -> Kinds \cup {None}]
    BY DEF TypeOK, ServeBuffered, Stages
  <2>2. buffer' \in [Requests -> Buffers \cup {None}] /\ pool' \subseteq Buffers
    BY DEF TypeOK, ServeBuffered, Obtainable
  <2> QED
    BY <2>1, <2>2 DEF TypeOK, ServeBuffered, writer, conn, history
<1>3. CASE \E r \in Requests : Write(r)
  <2> PICK r \in Requests : Write(r)
    BY <1>3
  <2>1. Handling(r, "Write")
    BY DEF Write
  <2>0. /\ UNCHANGED <<stage, kind, buffer, raised, pool>>
        /\ ops' \in [Requests -> 0..MaxOps] /\ ops'[r] \in 0..MaxOps
    BY <2>1, HandlingEffect
  <2>2. <<r, ops'[r]>> \in Chunks
    BY <2>0, ChunkOf
  <2>3. CASE Streams(r)
    <3>1. body[r] \o <<<<r, ops'[r]>>>> \in Seq(Chunks)
      BY <2>2, ConcatProperties DEF TypeOK
    <3>2. Append(streamed[r], <<r, ops'[r]>>) \in Seq(Chunks)
      BY <2>2, AppendProperties DEF TypeOK
    <3>3. /\ body' = [body EXCEPT ![r] = body[r] \o <<<<r, ops'[r]>>>>]
          /\ streamed' = [streamed EXCEPT ![r] = Append(streamed[r], <<r, ops'[r]>>)]
          /\ sendHeader(r, 200)
          /\ UNCHANGED <<disabled, code, invalid, mem, len, written, kept>>
      BY <2>3, StreamedWrite
    <3>4. body' \in [Requests -> Seq(Chunks)] /\ streamed' \in [Requests -> Seq(Chunks)]
      BY <3>1, <3>2, <3>3, Update DEF TypeOK
    <3>5. status' \in [Requests -> Codes \cup {0, 200, 400, 500}]
      BY <3>3, StatusType
    <3> QED
      BY <2>0, <3>3, <3>4, <3>5 DEF TypeOK
  <2>4. CASE ~ Streams(r)
    <3>1. Append(written[r], <<r, ops'[r]>>) \in Seq(Chunks)
      BY <2>2, AppendProperties DEF TypeOK
    <3>2. /\ UNCHANGED <<disabled, code, invalid, conn, streamed, kept>>
          /\ written' = [written EXCEPT ![r] = Append(written[r], <<r, ops'[r]>>)]
          /\ mem' \in [Buffers -> Seq(Chunks)]
      BY <2>4, BufferedWrite
    <3>3. written' \in [Requests -> Seq(Chunks)]
      BY <3>1, <3>2, Update DEF TypeOK
    <3>4. /\ len' = [len EXCEPT ![buffer[r]] = len[buffer[r]] + 1]
          /\ len[buffer[r]] + 1 \in 0..Len(mem'[buffer[r]])
          /\ \A b \in Buffers \ {buffer[r]} : mem'[b] = mem[b]
          /\ buffer[r] \in Buffers
      BY <2>4, BufferedWrite
    <3>5. len' \in [Buffers -> Nat] /\ \A b \in Buffers : len'[b] <= Len(mem'[b])
      BY <3>4 DEF TypeOK
    <3> QED
      BY <2>0, <3>2, <3>3, <3>5 DEF TypeOK, conn
  <2> QED
    BY <2>3, <2>4
<1>4. CASE \E r \in Requests : BadHeader(r) \/ Disable(r)
  <2> PICK r \in Requests, op \in {"Header", "Disable"} :
             (BadHeader(r) \/ Disable(r)) /\ Handling(r, op)
    BY <1>4 DEF BadHeader, Disable
  <2>1. invalid' \in [Requests -> BOOLEAN] /\ disabled' \in [Requests -> BOOLEAN]
    <3>1. CASE BadHeader(r)
      BY <3>1, Update DEF TypeOK, BadHeader
    <3>2. CASE Disable(r)
      BY <3>2, Update DEF TypeOK, Disable
    <3> QED
      BY <3>1, <3>2
  <2>2. /\ UNCHANGED <<stage, kind, buffer, raised, pool>>
        /\ ops' \in [Requests -> 0..MaxOps]
    BY HandlingEffect
  <2>3. UNCHANGED <<code, status, body, mem, len, written, streamed, kept>>
    BY DEF BadHeader, Disable, conn, history
  <2> QED
    BY <2>1, <2>2, <2>3 DEF TypeOK
<1>5. CASE \E r \in Requests, c \in Codes : WriteHeader(r, c)
  <2> PICK r \in Requests, c \in Codes : WriteHeader(r, c)
    BY <1>5
  <2>0. Handling(r, "WriteHeader")
    BY DEF WriteHeader
  <2>1. status' \in [Requests -> Codes \cup {0, 200, 400, 500}]
    BY StatusType DEF TypeOK, WriteHeader
  <2>2. code' \in [Requests -> Codes \cup {0}]
    <3>1. code \in [Requests -> Codes \cup {0}] /\ c \in Codes \cup {0}
      BY DEF TypeOK
    <3>2. code' = code \/ code' = [code EXCEPT ![r] = c]
      BY DEF WriteHeader
    <3> QED
      BY <3>1, <3>2
  <2>3. /\ UNCHANGED <<stage, kind, buffer, raised, pool>>
        /\ ops' \in [Requests -> 0..MaxOps]
    BY <2>0, HandlingEffect
  <2>4. UNCHANGED <<disabled, invalid, body, mem, len, written, streamed, kept>>
    BY DEF WriteHeader, history
  <2> QED
    BY <2>1, <2>2, <2>3, <2>4 DEF TypeOK
<1>6. CASE \E r \in Requests : ResetOutputBuffer(r)
  <2> PICK r \in Requests : ResetOutputBuffer(r)
    BY <1>6
  <2>0. Handling(r, "Reset") /\ buffer[r] \in Buffers
    BY HandlingEffect DEF ResetOutputBuffer
  <2>1. content(buffer[r]) \in Seq(Chunks)
    <3>1. \A i \in 1..len[buffer[r]] : mem[buffer[r]][i] \in Chunks
      BY <2>0, ElementOfSeq DEF TypeOK
    <3>2. len[buffer[r]] \in Int
      BY <2>0, LenProperties DEF TypeOK
    <3> QED
      BY <3>1, <3>2, SubSeqProperties DEF content
  <2>2. kept' \in [Requests -> Seq(Chunks)] /\ written' \in [Requests -> Seq(Chunks)]
    BY <2>1, EmptySeq DEF TypeOK, ResetOutputBuffer
  <2>3. len' \in [Buffers -> Nat] /\ \A b \in Buffers : len'[b] <= Len(mem[b])
    <3>1. len' = [len EXCEPT ![buffer[r]] = 0]
      BY DEF ResetOutputBuffer
    <3>2. \A b \in Buffers : Len(mem[b]) \in Nat
      BY LenProperties DEF TypeOK
    <3>3. len \in [Buffers -> Nat] /\ \A b \in Buffers : len[b] <= Len(mem[b])
      BY DEF TypeOK
    <3>4. len' \in [Buffers -> Nat]
      BY <3>1, <3>3
    <3>5. \A b \in Buffers : len'[b] <= Len(mem[b])
      BY <3>1, <3>2, <3>3
    <3> QED
      BY <3>4, <3>5
  <2> QED
    <3>1. UNCHANGED <<stage, kind, buffer, raised, pool, disabled, code, invalid, status,
                      body, mem, streamed>>
      BY ResetEffect
    <3>2. ops' \in [Requests -> 0..MaxOps]
      BY <2>0, HandlingEffect
    <3> QED
      BY <2>2, <2>3, <3>1, <3>2 DEF TypeOK
<1>7. CASE \E r \in Requests : Return(r)
  BY <1>7 DEF TypeOK, Return, writer, buffers, history, Stages
<1>8. CASE \E r \in Requests : Flush(r)
  <2> PICK r \in Requests : Flush(r)
    BY <1>8
  <2>1. stage' \in [Requests -> Stages]
    BY DEF TypeOK, Flush, Stages
  <2>2. status' \in [Requests -> Codes \cup {0, 200, 400, 500}]
    <3>1. finalCode(r) \in Codes \cup {200, 500}
      BY DEF TypeOK, finalCode
    <3> QED
      <4> DEFINE c == finalCode(r)
      <4>1. c \in Codes \cup {200, 400, 500} /\ sendHeader(r, c)
        BY <3>1 DEF Flush, sendBody
      <4> HIDE DEF c
      <4> QED
        BY <4>1, StatusType
  <2>3. body[r] \o content(buffer[r]) \in Seq(Chunks)
    <3>1. buffer[r] \in Buffers
      BY DEF Flush, TypeOK, Stays, HasBuffer
    <3>2. content(buffer[r]) \in Seq(Chunks)
      <4>1. \A i \in 1..len[buffer[r]] : mem[buffer[r]][i] \in Chunks
        BY <3>1, ElementOfSeq DEF TypeOK
      <4>2. len[buffer[r]] \in Int
        BY <3>1, LenProperties DEF TypeOK
      <4> QED
        BY <4>1, <4>2, SubSeqProperties DEF content
    <3> QED
      BY <3>2, ConcatProperties DEF TypeOK
  <2>4. body' \in [Requests -> Seq(Chunks)]
    BY <2>3 DEF TypeOK, Flush, sendBody
  <2> QED
    BY <2>1, <2>2, <2>4 DEF TypeOK, Flush, writer, buffers, history
<1>9. CASE \E r \in Requests : Release(r)
  <2> PICK r \in Requests : Release(r)
    BY <1>9
  <2>1. stage' \in [Requests -> Stages] /\ buffer' \in [Requests -> Buffers \cup {None}]
    BY DEF TypeOK, Release, Stages
  <2>2. buffer[r] \in Buffers
    BY DEF Release, TypeOK, Stays, HasBuffer
  <2>3. pool' \subseteq Buffers
    BY <2>2 DEF Release, PutBuffer, TypeOK
  <2>4. len' \in [Buffers -> Nat] /\ \A b \in Buffers : len'[b] <= Len(mem'[b])
    <3>1. mem' = mem /\ (len' = len \/ len' = [len EXCEPT ![buffer[r]] = 0])
      BY DEF Release, PutBuffer
    <3>2. \A b \in Buffers : Len(mem[b]) \in Nat
      BY LenProperties DEF TypeOK
    <3>3. len \in [Buffers -> Nat] /\ \A b \in Buffers : len[b] <= Len(mem[b])
      BY DEF TypeOK
    <3> QED
      BY <3>1, <3>2, <3>3
  <2> QED
    BY <2>1, <2>3, <2>4 DEF TypeOK, Release, PutBuffer, writer, conn, history
<1>10. CASE \E r \in Requests, p \in Panics : Panic(r, p)
  BY <1>10 DEF TypeOK, Panic, writer, conn, buffers, history, Stages
<1>11. CASE \E r \in Requests : Report(r)
  <2> PICK r \in Requests : Report(r)
    BY <1>11
  <2>1. stage' \in [Requests -> Stages]
    BY DEF TypeOK, Report, Stages
  <2>2. raised[r].code \in Codes
    BY DEF Report, TypeOK, Stays, Panics
  <2>3. status' \in [Requests -> Codes \cup {0, 200, 400, 500}]
    <3> DEFINE c == raised[r].code
    <3>1. c \in Codes \cup {200, 400, 500} /\ sendHeader(r, c)
      BY <2>2 DEF Report, sendBody
    <3> HIDE DEF c
    <3> QED
      BY <3>1, StatusType
  <2>4. body[r] \o message(r) \in Seq(Chunks)
    <3>1. message(r) \in Seq(Chunks)
      <4>1. 0 \in 0..MaxOps
        OBVIOUS
      <4> QED
        BY <4>1, ChunkOf DEF message
    <3> QED
      BY <3>1, ConcatProperties DEF TypeOK
  <2>5. body' \in [Requests -> Seq(Chunks)]
    <3>1. body' = body \/ body' = [body EXCEPT ![r] = body[r] \o message(r)]
      BY DEF Report, sendBody
    <3>2. body \in [Requests -> Seq(Chunks)]
      BY DEF TypeOK
    <3> QED
      BY <2>4, <3>1, <3>2
  <2> QED
    BY <2>1, <2>3, <2>5 DEF TypeOK, Report, writer, buffers, history
<1>12. CASE UNCHANGED vars
  BY <1>12 DEF TypeOK, vars, writer, conn, buffers, history
<1> QED
  BY NextCases, <1>1, <1>2, <1>3, <1>4, <1>5, <1>6, <1>7, <1>8, <1>9, <1>10, <1>11, <1>12

-----------------------------------------------------------------------------
(* Buffers *)

\* A request has a buffer on the buffered path only.
LEMMA StaysStep ==
  ASSUME TypeOK, Stays, [Next]_vars
  PROVE  Stays'
<1> USE ConstantsAssumption DEF TypeOK, Stays, HasBuffer, Stages, Panics
<1>1. CASE \E r \in Requests : Refuse(r) \/ ServeStatic(r)
  BY <1>1 DEF Refuse, ServeStatic, sendHeader, writer, conn, buffers, history
<1>2. CASE \E r \in Requests : ServeBuffered(r)
  BY <1>2 DEF ServeBuffered, Obtainable, writer, conn, buffers, history
<1>3. CASE \E r \in Requests : Write(r)
  <2> PICK r \in Requests : Write(r)
    BY <1>3
  <2>1. stage[r] # "idle" /\ UNCHANGED <<stage, kind, buffer, raised>>
    BY DEF Write, Handling
  <2>2. \A q \in Requests \ {r} :
          body'[q] = body[q] /\ status'[q] = status[q] /\ written'[q] = written[q]
    <3>1. CASE Streams(r)
      <4>1. /\ sendHeader(r, 200) /\ UNCHANGED written
            /\ body' = [body EXCEPT ![r] = body[r] \o <<<<r, ops'[r]>>>>]
        BY <3>1, StreamedWrite
      <4> QED
        BY <4>1 DEF sendHeader
    <3>2. CASE ~ Streams(r)
      <4>1. UNCHANGED <<status, body>> /\ written' = [written EXCEPT ![r] = Append(@, <<r, ops'[r]>>)]
        BY <3>2, BufferedWrite DEF conn
      <4> QED
        BY <4>1
    <3> QED
      BY <3>1, <3>2
  <2> QED
    BY <2>1, <2>2
<1>4. CASE \E r \in Requests : BadHeader(r) \/ Disable(r)
  <2>1. UNCHANGED <<stage, kind, buffer, raised, pool, status, body, mem, len, written>>
    BY <1>4, OutputRests
  <2> QED
    BY <2>1
<1>5. CASE \E r \in Requests, c \in Codes : WriteHeader(r, c)
  BY <1>5 DEF WriteHeader, Handling, sendHeader, history
<1>6. CASE \E r \in Requests : ResetOutputBuffer(r)
  BY <1>6 DEF ResetOutputBuffer, Handling, conn
<1>7. CASE \E r \in Requests : Return(r)
  BY <1>7 DEF Return, writer, buffers, history
<1>8. CASE \E r \in Requests : Flush(r)
  BY <1>8 DEF Flush, sendBody, sendHeader, writer, buffers, history
<1>9. CASE \E r \in Requests : Release(r)
  BY <1>9 DEF Release, PutBuffer, writer, conn, buffers, history
<1>10. CASE \E r \in Requests, p \in Panics : Panic(r, p)
  BY <1>10 DEF Panic, writer, conn, buffers, history
<1>11. CASE \E r \in Requests : Report(r)
  <2> PICK r \in Requests : Report(r)
    BY <1>11
  <2>1. /\ stage[r] = "reporting" /\ stage' = [stage EXCEPT ![r] = "done"]
        /\ UNCHANGED <<kind, buffer, raised, written>>
    BY DEF Report, history
  <2>2. /\ body' = body \/ body' = [body EXCEPT ![r] = body[r] \o message(r)]
        /\ sendHeader(r, raised[r].code)
    BY DEF Report, sendBody
  <2>3. \A q \in Requests \ {r} : body'[q] = body[q] /\ status'[q] = status[q]
    BY <2>2 DEF sendHeader
  <2> QED
    BY <2>1, <2>3
<1>12. CASE UNCHANGED vars
  BY <1>12 DEF vars, writer, conn, buffers, history
<1> QED
  BY NextCases, <1>1, <1>2, <1>3, <1>4, <1>5, <1>6, <1>7, <1>8, <1>9, <1>10, <1>11, <1>12

\* A buffer is given to one request, and is emptied when it is put back.
LEMMA ExclusiveStep ==
  ASSUME TypeOK, Stays, Exclusive, [Next]_vars
  PROVE  Exclusive'
<1> USE ConstantsAssumption DEF TypeOK, Stays, HasBuffer, Exclusive, Held
<1>1. CASE \E r \in Requests : Refuse(r) \/ ServeStatic(r)
  BY <1>1 DEF Refuse, ServeStatic, sendHeader, writer, conn, buffers, history
<1>2. CASE \E r \in Requests : ServeBuffered(r)
  <2> HIDE DEF TypeOK, Stays, HasBuffer, Held, Exclusive
  <2> PICK r \in Requests, b \in Obtainable :
             buffer' = [buffer EXCEPT ![r] = b] /\ pool' = pool \ {b} /\ UNCHANGED len
    BY <1>2 DEF ServeBuffered
  <2>1. buffer \in [Requests -> Buffers \cup {None}] /\ pool \subseteq Buffers
    BY DEF TypeOK
  <2>2. b \in Buffers /\ \A q \in Requests : buffer[q] # b
    BY <2>1 DEF Obtainable, Exclusive, Held
  <2>3. \A q \in Requests : buffer'[q] = IF q = r THEN b ELSE buffer[q]
    BY <2>1
  <2>4. \A p, q \in Requests : buffer'[p] # None /\ buffer'[p] = buffer'[q] => p = q
    BY <2>2, <2>3 DEF Exclusive
  <2>5. ASSUME NEW c \in pool' PROVE len'[c] = 0 /\ \A q \in Requests : buffer'[q] # c
    BY <2>3 DEF Exclusive, Held
  <2> QED
    BY <2>4, <2>5 DEF Exclusive, Held
<1>3. CASE \E r \in Requests : Write(r)
  BY <1>3 DEF Write, Handling, sendBody, sendHeader
<1>4. CASE \E r \in Requests : BadHeader(r) \/ Disable(r)
  <2>1. UNCHANGED <<stage, kind, buffer, raised, pool, status, body, mem, len, written>>
    BY <1>4, OutputRests
  <2> QED
    BY <2>1
<1>5. CASE \E r \in Requests, c \in Codes : WriteHeader(r, c)
  BY <1>5 DEF WriteHeader, Handling, sendHeader, history
<1>6. CASE \E r \in Requests : ResetOutputBuffer(r)
  BY <1>6 DEF ResetOutputBuffer, Handling, conn
<1>7. CASE \E r \in Requests : Return(r)
  BY <1>7 DEF Return, writer, buffers, history
<1>8. CASE \E r \in Requests : Flush(r)
  BY <1>8 DEF Flush, sendBody, sendHeader, writer, buffers, history
<1>9. CASE \E r \in Requests : Release(r)
  <2> PICK r \in Requests : Release(r)
    BY <1>9
  <2> HIDE DEF TypeOK, Stays, HasBuffer, Held, Exclusive
  <2>0. /\ buffer \in [Requests -> Buffers \cup {None}] /\ pool \subseteq Buffers
        /\ len \in [Buffers -> Nat]
    BY DEF TypeOK
  <2>1. /\ buffer[r] \in Buffers /\ buffer' = [buffer EXCEPT ![r] = None]
        /\ \/ pool' = pool \cup {buffer[r]} /\ len' = [len EXCEPT ![buffer[r]] = 0]
           \/ UNCHANGED <<pool, len>>
    BY ReleaseEffect
  <2>2. \A q \in Requests : buffer'[q] = IF q = r THEN None ELSE buffer[q]
    BY <2>0, <2>1
  <2>3. \A q \in Requests \ {r} : buffer[q] # buffer[r]
    BY <2>1, ConstantsAssumption DEF Exclusive
  <2>4. \A p, q \in Requests : buffer'[p] # None /\ buffer'[p] = buffer'[q] => p = q
    BY <2>2 DEF Exclusive
  <2>5. ASSUME NEW b \in pool' PROVE \A q \in Requests : buffer'[q] # b
    <3>1. CASE b = buffer[r]
      BY <2>1, <2>2, <2>3, <3>1, ConstantsAssumption
    <3>2. CASE b \in pool
      BY <2>0, <2>2, <3>2, ConstantsAssumption DEF Exclusive, Held
    <3> QED
      BY <2>1, <3>1, <3>2
  <2>6. ASSUME NEW b \in pool' PROVE len'[b] = 0
    BY <2>0, <2>1 DEF Exclusive
  <2> QED
    BY <2>4, <2>5, <2>6 DEF Exclusive, Held
<1>10. CASE \E r \in Requests, p \in Panics : Panic(r, p)
  BY <1>10 DEF Panic, writer, conn, buffers, history
<1>11. CASE \E r \in Requests : Report(r)
  BY <1>11 DEF Report, sendHeader, sendBody, message, writer, buffers, history
<1>12. CASE UNCHANGED vars
  BY <1>12 DEF vars, writer, conn, buffers, history
<1> QED
  BY NextCases, <1>1, <1>2, <1>3, <1>4, <1>5, <1>6, <1>7, <1>8, <1>9, <1>10, <1>11, <1>12

\* A write changes one buffer, and its request notes the same chunk.
LEMMA TracksAfterWrite ==
  ASSUME TypeOK, Stays, Exclusive, Buffered, NEW r \in Requests, Write(r)
  PROVE  Buffered'
<1>1. CASE Streams(r)
  <2>1. UNCHANGED <<stage, buffer, mem, len, written>>
    BY <1>1, StreamedWrite DEF Handling
  <2> QED
    BY <2>1 DEF Buffered
<1>2. CASE ~ Streams(r)
  <2> DEFINE b == buffer[r]
  <2>1. /\ Handling(r, "Write") /\ stage[r] = "handling" /\ b \in Buffers
        /\ written' = [written EXCEPT ![r] = Append(written[r], <<r, ops'[r]>>)]
        /\ len' = [len EXCEPT ![b] = len[b] + 1]
        /\ \A c \in Buffers \ {b} : mem'[c] = mem[c]
        /\ mem'[b][len[b] + 1] = <<r, ops'[r]>>
        /\ \A i \in 1..len[b] : mem'[b][i] = mem[b][i]
    BY <1>2, BufferedWrite
  <2>2. UNCHANGED <<stage, buffer>> /\ <<r, ops'[r]>> \in Chunks
    BY <2>1, HandlingEffect, ChunkOf
  <2>3. /\ mem[b] \in Seq(Chunks) /\ written[r] \in Seq(Chunks) /\ len[b] \in Nat
        /\ len[b] \in 0..Len(mem[b])
    BY <2>1, LenProperties DEF TypeOK
  <2>4. Tracks(Append(written[r], <<r, ops'[r]>>), mem'[b], len[b] + 1)
    <3>1. Tracks(written[r], mem[b], len[b])
      BY <2>1 DEF Buffered
    <3> QED
      BY <2>1, <2>2, <2>3, <3>1, TracksWrite
  <2>5. Tracks(written'[r], mem'[b], len'[b])
    <3>1. written'[r] = Append(written[r], <<r, ops'[r]>>) /\ len'[b] = len[b] + 1
      BY <2>1 DEF TypeOK
    <3> QED
      BY <2>4, <3>1
  <2>6. ASSUME NEW q \in Requests \ {r}, stage[q] \in {"handling", "flushing"}
        PROVE  Tracks(written'[q], mem'[buffer[q]], len'[buffer[q]])
    <3>1. buffer[q] \in Buffers \ {b}
      BY <2>1, <2>6 DEF TypeOK, Stays, HasBuffer, Exclusive
    <3>2. /\ written'[q] = written[q] /\ mem'[buffer[q]] = mem[buffer[q]]
          /\ len'[buffer[q]] = len[buffer[q]]
      BY <2>1, <2>6, <3>1 DEF TypeOK
    <3> QED
      BY <2>6, <3>2 DEF Buffered
  <2> QED
    BY <2>2, <2>5, <2>6 DEF Buffered
<1> QED
  BY <1>1, <1>2

\* A buffer keeps to what its request wrote.
LEMMA BufferedStep ==
  ASSUME TypeOK, Stays, Exclusive, Buffered, [Next]_vars
  PROVE  Buffered'
<1> USE ConstantsAssumption DEF TypeOK, Stays, HasBuffer, Exclusive, Held, Buffered, Tracks
<1>1. CASE \E r \in Requests : Refuse(r) \/ ServeStatic(r)
  <2> PICK r \in Requests : Refuse(r) \/ ServeStatic(r)
    BY <1>1
  <2>1. /\ UNCHANGED <<buffer, mem, len, written>>
        /\ \A q \in Requests : stage'[q] \in {"handling", "flushing"} => stage'[q] = stage[q]
    BY DEF Refuse, ServeStatic, buffers, history
  <2> QED
    BY <2>1
<1>2. CASE \E r \in Requests : ServeBuffered(r)
  BY <1>2 DEF ServeBuffered, Obtainable, writer, conn, buffers, history
<1>3. CASE \E r \in Requests : Write(r)
  BY <1>3, TracksAfterWrite
<1>4. CASE \E r \in Requests : BadHeader(r) \/ Disable(r)
  <2>1. UNCHANGED <<stage, kind, buffer, raised, pool, status, body, mem, len, written>>
    BY <1>4, OutputRests
  <2> QED
    BY <2>1
<1>5. CASE \E r \in Requests, c \in Codes : WriteHeader(r, c)
  BY <1>5 DEF WriteHeader, Handling, sendHeader, history
<1>6. CASE \E r \in Requests : ResetOutputBuffer(r)
  <2> PICK r \in Requests : ResetOutputBuffer(r)
    BY <1>6
  <2> HIDE DEF TypeOK, Stays, HasBuffer, Held, Exclusive, Buffered
  <2>0. /\ len \in [Buffers -> Nat] /\ written \in [Requests -> Seq(Chunks)]
        /\ buffer \in [Requests -> Buffers \cup {None}]
    BY DEF TypeOK
  <2>1. /\ buffer[r] \in Buffers /\ len' = [len EXCEPT ![buffer[r]] = 0]
        /\ written' = [written EXCEPT ![r] = <<>>] /\ UNCHANGED <<stage, buffer, mem>>
    BY ResetEffect
  <2>2. Tracks(written'[r], mem'[buffer[r]], len'[buffer[r]])
    <3>1. written'[r] = <<>> /\ len'[buffer[r]] = 0
      BY <2>0, <2>1
    <3> QED
      BY <3>1
  <2>3. ASSUME NEW q \in Requests \ {r}, stage[q] \in {"handling", "flushing"}
        PROVE  Tracks(written'[q], mem'[buffer[q]], len'[buffer[q]])
    <3>1. buffer[q] \in Buffers \ {buffer[r]}
      BY <2>0, <2>1, <2>3 DEF Stays, HasBuffer, Exclusive
    <3>2. written'[q] = written[q] /\ len'[buffer[q]] = len[buffer[q]]
      BY <2>0, <2>1, <3>1
    <3> QED
      BY <2>1, <2>3, <3>2 DEF Buffered
  <2> QED
    BY <2>1, <2>2, <2>3 DEF Buffered
<1>7. CASE \E r \in Requests : Return(r)
  BY <1>7 DEF Return, writer, buffers, history
<1>8. CASE \E r \in Requests : Flush(r)
  BY <1>8 DEF Flush, sendBody, sendHeader, writer, buffers, history
<1>9. CASE \E r \in Requests : Release(r)
  <2> PICK r \in Requests : Release(r)
    BY <1>9
  <2> HIDE DEF TypeOK, Stays, HasBuffer, Held, Exclusive, Tracks
  <2>0. /\ len \in [Buffers -> Nat] /\ stage \in [Requests -> Stages]
        /\ buffer \in [Requests -> Buffers \cup {None}]
    BY DEF TypeOK
  <2>1. /\ buffer[r] \in Buffers /\ buffer' = [buffer EXCEPT ![r] = None]
        /\ stage' = [stage EXCEPT ![r] = IF @ = "releasing" THEN "done" ELSE "reporting"]
        /\ len' = len \/ len' = [len EXCEPT ![buffer[r]] = 0]
        /\ UNCHANGED <<mem, written>>
    BY ReleaseEffect
  <2> SUFFICES ASSUME NEW q \in Requests, stage'[q] \in {"handling", "flushing"}
               PROVE  Tracks(written'[q], mem'[buffer'[q]], len'[buffer'[q]])
    OBVIOUS
  <2>2. q # r /\ stage[q] = stage'[q]
    BY <2>0, <2>1
  <2>3. buffer'[q] = buffer[q] /\ buffer[q] \in Buffers \ {buffer[r]}
    BY <2>0, <2>1, <2>2 DEF Stays, HasBuffer, Exclusive
  <2>4. len'[buffer[q]] = len[buffer[q]]
    BY <2>0, <2>1, <2>3
  <2> QED
    BY <2>1, <2>2, <2>3, <2>4
<1>10. CASE \E r \in Requests, p \in Panics : Panic(r, p)
  BY <1>10 DEF Panic, writer, conn, buffers, history
<1>11. CASE \E r \in Requests : Report(r)
  BY <1>11 DEF Report, sendHeader, sendBody, message, writer, buffers, history
<1>12. CASE UNCHANGED vars
  BY <1>12 DEF vars, writer, conn, buffers, history
<1> QED
  BY NextCases, <1>1, <1>2, <1>3, <1>4, <1>5, <1>6, <1>7, <1>8, <1>9, <1>10, <1>11, <1>12

-----------------------------------------------------------------------------
(* Output *)

\* The flush sends what the handler wrote.
LEMMA FlushEffect ==
  ASSUME TypeOK, Stays, Buffered, NEW r \in Requests, Flush(r)
  PROVE  /\ body' = [body EXCEPT ![r] = body[r] \o written[r]]
         /\ sendHeader(r, finalCode(r))
         /\ stage[r] = "flushing" /\ stage' = [stage EXCEPT ![r] = "releasing"]
         /\ UNCHANGED <<kind, writer, raised, written>>
<1>1. buffer[r] \in Buffers /\ Tracks(written[r], mem[buffer[r]], len[buffer[r]])
  BY DEF Flush, TypeOK, Stays, HasBuffer, Buffered
<1>2. content(buffer[r]) = written[r]
  <2>1. /\ mem[buffer[r]] \in Seq(Chunks) /\ written[r] \in Seq(Chunks)
        /\ len[buffer[r]] \in 0..Len(mem[buffer[r]])
    BY <1>1, LenProperties DEF TypeOK
  <2> QED
    BY <1>1, <2>1, TracksIsContent DEF content
<1> QED
  BY <1>2 DEF Flush, sendBody, history

\* What is written and sent for a request is its own.
LEMMA OwnStep ==
  ASSUME TypeOK, Stays, Buffered, Own, [Next]_vars
  PROVE  Own'
<1> USE DEF Own
<1>0. ASSUME UNCHANGED <<body, written>> PROVE Own'
  BY <1>0
<1>1. CASE \E r \in Requests : Write(r)
  <2> PICK r \in Requests : Write(r)
    BY <1>1
  <2>1. <<r, ops'[r]>> \in Chunks /\ <<<<r, ops'[r]>>>> \in Seq(Chunks)
        /\ Of(r, <<<<r, ops'[r]>>>>)
    BY HandlingEffect, ChunkOf DEF Write
  <2>2. body[r] \in Seq(Chunks) /\ written[r] \in Seq(Chunks)
    BY DEF TypeOK
  <2>3. CASE Streams(r)
    <3>1. /\ body' = [body EXCEPT ![r] = body[r] \o <<<<r, ops'[r]>>>>]
          /\ UNCHANGED written
      BY <2>3, StreamedWrite
    <3>2. Of(r, body[r] \o <<<<r, ops'[r]>>>>)
      BY <2>1, <2>2, ConcatOf
    <3> QED
      BY <3>1, <3>2 DEF TypeOK
  <2>4. CASE ~ Streams(r)
    <3>1. /\ written' = [written EXCEPT ![r] = Append(written[r], <<r, ops'[r]>>)]
          /\ UNCHANGED body
      BY <2>4, BufferedWrite DEF conn
    <3>2. Append(written[r], <<r, ops'[r]>>) = written[r] \o <<<<r, ops'[r]>>>>
      BY <2>1, <2>2, AppendIsConcat
    <3>3. Of(r, Append(written[r], <<r, ops'[r]>>))
      BY <2>1, <2>2, <3>2, ConcatOf
    <3> QED
      BY <3>1, <3>3 DEF TypeOK
  <2> QED
    BY <2>3, <2>4
<1>2. CASE \E r \in Requests : ResetOutputBuffer(r)
  <2> PICK r \in Requests : ResetOutputBuffer(r)
    BY <1>2
  <2>1. written' = [written EXCEPT ![r] = <<>>] /\ UNCHANGED body
    BY DEF ResetOutputBuffer, conn
  <2>2. Of(r, <<>>)
    BY EmptySeq DEF Of
  <2> QED
    BY <2>1, <2>2 DEF TypeOK
<1>3. CASE \E r \in Requests : Flush(r)
  <2> PICK r \in Requests : Flush(r)
    BY <1>3
  <2>1. body' = [body EXCEPT ![r] = body[r] \o written[r]] /\ UNCHANGED written
    BY FlushEffect
  <2>2. Of(r, body[r] \o written[r])
    BY ConcatOf DEF TypeOK
  <2> QED
    BY <2>1, <2>2 DEF TypeOK
<1>4. CASE \E r \in Requests : Report(r)
  <2> PICK r \in Requests : Report(r)
    BY <1>4
  <2>1. /\ body' = body \/ body' = [body EXCEPT ![r] = body[r] \o message(r)]
        /\ UNCHANGED written
    BY DEF Report, sendBody, history
  <2>2. Of(r, body[r] \o message(r))
    <3>1. 0 \in 0..MaxOps
      BY ConstantsAssumption
    <3>2. message(r) \in Seq(Chunks) /\ Of(r, message(r))
      BY <3>1, ChunkOf DEF message
    <3> QED
      BY <3>2, ConcatOf DEF TypeOK
  <2>3. CASE body' = [body EXCEPT ![r] = body[r] \o message(r)]
    BY <2>1, <2>2, <2>3 DEF TypeOK
  <2> QED
    BY <1>0, <2>1, <2>3
<1>5. CASE \E r \in Requests : \/ Refuse(r) \/ ServeStatic(r) \/ ServeBuffered(r)
                             \/ BadHeader(r) \/ Disable(r) \/ Return(r) \/ Release(r)
  BY <1>0, <1>5 DEF Refuse, ServeStatic, ServeBuffered, BadHeader, Disable, Return, Release,
                    conn, history
<1>6. CASE \E r \in Requests, c \in Codes : WriteHeader(r, c)
  BY <1>0, <1>6 DEF WriteHeader, history
<1>7. CASE \E r \in Requests, p \in Panics : Panic(r, p)
  BY <1>0, <1>7 DEF Panic, conn, history
<1>8. CASE UNCHANGED vars
  BY <1>0, <1>8 DEF vars, conn, history
<1> QED
  BY NextCases, <1>1, <1>2, <1>3, <1>4, <1>5, <1>6, <1>7, <1>8

\* A step of request r.
Step(r) ==
  \/ Refuse(r) \/ ServeStatic(r) \/ ServeBuffered(r)
  \/ Write(r) \/ BadHeader(r) \/ Disable(r) \/ ResetOutputBuffer(r)
  \/ \E c \in Codes : WriteHeader(r, c)
  \/ Return(r) \/ Flush(r) \/ Release(r)
  \/ \E p \in Panics : Panic(r, p)
  \/ Report(r)

\* What Answer is about.
Unchanged(q) ==
  /\ stage'[q] = stage[q] /\ kind'[q] = kind[q] /\ disabled'[q] = disabled[q]
  /\ code'[q] = code[q] /\ invalid'[q] = invalid[q] /\ raised'[q] = raised[q]
  /\ body'[q] = body[q] /\ status'[q] = status[q] /\ written'[q] = written[q]

\* A step of one request leaves the answers of the others.
LEMMA OthersUnchanged ==
  ASSUME TypeOK, Stays, NEW r \in Requests, Step(r), NEW q \in Requests \ {r}
  PROVE  Unchanged(q)
<1> USE DEF Unchanged
<1>1. CASE Refuse(r) \/ ServeStatic(r) \/ ServeBuffered(r)
  <2>1. CASE Refuse(r)
    BY <2>1 DEF Refuse, sendHeader, writer, history
  <2>2. CASE ServeStatic(r)
    BY <2>2 DEF ServeStatic, writer, conn, history
  <2>3. CASE ServeBuffered(r)
    BY <2>3 DEF ServeBuffered, writer, conn, history
  <2> QED
    BY <1>1, <2>1, <2>2, <2>3
<1>2. CASE Write(r)
  <2>0. UNCHANGED <<stage, kind, raised>>
    BY <1>2 DEF Write, Handling
  <2>1. CASE Streams(r)
    <3>1. /\ body' = [body EXCEPT ![r] = body[r] \o <<<<r, ops'[r]>>>>]
          /\ sendHeader(r, 200) /\ UNCHANGED <<disabled, code, invalid, written>>
      BY <1>2, <2>1, StreamedWrite
    <3> QED
      BY <2>0, <3>1 DEF sendHeader
  <2>2. CASE ~ Streams(r)
    <3>1. /\ written' = [written EXCEPT ![r] = Append(written[r], <<r, ops'[r]>>)]
          /\ UNCHANGED <<disabled, code, invalid, status, body>>
      BY <1>2, <2>2, BufferedWrite DEF conn
    <3> QED
      BY <2>0, <3>1
  <2> QED
    BY <2>1, <2>2
<1>3. CASE BadHeader(r) \/ Disable(r) \/ ResetOutputBuffer(r)
  <2>1. CASE BadHeader(r)
    BY <2>1 DEF BadHeader, Handling, conn, history
  <2>2. CASE Disable(r)
    BY <2>2 DEF Disable, Handling, conn, history
  <2>3. CASE ResetOutputBuffer(r)
    BY <2>3 DEF ResetOutputBuffer, Handling, conn
  <2> QED
    BY <1>3, <2>1, <2>2, <2>3
<1>4. CASE \E c \in Codes : WriteHeader(r, c)
  <2> PICK c \in Codes : WriteHeader(r, c)
    BY <1>4
  <2>1. UNCHANGED <<stage, kind, raised, disabled, invalid, body, written>>
    BY DEF WriteHeader, Handling, history
  <2>2. code' = code \/ code' = [code EXCEPT ![r] = c]
    BY DEF WriteHeader
  <2>3. status' = status \/ sendHeader(r, c)
    BY DEF WriteHeader
  <2>4. status'[q] = status[q]
    BY <2>3 DEF sendHeader, TypeOK
  <2> QED
    BY <2>1, <2>2, <2>4 DEF TypeOK
<1>5. CASE Return(r)
  BY <1>5 DEF Return, writer, history
<1>6. CASE Flush(r)
  BY <1>6 DEF Flush, sendBody, sendHeader, writer, history
<1>7. CASE Release(r)
  BY <1>7 DEF Release, writer, conn, history
<1>8. CASE \E p \in Panics : Panic(r, p)
  BY <1>8 DEF Panic, writer, conn, history
<1>9. CASE Report(r)
  <2>1. UNCHANGED <<kind, raised, disabled, code, invalid, written>>
    BY <1>9 DEF Report, writer, history
  <2>2. stage' = [stage EXCEPT ![r] = "done"] /\ sendHeader(r, raised[r].code)
    BY <1>9 DEF Report, sendBody
  <2>3. body' = body \/ body' = [body EXCEPT ![r] = body[r] \o message(r)]
    BY <1>9 DEF Report, sendBody
  <2>4. status'[q] = status[q]
    BY <2>2 DEF sendHeader, TypeOK
  <2> QED
    BY <2>1, <2>2, <2>3, <2>4 DEF TypeOK
<1> QED
  BY <1>1, <1>2, <1>3, <1>4, <1>5, <1>6, <1>7, <1>8, <1>9 DEF Step

\* An answer stays when nothing it depends on changes.
LEMMA AnswerKept ==
  ASSUME Answers, NEW q \in Requests, Unchanged(q), (kind[q] = "app" /\ ~ disabled[q])'
  PROVE  Answer(q)'
<1>1. kind[q] = "app" /\ ~ disabled[q]
  BY DEF Unchanged
<1>2. Answer(q)
  BY <1>1 DEF Answers
<1>3. finalCode(q)' = finalCode(q)
  BY DEF Unchanged, finalCode
<1> QED
  BY <1>2, <1>3 DEF Unchanged, Answer, message

\* Each step takes its request to the answer of the next stage.
LEMMA AnswersStep ==
  ASSUME TypeOK, Stays, Buffered, Answers, [Next]_vars
  PROVE  Answers'
<1> SUFFICES ASSUME NEW q \in Requests, (kind[q] = "app" /\ ~ disabled[q])'
             PROVE  Answer(q)'
  BY DEF Answers
<1>0. ASSUME Unchanged(q) PROVE Answer(q)'
  BY <1>0, AnswerKept
<1>1. ASSUME UNCHANGED vars PROVE Answer(q)'
  BY <1>0, <1>1 DEF vars, writer, conn, history, Unchanged
<1>2. ASSUME NEW r \in Requests \ {q}, Step(r) PROVE Answer(q)'
  BY <1>0, <1>2, OthersUnchanged
<1>3. ASSUME Step(q) PROVE Answer(q)'
  <2>1. CASE Refuse(q) \/ ServeStatic(q)
    BY <2>1 DEF Refuse, ServeStatic, TypeOK
  <2>2. CASE ServeBuffered(q)
    BY <2>2 DEF ServeBuffered, TypeOK, Stays, Answer, conn
  <2> SUFFICES ASSUME ~ (Refuse(q) \/ ServeStatic(q) \/ ServeBuffered(q))
               PROVE  Answer(q)'
    BY <2>1, <2>2
  <2>3. kind[q] = "app" /\ ~ disabled[q] /\ Answer(q)
    <3>1. kind' = kind /\ (~ disabled'[q] => ~ disabled[q])
      BY <1>3 DEF Step, Write, BadHeader, Disable, ResetOutputBuffer, WriteHeader, Return, Flush,
                  Release, Panic, Report, Handling, writer, TypeOK
    <3> QED
      BY <3>1 DEF Answers
  <2>4. stage[q] # "direct"
    BY <2>3 DEF Stays
  <2>5. CASE Write(q)
    <3>1. ~ Streams(q)
      BY <2>3, <2>4 DEF Streams
    <3>2. UNCHANGED <<body, status, stage>> /\ stage[q] = "handling"
      BY <2>5, <3>1, BufferedWrite DEF conn, Handling
    <3> QED
      BY <2>3, <3>2 DEF Answer
  <2>6. CASE BadHeader(q) \/ Disable(q) \/ ResetOutputBuffer(q)
    <3>1. UNCHANGED <<body, status, stage>> /\ stage[q] = "handling"
      BY <2>4, <2>6 DEF BadHeader, Disable, ResetOutputBuffer, Handling, conn
    <3> QED
      BY <2>3, <3>1 DEF Answer
  <2>7. CASE \E c \in Codes : WriteHeader(q, c)
    <3>1. UNCHANGED <<body, status, stage>> /\ stage[q] = "handling"
      BY <2>3, <2>4, <2>7 DEF WriteHeader, Handling, Streams
    <3> QED
      BY <2>3, <3>1 DEF Answer
  <2>8. CASE Return(q)
    <3>1. UNCHANGED <<body, status>> /\ stage[q] = "handling" /\ stage'[q] = "flushing"
      BY <2>4, <2>8 DEF Return, TypeOK
    <3> QED
      BY <2>3, <3>1 DEF Answer
  <2>9. CASE Flush(q)
    <3>1. /\ body[q] = <<>> /\ status[q] = 0 /\ written[q] \in Seq(Chunks)
          /\ stage'[q] = "releasing"
      BY <2>3, <2>9, FlushEffect DEF Answer, TypeOK
    <3>2. body'[q] = written[q] /\ written' = written
      <4>1. body' = [body EXCEPT ![q] = body[q] \o written[q]] /\ written' = written
        BY <2>9, FlushEffect
      <4>2. <<>> \o written[q] = written[q]
        BY <3>1, ConcatEmptySeq
      <4> QED
        BY <3>1, <4>1, <4>2 DEF TypeOK
    <3>3. status'[q] = finalCode(q)
      BY <2>9, <3>1 DEF Flush, sendBody, sendHeader, TypeOK
    <3>4. finalCode(q)' = finalCode(q)
      BY <2>9 DEF Flush, writer, finalCode
    <3> QED
      BY <3>1, <3>2, <3>3, <3>4 DEF Answer
  <2>10. CASE Release(q)
    <3>1. UNCHANGED <<body, status, raised, code, invalid, written>>
      BY <2>10 DEF Release, conn, writer, history
    <3>2. finalCode(q)' = finalCode(q)
      BY <3>1 DEF finalCode
    <3>3. CASE stage[q] = "releasing"
      <4>1. stage'[q] = "done" /\ raised[q] = None
        <5>1. stage'[q] = "done"
          BY <2>10, <3>3 DEF Release, TypeOK
        <5> QED
          BY <3>3, <5>1 DEF Stays
      <4>2. body[q] = written[q] /\ status[q] = finalCode(q)
        BY <2>3, <3>3 DEF Answer
      <4> QED
        BY <3>1, <3>2, <4>1, <4>2 DEF Answer
    <3>4. CASE stage[q] = "unwinding"
      BY <2>3, <2>10, <3>1, <3>4 DEF Answer, Release, TypeOK
    <3> QED
      BY <2>10, <3>3, <3>4 DEF Release
  <2>11. CASE \E p \in Panics : Panic(q, p)
    <3>1. UNCHANGED <<body, status>> /\ stage[q] = "handling" /\ stage'[q] = "unwinding"
      BY <2>4, <2>11 DEF Panic, TypeOK, conn
    <3> QED
      BY <2>3, <3>1 DEF Answer
  <2>12. CASE Report(q)
    <3>1. /\ body[q] = <<>> /\ status[q] = 0 /\ raised' = raised /\ raised[q] # None
          /\ stage'[q] = "done"
      BY <2>3, <2>12 DEF Report, Answer, Stays, TypeOK
    <3>2. CASE raised[q].message
      <4>1. message(q) \in Seq(Chunks)
        <5>1. 0 \in 0..MaxOps
          BY ConstantsAssumption
        <5> QED
          BY <5>1, ChunkOf DEF message
      <4>2. body'[q] = message(q)
        BY <2>12, <3>1, <3>2, <4>1, ConcatEmptySeq DEF Report, sendBody, TypeOK
      <4>3. status'[q] = raised[q].code
        BY <2>12, <3>1, <3>2 DEF Report, sendBody, sendHeader, TypeOK
      <4> QED
        BY <3>1, <3>2, <4>2, <4>3 DEF Answer, message
    <3>3. CASE ~ raised[q].message
      <4>1. body'[q] = <<>> /\ status'[q] = raised[q].code
        BY <2>12, <3>1, <3>3 DEF Report, sendHeader, TypeOK
      <4> QED
        BY <3>1, <3>3, <4>1 DEF Answer
    <3> QED
      BY <3>2, <3>3
  <2> QED
    BY <1>3, <2>5, <2>6, <2>7, <2>8, <2>9, <2>10, <2>11, <2>12 DEF Step
<1>4. CASE Next
  <2> PICK r \in Requests : Step(r)
    BY <1>4 DEF Next, Step
  <2> QED
    BY <1>2, <1>3
<1> QED
  BY <1>1, <1>4

-----------------------------------------------------------------------------
(* The theorems *)

\* It holds at first.
LEMMA InitInv == Init => Inv
<1> SUFFICES ASSUME Init PROVE Inv
  OBVIOUS
<1>1. TypeOK
  BY TypeInit
<1>2. Stays
  <2>1. \A r \in Requests : /\ stage[r] = "idle" /\ buffer[r] = None /\ raised[r] = None
                            /\ body[r] = <<>> /\ status[r] = 0 /\ written[r] = <<>>
    BY DEF Init
  <2> QED
    BY <2>1 DEF Stays, HasBuffer
<1>5. Exclusive /\ Answers
  <2>1. \A r \in Requests : buffer[r] = None /\ kind[r] = None
    BY DEF Init
  <2>2. pool = {}
    BY DEF Init
  <2>3. \A r \in Requests : stage[r] = "idle"
    BY DEF Init
  <2> QED
    BY <2>1, <2>2, <2>3 DEF Exclusive, Answers, Answer
<1>3. Buffered
  BY DEF Init, Buffered
<1>4. Own
  BY EmptySeq DEF Init, Own, Of
<1> QED
  BY <1>1, <1>2, <1>3, <1>4, <1>5 DEF Inv

\* Every step keeps it.
LEMMA StepInv == Inv /\ [Next]_vars => Inv'
BY TypeStep, StaysStep, ExclusiveStep, BufferedStep, OwnStep, AnswersStep DEF Inv

\* It always holds.
LEMMA Invariant == Spec => []Inv
BY InitInv, StepInv, PTL DEF Spec

\* The variables keep their types.
THEOREM Typing == Spec => []TypeOK
<1>1. Inv => TypeOK
  BY DEF Inv
<1> QED
  BY Invariant, <1>1, PTL

\* No buffer of the pool is used twice or comes back with something in it, and a
\* complete response has put its buffer back, also after a panic.
THEOREM Exclusion == Spec => []BuffersAreExclusive
<1>1. Inv => BuffersAreExclusive
  BY DEF Inv, Exclusive, Stays, HasBuffer, BuffersAreExclusive
<1> QED
  BY Invariant, <1>1, PTL

\* A browser gets only what its own request wrote, though the arrays of the
\* buffers go from request to request with the old bytes in them.
THEOREM OwnBytes == Spec => []OwnOutput
<1>1. Inv => OwnOutput
  BY DEF Inv, Own, Of, OwnOutput
<1> QED
  BY Invariant, <1>1, PTL

\* Behind the buffer, a handler that returns sends all it wrote, with its
\* status, and one that panics sends its error alone.
THEOREM WholeAnswers == Spec => []AllOrError
<1>1. Inv => AllOrError
  BY DEF Inv, Answers, Answer, AllOrError
<1> QED
  BY Invariant, <1>1, PTL
=============================================================================

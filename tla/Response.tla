------------------------------ MODULE Response ------------------------------
(***************************************************************************)
(* How a response comes about (http/error.go, header.go, mux.go,           *)
(* bufferedOutput.go, pool/buffer.go): the chain that MakeHandler builds,  *)
(*                                                                         *)
(*   WithErrorHandler, WithHeaderValidator, WithPatternMuxer,              *)
(*   WithBufferedOutput, (session), WithAppMuxer, the handler              *)
(*                                                                         *)
(* with requests running concurrently on a shared pool of buffers.  What a *)
(* handler writes is a sequence of chunks <<r, n>>, the n-th write of      *)
(* request r.  The session has a module of its own.  HSTS adds a header    *)
(* and is left out.                                                        *)
(*                                                                         *)
(* A buffer is a bytes.Buffer: mem is its array and len how much of it is  *)
(* in use.  Reset sets len to 0 and keeps the array.                       *)
(***************************************************************************)
EXTENDS Naturals, Sequences, FiniteSets

CONSTANTS Requests,
          Kinds,          \* "bad" header, "static" or "app" handler
          Buffers,        \* bytes.Buffer objects
          None,
          Codes,          \* status codes a handler may set
          Ops,            \* what handlers do: "Write", "WriteHeader", ...
          MaxOps,         \* bound on the operations of one handler
          MaxBufferSize   \* pool.MaxBufferSize, in chunks

ASSUME ConstantsAssumption ==
  /\ Kinds \subseteq {"bad", "static", "app"}
  /\ Ops \subseteq {"Write", "WriteHeader", "Disable", "Reset", "Header"}
  /\ None \notin Buffers \cup [code : Codes, message : BOOLEAN]
  /\ Codes \subseteq Nat \ {0}
  /\ MaxOps \in Nat
  /\ MaxBufferSize \in Nat

VARIABLES
  stage,     \* where a request is in the chain
  kind,      \* what it turned out to be
  buffer,    \* its outBuf
  disabled,  \* bufferedResponseWriter.disabled
  code,      \* bufferedResponseWriter.code
  invalid,   \* its header has a value that is not ASCII
  ops,       \* number of operations of its handler
  raised,    \* what it panicked with
  status,    \* the status on the connection, 0 before the header is written
  body,      \* what has been written to the connection
  pool,      \* the free buffers
  mem,       \* the array of a buffer
  len,       \* how much of it is in use
  \* history
  written,   \* what the handler wrote and did not reset
  streamed,  \* what it wrote after Disable
  kept       \* what ResetOutputBuffer returned to it

writer == <<disabled, code, invalid, ops>>
conn == <<status, body>>
buffers == <<pool, mem, len>>
history == <<written, streamed, kept>>
vars == <<stage, kind, buffer, writer, raised, conn, buffers, history>>

Stages == {"idle", "direct", "handling", "flushing", "releasing", "unwinding",
           "reporting", "done"}
Init ==
  /\ stage = [r \in Requests |-> "idle"]
  /\ kind = [r \in Requests |-> None]
  /\ buffer = [r \in Requests |-> None]
  /\ disabled = [r \in Requests |-> FALSE]
  /\ code = [r \in Requests |-> 0]
  /\ invalid = [r \in Requests |-> FALSE]
  /\ ops = [r \in Requests |-> 0]
  /\ raised = [r \in Requests |-> None]
  /\ status = [r \in Requests |-> 0]
  /\ body = [r \in Requests |-> <<>>]
  /\ pool = {}
  /\ mem = [b \in Buffers |-> <<>>]
  /\ len = [b \in Buffers |-> 0]
  /\ written = [r \in Requests |-> <<>>]
  /\ streamed = [r \in Requests |-> <<>>]
  /\ kept = [r \in Requests |-> <<>>]

-----------------------------------------------------------------------------
(* The connection: the first header counts, and a write without one is 200. *)

sendHeader(r, c) ==
  status' = [status EXCEPT ![r] = IF @ = 0 THEN c ELSE @]

sendBody(r, c, chunks) ==
  /\ sendHeader(r, c)
  /\ body' = [body EXCEPT ![r] = @ \o chunks]

-----------------------------------------------------------------------------
(* The pool *)

Held == {buffer[r] : r \in Requests}

content(b) == SubSeq(mem[b], 1, len[b])

\* Buffers GetBuffer may return: a free one, or a new one (also when sync.Pool
\* has dropped the free ones).
Obtainable == pool \cup {b \in Buffers : mem[b] = <<>> /\ b \notin Held}

\* Mutant of PutBuffer: the buffer is not reset.
PutDirtyBuffer(b) ==
  /\ pool' = IF Len(mem[b]) < MaxBufferSize THEN pool \cup {b} ELSE pool
  /\ UNCHANGED <<mem, len>>

\* Mutant of PutBuffer: the array is let go, the length is not reset.
PutWithoutArray(b) ==
  /\ pool' = IF Len(mem[b]) < MaxBufferSize THEN pool \cup {b} ELSE pool
  /\ mem' = [mem EXCEPT ![b] = <<>>]
  /\ UNCHANGED len

\* PutBuffer: the buffer is reset and free again, unless it has become too big.
PutBuffer(b) ==
  /\ IF Len(mem[b]) < MaxBufferSize
       THEN pool' = pool \cup {b} /\ len' = [len EXCEPT ![b] = 0]
       ELSE UNCHANGED <<pool, len>>
  /\ UNCHANGED mem

-----------------------------------------------------------------------------
(* Requests arrive *)

\* WithHeaderValidator refuses the request.
Refuse(r) ==
  /\ stage[r] = "idle"
  /\ "bad" \in Kinds
  /\ kind' = [kind EXCEPT ![r] = "bad"]
  /\ stage' = [stage EXCEPT ![r] = "done"]
  /\ sendHeader(r, 400)
  /\ UNCHANGED <<buffer, writer, raised, body, buffers, history>>

\* The pattern muxer has a handler, which writes to the connection.
ServeStatic(r) ==
  /\ stage[r] = "idle"
  /\ "static" \in Kinds
  /\ kind' = [kind EXCEPT ![r] = "static"]
  /\ stage' = [stage EXCEPT ![r] = "direct"]
  /\ UNCHANGED <<buffer, writer, raised, conn, buffers, history>>

\* It has none: WithBufferedOutput gets a buffer and passes the request on.
ServeBuffered(r) ==
  /\ stage[r] = "idle"
  /\ "app" \in Kinds
  /\ kind' = [kind EXCEPT ![r] = "app"]
  /\ stage' = [stage EXCEPT ![r] = "handling"]
  /\ \E b \in Obtainable :
       /\ buffer' = [buffer EXCEPT ![r] = b]
       /\ pool' = pool \ {b}
  /\ UNCHANGED <<writer, raised, conn, mem, len, history>>

-----------------------------------------------------------------------------
(* What handlers do *)

Handling(r, op) ==
  /\ op \in Ops
  /\ stage[r] \in {"direct", "handling"}
  /\ ops[r] < MaxOps
  /\ ops' = [ops EXCEPT ![r] = @ + 1]
  /\ UNCHANGED <<stage, kind, buffer, raised, pool>>

Streams(r) == stage[r] = "direct" \/ disabled[r]

\* Write, WriteString
Write(r) ==
  /\ Handling(r, "Write")
  /\ LET b == buffer[r]
         chunk == <<r, ops'[r]>>
     IN  IF Streams(r)
           THEN /\ sendBody(r, 200, <<chunk>>)
                /\ streamed' = [streamed EXCEPT ![r] = Append(@, chunk)]
                /\ UNCHANGED <<mem, len, written>>
           ELSE /\ len' = [len EXCEPT ![b] = @ + 1]
                /\ mem' = [mem EXCEPT ![b] =
                             IF len[b] < Len(@) THEN [@ EXCEPT ![len[b] + 1] = chunk]
                                                ELSE Append(@, chunk)]
                /\ written' = [written EXCEPT ![r] = Append(@, chunk)]
                /\ UNCHANGED <<conn, streamed>>
  /\ UNCHANGED <<disabled, code, invalid, kept>>

WriteHeader(r, c) ==
  /\ Handling(r, "WriteHeader")
  /\ IF Streams(r) THEN sendHeader(r, c) /\ UNCHANGED code
                   ELSE code' = [code EXCEPT ![r] = c] /\ UNCHANGED status
  /\ UNCHANGED <<disabled, invalid, body, mem, len, history>>

\* A header value that is not ASCII.
BadHeader(r) ==
  /\ Handling(r, "Header")
  /\ invalid' = [invalid EXCEPT ![r] = TRUE]
  /\ UNCHANGED <<disabled, code, conn, mem, len, history>>

\* DisableOutputBuffering
Disable(r) ==
  /\ Handling(r, "Disable")
  /\ stage[r] = "handling"
  /\ disabled' = [disabled EXCEPT ![r] = TRUE]
  /\ UNCHANGED <<code, invalid, conn, mem, len, history>>

\* ResetOutputBuffer returns the bytes of the buffer, not a copy.
ResetOutputBuffer(r) ==
  /\ Handling(r, "Reset")
  /\ stage[r] = "handling"
  /\ kept' = [kept EXCEPT ![r] = content(buffer[r])]
  /\ len' = [len EXCEPT ![buffer[r]] = 0]
  /\ written' = [written EXCEPT ![r] = <<>>]
  /\ UNCHANGED <<disabled, code, invalid, conn, mem, streamed>>

-----------------------------------------------------------------------------
(* The handler returns *)

Return(r) ==
  /\ stage[r] \in {"direct", "handling"}
  /\ stage' = [stage EXCEPT ![r] = IF @ = "direct" THEN "done" ELSE "flushing"]
  /\ status' = IF stage[r] = "direct" /\ status[r] = 0
                 THEN [status EXCEPT ![r] = 200] ELSE status
  /\ UNCHANGED <<kind, buffer, writer, raised, body, buffers, history>>

\* The status that WithBufferedOutput sends.
finalCode(r) ==
  IF code[r] \notin {0, 200} THEN code[r]
  ELSE IF invalid[r] THEN 500
  ELSE 200

\* Mutant of Flush: the deferred PutBuffer has already run.
FlushReleased(r) ==
  /\ stage[r] = "flushing"
  /\ IF buffer[r] \in pool
       THEN /\ sendBody(r, finalCode(r), content(buffer[r]))
            /\ stage' = [stage EXCEPT ![r] = "done"]
            /\ buffer' = [buffer EXCEPT ![r] = None]
            /\ UNCHANGED buffers
       ELSE /\ PutBuffer(buffer[r])
            /\ UNCHANGED <<stage, buffer, conn>>
  /\ UNCHANGED <<kind, writer, raised, history>>

\* The rest of WithBufferedOutput: header, then what is in the buffer.
Flush(r) ==
  /\ stage[r] = "flushing"
  /\ sendBody(r, finalCode(r), content(buffer[r]))
  /\ stage' = [stage EXCEPT ![r] = "releasing"]
  /\ UNCHANGED <<kind, buffer, writer, raised, buffers, history>>

\* The deferred PutBuffer.
Release(r) ==
  /\ stage[r] \in {"releasing", "unwinding"}
  /\ PutBuffer(buffer[r])
  /\ buffer' = [buffer EXCEPT ![r] = None]
  /\ stage' = [stage EXCEPT ![r] = IF @ = "releasing" THEN "done" ELSE "reporting"]
  /\ UNCHANGED <<kind, writer, raised, conn, history>>

-----------------------------------------------------------------------------
(* The handler panics *)

\* With an Error or an int (a code, and in the former a message or none), with
\* a ServerError that has an Output, or with something else.
Panics == [code : Codes, message : BOOLEAN]

\* The message of an error, as the connection gets it.
message(r) == <<<<r, 0>>>>

\* Mutant of Panic: WithBufferedOutput recovers and sends what there is.
PanicFlushes(r, p) ==
  /\ stage[r] \in {"direct", "handling"}
  /\ raised' = [raised EXCEPT ![r] = p]
  /\ stage' = [stage EXCEPT ![r] = IF @ = "direct" THEN "reporting" ELSE "flushing"]
  /\ UNCHANGED <<kind, buffer, writer, conn, buffers, history>>

Panic(r, p) ==
  /\ stage[r] \in {"direct", "handling"}
  /\ raised' = [raised EXCEPT ![r] = p]
  /\ stage' = [stage EXCEPT ![r] = IF @ = "direct" THEN "reporting" ELSE "unwinding"]
  /\ UNCHANGED <<kind, buffer, writer, conn, buffers, history>>

\* WithErrorHandler recovers: the code, then the message if there is one.  (It
\* also resets the output buffer of its own context, which has none: the
\* buffer is in the context made further down the chain.)
Report(r) ==
  /\ stage[r] = "reporting"
  /\ IF raised[r].message THEN sendBody(r, raised[r].code, message(r))
                          ELSE sendHeader(r, raised[r].code) /\ UNCHANGED body
  /\ stage' = [stage EXCEPT ![r] = "done"]
  /\ UNCHANGED <<kind, buffer, writer, raised, buffers, history>>

Next ==
  \E r \in Requests :
    \/ Refuse(r) \/ ServeStatic(r) \/ ServeBuffered(r)
    \/ Write(r) \/ BadHeader(r) \/ Disable(r) \/ ResetOutputBuffer(r)
    \/ \E c \in Codes : WriteHeader(r, c)
    \/ Return(r) \/ Flush(r) \/ Release(r)
    \/ \E p \in Panics : Panic(r, p)
    \/ Report(r)

Spec == Init /\ [][Next]_vars

-----------------------------------------------------------------------------
(* Properties *)

Chunks == Requests \X (0..MaxOps)

TypeOK ==
  /\ stage \in [Requests -> Stages]
  /\ kind \in [Requests -> Kinds \cup {None}]
  /\ buffer \in [Requests -> Buffers \cup {None}]
  /\ disabled \in [Requests -> BOOLEAN]
  /\ code \in [Requests -> Codes \cup {0}]
  /\ invalid \in [Requests -> BOOLEAN]
  /\ ops \in [Requests -> 0..MaxOps]
  /\ raised \in [Requests -> Panics \cup {None}]
  /\ status \in [Requests -> Codes \cup {0, 200, 400, 500}]
  /\ body \in [Requests -> Seq(Chunks)]
  /\ pool \subseteq Buffers
  /\ mem \in [Buffers -> Seq(Chunks)]
  /\ len \in [Buffers -> Nat] /\ \A b \in Buffers : len[b] <= Len(mem[b])
  /\ written \in [Requests -> Seq(Chunks)]
  /\ streamed \in [Requests -> Seq(Chunks)]
  /\ kept \in [Requests -> Seq(Chunks)]

\* No buffer is used by two requests, or by one while it is free; a free
\* buffer is empty; and a response that is complete has put its buffer back, also
\* after a panic.
BuffersAreExclusive ==
  /\ \A r, s \in Requests : buffer[r] # None /\ buffer[r] = buffer[s] => r = s
  /\ \A b \in pool : b \notin Held /\ len[b] = 0
  /\ \A r \in Requests : stage[r] = "done" => buffer[r] = None

\* A browser gets only what its own request wrote.
OwnOutput ==
  \A r \in Requests : \A i \in 1..Len(body[r]) : body[r][i][1] = r

\* "If an error occurs, this lets you send a nice error message, rather than a
\* half finished output" (bufferedOutput.go:131): behind the buffer, a
\* handler that returns sends all it wrote, with its own status or 200, and a
\* handler that panics sends the error alone.
AllOrError ==
  \A r \in Requests :
    stage[r] = "done" /\ kind[r] = "app" /\ ~disabled[r] =>
      IF raised[r] = None
        THEN body[r] = written[r] /\ status[r] = finalCode(r)
        ELSE /\ body[r] = IF raised[r].message THEN message(r) ELSE <<>>
             /\ status[r] = raised[r].code

\* "The default output buffer manager will not output what has been buffered so
\* far" (bufferedOutput.go:95): after DisableOutputBuffering, only what is
\* written from then on goes out.
DisabledStreamsOnly ==
  \A r \in Requests :
    stage[r] = "done" /\ disabled[r] /\ raised[r] = None => body[r] = streamed[r]

\* "ResetOutputBuffer returns the current output buffer and resets the output
\* buffer to nothing" (bufferedOutput.go:101): what it returned stays what it
\* was while the handler goes on.
ResetReturnsOutput ==
  \A r \in Requests :
    stage[r] = "handling" => SubSeq(mem[buffer[r]], 1, Len(kept[r])) = kept[r]

\* "if a handler cannot be found, or the found handler does not respond, control
\* is past to the next handler" (mux.go:31).
SilentIsPassedOn ==
  \A r \in Requests :
    kind[r] = "static" /\ stage[r] = "done" /\ raised[r] = None =>
      body[r] # <<>> \/ ops[r] > 0
=============================================================================

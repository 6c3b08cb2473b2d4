------------------------------ MODULE Session ------------------------------
(***************************************************************************)
(* Sessions (session/session.go, session/scs.go): requests of browsers run *)
(* concurrently through ScsManager.Use.  Each loads its own copy of the    *)
(* session that its cookie's token names, its handler works on the copy,   *)
(* and when the handler has returned the copy is written back.             *)
(*                                                                         *)
(* The session manager underneath (alexedwards/scs, with its store of      *)
(* tokens) is modelled as Use calls it: Load, RenewToken, Put and Commit,  *)
(* Clear.  The value of a key is the request that set it.  Sessions do not *)
(* expire here.                                                            *)
(***************************************************************************)
EXTENDS Naturals, FiniteSets

CONSTANTS Browsers,
          Requests,     \* requests, each made at most once
          Keys,         \* keys of session values
          Tokens,       \* session tokens
          None,         \* no token, no value, no session
          Ops,          \* the session functions that handlers call
          MaxOps,       \* bound on the calls of one handler
          MaxActive     \* bound on the requests under way at a time

ASSUME ConstantsAssumption ==
  /\ None \notin Tokens \cup Requests \cup Browsers \cup [Keys -> Requests \cup {None}]
  /\ Ops \subseteq {"Set", "Remove", "Clear", "Reset"}
  /\ MaxOps \in Nat
  /\ MaxActive \in Nat

VARIABLES
  cookie,      \* cookie[b]: the token in the browser's cookie, or None
  store,       \* store[t]: the data of a session, or None
  st,          \* where a request is
  browser,     \* the browser that made it
  token,       \* the token of the session in its context, or None
  data,        \* its copy of the session data
  resetFlag,   \* its copy has sessionResetKey
  calls,       \* number of session functions its handler has called
  newCookie,   \* the session cookie of its response, or None
  \* history
  from,        \* the token it came with, if that named a session
  didReset,    \* its handler called Reset
  renewed,     \* its token was renewed
  expected,    \* expected[b]: what the latest write-back of b's requests left
  overlapping  \* browsers that made a request before the answer to another

requestVars == <<st, browser, token, data, resetFlag, calls, newCookie>>
history == <<from, didReset, renewed, expected, overlapping>>
vars == <<cookie, store, requestVars, history>>

Empty == [k \in Keys |-> None]
Data == [Keys -> Requests \cup {None}]

Init ==
  /\ cookie = [b \in Browsers |-> None]
  /\ store = [t \in Tokens |-> None]
  /\ st = [r \in Requests |-> "idle"]
  /\ browser = [r \in Requests |-> None]
  /\ token = [r \in Requests |-> None]
  /\ data = [r \in Requests |-> Empty]
  /\ resetFlag = [r \in Requests |-> FALSE]
  /\ calls = [r \in Requests |-> 0]
  /\ newCookie = [r \in Requests |-> None]
  /\ from = [r \in Requests |-> None]
  /\ didReset = [r \in Requests |-> FALSE]
  /\ renewed = [r \in Requests |-> FALSE]
  /\ expected = [b \in Browsers |-> Empty]
  /\ overlapping = {}

\* Tokens that name or ever named a session: a generated token is none of them.
Used == {t \in Tokens : \/ store[t] # None
                        \/ \E r \in Requests : t \in {token[r], from[r], newCookie[r]}}

Active == {r \in Requests : st[r] \in {"running", "returned", "answered"}}

\* Mutant of Load: the store is not asked whether it has the session.
LoadUnchecked(r, b) ==
  /\ st[r] = "idle"
  /\ Cardinality(Active) < MaxActive
  /\ overlapping' = IF \E q \in Active : browser[q] = b
                      THEN overlapping \cup {b} ELSE overlapping
  /\ st' = [st EXCEPT ![r] = "running"]
  /\ browser' = [browser EXCEPT ![r] = b]
  /\ IF cookie[b] # None
       THEN /\ token' = [token EXCEPT ![r] = cookie[b]]
            /\ from' = [from EXCEPT ![r] = cookie[b]]
            /\ data' = [data EXCEPT ![r] = store[cookie[b]]]
       ELSE UNCHANGED <<token, from, data>>
  /\ UNCHANGED <<cookie, store, resetFlag, calls, newCookie, didReset, renewed,
                 expected>>

\* The request reaches Use: its session is loaded, or a new one is made.
Load(r, b) ==
  /\ st[r] = "idle"
  /\ Cardinality(Active) < MaxActive
  /\ overlapping' = IF \E q \in Active : browser[q] = b
                      THEN overlapping \cup {b} ELSE overlapping
  /\ st' = [st EXCEPT ![r] = "running"]
  /\ browser' = [browser EXCEPT ![r] = b]
  /\ IF cookie[b] # None /\ store[cookie[b]] # None
       THEN /\ token' = [token EXCEPT ![r] = cookie[b]]
            /\ from' = [from EXCEPT ![r] = cookie[b]]
            /\ data' = [data EXCEPT ![r] = store[cookie[b]]]
       ELSE UNCHANGED <<token, from, data>>
  /\ UNCHANGED <<cookie, store, resetFlag, calls, newCookie, didReset, renewed,
                 expected>>

\* A session function called by the handler.
Calling(r, op) ==
  /\ op \in Ops
  /\ st[r] = "running"
  /\ calls[r] < MaxOps
  /\ calls' = [calls EXCEPT ![r] = @ + 1]
  /\ UNCHANGED <<cookie, store, st, browser, token, newCookie, from, renewed, expected,
                 overlapping>>

Set(r, k) ==
  /\ Calling(r, "Set")
  /\ data' = [data EXCEPT ![r][k] = r]
  /\ UNCHANGED <<resetFlag, didReset>>

Remove(r, k) ==
  /\ Calling(r, "Remove")
  /\ data' = [data EXCEPT ![r][k] = None]
  /\ UNCHANGED <<resetFlag, didReset>>

\* Clear empties the whole map, in which Reset leaves its flag.
Clear(r) ==
  /\ Calling(r, "Clear")
  /\ data' = [data EXCEPT ![r] = Empty]
  /\ resetFlag' = [resetFlag EXCEPT ![r] = FALSE]
  /\ UNCHANGED didReset

Reset(r) ==
  /\ Calling(r, "Reset")
  /\ resetFlag' = [resetFlag EXCEPT ![r] = TRUE]
  /\ didReset' = [didReset EXCEPT ![r] = TRUE]
  /\ UNCHANGED data

\* next.ServeHTTP returns.
Return(r) ==
  /\ st[r] = "running"
  /\ st' = [st EXCEPT ![r] = "returned"]
  /\ UNCHANGED <<cookie, store, browser, token, data, resetFlag, calls, newCookie,
                 history>>

\* The handler panics (an error, or http.Redirect): Use does nothing more and
\* the error handler answers without a session cookie.
Panic(r) ==
  /\ st[r] = "running"
  /\ st' = [st EXCEPT ![r] = "failed"]
  /\ UNCHANGED <<cookie, store, browser, token, data, resetFlag, calls, newCookie,
                 history>>

\* Mutants of RenewToken: the context keeps the old token; the old token stays
\* in the store.
RenewKeepsToken(r, t) ==
  /\ st[r] = "returned"
  /\ resetFlag[r]
  /\ t \notin Used
  /\ resetFlag' = [resetFlag EXCEPT ![r] = FALSE]
  /\ renewed' = [renewed EXCEPT ![r] = TRUE]
  /\ UNCHANGED <<cookie, store, st, browser, token, data, calls, newCookie, from,
                 didReset, expected, overlapping>>

RenewKeepsStore(r, t) ==
  /\ st[r] = "returned"
  /\ resetFlag[r]
  /\ t \notin Used
  /\ resetFlag' = [resetFlag EXCEPT ![r] = FALSE]
  /\ token' = [token EXCEPT ![r] = t]
  /\ renewed' = [renewed EXCEPT ![r] = TRUE]
  /\ UNCHANGED <<cookie, store, st, browser, data, calls, newCookie, from,
                 didReset, expected, overlapping>>

\* Use, lines 64-71: the flag is taken out of the data, the old token is removed
\* from the store and the context gets a new one.
RenewToken(r, t) ==
  /\ st[r] = "returned"
  /\ resetFlag[r]
  /\ t \notin Used
  /\ resetFlag' = [resetFlag EXCEPT ![r] = FALSE]
  /\ store' = [s \in Tokens |-> IF s = token[r] THEN None ELSE store[s]]
  /\ token' = [token EXCEPT ![r] = t]
  /\ renewed' = [renewed EXCEPT ![r] = TRUE]
  /\ UNCHANGED <<cookie, st, browser, data, calls, newCookie, from, didReset,
                 expected, overlapping>>

\* Mutants of Commit: a new session may get a token in use; the cookie is set
\* for a new session only.
CommitAnywhere(r, t) ==
  /\ st[r] = "returned"
  /\ ~ resetFlag[r]
  /\ data[r] # Empty
  /\ token[r] # None => t = token[r]
  /\ store' = [store EXCEPT ![t] = data[r]]
  /\ token' = [token EXCEPT ![r] = t]
  /\ newCookie' = [newCookie EXCEPT ![r] = t]
  /\ st' = [st EXCEPT ![r] = "answered"]
  /\ expected' = [expected EXCEPT ![browser[r]] = data[r]]
  /\ UNCHANGED <<cookie, browser, data, resetFlag, calls, from, didReset, renewed,
                 overlapping>>

CommitQuietly(r, t) ==
  /\ st[r] = "returned"
  /\ ~ resetFlag[r]
  /\ data[r] # Empty
  /\ IF token[r] # None THEN t = token[r] ELSE t \notin Used
  /\ store' = [store EXCEPT ![t] = data[r]]
  /\ token' = [token EXCEPT ![r] = t]
  /\ newCookie' = [newCookie EXCEPT ![r] = IF from[r] = None THEN t ELSE None]
  /\ st' = [st EXCEPT ![r] = "answered"]
  /\ expected' = [expected EXCEPT ![browser[r]] = data[r]]
  /\ UNCHANGED <<cookie, browser, data, resetFlag, calls, from, didReset, renewed,
                 overlapping>>

\* Use, lines 73-81: data is stored under the token, a new one if the session
\* has none yet, and the response sets the cookie.
Commit(r, t) ==
  /\ st[r] = "returned"
  /\ ~ resetFlag[r]
  /\ data[r] # Empty
  /\ IF token[r] # None THEN t = token[r] ELSE t \notin Used
  /\ store' = [store EXCEPT ![t] = data[r]]
  /\ token' = [token EXCEPT ![r] = t]
  /\ newCookie' = [newCookie EXCEPT ![r] = t]
  /\ st' = [st EXCEPT ![r] = "answered"]
  /\ expected' = [expected EXCEPT ![browser[r]] = data[r]]
  /\ UNCHANGED <<cookie, browser, data, resetFlag, calls, from, didReset, renewed,
                 overlapping>>

\* Use, lines 82-86: without data, the manager's copy in the context is cleared.
\* Nothing is written to the store and no cookie is set.
Discard(r) ==
  /\ st[r] = "returned"
  /\ ~ resetFlag[r]
  /\ data[r] = Empty
  /\ st' = [st EXCEPT ![r] = "answered"]
  /\ expected' = IF renewed[r] THEN [expected EXCEPT ![browser[r]] = Empty] ELSE expected
  /\ UNCHANGED <<cookie, store, browser, token, data, resetFlag, calls, newCookie,
                 from, didReset, renewed, overlapping>>

\* The browser gets the response; responses may arrive in any order.
Receive(r) ==
  /\ st[r] = "answered"
  /\ st' = [st EXCEPT ![r] = "received"]
  /\ cookie' = IF newCookie[r] = None THEN cookie
               ELSE [cookie EXCEPT ![browser[r]] = newCookie[r]]
  /\ UNCHANGED <<store, browser, token, data, resetFlag, calls, newCookie, history>>

Next ==
  \/ \E r \in Requests, b \in Browsers : Load(r, b)
  \/ \E r \in Requests, k \in Keys : Set(r, k) \/ Remove(r, k)
  \/ \E r \in Requests : Clear(r) \/ Reset(r) \/ Return(r) \/ Panic(r)
  \/ \E r \in Requests, t \in Tokens : RenewToken(r, t) \/ Commit(r, t)
  \/ \E r \in Requests : Discard(r) \/ Receive(r)

Spec == Init /\ [][Next]_vars

-----------------------------------------------------------------------------
(* Properties *)

TypeOK ==
  /\ cookie \in [Browsers -> Tokens \cup {None}]
  /\ store \in [Tokens -> Data \cup {None}]
  /\ st \in [Requests -> {"idle", "running", "returned", "answered", "received", "failed"}]
  /\ browser \in [Requests -> Browsers \cup {None}]
  /\ token \in [Requests -> Tokens \cup {None}]
  /\ data \in [Requests -> Data]
  /\ resetFlag \in [Requests -> BOOLEAN]
  /\ calls \in [Requests -> 0..MaxOps]
  /\ newCookie \in [Requests -> Tokens \cup {None}]
  /\ from \in [Requests -> Tokens \cup {None}]
  /\ didReset \in [Requests -> BOOLEAN]
  /\ renewed \in [Requests -> BOOLEAN]
  /\ expected \in [Browsers -> Data]
  /\ overlapping \subseteq Browsers

\* No request ever works on a value that a request of another browser set.
Isolated ==
  \A r \in Requests, k \in Keys :
    data[r][k] # None => browser[data[r][k]] = browser[r]

\* What is set in a request that renews the token never gets under the old
\* token, even while other requests still work with that token: who only
\* has the old token does not see it.
ResetSeparates ==
  \A r \in Requests :
    renewed[r] /\ from[r] # None /\ store[from[r]] # None =>
      \A k \in Keys : store[from[r]][k] # r

\* A request whose write-back is complete.
Done(r) == st[r] \in {"answered", "received"}

\* "Reset will destroy the old session token" (session.go:167).
ResetRetires ==
  \A r \in Requests :
    Done(r) /\ didReset[r] /\ from[r] # None => store[from[r]] = None

\* It does, unless the handler calls Clear after Reset, which drops the flag, or
\* another request of the browser still works with the token and stores it
\* again.
RenewedIsRetired ==
  \A r \in Requests :
    Done(r) /\ renewed[r] /\ from[r] # None /\ browser[r] \notin overlapping =>
      store[from[r]] = None

\* "Clear removes all the values from the session store": when a request that
\* has left no value in the session is done, the store has none either.
EmptiedIsEmpty ==
  \A r \in Requests :
    Done(r) /\ data[r] = Empty /\ from[r] # None => store[from[r]] = None

\* A browser that awaits each answer before its next request: that starts with
\* the data the latest write-back left, also when the token was renewed.
SerialReads ==
  \A r \in Requests :
    st[r] = "running" /\ calls[r] = 0 /\ browser[r] \notin overlapping =>
      data[r] = expected[browser[r]]
=============================================================================

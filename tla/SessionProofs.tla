---------------------------- MODULE SessionProofs ----------------------------
(***************************************************************************)
(* For any number of browsers, requests, tokens and keys, and any          *)
(* interleaving of requests: sessions of different browsers stay apart,    *)
(* what a renewed session gets is not seen under its old token, and a      *)
(* browser that awaits each answer works on what the answer before left.   *)
(*                                                                         *)
(* The argument follows the tokens.  A token belongs to one browser: it is *)
(* new when it is given (Commit, RenewToken), and a request comes with the *)
(* cookie of its own browser (OneOwner, Handed).  A value is in the copy   *)
(* of the request that set it until that has been written back             *)
(* (Unpublished), so at the time of a renewal it cannot be under the old   *)
(* token, nor in the copy of a request that will store it there            *)
(* (Separated).                                                            *)
(***************************************************************************)
EXTENDS Session, TLAPS

-----------------------------------------------------------------------------
(* The inductive invariant *)

\* Request r came with token t or works with it.
Holds(r, t) == t \in {token[r], from[r]}

\* How the parts of a request's context go together: a token is the one that the
\* request came with until it is renewed, and the cookie is set at the write-back.
Life ==
  \A r \in Requests :
    /\ st[r] = "idle" <=> browser[r] = None
    /\ st[r] = "idle" => /\ token[r] = None /\ from[r] = None /\ newCookie[r] = None
                         /\ data[r] = Empty /\ ~ renewed[r]
    /\ renewed[r] => /\ st[r] \in {"returned", "answered", "received"}
                     /\ ~ resetFlag[r] /\ token[r] # None /\ token[r] # from[r]
    /\ ~ renewed[r] /\ st[r] \in {"running", "returned", "failed"} => token[r] = from[r]
    /\ ~ renewed[r] /\ from[r] # None => token[r] = from[r]
    /\ newCookie[r] # None => Done(r) /\ token[r] = newCookie[r]

\* All requests with a token are of one browser.
OneOwner ==
  \A q, r \in Requests, t \in Tokens : Holds(q, t) /\ Holds(r, t) => browser[q] = browser[r]

\* Cookies and stored sessions come from write-backs.
Handed ==
  /\ \A b \in Browsers :
       cookie[b] # None => \E r \in Requests : browser[r] = b /\ newCookie[r] = cookie[b]
  /\ \A t \in Tokens : store[t] # None => \E r \in Requests : newCookie[r] = t

\* Under a token there are only values that its browser's requests set.
StoreOwned ==
  \A t \in Tokens, k \in Keys, r \in Requests :
    store[t] # None /\ store[t][k] # None /\ Holds(r, t) =>
      browser[store[t][k]] = browser[r]

\* Until its write-back, what a request sets is in its own copy only.
Unpublished ==
  \A r \in Requests, k \in Keys :
    /\ \A t \in Tokens : store[t] # None /\ store[t][k] = r => Done(r)
    /\ \A q \in Requests : data[q][k] = r /\ q # r => Done(r)

\* ResetSeparates, for the copies as well: no request that works with the old
\* token has a value of the one that renewed it.
Separated ==
  \A r \in Requests, k \in Keys :
    renewed[r] /\ from[r] # None =>
      /\ store[from[r]] # None => store[from[r]][k] # r
      /\ \A q \in Requests : data[q][k] = r => token[q] # from[r]

\* A browser that has awaited each answer has one request under way.
Serial ==
  \A q, r \in Active :
    browser[q] = browser[r] /\ browser[r] \notin overlapping => q = r

\* Its write-back is still to come, or may be.
Unanswered(r) == st[r] \in {"running", "returned"}

\* RenewedIsRetired, from the renewal on: nobody is left who could store the
\* old session again.
Retired ==
  \A r \in Requests :
    renewed[r] /\ from[r] # None /\ browser[r] \notin overlapping =>
      /\ store[from[r]] = None
      /\ \A q \in Requests : Unanswered(q) => token[q] # from[r]

\* The data that a request of the browser would load now.
Current(b) ==
  IF cookie[b] # None /\ store[cookie[b]] # None THEN store[cookie[b]] ELSE Empty

\* What b would load is what the latest write-back left.  While a request of b
\* is under way: as it came until it renews the token, then nothing, and, once
\* the request is answered, what is stored under the token it sends back.
Reads(b) ==
  /\ (\A r \in Active : browser[r] # b) => Current(b) = expected[b]
  /\ \A r \in Active : browser[r] = b =>
       /\ Unanswered(r) /\ ~ renewed[r] =>
            /\ Current(b) = expected[b]
            /\ IF from[r] = None THEN Current(b) = Empty ELSE cookie[b] = from[r]
       /\ st[r] = "running" /\ calls[r] = 0 => data[r] = expected[b]
       /\ Unanswered(r) /\ renewed[r] => Current(b) = Empty
       /\ st[r] = "answered" /\ newCookie[r] = None => Current(b) = expected[b]
       /\ st[r] = "answered" /\ newCookie[r] # None =>
            store[newCookie[r]] = expected[b] /\ expected[b] # None

Reading == \A b \in Browsers : b \notin overlapping => Reads(b)

-----------------------------------------------------------------------------
(* Types and the life of a request *)

\* None is no session data, and a session without values is.
LEMMA DataType == Empty \in Data /\ None \notin Data
BY ConstantsAssumption DEF Empty, Data

\* Setting a key gives session data.
LEMMA SetType ==
  ASSUME NEW d \in Data, NEW k \in Keys, NEW v \in Requests \cup {None}
  PROVE  [d EXCEPT ![k] = v] \in Data
BY DEF Data

\* The calls of a handler stay within their bound.
LEMMA CallType ==
  ASSUME NEW r \in Requests, NEW op, Calling(r, op),
         calls \in [Requests -> 0..MaxOps]
  PROVE  calls' \in [Requests -> 0..MaxOps]
BY ConstantsAssumption DEF Calling

\* At first every variable has its type.
LEMMA TypeInit == Init => TypeOK
BY ConstantsAssumption, DataType DEF Init, TypeOK

\* Every step leaves every variable in its type.
LEMMA TypeStep ==
  ASSUME TypeOK, [Next]_vars
  PROVE  TypeOK'
<1> USE ConstantsAssumption, DataType, SetType DEF TypeOK
<1>1. CASE \E r \in Requests, b \in Browsers : Load(r, b)
  <2> PICK r \in Requests, b \in Browsers : Load(r, b)
    BY <1>1
  <2>1. /\ st' \in [Requests -> {"idle", "running", "returned", "answered", "received", "failed"}]
        /\ browser' \in [Requests -> Browsers \cup {None}]
        /\ overlapping' \subseteq Browsers
    BY DEF Load
  <2>2. /\ token' \in [Requests -> Tokens \cup {None}]
        /\ data' \in [Requests -> Data]
        /\ from' \in [Requests -> Tokens \cup {None}]
    BY DEF Load
  <2> QED
    BY <2>1, <2>2 DEF Load
<1>2. CASE \E r \in Requests, k \in Keys : Set(r, k) \/ Remove(r, k)
  <2> PICK r \in Requests, k \in Keys : Set(r, k) \/ Remove(r, k)
    BY <1>2
  <2>1. calls' \in [Requests -> 0..MaxOps]
    BY CallType DEF Set, Remove
  <2>2. data' \in [Requests -> Data]
    <3>1. [data[r] EXCEPT ![k] = r] \in Data /\ [data[r] EXCEPT ![k] = None] \in Data
      BY SetType
    <3> QED
      BY <3>1 DEF Set, Remove
  <2> QED
    BY <2>1, <2>2 DEF Set, Remove, Calling
<1>3. CASE \E r \in Requests : Clear(r) \/ Reset(r)
  <2> PICK r \in Requests : Clear(r) \/ Reset(r)
    BY <1>3
  <2>1. calls' \in [Requests -> 0..MaxOps]
    BY CallType DEF Clear, Reset
  <2>2. data' \in [Requests -> Data]
    BY DEF Clear, Reset
  <2>3. resetFlag' \in [Requests -> BOOLEAN] /\ didReset' \in [Requests -> BOOLEAN]
    BY DEF Clear, Reset
  <2> QED
    BY <2>1, <2>2, <2>3 DEF Clear, Reset, Calling
<1>4. CASE \E r \in Requests : Return(r) \/ Panic(r)
  BY <1>4 DEF Return, Panic, history
<1>5. CASE \E r \in Requests, t \in Tokens : RenewToken(r, t)
  BY <1>5 DEF RenewToken
<1>6. CASE \E r \in Requests, t \in Tokens : Commit(r, t)
  <2> PICK r \in Requests, t \in Tokens : Commit(r, t)
    BY <1>6
  <2>1. store' \in [Tokens -> Data \cup {None}]
    BY DEF Commit
  <2>2. expected' \in [Browsers -> Data]
    BY DEF Commit
  <2> QED
    BY <2>1, <2>2 DEF Commit
<1>7. CASE \E r \in Requests : Discard(r)
  <2> PICK r \in Requests : Discard(r)
    BY <1>7
  <2>1. expected' \in [Browsers -> Data]
    BY DEF Discard
  <2> QED
    BY <2>1 DEF Discard
<1>8. CASE \E r \in Requests : Receive(r)
  <2> PICK r \in Requests : Receive(r)
    BY <1>8
  <2>1. cookie' \in [Browsers -> Tokens \cup {None}]
    BY DEF Receive
  <2> QED
    BY <2>1 DEF Receive, history
<1>9. CASE UNCHANGED vars
  BY <1>9 DEF vars, requestVars, history
<1> QED
  BY <1>1, <1>2, <1>3, <1>4, <1>5, <1>6, <1>7, <1>8, <1>9 DEF Next

\* At first all requests are idle.
LEMMA LifeInit == Init => Life
BY DEF Init, Life, Done

\* Every step keeps the parts of a request's context together.
LEMMA LifeStep ==
  ASSUME TypeOK, Life, [Next]_vars
  PROVE  Life'
<1> USE ConstantsAssumption, DataType DEF TypeOK, Life, Done
<1>1. CASE \E r \in Requests, b \in Browsers : Load(r, b)
  BY <1>1 DEF Load
<1>2. CASE \E r \in Requests, k \in Keys : Set(r, k) \/ Remove(r, k)
  BY <1>2 DEF Set, Remove, Calling
<1>3. CASE \E r \in Requests : Clear(r) \/ Reset(r)
  BY <1>3 DEF Clear, Reset, Calling
<1>4. CASE \E r \in Requests : Return(r) \/ Panic(r)
  BY <1>4 DEF Return, Panic, history
<1>5. CASE \E r \in Requests, t \in Tokens : RenewToken(r, t)
  BY <1>5 DEF RenewToken, Used
<1>6. CASE \E r \in Requests, t \in Tokens : Commit(r, t)
  BY <1>6 DEF Commit
<1>7. CASE \E r \in Requests : Discard(r)
  BY <1>7 DEF Discard
<1>8. CASE \E r \in Requests : Receive(r)
  BY <1>8 DEF Receive, history
<1>9. CASE UNCHANGED vars
  BY <1>9 DEF vars, requestVars, history
<1> QED
  BY <1>1, <1>2, <1>3, <1>4, <1>5, <1>6, <1>7, <1>8, <1>9 DEF Next

-----------------------------------------------------------------------------
(* What the actions do *)

\* A step of a handler.
Works(r) == Clear(r) \/ Reset(r) \/ \E k \in Keys : Set(r, k) \/ Remove(r, k)

\* A step of a handler changes only the request's own copy, and puts nothing in
\* it but values of its own.
LEMMA WorksEffect ==
  ASSUME TypeOK, NEW r \in Requests, Works(r)
  PROVE  /\ UNCHANGED <<cookie, store, st, browser, token, newCookie, from, renewed,
                        expected, overlapping>>
         /\ st[r] = "running" /\ calls'[r] > calls[r] /\ calls[r] \in Nat
         /\ \A q \in Requests \ {r} :
              data'[q] = data[q] /\ calls'[q] = calls[q] /\ resetFlag'[q] = resetFlag[q]
         /\ \A k \in Keys : data'[r][k] \in {data[r][k], None, r}
<1> USE DEF TypeOK
<1>1. PICK op : Calling(r, op)
  BY DEF Works, Clear, Reset, Set, Remove
<1>2. \A q \in Requests \ {r} : data'[q] = data[q] /\ resetFlag'[q] = resetFlag[q]
  BY DEF Works, Clear, Reset, Set, Remove
<1>3. \A k \in Keys : data'[r][k] \in {data[r][k], None, r}
  BY DEF Works, Clear, Reset, Set, Remove, Empty, Data
<1> QED
  BY <1>1, <1>2, <1>3, ConstantsAssumption DEF Calling

\* What a request starts with: the session of the cookie, or nothing.
LEMMA LoadEffect ==
  ASSUME TypeOK, Life, NEW r \in Requests, NEW b \in Browsers, Load(r, b)
  PROVE  /\ UNCHANGED <<cookie, store, resetFlag, calls, newCookie, didReset, renewed,
                        expected>>
         /\ st[r] = "idle" /\ st'[r] = "running" /\ browser'[r] = b
         /\ \A q \in Requests \ {r} :
              /\ st'[q] = st[q] /\ browser'[q] = browser[q]
              /\ token'[q] = token[q] /\ from'[q] = from[q] /\ data'[q] = data[q]
         /\ token'[r] = from'[r]
         /\ IF cookie[b] # None /\ store[cookie[b]] # None
              THEN token'[r] = cookie[b] /\ data'[r] = store[cookie[b]]
              ELSE token'[r] = None /\ data'[r] = Empty
BY DEF TypeOK, Life, Load

\* The steps, those of handlers taken together.
LEMMA NextCases ==
  ASSUME [Next]_vars
  PROVE  \/ \E r \in Requests, b \in Browsers : Load(r, b)
         \/ \E r \in Requests : Works(r)
         \/ \E r \in Requests : Return(r) \/ Panic(r)
         \/ \E r \in Requests, t \in Tokens : RenewToken(r, t)
         \/ \E r \in Requests, t \in Tokens : Commit(r, t)
         \/ \E r \in Requests : Discard(r)
         \/ \E r \in Requests : Receive(r)
         \/ UNCHANGED vars
BY DEF Next, Works

-----------------------------------------------------------------------------
(* Tokens and values *)

\* A token keeps its owner: it comes from a cookie of the browser, or is new.
LEMMA OwnerStep ==
  ASSUME TypeOK, Life, Handed, OneOwner, [Next]_vars
  PROVE  OneOwner'
<1> USE ConstantsAssumption, DataType DEF TypeOK, Life, OneOwner, Handed, Holds, Done
<1>1. CASE \E r \in Requests, b \in Browsers : Load(r, b)
  BY <1>1, LoadEffect
<1>2. CASE \E r \in Requests : Works(r)
  BY <1>2, WorksEffect
<1>3. CASE \E r \in Requests : Return(r) \/ Panic(r)
  BY <1>3 DEF Return, Panic, history
<1>4. CASE \E r \in Requests, t \in Tokens : RenewToken(r, t)
  BY <1>4 DEF RenewToken, Used
<1>5. CASE \E r \in Requests, t \in Tokens : Commit(r, t)
  BY <1>5 DEF Commit, Used
<1>6. CASE \E r \in Requests : Discard(r)
  BY <1>6 DEF Discard
<1>7. CASE \E r \in Requests : Receive(r)
  BY <1>7 DEF Receive, history
<1>8. CASE UNCHANGED vars
  BY <1>8 DEF vars, requestVars, history
<1> QED
  BY NextCases, <1>1, <1>2, <1>3, <1>4, <1>5, <1>6, <1>7, <1>8

\* A write-back is the only step that stores a session, and sets its cookie.
LEMMA HandedStep ==
  ASSUME TypeOK, Life, Handed, [Next]_vars
  PROVE  Handed'
<1> USE ConstantsAssumption, DataType DEF TypeOK, Life, Handed, Done
<1>1. CASE \E r \in Requests, b \in Browsers : Load(r, b)
  BY <1>1, LoadEffect
<1>2. CASE \E r \in Requests : Works(r)
  BY <1>2, WorksEffect
<1>3. CASE \E r \in Requests : Return(r) \/ Panic(r)
  BY <1>3 DEF Return, Panic, history
<1>4. CASE \E r \in Requests, t \in Tokens : RenewToken(r, t)
  BY <1>4 DEF RenewToken, Used
<1>5. CASE \E r \in Requests, t \in Tokens : Commit(r, t)
  BY <1>5 DEF Commit, Used
<1>6. CASE \E r \in Requests : Discard(r)
  BY <1>6 DEF Discard
<1>7. CASE \E r \in Requests : Receive(r)
  BY <1>7 DEF Receive, history
<1>8. CASE UNCHANGED vars
  BY <1>8 DEF vars, requestVars, history
<1> QED
  BY NextCases, <1>1, <1>2, <1>3, <1>4, <1>5, <1>6, <1>7, <1>8

\* A write-back stores a copy under a token of the same browser.
LEMMA StoreOwnedStep ==
  ASSUME TypeOK, Life, Handed, OneOwner, StoreOwned, Isolated, [Next]_vars
  PROVE  StoreOwned'
<1> USE ConstantsAssumption, DataType DEF TypeOK, Life, Handed, OneOwner, StoreOwned, Isolated, Holds, Data, Done
<1>1. CASE \E r \in Requests, b \in Browsers : Load(r, b)
  <2> PICK r \in Requests, b \in Browsers : Load(r, b)
    BY <1>1
  <2> SUFFICES ASSUME NEW t \in Tokens, NEW k \in Keys, NEW q \in Requests,
                      store[t] # None, store[t][k] # None, Holds(q, t)'
               PROVE  browser'[store[t][k]] = browser'[q]
    BY LoadEffect
  <2>1. PICK o \in Requests : newCookie[o] = t /\ st[o] # "idle"
    OBVIOUS
  <2>2. store[t][k] \in Requests /\ browser[store[t][k]] = browser[o]
    BY <2>1
  <2>3. store[t][k] # r
    BY <2>1, <2>2, LoadEffect
  <2>4. CASE q # r
    BY <2>2, <2>3, <2>4, LoadEffect
  <2>5. CASE q = r
    <3>1. t = cookie[b] /\ browser'[r] = b
      BY <2>5, LoadEffect
    <3>2. PICK p \in Requests : browser[p] = b /\ newCookie[p] = cookie[b]
      <4>1. cookie[b] # None
        BY <3>1
      <4> QED
        BY <4>1 DEF Handed
    <3>3. browser[o] = b
      BY <2>1, <3>1, <3>2
    <3> QED
      BY <2>2, <2>3, <2>5, <3>1, <3>3, LoadEffect
  <2> QED
    BY <2>4, <2>5
<1>2. CASE \E r \in Requests : Works(r)
  BY <1>2, WorksEffect
<1>3. CASE \E r \in Requests : Return(r) \/ Panic(r)
  BY <1>3 DEF Return, Panic, history
<1>4. CASE \E r \in Requests, t \in Tokens : RenewToken(r, t)
  BY <1>4 DEF RenewToken, Used
<1>5. CASE \E r \in Requests, t \in Tokens : Commit(r, t)
  BY <1>5 DEF Commit, Used
<1>6. CASE \E r \in Requests : Discard(r)
  BY <1>6 DEF Discard
<1>7. CASE \E r \in Requests : Receive(r)
  BY <1>7 DEF Receive, history
<1>8. CASE UNCHANGED vars
  BY <1>8 DEF vars, requestVars, history
<1> QED
  BY NextCases, <1>1, <1>2, <1>3, <1>4, <1>5, <1>6, <1>7, <1>8

\* A request loads what is under a token of its own browser.
LEMMA IsolatedStep ==
  ASSUME TypeOK, Life, Handed, StoreOwned, Isolated, [Next]_vars
  PROVE  Isolated'
<1> USE ConstantsAssumption, DataType DEF TypeOK, Life, Handed, StoreOwned, Isolated, Holds, Empty, Data, Done
<1>1. CASE \E r \in Requests, b \in Browsers : Load(r, b)
  <2> PICK r \in Requests, b \in Browsers : Load(r, b)
    BY <1>1
  <2> SUFFICES ASSUME NEW q \in Requests, NEW k \in Keys, data'[q][k] # None
               PROVE  browser'[data'[q][k]] = browser'[q]
    OBVIOUS
  <2>0. data[q][k] \in Requests \cup {None} /\ data' [q][k] \in Requests \cup {None}
    BY TypeStep
  <2>1. CASE q # r
    <3>1. data[q][k] # r
      BY <2>1, LoadEffect
    <3> QED
      BY <2>0, <2>1, <3>1, LoadEffect
  <2>2. CASE q = r
    <3>1. /\ cookie[b] # None /\ store[cookie[b]] # None
          /\ data'[r] = store[cookie[b]] /\ browser'[r] = b
      BY <2>2, LoadEffect
    <3>2. PICK o \in Requests : browser[o] = b /\ newCookie[o] = cookie[b]
      BY <3>1
    <3>3. browser[data'[q][k]] = b /\ data'[q][k] \in Requests \ {r}
      BY <2>0, <2>2, <3>1, <3>2, LoadEffect
    <3> QED
      BY <2>2, <3>1, <3>3, LoadEffect
  <2> QED
    BY <2>1, <2>2
<1>2. CASE \E r \in Requests : Works(r)
  <2> PICK r \in Requests : Works(r)
    BY <1>2
  <2> SUFFICES ASSUME NEW q \in Requests, NEW k \in Keys, data'[q][k] # None
               PROVE  browser[data'[q][k]] = browser[q]
    BY WorksEffect
  <2>0. /\ \A o \in Requests \ {r} : data'[o] = data[o]
        /\ data'[r][k] \in {data[r][k], None, r}
    BY WorksEffect
  <2>1. CASE q = r
    BY <2>0, <2>1
  <2>2. CASE q # r
    BY <2>0, <2>2
  <2> QED
    BY <2>1, <2>2
<1>3. CASE \E r \in Requests : Return(r) \/ Panic(r)
  BY <1>3 DEF Return, Panic, history
<1>4. CASE \E r \in Requests, t \in Tokens : RenewToken(r, t)
  BY <1>4 DEF RenewToken, Used
<1>5. CASE \E r \in Requests, t \in Tokens : Commit(r, t)
  BY <1>5 DEF Commit, Used
<1>6. CASE \E r \in Requests : Discard(r)
  BY <1>6 DEF Discard
<1>7. CASE \E r \in Requests : Receive(r)
  BY <1>7 DEF Receive, history
<1>8. CASE UNCHANGED vars
  BY <1>8 DEF vars, requestVars, history
<1> QED
  BY NextCases, <1>1, <1>2, <1>3, <1>4, <1>5, <1>6, <1>7, <1>8

\* Values get from copy to store in the write-back alone, from store to copy later.
LEMMA UnpublishedStep ==
  ASSUME TypeOK, Life, Unpublished, [Next]_vars
  PROVE  Unpublished'
<1> USE ConstantsAssumption, DataType DEF TypeOK, Life, Unpublished, Empty, Data
<1>1. CASE \E r \in Requests, b \in Browsers : Load(r, b)
  <2> PICK r \in Requests, b \in Browsers : Load(r, b)
    BY <1>1
  <2>1. \A o \in Requests : Done(o) => Done(o)'
    BY LoadEffect DEF Done
  <2> SUFFICES ASSUME NEW o \in Requests, NEW k \in Keys, NEW q \in Requests,
                      data'[q][k] = o, q # o
               PROVE  Done(o)
    BY <2>1, LoadEffect
  <2>2. CASE q # r
    BY <2>2, LoadEffect
  <2>3. CASE q = r
    <3>1. CASE data'[r] = Empty
      BY <2>3, <3>1
    <3>2. CASE /\ cookie[b] # None /\ store[cookie[b]] # None
               /\ data'[r] = store[cookie[b]]
      BY <2>3, <3>2
    <3> QED
      BY <3>1, <3>2, LoadEffect
  <2> QED
    BY <2>2, <2>3
<1>2. CASE \E r \in Requests : Works(r)
  <2> PICK r \in Requests : Works(r)
    BY <1>2
  <2>1. \A o \in Requests : Done(o)' = Done(o)
    BY WorksEffect DEF Done
  <2> SUFFICES ASSUME NEW o \in Requests, NEW k \in Keys, NEW q \in Requests,
                      data'[q][k] = o, q # o
               PROVE  Done(o)
    BY <2>1, WorksEffect
  <2> QED
    BY WorksEffect
<1>3. CASE \E r \in Requests : Return(r) \/ Panic(r)
  <2> PICK r \in Requests : Return(r) \/ Panic(r)
    BY <1>3
  <2>1. \A o \in Requests : Done(o) => Done(o)'
    BY DEF Return, Panic, Done
  <2> QED
    BY <2>1 DEF Return, Panic
<1>4. CASE \E r \in Requests, t \in Tokens : RenewToken(r, t)
  BY <1>4 DEF RenewToken, Done
<1>5. CASE \E r \in Requests, t \in Tokens : Commit(r, t)
  BY <1>5 DEF Commit, Done
<1>6. CASE \E r \in Requests : Discard(r)
  BY <1>6 DEF Discard, Done
<1>7. CASE \E r \in Requests : Receive(r)
  BY <1>7 DEF Receive, history, Done
<1>8. CASE UNCHANGED vars
  BY <1>8 DEF vars, requestVars, history, Done
<1> QED
  BY NextCases, <1>1, <1>2, <1>3, <1>4, <1>5, <1>6, <1>7, <1>8

\* At a renewal no other copy has a value of the request; after it the request
\* writes under the new token.
LEMMA SeparatedStep ==
  ASSUME TypeOK, Life, Unpublished, Separated, [Next]_vars
  PROVE  Separated'
<1> USE ConstantsAssumption, DataType DEF TypeOK, Life, Separated, Unpublished, Empty, Data, Done
<1>1. CASE \E r \in Requests, b \in Browsers : Load(r, b)
  <2> PICK r \in Requests, b \in Browsers : Load(r, b)
    BY <1>1
  <2> SUFFICES ASSUME NEW o \in Requests, NEW k \in Keys, NEW q \in Requests,
                      renewed[o], from[o] # None, data'[q][k] = o
               PROVE  token'[q] # from[o]
    <3>1. \A o \in Requests : renewed[o] => from'[o] = from[o]
      BY LoadEffect
    <3> QED
      BY <3>1, LoadEffect
  <2>1. CASE q # r
    BY <2>1, LoadEffect
  <2>2. CASE q = r
    <3>1. CASE data'[r] = Empty
      BY <2>2, <3>1
    <3>2. CASE /\ cookie[b] # None /\ store[cookie[b]] # None
               /\ data'[r] = store[cookie[b]] /\ token'[r] = cookie[b]
      BY <2>2, <3>2
    <3> QED
      BY <3>1, <3>2, LoadEffect
  <2> QED
    BY <2>1, <2>2
<1>2. CASE \E r \in Requests : Works(r)
  <2> PICK r \in Requests : Works(r)
    BY <1>2
  <2>0. /\ \A o \in Requests \ {r} : data'[o] = data[o]
        /\ \A k \in Keys : data'[r][k] \in {data[r][k], None, r}
        /\ ~ renewed[r]
    BY WorksEffect
  <2> SUFFICES ASSUME NEW o \in Requests, NEW k \in Keys, NEW q \in Requests,
                      renewed[o], from[o] # None, data'[q][k] = o
               PROVE  token[q] # from[o]
    BY WorksEffect
  <2>1. CASE q = r
    <3>1. data'[r][k] = o /\ o # r /\ o # None
      BY <2>0, <2>1
    <3>2. data[r][k] = o
      BY <2>0, <3>1
    <3> QED
      BY <2>1, <3>2
  <2>2. CASE q # r
    BY <2>0, <2>2
  <2> QED
    BY <2>1, <2>2
<1>3. CASE \E r \in Requests : Return(r) \/ Panic(r)
  BY <1>3 DEF Return, Panic, history
<1>4. CASE \E r \in Requests, t \in Tokens : RenewToken(r, t)
  <2> PICK r \in Requests, t \in Tokens : RenewToken(r, t)
    BY <1>4
  <2>0. /\ ~ Done(r) /\ UNCHANGED <<data, from>> /\ token' = [token EXCEPT ![r] = t]
        /\ \A o \in Requests \ {r} : renewed'[o] => renewed[o]
        /\ \A s \in Tokens : store'[s] # None => store'[s] = store[s]
        /\ \A q \in Requests : from[q] # t
    BY DEF RenewToken, Used
  <2> SUFFICES ASSUME NEW o \in Requests, NEW k \in Keys, renewed'[o], from[o] # None
               PROVE  /\ store'[from[o]] # None => store'[from[o]][k] # o
                      /\ \A q \in Requests : data[q][k] = o => token'[q] # from[o]
    BY <2>0
  <2>1. CASE o # r
    <3>1. renewed[o]
      BY <2>0, <2>1
    <3>2. \A q \in Requests : token'[q] \in {token[q], t}
      BY <2>0
    <3> QED
      BY <2>0, <3>1, <3>2
  <2>2. CASE o = r
    BY <2>0, <2>2
  <2> QED
    BY <2>1, <2>2
<1>5. CASE \E r \in Requests, t \in Tokens : Commit(r, t)
  BY <1>5 DEF Commit, Used
<1>6. CASE \E r \in Requests : Discard(r)
  BY <1>6 DEF Discard
<1>7. CASE \E r \in Requests : Receive(r)
  BY <1>7 DEF Receive, history
<1>8. CASE UNCHANGED vars
  BY <1>8 DEF vars, requestVars, history
<1> QED
  BY NextCases, <1>1, <1>2, <1>3, <1>4, <1>5, <1>6, <1>7, <1>8

-----------------------------------------------------------------------------
(* A browser that awaits each answer *)

\* A request that starts beside another one makes its browser an overlapping one.
LEMMA SerialStep ==
  ASSUME TypeOK, Life, Serial, [Next]_vars
  PROVE  Serial'
<1> USE ConstantsAssumption, DataType DEF TypeOK, Life, Serial
<1>1. CASE \E r \in Requests, b \in Browsers : Load(r, b)
  <2> PICK r \in Requests, b \in Browsers : Load(r, b)
    BY <1>1
  <2>1. /\ overlapping \subseteq overlapping'
        /\ b \notin overlapping' => \A q \in Active : browser[q] # b
    BY DEF Load
  <2>2. Active' = Active \cup {r} /\ r \notin Active
    BY LoadEffect DEF Active
  <2> SUFFICES ASSUME NEW q \in Active', NEW o \in Active', browser'[q] = browser'[o],
                      browser'[o] \notin overlapping'
               PROVE  q = o
    OBVIOUS
  <2>3. browser'[r] = b /\ \A p \in Active : p \in Requests /\ browser'[p] = browser[p]
    BY <2>2, LoadEffect DEF Active
  <2>4. CASE q = r \/ o = r
    BY <2>1, <2>2, <2>3, <2>4
  <2>5. CASE q # r /\ o # r
    BY <2>1, <2>2, <2>3, <2>5
  <2> QED
    BY <2>4, <2>5
<1>2. CASE \E r \in Requests : Works(r)
  BY <1>2, WorksEffect DEF Active
<1>3. CASE \E r \in Requests : Return(r) \/ Panic(r)
  BY <1>3 DEF Return, Panic, history, Active
<1>4. CASE \E r \in Requests, t \in Tokens : RenewToken(r, t)
  BY <1>4 DEF RenewToken, Active
<1>5. CASE \E r \in Requests, t \in Tokens : Commit(r, t)
  BY <1>5 DEF Commit, Active
<1>6. CASE \E r \in Requests : Discard(r)
  BY <1>6 DEF Discard, Active
<1>7. CASE \E r \in Requests : Receive(r)
  BY <1>7 DEF Receive, history, Active
<1>8. CASE UNCHANGED vars
  BY <1>8 DEF vars, requestVars, history, Active
<1> QED
  BY NextCases, <1>1, <1>2, <1>3, <1>4, <1>5, <1>6, <1>7, <1>8

\* A renewal removes the old session; the browser has no other request that has
\* it, and no later one finds it.
LEMMA RetiredStep ==
  ASSUME TypeOK, Life, OneOwner, Serial, Retired, [Next]_vars
  PROVE  Retired'
<1> USE ConstantsAssumption, DataType DEF TypeOK, Life, OneOwner, Serial, Retired, Holds, Active, Unanswered
<1>1. CASE \E r \in Requests, b \in Browsers : Load(r, b)
  BY <1>1, LoadEffect DEF Load
<1>2. CASE \E r \in Requests : Works(r)
  BY <1>2, WorksEffect
<1>3. CASE \E r \in Requests : Return(r) \/ Panic(r)
  BY <1>3 DEF Return, Panic, history
<1>4. CASE \E r \in Requests, t \in Tokens : RenewToken(r, t)
  BY <1>4 DEF RenewToken, Used
<1>5. CASE \E r \in Requests, t \in Tokens : Commit(r, t)
  BY <1>5 DEF Commit, Used
<1>6. CASE \E r \in Requests : Discard(r)
  BY <1>6 DEF Discard
<1>7. CASE \E r \in Requests : Receive(r)
  BY <1>7 DEF Receive, history
<1>8. CASE UNCHANGED vars
  BY <1>8 DEF vars, requestVars, history
<1> QED
  BY NextCases, <1>1, <1>2, <1>3, <1>4, <1>5, <1>6, <1>7, <1>8

\* The tokens of a browser are in use, and no request of another one works with them.
LEMMA ForeignToken ==
  ASSUME TypeOK, Life, OneOwner, Handed, NEW r \in Requests, NEW b \in Browsers,
         browser[r] # b
  PROVE  /\ cookie[b] # None => cookie[b] # token[r] /\ cookie[b] \in Used
         /\ \A q \in Requests : browser[q] = b /\ newCookie[q] # None =>
              newCookie[q] # token[r] /\ newCookie[q] \in Used
<1>1. \A q \in Requests : browser[q] = b /\ newCookie[q] # None =>
        newCookie[q] # token[r] /\ newCookie[q] \in Used
  BY ConstantsAssumption DEF TypeOK, Life, OneOwner, Holds, Used
<1> QED
  BY <1>1 DEF Handed

\* Only the one request of b under way changes what b would load and what b
\* expects.
LEMMA ReadingStep ==
  ASSUME TypeOK, Life, OneOwner, Handed, Serial, Reading, [Next]_vars
  PROVE  Reading'
<1> USE ConstantsAssumption, DataType DEF TypeOK, Life, Done
<1> SUFFICES ASSUME NEW b \in Browsers, b \notin overlapping'
             PROVE  Reads(b)'
  BY DEF Reading
<1>0. b \notin overlapping /\ Reads(b)
  <2>1. overlapping \subseteq overlapping'
    BY NextCases, WorksEffect DEF Load, Return, Panic, RenewToken, Commit, Discard, Receive,
                                  vars, history
  <2> QED
    BY <2>1 DEF Reading
<1>1. CASE \E r \in Requests, c \in Browsers : Load(r, c)
  <2> PICK r \in Requests, c \in Browsers : Load(r, c)
    BY <1>1
  <2>1. Current(b)' = Current(b) /\ Active' = Active \cup {r} /\ r \notin Active
    BY LoadEffect DEF Current, Active
  <2>2. \A q \in Active : q \in Requests \ {r}
    BY <2>1 DEF Active
  <2>3. CASE c = b
    <3>1. \A q \in Active : browser[q] # b
      BY <2>3 DEF Load
    <3>2. \A q \in Active' : browser'[q] = b => q = r
      BY <2>1, <2>2, <3>1, LoadEffect
    <3>3. Current(b) = expected[b]
      BY <1>0, <3>1 DEF Reads
    <3>4. /\ st'[r] = "running" /\ browser'[r] = b /\ ~ renewed'[r] /\ r \in Active'
          /\ IF from'[r] = None THEN Current(b) = Empty ELSE cookie'[b] = from'[r]
          /\ data'[r] = Current(b) /\ expected' = expected
      BY <2>1, <2>3, LoadEffect DEF Current
    <3> QED
      BY <2>1, <3>2, <3>3, <3>4 DEF Reads, Unanswered
  <2>4. CASE c # b
    <3>1. \A q \in Active' : browser'[q] = b => q \in Active
      BY <2>1, <2>4, LoadEffect
    <3>2. \A q \in Active : /\ st'[q] = st[q] /\ browser'[q] = browser[q]
                            /\ from'[q] = from[q] /\ data'[q] = data[q]
      BY <2>2, LoadEffect
    <3>3. UNCHANGED <<cookie, store, calls, newCookie, renewed, expected>>
      BY LoadEffect
    <3> QED
      BY <1>0, <2>1, <3>1, <3>2, <3>3 DEF Reads, Unanswered
  <2> QED
    BY <2>3, <2>4
<1>2. CASE \E r \in Requests : Works(r)
  <2> PICK r \in Requests : Works(r)
    BY <1>2
  <2>1. Current(b)' = Current(b) /\ Active' = Active
    BY WorksEffect DEF Current, Active
  <2>2. \A q \in Requests : st[q] = "running" /\ calls'[q] = 0 =>
           data'[q] = data[q] /\ calls[q] = 0
    BY WorksEffect
  <2> QED
    <3>1. UNCHANGED <<cookie, store, st, browser, newCookie, from, renewed, expected>>
      BY WorksEffect
    <3>2. Active \subseteq Requests
      BY DEF Active
    <3> QED
      BY <1>0, <2>1, <2>2, <3>1, <3>2 DEF Reads, Unanswered
<1>3. CASE \E r \in Requests : Return(r) \/ Panic(r)
  <2> PICK r \in Requests : Return(r) \/ Panic(r)
    BY <1>3
  <2>1. Current(b)' = Current(b)
    BY DEF Return, Panic, history, Current
  <2> QED
    BY <1>0, <2>1 DEF Reads, Return, Panic, history, Unanswered, Active, Serial
<1>4. CASE \E r \in Requests, t \in Tokens : RenewToken(r, t)
  <2> PICK r \in Requests, t \in Tokens : RenewToken(r, t)
    BY <1>4
  <2>1. /\ r \in Active /\ Active' = Active /\ Unanswered(r) /\ ~ renewed[r]
        /\ UNCHANGED <<cookie, st, browser, data, calls, newCookie, from, expected>>
        /\ store' = [s \in Tokens |-> IF s = token[r] THEN None ELSE store[s]]
        /\ \A q \in Requests \ {r} : renewed'[q] = renewed[q]
        /\ renewed'[r] /\ st'[r] = "returned"
    BY DEF RenewToken, Active, Unanswered
  <2>2. CASE browser[r] = b
    <3>1. \A q \in Active' : browser'[q] = b => q = r
      BY <1>0, <2>1, <2>2 DEF Serial
    <3>2. Current(b)' = Empty
      <4>1. CASE from[r] = None
        BY <1>0, <2>1, <2>2, <4>1 DEF Reads, Current, Unanswered
      <4>2. CASE from[r] # None
        <5>1. cookie[b] = token[r]
          BY <1>0, <2>1, <2>2, <4>2 DEF Reads
        <5> QED
          BY <2>1, <5>1 DEF Current
      <4> QED
        BY <4>1, <4>2
    <3> QED
      BY <2>1, <2>2, <3>1, <3>2 DEF Reads, Unanswered
  <2>3. CASE browser[r] # b
    <3>1. Current(b)' = Current(b)
      BY <2>1, <2>3, ForeignToken DEF Current
    <3>2. \A q \in Active : browser[q] = b /\ newCookie[q] # None =>
            store'[newCookie[q]] = store[newCookie[q]]
      BY <2>1, <2>3, ForeignToken DEF Active
    <3>3. \A q \in Active : browser[q] = b => q \in Requests \ {r}
      BY <2>3 DEF Active
    <3> QED
      BY <1>0, <2>1, <3>1, <3>2, <3>3 DEF Reads, Unanswered
  <2> QED
    BY <2>2, <2>3
<1>5. CASE \E r \in Requests, t \in Tokens : Commit(r, t)
  <2> PICK r \in Requests, t \in Tokens : Commit(r, t)
    BY <1>5
  <2>1. /\ r \in Active /\ Active' = Active /\ st'[r] = "answered" /\ newCookie'[r] = t
        /\ UNCHANGED <<cookie, browser, data, calls, from, renewed>>
        /\ store'[t] = data[r] /\ \A s \in Tokens \ {t} : store'[s] = store[s]
        /\ \A q \in Requests \ {r} : st'[q] = st[q] /\ newCookie'[q] = newCookie[q]
    BY DEF Commit, Active
  <2>2. CASE browser[r] = b
    <3>1. \A q \in Active' : browser'[q] = b => q = r
      BY <1>0, <2>1, <2>2 DEF Serial
    <3>2. expected'[b] = data[r] /\ data[r] # None /\ browser'[r] = b
      BY <2>2 DEF Commit
    <3> QED
      BY <2>1, <3>1, <3>2 DEF Reads, Unanswered
  <2>3. CASE browser[r] # b
    <3>1. /\ cookie[b] # None => cookie[b] # t
          /\ \A q \in Active : browser[q] = b /\ newCookie[q] # None => newCookie[q] # t
          /\ expected'[b] = expected[b]
      BY <2>3, ForeignToken DEF Commit, Active
    <3>2. Current(b)' = Current(b)
      BY <2>1, <3>1 DEF Current
    <3>3. \A q \in Active : browser[q] = b => q \in Requests \ {r}
      BY <2>3 DEF Active
    <3>4. \A q \in Active : browser[q] = b /\ newCookie[q] # None =>
            store'[newCookie[q]] = store[newCookie[q]]
      BY <2>1, <3>1 DEF Active
    <3> QED
      BY <1>0, <2>1, <3>1, <3>2, <3>3, <3>4 DEF Reads, Unanswered
  <2> QED
    BY <2>2, <2>3
<1>6. CASE \E r \in Requests : Discard(r)
  <2> PICK r \in Requests : Discard(r)
    BY <1>6
  <2>1. Current(b)' = Current(b)
    BY DEF Discard, Current
  <2> QED
    BY <1>0, <2>1 DEF Reads, Discard, Unanswered, Active, Serial
<1>7. CASE \E r \in Requests : Receive(r)
  <2> PICK r \in Requests : Receive(r)
    BY <1>7
  <2>1. /\ r \in Active /\ Active' = Active \ {r} /\ st[r] = "answered"
        /\ UNCHANGED <<store, browser, data, calls, newCookie, from, renewed, expected>>
        /\ \A q \in Requests \ {r} : st'[q] = st[q]
    BY DEF Receive, Active, history
  <2>2. CASE browser[r] = b
    <3>1. \A q \in Active' : browser'[q] # b
      BY <1>0, <2>1, <2>2 DEF Serial
    <3>2. Current(b)' = expected[b]
      <4>1. CASE newCookie[r] = None
        BY <1>0, <2>1, <2>2, <4>1 DEF Reads, Current, Receive
      <4>2. CASE newCookie[r] # None
        <5>1. cookie'[b] = newCookie[r]
          BY <2>2, <4>2 DEF Receive
        <5>2. store[newCookie[r]] = expected[b] /\ expected[b] # None
          BY <1>0, <2>1, <2>2, <4>2 DEF Reads
        <5> QED
          BY <2>1, <4>2, <5>1, <5>2 DEF Current
      <4> QED
        BY <4>1, <4>2
    <3> QED
      BY <2>1, <3>1, <3>2 DEF Reads
  <2>3. CASE browser[r] # b
    <3>1. cookie'[b] = cookie[b] /\ Current(b)' = Current(b)
      BY <2>1, <2>3 DEF Receive, Current
    <3>2. \A q \in Active : browser[q] = b => q \in Requests \ {r} /\ q \in Active'
      BY <2>1, <2>3 DEF Active
    <3> QED
      BY <1>0, <2>1, <3>1, <3>2 DEF Reads, Unanswered
  <2> QED
    BY <2>2, <2>3
<1>8. CASE UNCHANGED vars
  BY <1>0, <1>8 DEF vars, requestVars, history, Reads, Current, Active, Unanswered
<1> QED
  BY NextCases, <1>1, <1>2, <1>3, <1>4, <1>5, <1>6, <1>7, <1>8

-----------------------------------------------------------------------------
(* The theorems *)

\* The inductive invariant.
Inv ==
  /\ TypeOK /\ Life /\ OneOwner /\ Handed /\ StoreOwned /\ Isolated
  /\ Unpublished /\ Separated /\ Serial /\ Retired /\ Reading

\* It holds at first.
LEMMA InitInv == Init => Inv
<1> SUFFICES ASSUME Init PROVE Inv
  OBVIOUS
<1>1. TypeOK /\ Life
  BY TypeInit, LifeInit
<1>2. Active = {} /\ \A r \in Requests : data[r] = Empty /\ ~ renewed[r]
  BY Zenon DEF Init, Active
<1>3. OneOwner /\ Handed /\ StoreOwned /\ Isolated /\ Unpublished
  BY ConstantsAssumption DEF Init, OneOwner, Handed, StoreOwned, Isolated, Unpublished, Holds, Empty
<1>4. Separated /\ Serial /\ Retired
  BY <1>2 DEF Separated, Serial, Retired
<1>5. Reading
  BY <1>2 DEF Init, Reading, Reads, Current
<1> QED
  BY <1>1, <1>3, <1>4, <1>5 DEF Inv

\* Every step keeps it.
LEMMA StepInv == Inv /\ [Next]_vars => Inv'
BY TypeStep, LifeStep, OwnerStep, HandedStep, StoreOwnedStep, IsolatedStep, UnpublishedStep,
   SeparatedStep, SerialStep, RetiredStep, ReadingStep DEF Inv

\* It always holds.
LEMMA Invariant == Spec => []Inv
BY InitInv, StepInv, PTL DEF Spec

\* The variables keep their types.
THEOREM Typing == Spec => []TypeOK
<1>1. Inv => TypeOK
  BY DEF Inv
<1> QED
  BY Invariant, <1>1, PTL

\* No request ever works on a value that a request of another browser set.
THEOREM Isolation == Spec => []Isolated
<1>1. Inv => Isolated
  BY DEF Inv
<1> QED
  BY Invariant, <1>1, PTL

\* What is set in a request that renews the token never gets under the old token,
\* whatever other requests still work with it.
THEOREM OldTokenSeesNothing == Spec => []ResetSeparates
<1>1. Inv => ResetSeparates
  BY DEF Inv, Separated, ResetSeparates
<1> QED
  BY Invariant, <1>1, PTL

\* After a renewal the store does not have the old session, if the browser has
\* awaited each of its answers.
THEOREM RenewalRetires == Spec => []RenewedIsRetired
<1>1. Inv => RenewedIsRetired
  BY DEF Inv, Retired, RenewedIsRetired
<1> QED
  BY Invariant, <1>1, PTL

\* A browser that awaits each answer starts the next request with the data that
\* the latest write-back left, also when the token was renewed.
THEOREM SessionsContinue == Spec => []SerialReads
<1>1. Inv => SerialReads
  <2> SUFFICES ASSUME Inv, NEW r \in Requests, st[r] = "running", calls[r] = 0,
                      browser[r] \notin overlapping
               PROVE  data[r] = expected[browser[r]]
    BY DEF SerialReads
  <2>1. browser[r] \in Browsers /\ r \in Active
    BY DEF Inv, TypeOK, Life, Active
  <2> QED
    BY <2>1 DEF Inv, Reading, Reads
<1> QED
  BY Invariant, <1>1, PTL
=============================================================================

---------------------------- MODULE CacheProofs ----------------------------
(***************************************************************************)
(* What the caches promise.                                                *)
(*                                                                         *)
(* The LRU cache, for any keys, goroutines, size limit, time to live and   *)
(* intervals: the bound on its size and the order in which it ages items.  *)
(*                                                                         *)
(* The browsers' caches of the assets, for any browsers, layouts, versions *)
(* and deployments: what a page gets for its cache-busted URL is there, is *)
(* readable and is no older than the page.                                 *)
(***************************************************************************)
EXTENDS LruCache, Assets, FiniteSetTheorems, SequenceTheorems, TLAPS

-----------------------------------------------------------------------------
(* The LRU cache *)

\* Every variable of the cache keeps its type.
THEOREM Typing == Spec => []TypeOK
<1>1. Init => TypeOK
  BY ConstantsAssumption DEF Init, TypeOK
<1>2. TypeOK /\ [Next]_vars => TypeOK'
  <2> SUFFICES ASSUME TypeOK, [Next]_vars PROVE TypeOK'
    OBVIOUS
  <2> USE ConstantsAssumption DEF TypeOK, itemVars, gcVars, history
  <2>1. CASE Tick
    BY <2>1 DEF Tick, Calls
  <2>2. ASSUME NEW p \in Procs, NEW k \in Keys, SetBegins(p, k) PROVE TypeOK'
    <3> DEFINE c == [key |-> k, expires |-> now + ttl, began |-> step']
    <3>1. step' \in 0..MaxSteps /\ call' = [call EXCEPT ![p] = c]
      BY <2>2 DEF SetBegins, CallerStep
    <3>2. c \in Calls /\ c.expires <= now + ttl
      BY <3>1 DEF Calls
    <3> HIDE DEF c
    <3>3. call' \in [Procs -> Calls \cup {None}]
      BY <3>1, <3>2
    <3> QED
      BY <2>2, <3>1, <3>3 DEF SetBegins
  <2>3. ASSUME NEW p \in Procs, SetStores(p) PROVE TypeOK'
    <3>1. /\ call[p].key \in Keys /\ call[p].expires \in Nat /\ call[p].began \in Nat
          /\ call[p].expires <= now + ttl
          /\ step' \in 0..MaxSteps
      BY <2>3 DEF SetStores, CallerStep, Calls
    <3>2. setCounter' \in Nat /\ gcs' \in Nat /\ gcInterval' = gcInterval
      BY <2>3 DEF SetStores, CountSet
    <3> QED
      BY <2>3, <3>1, <3>2 DEF SetStores
  <2>4. ASSUME NEW p \in Procs, NEW k \in Keys, Get(p, k) PROVE TypeOK'
    BY <2>4 DEF Get, CallerStep
  <2>5. ASSUME NEW i \in Intervals, SetGCInterval(i) PROVE TypeOK'
    BY <2>5 DEF SetGCInterval
  <2>6. CASE gc
    BY <2>6 DEF gc, Remaining
  <2>7. CASE UNCHANGED vars
    BY <2>7 DEF vars
  <2> QED
    BY <2>1, <2>2, <2>3, <2>4, <2>5, <2>6, <2>7 DEF Next
<1> QED
  BY <1>1, <1>2, PTL DEF Spec

\* A collection leaves at most maxItemCount items.
LEMMA CollectionFits ==
  ASSUME TypeOK, gc
  PROVE  Cardinality(held') <= maxItemCount
<1> DEFINE live == {k \in held : ~ Expired(k)}
<1>1. PICK evicted \in SUBSET held : Evictable(evicted) /\ held' = Remaining(evicted)
  BY DEF gc
<1>2. held' = live \ evicted
  BY <1>1 DEF Remaining
<1>3. IsFiniteSet(live)
  BY ConstantsAssumption, FS_Subset DEF TypeOK
<1>4. CASE Cardinality(live) > maxItemCount
  BY <1>1, <1>2, <1>4, ConstantsAssumption DEF Evictable
<1>5. CASE ~ (Cardinality(live) > maxItemCount)
  <2>1. held' = live
    BY <1>1, <1>2, <1>5 DEF Evictable
  <2> QED
    BY <1>3, <1>5, <2>1, FS_CardinalityType, ConstantsAssumption
<1> QED
  BY <1>4, <1>5

\* Unless a collection is pending, the cache holds at most maxItemCount items and
\* one more for each Set counted since the last one was started.
THEOREM SizeIsBounded == Spec => []SizeBound
<1>1. Init => SizeBound
  BY FS_EmptySet, ConstantsAssumption DEF Init, SizeBound
<1>2. TypeOK /\ SizeBound /\ [Next]_vars => SizeBound'
  <2> SUFFICES ASSUME TypeOK, SizeBound, [Next]_vars PROVE SizeBound'
    OBVIOUS
  <2> USE DEF SizeBound
  <2>1. ASSUME NEW p \in Procs, SetStores(p) PROVE SizeBound'
    <3>1. PICK k \in Keys : held' = held \cup {k}
      BY <2>1 DEF SetStores, TypeOK, Calls
    <3>2. IsFiniteSet(held)
      BY ConstantsAssumption, FS_Subset DEF TypeOK
    <3>3. Cardinality(held) \in Nat /\ Cardinality(held') <= Cardinality(held) + 1
      <4>1. Cardinality(held) \in Nat
        BY <3>2, FS_CardinalityType
      <4>2. Cardinality(held \cup {k}) = IF k \in held THEN Cardinality(held)
                                                       ELSE Cardinality(held) + 1
        BY <3>2, FS_AddElement
      <4> QED
        BY <3>1, <4>1, <4>2
    <3>4. Cardinality(held') \in Nat
      BY <3>1, <3>2, FS_AddElement, FS_CardinalityType
    <3>5. gcs' = 0 => gcs = 0 /\ setCounter' = setCounter + 1
      BY <2>1 DEF SetStores, CountSet, TypeOK
    <3> QED
      BY <3>3, <3>4, <3>5, ConstantsAssumption DEF TypeOK
  <2>2. CASE gc
    <3>1. setCounter' = setCounter /\ setCounter \in Nat
      BY <2>2 DEF gc, TypeOK
    <3>2. Cardinality(held') \in Int
      BY ConstantsAssumption, <2>2, FS_Subset, FS_CardinalityType DEF gc, Remaining, TypeOK
    <3> QED
      BY <2>2, <3>1, <3>2, CollectionFits, ConstantsAssumption
  <2>3. CASE Tick
    BY <2>3 DEF Tick, itemVars, gcVars
  <2>4. ASSUME NEW p \in Procs, NEW k \in Keys, SetBegins(p, k) \/ Get(p, k)
        PROVE  SizeBound'
    BY <2>4 DEF SetBegins, Get, itemVars, gcVars
  <2>5. ASSUME NEW i \in Intervals, SetGCInterval(i) PROVE SizeBound'
    BY <2>5 DEF SetGCInterval, itemVars
  <2>6. CASE UNCHANGED vars
    BY <2>6 DEF vars, itemVars, gcVars
  <2> QED
    BY <2>1, <2>2, <2>3, <2>4, <2>5, <2>6 DEF Next
<1> QED
  BY <1>1, <1>2, Typing, PTL DEF Spec

\* What makes RealTimeOrder inductive: no access lies in the future, no expiry
\* time is beyond what the clock allows now, and a Set in progress is dated
\* no earlier than the accesses that ended before it began.
Dated ==
  /\ \A k \in held : began[k] <= step /\ ended[k] <= step
  /\ \A p \in Procs : call[p] # None =>
       /\ call[p].began <= step
       /\ \A k \in held : ended[k] < call[p].began => expires[k] <= call[p].expires

\* Two accesses of the cache that do not overlap age their items in their order.
THEOREM AgesInOrder == Spec => []RealTimeOrder
<1>1. Init => Dated /\ RealTimeOrder
  BY DEF Init, Dated, RealTimeOrder
<1>2. TypeOK /\ Dated /\ RealTimeOrder /\ [Next]_vars => (Dated /\ RealTimeOrder)'
  <2> SUFFICES ASSUME TypeOK, Dated, RealTimeOrder, [Next]_vars
               PROVE  Dated' /\ RealTimeOrder'
    OBVIOUS
  <2> USE ConstantsAssumption DEF TypeOK, Dated, RealTimeOrder, itemVars, gcVars, history
  <2>1. CASE Tick
    BY <2>1 DEF Tick, Calls
  <2>2. ASSUME NEW p \in Procs, NEW k \in Keys, SetBegins(p, k)
        PROVE  Dated' /\ RealTimeOrder'
    <3> DEFINE c == [key |-> k, expires |-> now + ttl, began |-> step + 1]
    <3>1. /\ step' = step + 1 /\ call' = [call EXCEPT ![p] = c]
          /\ UNCHANGED <<held, expires, began, ended, now>>
      BY <2>2 DEF SetBegins, CallerStep
    <3>2. c.began = step + 1 /\ c.expires = now + ttl
      OBVIOUS
    <3> HIDE DEF c
    <3>3. call'[p] = c /\ \A q \in Procs : q # p => call'[q] = call[q]
      BY <3>1
    <3>4. \A q \in Procs : call[q] # None => call[q].began \in Nat
      BY DEF Calls
    <3> QED
      BY <3>1, <3>2, <3>3, <3>4
  <2>3. ASSUME NEW p \in Procs, SetStores(p) PROVE Dated' /\ RealTimeOrder'
    <3> DEFINE c == call[p]
    <3>1. /\ step' = step + 1 /\ call' = [call EXCEPT ![p] = None] /\ now' = now
          /\ c # None /\ held' = held \cup {c.key}
          /\ expires' = [expires EXCEPT ![c.key] = c.expires]
          /\ began' = [began EXCEPT ![c.key] = c.began]
          /\ ended' = [ended EXCEPT ![c.key] = step + 1]
      BY <2>3 DEF SetStores, CallerStep
    <3>2. /\ c.key \in Keys /\ c.expires \in Nat /\ c.began \in Nat
          /\ c.expires <= now + ttl /\ c.began <= step
          /\ \A k \in held : ended[k] < c.began => expires[k] <= c.expires
      BY <3>1 DEF Calls
    <3>3. \A q \in Procs : call'[q] # None =>
            q # p /\ call'[q] = call[q] /\ call[q].began \in Nat /\ call[q].expires \in Nat
      BY <3>1 DEF Calls
    <3>4. /\ expires'[c.key] = c.expires /\ began'[c.key] = c.began
          /\ ended'[c.key] = step + 1
          /\ \A k \in held' : k # c.key =>
               /\ k \in held /\ expires'[k] = expires[k]
               /\ began'[k] = began[k] /\ ended'[k] = ended[k]
      BY <3>1, <3>2
    <3> HIDE DEF c
    <3>5. Dated'
      BY <3>1, <3>2, <3>3, <3>4
    <3>6. RealTimeOrder'
      <4> SUFFICES ASSUME NEW k \in held', NEW l \in held', ended'[k] < began'[l]
                   PROVE  expires'[k] <= expires'[l]
        OBVIOUS
      <4>1. k # c.key
        BY <3>1, <3>2, <3>4
      <4>2. CASE l = c.key
        BY <3>2, <3>4, <4>1, <4>2
      <4>3. CASE l # c.key
        BY <3>4, <4>1, <4>3
      <4> QED
        BY <4>2, <4>3
    <3> QED
      BY <3>5, <3>6
  <2>4. ASSUME NEW p \in Procs, NEW k \in Keys, Get(p, k)
        PROVE  Dated' /\ RealTimeOrder'
    <3>1. /\ step' = step + 1 /\ UNCHANGED <<held, call, now>> /\ k \in held
          /\ expires' = [expires EXCEPT ![k] = now + ttl]
          /\ began' = [began EXCEPT ![k] = step + 1]
          /\ ended' = [ended EXCEPT ![k] = step + 1]
      BY <2>4 DEF Get, CallerStep
    <3>2. \A q \in Procs : call[q] # None => call[q].began \in Nat
      BY DEF Calls
    <3> QED
      BY <3>1, <3>2
  <2>5. ASSUME NEW i \in Intervals, SetGCInterval(i) PROVE Dated' /\ RealTimeOrder'
    BY <2>5 DEF SetGCInterval
  <2>6. CASE gc
    <3>1. /\ held' \subseteq held /\ \A k \in held' : expires'[k] = expires[k]
          /\ UNCHANGED <<call, now, step, began, ended>>
      BY <2>6 DEF gc, Remaining
    <3> QED
      BY <3>1
  <2>7. CASE UNCHANGED vars
    BY <2>7 DEF vars
  <2> QED
    BY <2>1, <2>2, <2>3, <2>4, <2>5, <2>6, <2>7 DEF Next
<1> QED
  BY <1>1, <1>2, Typing, PTL DEF Spec

-----------------------------------------------------------------------------
(* The assets *)

\* Hashes of variants, URLs, and what the server answers.
Hashes == Variants \X Versions

Urls == [dirs : Seq(STRING), bust : Hashes \cup {Nothing}, file : {File}]

Responses == [status : {200, 404, 500}, version : Nat, encoding : Variants,
              processing : {"none", "done", "garbled"}]

\* What is stored is one version of the file, in some variant.
Stored ==
  /\ used \in Seq(Versions) /\ used # <<>>
  /\ disk \in [Variants -> Nat]
  /\ stored # {}
  /\ \A v \in stored : disk[v] = Last(used)

\* The types of the other variables.
Holding ==
  /\ running \in BOOLEAN
  /\ busters \in Hashes \cup {Nothing}
  /\ running => busters # Nothing
  /\ page \in [Browsers -> Urls \cup {Nothing}]
  /\ cache \in [Browsers -> SUBSET [url : Urls, response : Responses]]
  /\ shown \in [Browsers -> Responses \cup {Nothing}]
  /\ since \in [Browsers -> SUBSET Versions]

\* A layout has a variant, and versions are not 0.
LEMMA LayoutsAreStored ==
  /\ \A s \in Layouts : s \subseteq Variants /\ s # {}
  /\ \A v \in Versions : v \in Nat /\ v # 0
<1>1. Layouts \subseteq (SUBSET Variants) \ {{}}
  BY Zenon, AssetsAssumption
<1>2. Versions \subseteq Nat \ {0}
  BY Zenon, AssetsAssumption
<1> QED
  BY <1>1, <1>2

\* The last of a list of versions is one of them.
LEMMA LastIsUsed ==
  ASSUME NEW s \in Seq(Versions), s # <<>>
  PROVE  Len(s) \in 1..Len(s) /\ Last(s) = s[Len(s)] /\ Last(s) \in Versions
BY DEF Last

\* A compressed variant is chosen where there is one.
LEMMA CompressedIsThere ==
  ASSUME NEW s \in SUBSET {"br", "gz"}, s # {}
  PROVE  compressed(s) \in s
BY DEF compressed

\* Nothing else is stored than variants of the file.
LEMMA StoredAreVariants == stored \subseteq Variants
BY DEF stored

\* The variant that is served is stored.
LEMMA ChosenIsStored ==
  ASSUME NEW a \in SUBSET {"br", "gz"}, stored # {}
  PROVE  chosen(a).variant \in stored
<1>1. CASE stored \cap a # {}
  BY <1>1, CompressedIsThere DEF chosen
<1>2. CASE stored \cap a = {} /\ "plain" \in stored
  BY <1>2 DEF chosen
<1>3. CASE stored \cap a = {} /\ "plain" \notin stored
  <2>1. stored \in SUBSET {"br", "gz"}
    BY <1>3, StoredAreVariants DEF Variants
  <2>2. chosen(a).variant = compressed(stored)
    BY <1>3 DEF chosen
  <2> QED
    BY <2>1, <2>2, CompressedIsThere
<1> QED
  BY <1>1, <1>2, <1>3

\* The variant that gives the hash is stored.
LEMMA HashedIsStored ==
  ASSUME stored # {}
  PROVE  hashed \in stored
<1>1. CASE "plain" \in stored
  BY <1>1 DEF hashed
<1>2. CASE "plain" \notin stored
  <2>1. stored \in SUBSET {"br", "gz"}
    BY <1>2, StoredAreVariants DEF Variants
  <2> QED
    BY <1>2, <2>1, CompressedIsThere DEF hashed
<1> QED
  BY <1>1, <1>2

\* What keeps serveFile from the file: it cannot be opened, or what has to be
\* decompressed is damaged.
Hidden(a) == troubled \/ (~chosen(a).raw /\ chosen(a).variant \in damaged)

\* serveFile finds the file unless it is hidden, answers with the version that is
\* stored, and with an encoding that the browser accepts.
LEMMA FileIsServed ==
  ASSUME Stored, NEW a \in SUBSET {"br", "gz"}
  PROVE  /\ serveFile(a) \in Responses
         /\ serveFile(a).status = 200 \/ Hidden(a)
         /\ serveFile(a).status = 200 => serveFile(a).version = Last(used)
         /\ serveFile(a).encoding \in a \cup {"plain"}
<1>1. chosen(a).variant \in stored /\ chosen(a).variant \in Variants
  BY ChosenIsStored, StoredAreVariants DEF Stored
<1>2. disk[chosen(a).variant] = Last(used) /\ disk[chosen(a).variant] \in Nat
  BY <1>1 DEF Stored
<1>3. chosen(a).raw => chosen(a).variant \in a \cup {"plain"}
  BY DEF chosen
<1>4. "plain" \in Variants
  BY DEF Variants
<1> HIDE DEF chosen
<1>5. CASE Hidden(a)
  <2>1. serveFile(a) = unserved(chosen(a).variant)
    BY <1>1, <1>5 DEF serveFile, Hidden
  <2> QED
    BY <1>4, <1>5, <2>1 DEF unserved, Response, Failure, Responses
<1>6. CASE ~Hidden(a)
  BY <1>1, <1>2, <1>3, <1>4, <1>6 DEF serveFile, Hidden, Response, Responses
<1> QED
  BY <1>5, <1>6

\* Whatever URL a browser asks for, it gets the stored version or an error.
LEMMA Served ==
  ASSUME Stored, NEW a \in SUBSET {"br", "gz"}, NEW url \in Urls
  PROVE  /\ serve(url, a) \in Responses
         /\ serve(url, a).status = 200 => serve(url, a).version = Last(used)
         /\ serve(url, a).encoding \in a \cup {"plain"}
<1>1. \A code \in {404, 500} :
        /\ Failure(code) \in Responses /\ Failure(code).status = code
        /\ Failure(code).encoding = "plain"
  BY DEF Failure, Response, Responses, Variants
<1>2. \/ serve(url, a) = serveFile(a)
      \/ serve(url, a) = Failure(404)
      \/ serve(url, a) = Failure(500)
  BY DEF serve
<1> QED
  BY <1>1, <1>2, FileIsServed

\* The URL that GetAssetUrl makes has the hash of the file, unless a proxy path
\* hides the file from the cache buster.
LEMMA AssetUrl ==
  ASSUME Holding
  PROVE  /\ GetAssetUrl(Location) \in Urls
         /\ ProxyPath = <<>> => GetAssetUrl(Location) = Url(Prefix \o Below, busters, File)
<1>1. /\ Prefix \o Below \in Seq(STRING)
      /\ ProxyPath \o (Prefix \o Below) \in Seq(STRING)
      /\ ProxyPath = <<>> => ProxyPath \o (Prefix \o Below) = Prefix \o Below
  <2>1. ProxyPath \in Seq(STRING) /\ Prefix \in Seq(STRING) /\ Below \in Seq(STRING)
    BY AssetsAssumption
  <2>2. Prefix \o Below \in Seq(STRING)
    BY <2>1
  <2>3. ProxyPath \o (Prefix \o Below) \in Seq(STRING)
    BY <2>1, <2>2
  <2>4. <<>> \o (Prefix \o Below) = Prefix \o Below
    BY <2>2, ConcatEmptySeq
  <2> QED
    BY <2>2, <2>3, <2>4
<1>2. Location = Url(Prefix \o Below, Nothing, File)
  BY DEF Location
<1>3. PICK h \in {busters, Nothing} :
        /\ CacheBustedPath(Location) = Url(Prefix \o Below, h, File)
        /\ ProxyPath = <<>> => h = busters
  <2>1. CacheBustedPath(Location) = IF Prefix \o Below = stripped \o Below
                                      THEN Url(Prefix \o Below, busters, File) ELSE Location
    <3>1. Location.dirs = Prefix \o Below /\ Location.file = File
      BY <1>2 DEF Url
    <3> DEFINE dirs == Prefix \o Below
    <3>2. [Url(dirs, Nothing, File) EXCEPT !.bust = busters] = Url(dirs, busters, File)
      <4> HIDE DEF dirs
      <4> QED
        BY DEF Url
    <3> QED
      BY <1>2, <3>1, <3>2 DEF CacheBustedPath
  <2>2. ProxyPath = <<>> => stripped = Prefix
    BY AssetsAssumption DEF stripped, joinProxyPath
  <2> QED
    BY <1>2, <2>1, <2>2
<1>4. GetAssetUrl(Location) = Url(ProxyPath \o (Prefix \o Below), h, File)
  <2> DEFINE u == CacheBustedPath(Location)
  <2>1. GetAssetUrl(Location) = [u EXCEPT !.dirs = ProxyPath \o u.dirs]
    BY DEF GetAssetUrl, joinProxyPath
  <2>2. u = Url(Prefix \o Below, h, File)
    BY <1>3
  <2> HIDE DEF u
  <2> QED
    BY <2>1, <2>2 DEF Url
<1> QED
  <2>1. h \in Hashes \cup {Nothing} /\ File \in {File}
    <3>1. busters \in Hashes \cup {Nothing}
      BY DEF Holding
    <3> QED
      BY <3>1
  <2>2. GetAssetUrl(Location) \in Urls
    BY <1>1, <1>4, <2>1 DEF Urls, Url
  <2> QED
    BY <1>1, <1>3, <1>4, <2>2

\* The file stays stored, in one version.
LEMMA StaysStored == AssetsSpec => []Stored
<1>1. AssetsInit => Stored
  <2> SUFFICES ASSUME AssetsInit PROVE Stored
    OBVIOUS
  <2>1. PICK s \in Layouts : disk = [v \in Variants |-> IF v \in s THEN 1 ELSE 0]
    BY DEF AssetsInit
  <2>2. stored = s /\ s # {}
    BY <2>1, LayoutsAreStored DEF stored
  <2>3. used = <<1>> /\ 1 \in Versions
    BY AssetsAssumption DEF AssetsInit
  <2>4. used \in Seq(Versions) /\ used # <<>> /\ Last(used) = 1
    BY <2>3 DEF Last
  <2>5. disk \in [Variants -> Nat] /\ \A v \in s : disk[v] = 1
    BY <2>1, LayoutsAreStored
  <2> QED
    BY <2>2, <2>4, <2>5 DEF Stored
<1>2. Stored /\ [AssetsNext]_assetsVars => Stored'
  <2> SUFFICES ASSUME Stored, [AssetsNext]_assetsVars PROVE Stored'
    OBVIOUS
  <2>1. ASSUME NEW v \in Versions, NEW s \in Layouts, Deploy(v, s) PROVE Stored'
    <3>1. /\ used' = Append(used, v) /\ used \in Seq(Versions)
          /\ disk' = [x \in Variants |-> IF x \in s THEN v ELSE 0]
      BY <2>1 DEF Deploy, Stored
    <3>2. v \in Nat /\ v # 0 /\ s # {} /\ s \subseteq Variants
      BY LayoutsAreStored
    <3>3. stored' = s
      BY <3>1, <3>2 DEF stored
    <3>4. used' \in Seq(Versions) /\ used' # <<>> /\ Last(used') = v
      BY <3>1 DEF Last
    <3>5. disk' \in [Variants -> Nat] /\ \A x \in s : disk'[x] = v
      BY <3>1, <3>2
    <3> QED
      BY <3>2, <3>3, <3>4, <3>5 DEF Stored
  <2>2. CASE UNCHANGED <<disk, used>>
    BY <2>2 DEF Stored, stored
  <2> QED
    BY <2>1, <2>2 DEF AssetsNext, assetsVars, Start, Stop, LoadPage, FromCache, FromServer,
                      AskForMissing, Trouble, diskVars
<1> QED
  BY <1>1, <1>2, PTL DEF AssetsSpec

\* What a browser gets from the server.
LEMMA FromServerGets ==
  ASSUME Stored, Holding, NEW b \in Browsers, FromServer(b)
  PROVE  \E r \in Responses :
           /\ r = serve(page[b], Accept[b]) /\ page[b] \in Urls
           /\ r.status = 200 => r.version = Last(used)
           /\ r.encoding \in Accept[b] \cup {"plain"}
           /\ shown' = [shown EXCEPT ![b] = r]
           /\ \/ UNCHANGED cache
              \/ /\ r.status = 200
                 /\ cache' = [cache EXCEPT ![b] = @ \cup {[url |-> page[b], response |-> r]}]
<1> DEFINE r == serve(page[b], Accept[b])
<1>1. page[b] \in Urls /\ Accept[b] \in SUBSET {"br", "gz"}
  BY AssetsAssumption DEF FromServer, Holding
<1>2. /\ r \in Responses
      /\ r.status = 200 => r.version = Last(used)
      /\ r.encoding \in Accept[b] \cup {"plain"}
  BY <1>1, Served
<1>3. /\ shown' = [shown EXCEPT ![b] = r]
      /\ cache' = IF r.status = 200
                    THEN [cache EXCEPT ![b] = @ \cup {[url |-> page[b], response |-> r]}]
                    ELSE cache
  BY DEF FromServer
<1> HIDE DEF r
<1>4. \/ UNCHANGED cache
      \/ /\ r.status = 200
         /\ cache' = [cache EXCEPT ![b] = @ \cup {[url |-> page[b], response |-> r]}]
  BY <1>3
<1>5. r = serve(page[b], Accept[b])
  BY DEF r
<1> QED
  BY <1>1, <1>2, <1>3, <1>4, <1>5

\* The other variables keep their types.
LEMMA StaysHolding == AssetsSpec => []Holding
<1>1. AssetsInit => Holding
  <2> SUFFICES ASSUME AssetsInit PROVE Holding
    OBVIOUS
  <2>1. running = FALSE /\ running \in BOOLEAN
    BY Zenon DEF AssetsInit
  <2> QED
    BY <2>1 DEF AssetsInit, Holding
<1>2. Stored /\ Holding /\ [AssetsNext]_assetsVars => Holding'
  <2> SUFFICES ASSUME Stored, Holding, [AssetsNext]_assetsVars PROVE Holding'
    OBVIOUS
  <2>1. CASE Start
    <3>1. running' = TRUE /\ running' \in BOOLEAN
      BY <2>1, Zenon DEF Start
    <3>2. busters' = <<hashed, disk[hashed]>>
      BY <2>1 DEF Start
    <3>3. hashed \in Variants /\ disk[hashed] \in Versions
      BY HashedIsStored, StoredAreVariants, LastIsUsed DEF Stored
    <3>4. busters' \in Hashes /\ busters' # Nothing
      BY <3>2, <3>3, AssetsAssumption DEF Hashes
    <3> QED
      BY <2>1, <3>1, <3>4 DEF Start, Holding
  <2>2. CASE Stop
    <3>1. running' = FALSE /\ running' \in BOOLEAN
      BY <2>2, Zenon DEF Stop
    <3> QED
      BY <2>2, <3>1 DEF Stop, Holding
  <2>3. ASSUME NEW v \in Versions, NEW s \in Layouts, Deploy(v, s) PROVE Holding'
    BY <2>3 DEF Deploy, Holding
  <2>4. ASSUME NEW b \in Browsers, LoadPage(b) PROVE Holding'
    <3>1. Last(used) \in Versions
      BY LastIsUsed DEF Stored
    <3>2. GetAssetUrl(Location) \in Urls
      BY AssetUrl
    <3> QED
      BY <2>4, <3>1, <3>2 DEF LoadPage, Holding
  <2>5. ASSUME NEW b \in Browsers, FromCache(b) PROVE Holding'
    <3>1. PICK e \in Cached(b) : shown' = [shown EXCEPT ![b] = e.response]
      BY <2>5 DEF FromCache
    <3>2. e.response \in Responses
      BY <3>1 DEF Cached, Holding
    <3>3. shown' \in [Browsers -> Responses \cup {Nothing}]
      BY <3>1, <3>2 DEF Holding
    <3> QED
      BY <2>5, <3>3 DEF FromCache, Holding
  <2>6. ASSUME NEW b \in Browsers, FromServer(b) PROVE Holding'
    <3>1. PICK r \in Responses :
            /\ page[b] \in Urls
            /\ shown' = [shown EXCEPT ![b] = r]
            /\ \/ UNCHANGED cache
               \/ cache' = [cache EXCEPT ![b] = @ \cup {[url |-> page[b], response |-> r]}]
      BY <2>6, FromServerGets
    <3>2. [url |-> page[b], response |-> r] \in [url : Urls, response : Responses]
      BY <3>1
    <3>3. cache' \in [Browsers -> SUBSET [url : Urls, response : Responses]]
      <4> DEFINE new == [url |-> page[b], response |-> r]
                 Entries == [url : Urls, response : Responses]
      <4>1. cache \in [Browsers -> SUBSET Entries] /\ new \in Entries
        BY <3>2 DEF Holding
      <4>2. UNCHANGED cache \/ cache' = [cache EXCEPT ![b] = cache[b] \cup {new}]
        BY <3>1
      <4> HIDE DEF new, Entries
      <4>3. cache' \in [Browsers -> SUBSET Entries]
        BY <4>1, <4>2
      <4> QED
        BY <4>3 DEF Entries
    <3>4. shown' \in [Browsers -> Responses \cup {Nothing}]
      BY <3>1 DEF Holding
    <3> QED
      BY <2>6, <3>3, <3>4 DEF FromServer, Holding
  <2>7. ASSUME NEW b \in Browsers, AskForMissing(b) PROVE Holding'
    BY <2>7 DEF AskForMissing, Holding
  <2>8. CASE Trouble
    BY <2>8 DEF Trouble, Holding
  <2>9. CASE UNCHANGED assetsVars
    BY <2>9 DEF assetsVars, Holding
  <2> QED
    BY <2>1, <2>2, <2>3, <2>4, <2>5, <2>6, <2>7, <2>8, <2>9 DEF AssetsNext
<1> QED
  BY <1>1, <1>2, StaysStored, PTL DEF AssetsSpec

\* A browser keeps at most the response it got.
LEMMA KeepsOneMore ==
  ASSUME Holding, NEW b \in Browsers, NEW new,
         UNCHANGED cache \/ cache' = [cache EXCEPT ![b] = @ \cup {new}]
  PROVE  \A d \in Browsers : \A e \in cache'[d] : e \in cache[d] \/ (d = b /\ e = new)
<1> SUFFICES ASSUME NEW d \in Browsers, NEW e \in cache'[d]
             PROVE  e \in cache[d] \/ (d = b /\ e = new)
  OBVIOUS
<1>1. DOMAIN cache = Browsers
  BY DEF Holding
<1>2. CASE UNCHANGED cache
  BY <1>2
<1>3. CASE cache' = [cache EXCEPT ![b] = @ \cup {new}]
  <2>1. cache'[d] = IF d = b THEN cache[b] \cup {new} ELSE cache[d]
    BY <1>1, <1>3
  <2> QED
    BY <2>1
<1> QED
  BY <1>2, <1>3

\* What browsers keep is readable too.
KeepsReadable ==
  /\ Readable
  /\ \A b \in Browsers : \A e \in cache[b] : e.response.encoding \in Accept[b] \cup {"plain"}

\* Whatever is stored, deployed and kept: a browser never gets an encoding that it
\* does not accept.
THEOREM AssetsAreReadable == AssetsSpec => []Readable
<1>1. AssetsInit => KeepsReadable
  BY DEF AssetsInit, KeepsReadable, Readable
<1>2. Stored /\ Holding /\ KeepsReadable /\ [AssetsNext]_assetsVars => KeepsReadable'
  <2> SUFFICES ASSUME Stored, Holding, KeepsReadable, [AssetsNext]_assetsVars
               PROVE  KeepsReadable'
    OBVIOUS
  <2>1. ASSUME NEW b \in Browsers, LoadPage(b) PROVE KeepsReadable'
    BY <2>1 DEF LoadPage, Holding, KeepsReadable, Readable
  <2>2. ASSUME NEW b \in Browsers, FromCache(b) PROVE KeepsReadable'
    <3>1. PICK e \in cache[b] : shown' = [shown EXCEPT ![b] = e.response]
      BY <2>2 DEF FromCache, Cached
    <3>2. e.response.encoding \in Accept[b] \cup {"plain"}
      BY DEF KeepsReadable
    <3> QED
      BY <2>2, <3>1, <3>2 DEF FromCache, Holding, KeepsReadable, Readable
  <2>3. ASSUME NEW b \in Browsers, FromServer(b) PROVE KeepsReadable'
    <3>1. PICK r \in Responses :
            /\ r.encoding \in Accept[b] \cup {"plain"}
            /\ shown' = [shown EXCEPT ![b] = r]
            /\ \/ UNCHANGED cache
               \/ cache' = [cache EXCEPT ![b] = @ \cup {[url |-> page[b], response |-> r]}]
      BY <2>3, FromServerGets
    <3>2. Readable'
      BY <3>1 DEF Holding, KeepsReadable, Readable
    <3>3. \A d \in Browsers : \A e \in cache'[d] :
            e \in cache[d] \/ (d = b /\ e = [url |-> page[b], response |-> r])
      BY <3>1, KeepsOneMore
    <3> QED
      BY <3>1, <3>2, <3>3 DEF KeepsReadable
  <2>4. CASE UNCHANGED <<shown, cache>>
    BY <2>4 DEF KeepsReadable, Readable
  <2> QED
    BY <2>1, <2>2, <2>3, <2>4 DEF AssetsNext, assetsVars, Start, Stop, Trouble, Deploy,
                                    AskForMissing
<1>3. KeepsReadable => Readable
  BY DEF KeepsReadable
<1> QED
  BY <1>1, <1>2, <1>3, StaysStored, StaysHolding, PTL DEF AssetsSpec

\* A hash is something.
LEMMA HashesAreThere == \A h \in Hashes : h # Nothing
<1> SUFFICES ASSUME NEW h \in Hashes PROVE h # Nothing
  OBVIOUS
<1>1. h = <<h[1], h[2]>> /\ h[1] \in Variants /\ h[2] \in Versions
  BY DEF Hashes
<1>2. \A v \in Variants, n \in Versions : <<v, n>> # Nothing
  BY AssetsAssumption
<1> QED
  BY <1>1, <1>2

\* Pages of an application without a proxy path ask for the file under its hash.
Busted ==
  \A b \in Browsers : page[b] # Nothing =>
    \E h \in Hashes : page[b] = Url(Prefix \o Below, h, File)

\* They go on doing so after restarts: a page keeps its URL.
LEMMA StaysBusted ==
  ASSUME ProxyPath = <<>>
  PROVE  AssetsSpec => []Busted
<1>1. AssetsInit => Busted
  BY DEF AssetsInit, Busted
<1>2. Holding /\ Busted /\ [AssetsNext]_assetsVars => Busted'
  <2> SUFFICES ASSUME Holding, Busted, [AssetsNext]_assetsVars PROVE Busted'
    OBVIOUS
  <2>1. ASSUME NEW b \in Browsers, LoadPage(b) PROVE Busted'
    <3>1. page' = [page EXCEPT ![b] = Url(Prefix \o Below, busters, File)]
      BY <2>1, AssetUrl DEF LoadPage
    <3>2. busters \in Hashes
      BY <2>1 DEF LoadPage, Holding
    <3> QED
      BY <3>1, <3>2 DEF Holding, Busted
  <2>2. CASE UNCHANGED page
    BY <2>2 DEF Busted
  <2> QED
    BY <2>1, <2>2 DEF AssetsNext, assetsVars, Start, Stop, Trouble, Deploy, FromCache,
                      FromServer, AskForMissing
<1> QED
  BY <1>1, <1>2, StaysHolding, PTL DEF AssetsSpec

\* "This will add the cache-buster path", if the application has no proxy path.
THEOREM UrlsHaveHashes ==
  ASSUME ProxyPath = <<>>
  PROVE  AssetsSpec => []UrlsAreBusted
<1>1. Busted => UrlsAreBusted
  <2> SUFFICES ASSUME Busted, NEW b \in Browsers, page[b] # Nothing
               PROVE  page[b].bust # Nothing /\ IsPrefix(ProxyPath, page[b].dirs)
    BY DEF UrlsAreBusted
  <2>1. PICK h \in Hashes : page[b] = Url(Prefix \o Below, h, File)
    BY DEF Busted
  <2>2. h # Nothing
    BY HashesAreThere
  <2>3. IsPrefix(<<>>, Prefix \o Below)
    <3>1. Prefix \o Below \in Seq(STRING)
      BY AssetsAssumption
    <3>2. SubSeq(Prefix \o Below, 1, 0) = <<>>
      BY <3>1
    <3> QED
      BY <3>1, <3>2 DEF IsPrefix
  <2> QED
    BY <2>1, <2>2, <2>3 DEF Url
<1> QED
  BY <1>1, StaysBusted, PTL

\* What browsers keep was found.
KeepsFound == \A b \in Browsers : \A e \in cache[b] : e.response.status = 200

\* Behind no proxy path, below a prefix that ends in a slash, the server finds the
\* file for every hash.
LEMMA AnyHashIsServed ==
  ASSUME ProxyPath = <<>>, Subtree, NEW h \in Hashes, NEW a
  PROVE  serve(Url(Prefix \o Below, h, File), a) = serveFile(a)
<1> DEFINE url == Url(Prefix \o Below, h, File)
<1>1. Prefix \in Seq(STRING) /\ Below \in Seq(STRING)
  BY AssetsAssumption
<1>2. stripped = Prefix /\ pattern = Prefix
  BY <1>1 DEF stripped, pattern, joinProxyPath
<1>3. /\ url.dirs = Prefix \o Below /\ url.bust = h /\ url.file = File
  BY DEF Url
<1>4. IsPrefix(Prefix, Prefix \o Below)
  <2>1. /\ Len(Prefix) <= Len(Prefix \o Below)
        /\ SubSeq(Prefix, 1, Len(Prefix)) = Prefix
        /\ SubSeq(Prefix \o Below, 1, Len(Prefix)) = Prefix
    BY <1>1
  <2> QED
    BY <2>1 DEF IsPrefix
<1>5. SubSeq(Prefix \o Below, Len(Prefix) + 1, Len(Prefix \o Below)) = Below
  BY <1>1
<1>6. h # Nothing
  BY HashesAreThere
<1>7. below(url).dirs = Below
  BY <1>2, <1>3, <1>5 DEF below, Url
<1> HIDE DEF url
<1> QED
  BY <1>2, <1>3, <1>4, <1>6, <1>7 DEF serve, routed, url

\* A browser keeps nothing but files that were found.
LEMMA StaysFound == AssetsSpec => []KeepsFound
<1>1. AssetsInit => KeepsFound
  BY DEF AssetsInit, KeepsFound
<1>2. Stored /\ Holding /\ KeepsFound /\ [AssetsNext]_assetsVars => KeepsFound'
  <2> SUFFICES ASSUME Stored, Holding, KeepsFound, [AssetsNext]_assetsVars
               PROVE  KeepsFound'
    OBVIOUS
  <2>1. ASSUME NEW b \in Browsers, FromServer(b) PROVE KeepsFound'
    <3>1. PICK r \in Responses :
            \/ UNCHANGED cache
            \/ /\ r.status = 200
               /\ cache' = [cache EXCEPT ![b] = @ \cup {[url |-> page[b], response |-> r]}]
      BY <2>1, FromServerGets
    <3>2. CASE UNCHANGED cache
      BY <3>2 DEF KeepsFound
    <3>3. CASE /\ r.status = 200
               /\ cache' = [cache EXCEPT ![b] = @ \cup {[url |-> page[b], response |-> r]}]
      <4>1. \A d \in Browsers : \A e \in cache'[d] :
              e \in cache[d] \/ (d = b /\ e = [url |-> page[b], response |-> r])
        BY <3>3, KeepsOneMore
      <4> QED
        BY <3>3, <4>1 DEF KeepsFound
    <3> QED
      BY <3>1, <3>2, <3>3
  <2>2. CASE UNCHANGED cache
    BY <2>2 DEF KeepsFound
  <2> QED
    BY <2>1, <2>2 DEF AssetsNext, assetsVars, Start, Stop, Trouble, Deploy, LoadPage, FromCache,
                      AskForMissing
<1> QED
  BY <1>1, <1>2, StaysStored, StaysHolding, PTL DEF AssetsSpec

\* A damaged variant hides the file from a browser that can be sent nothing else.
LEMMA DamageHides ==
  ASSUME Stored, NEW b \in Browsers, Hidden(Accept[b])
  PROVE  troubled \/ Spoilt(b)
<1>1. CASE troubled
  BY <1>1
<1>2. CASE ~troubled
  <2>1. ~chosen(Accept[b]).raw /\ chosen(Accept[b]).variant \in damaged
    BY <1>2 DEF Hidden
  <2>2. Accept[b] \in SUBSET {"br", "gz"}
    BY AssetsAssumption
  <2>3. stored \cap Accept[b] = {}
    <3>1. stored \cap Accept[b] # {} => chosen(Accept[b]).variant \in Accept[b]
      BY <2>2, CompressedIsThere DEF chosen
    <3>2. chosen(Accept[b]).variant \notin Accept[b]
      BY <2>1 DEF chosen
    <3> QED
      BY <3>1, <3>2
  <2>4. "plain" \notin stored
    BY <2>1, <2>3 DEF chosen
  <2>5. chosen(Accept[b]).variant = compressed(stored)
    BY <2>3, <2>4 DEF chosen, Stored
  <2> QED
    BY <2>1, <2>3, <2>4, <2>5 DEF Spoilt
<1> QED
  BY <1>1, <1>2

\* A page finds the file, whatever was deployed and restarted since it was made, when
\* the application has no proxy path and the directory's prefix ends in a slash, and
\* unless files cannot be opened or the variant that has to be decompressed is damaged.
THEOREM AssetIsFound ==
  ASSUME ProxyPath = <<>>, Subtree
  PROVE  AssetsSpec => AssetFound
<1>1. Stored /\ Holding /\ Busted /\ KeepsFound /\ [AssetsNext]_assetsVars
        => [\A b \in Browsers :
              Answered(b) => shown'[b].status = 200 \/ troubled \/ Spoilt(b)]_assetsVars
  <2> SUFFICES ASSUME Stored, Holding, Busted, KeepsFound, [AssetsNext]_assetsVars,
                      NEW d \in Browsers, Answered(d)
               PROVE  shown'[d].status = 200 \/ troubled \/ Spoilt(d)
    OBVIOUS
  <2>1. ASSUME NEW b \in Browsers, LoadPage(b) PROVE FALSE
    <3>1. shown' = [shown EXCEPT ![b] = Nothing] /\ shown[d] = Nothing /\ shown'[d] # Nothing
      BY <2>1 DEF LoadPage, Answered
    <3> QED
      BY <3>1 DEF Holding
  <2>2. ASSUME NEW b \in Browsers, FromCache(b) PROVE shown'[d].status = 200
    <3>1. PICK e \in cache[b] : shown' = [shown EXCEPT ![b] = e.response]
      BY <2>2 DEF FromCache, Cached
    <3>2. d = b
      BY <3>1 DEF Holding, Answered
    <3> QED
      BY <3>1, <3>2 DEF Holding, KeepsFound
  <2>3. ASSUME NEW b \in Browsers, FromServer(b)
        PROVE  shown'[d].status = 200 \/ troubled \/ Spoilt(d)
    <3>1. shown' = [shown EXCEPT ![b] = serve(page[b], Accept[b])]
      BY <2>3, FromServerGets
    <3>2. d = b /\ shown'[d] = serve(page[b], Accept[b])
      BY <3>1 DEF Holding, Answered
    <3>3. PICK h \in Hashes : page[b] = Url(Prefix \o Below, h, File)
      BY <2>3 DEF FromServer, Busted
    <3>4. serve(page[b], Accept[b]) = serveFile(Accept[b])
      BY <3>3, AnyHashIsServed
    <3>5. serveFile(Accept[b]).status = 200 \/ Hidden(Accept[b])
      <4>1. Accept[b] \in SUBSET {"br", "gz"}
        BY AssetsAssumption
      <4> QED
        BY <4>1, FileIsServed
    <3> QED
      BY <3>2, <3>4, <3>5, DamageHides
  <2>4. CASE UNCHANGED shown
    BY <2>4 DEF Answered
  <2> QED
    BY <2>1, <2>2, <2>3, <2>4 DEF AssetsNext, assetsVars, Start, Stop, Trouble, Deploy,
                                    AskForMissing
<1> QED
  BY <1>1, StaysStored, StaysHolding, StaysBusted, StaysFound, PTL DEF AssetsSpec, AssetFound

\* Version m was stored when version n was, or before it.
NotAfter(m, n) == \E i, j \in 1..Len(used) : i <= j /\ used[i] = m /\ used[j] = n

\* Versions are not used again, a running server knows the hash of what is stored,
\* and what a browser keeps under a hash is not older than the hash; so what it may
\* show for the URL of its page was stored since the page was made.
KeepsCurrent ==
  /\ ShowsCurrent
  /\ \A i, j \in 1..Len(used) : used[i] = used[j] => i = j
  /\ running => busters[2] = Last(used)
  /\ \A b \in Browsers : \A e \in cache[b] :
       /\ e.response.status = 200
       /\ NotAfter(e.url.bust[2], e.response.version)
  /\ \A b \in Browsers : page[b] # Nothing =>
       /\ NotAfter(page[b].bust[2], Last(used))
       /\ Last(used) \in since[b]
       /\ \A e \in Cached(b) : e.response.version \in since[b]

\* What is stored is not older than itself, and it is the last of the versions.
LEMMA NothingAfterLast ==
  ASSUME Stored, KeepsCurrent
  PROVE  /\ NotAfter(Last(used), Last(used))
         /\ \A n : NotAfter(Last(used), n) => n = Last(used)
<1>1. /\ Len(used) \in 1..Len(used) /\ Len(used) \in Nat
      /\ Last(used) = used[Len(used)]
  BY LastIsUsed DEF Stored
<1>2. NotAfter(Last(used), Last(used))
  BY <1>1 DEF NotAfter
<1>3. ASSUME NEW n, NotAfter(Last(used), n) PROVE n = Last(used)
  <2>1. PICK i, j \in 1..Len(used) : i <= j /\ used[i] = Last(used) /\ used[j] = n
    BY <1>3 DEF NotAfter
  <2>2. i = Len(used)
    BY <1>1, <2>1 DEF KeepsCurrent
  <2>3. j = Len(used)
    BY <1>1, <2>1, <2>2
  <2> QED
    BY <1>1, <2>1, <2>3
<1> QED
  BY <1>2, <1>3

\* "when you edit the file a new URL will be generated": what a page shows was stored
\* at some time since it was made, when the application has no proxy path, files
\* change only while the server is down, and no content comes back.
THEOREM PagesAreCurrent ==
  ASSUME ProxyPath = <<>>, EditsLive = FALSE, ComesBack = FALSE
  PROVE  AssetsSpec => []ShowsCurrent
<1>1. AssetsInit => KeepsCurrent
  BY DEF AssetsInit, KeepsCurrent, ShowsCurrent
<1>2. Stored /\ Holding /\ KeepsCurrent /\ [AssetsNext]_assetsVars => KeepsCurrent'
  <2> SUFFICES ASSUME Stored, Holding, KeepsCurrent, [AssetsNext]_assetsVars
               PROVE  KeepsCurrent'
    OBVIOUS
  <2>1. CASE Start
    <3>1. hashed \in stored
      BY HashedIsStored DEF Stored
    <3>2. busters' = <<hashed, Last(used)>>
      BY <2>1, <3>1 DEF Start, Stored
    <3>3. UNCHANGED <<page, cache, shown, used, since>>
      BY <2>1 DEF Start
    <3> QED
      BY <3>2, <3>3 DEF KeepsCurrent, ShowsCurrent, NotAfter, Cached
  <2>2. CASE Stop
    BY <2>2 DEF Stop, KeepsCurrent, ShowsCurrent, NotAfter, Cached
  <2>3. ASSUME NEW v \in Versions, NEW s \in Layouts, Deploy(v, s) PROVE KeepsCurrent'
    <3>1. /\ running = FALSE /\ UNCHANGED <<running, page, cache, shown>>
          /\ used' = Append(used, v)
          /\ v \notin ToSet(used)
          /\ since' = [b \in Browsers |-> since[b] \cup {v}]
      BY <2>3 DEF Deploy, Holding
    <3>2. /\ used \in Seq(Versions) /\ Len(used) \in Nat /\ Len(used) \in 1..Len(used)
          /\ Last(used) = used[Len(used)]
      BY LastIsUsed DEF Stored
    <3>3. /\ Len(used') = Len(used) + 1 /\ used'[Len(used) + 1] = v
          /\ \A i \in 1..Len(used) : used'[i] = used[i] /\ used[i] # v
      BY <3>1, <3>2 DEF ToSet
    <3>4. Last(used') = v
      BY <3>1, <3>2 DEF Last
    <3>5. \A i, j \in 1..Len(used') : used'[i] = used'[j] => i = j
      BY <3>2, <3>3 DEF KeepsCurrent
    <3>6. \A m, n : NotAfter(m, n) => NotAfter(m, n)' /\ NotAfter(m, v)'
      BY <3>2, <3>3 DEF NotAfter
    <3>7. \A b \in Browsers : since[b] \subseteq since'[b] /\ v \in since'[b]
      BY <3>1
    <3>8. ShowsCurrent'
      BY <3>1, <3>7 DEF KeepsCurrent, ShowsCurrent
    <3> QED
      BY <3>1, <3>4, <3>5, <3>6, <3>7, <3>8 DEF KeepsCurrent, Cached
  <2>4. ASSUME NEW b \in Browsers, LoadPage(b) PROVE KeepsCurrent'
    <3>1. /\ page' = [page EXCEPT ![b] = Url(Prefix \o Below, busters, File)]
          /\ shown' = [shown EXCEPT ![b] = Nothing]
          /\ since' = [since EXCEPT ![b] = {Last(used)}]
          /\ UNCHANGED <<running, busters, cache, used>>
      BY <2>4, AssetUrl DEF LoadPage
    <3>2. busters[2] = Last(used)
      BY <2>4 DEF LoadPage, KeepsCurrent
    <3>3. page'[b].bust[2] = Last(used) /\ since'[b] = {Last(used)}
      BY <3>1, <3>2 DEF Holding, Url
    <3>4. \A e \in Cached(b)' : e.response.version = Last(used)
      BY <3>1, <3>3, NothingAfterLast DEF Cached, KeepsCurrent
    <3>5. \A d \in Browsers \ {b} :
            page'[d] = page[d] /\ since'[d] = since[d] /\ Cached(d)' = Cached(d)
      BY <3>1 DEF Holding, Cached
    <3>6. ShowsCurrent'
      BY <3>1 DEF Holding, KeepsCurrent, ShowsCurrent
    <3>7. \A d \in Browsers : page'[d] # Nothing =>
            /\ NotAfter(page'[d].bust[2], Last(used))
            /\ Last(used) \in since'[d]
            /\ \A e \in Cached(d)' : e.response.version \in since'[d]
      <4> TAKE d \in Browsers
      <4>1. CASE d = b
        BY <3>3, <3>4, <4>1, NothingAfterLast
      <4>2. CASE d # b
        BY <3>5, <4>2 DEF KeepsCurrent
      <4> QED
        BY <4>1, <4>2
    <3> QED
      BY <3>1, <3>6, <3>7 DEF KeepsCurrent, NotAfter
  <2>5. ASSUME NEW b \in Browsers, FromCache(b) PROVE KeepsCurrent'
    <3>1. PICK e \in Cached(b) : shown' = [shown EXCEPT ![b] = e.response]
      BY <2>5 DEF FromCache
    <3>2. e.response.version \in since[b]
      BY <2>5 DEF FromCache, KeepsCurrent
    <3>3. UNCHANGED <<running, busters, page, cache, used, since>>
      BY <2>5 DEF FromCache
    <3>4. ShowsCurrent'
      BY <3>1, <3>2, <3>3 DEF Holding, KeepsCurrent, ShowsCurrent
    <3> QED
      BY <3>3, <3>4 DEF KeepsCurrent, NotAfter, Cached
  <2>6. ASSUME NEW b \in Browsers, FromServer(b) PROVE KeepsCurrent'
    <3> DEFINE entry(r) == [url |-> page[b], response |-> r]
    <3>1. PICK r \in Responses :
            /\ r.status = 200 => r.version = Last(used)
            /\ shown' = [shown EXCEPT ![b] = r]
            /\ \/ UNCHANGED cache
               \/ /\ r.status = 200
                  /\ cache' = [cache EXCEPT ![b] = @ \cup {entry(r)}]
      BY <2>6, FromServerGets
    <3>2. /\ page[b] # Nothing
          /\ UNCHANGED <<running, busters, page, used, since>>
      BY <2>6 DEF FromServer
    <3>3. Last(used) \in since[b] /\ NotAfter(page[b].bust[2], Last(used))
      BY <3>2 DEF KeepsCurrent
    <3>4. \A d \in Browsers : \A e \in cache'[d] :
            e \in cache[d] \/ (d = b /\ e = entry(r) /\ r.status = 200)
      <4>1. CASE UNCHANGED cache
        BY <4>1
      <4>2. CASE /\ r.status = 200
                 /\ cache' = [cache EXCEPT ![b] = @ \cup {entry(r)}]
        <5> HIDE DEF entry
        <5> QED
          BY <4>2, KeepsOneMore
      <4> QED
        BY <3>1, <4>1, <4>2
    <3>5. entry(r).url = page[b] /\ entry(r).response = r
      OBVIOUS
    <3>6. ShowsCurrent'
      BY <3>1, <3>2, <3>3 DEF Holding, KeepsCurrent, ShowsCurrent
    <3>7. \A m, n : NotAfter(m, n)' <=> NotAfter(m, n)
      BY <3>2 DEF NotAfter
    <3> HIDE DEF entry
    <3>8. \A d \in Browsers : \A e \in cache'[d] :
            /\ e.response.status = 200
            /\ NotAfter(e.url.bust[2], e.response.version)
      BY <3>1, <3>3, <3>4, <3>5 DEF KeepsCurrent
    <3>9. \A d \in Browsers : page[d] # Nothing =>
            \A e \in Cached(d)' : e.response.version \in since[d]
      BY <3>1, <3>2, <3>3, <3>4, <3>5 DEF KeepsCurrent, Cached
    <3> QED
      BY <3>2, <3>6, <3>7, <3>8, <3>9 DEF KeepsCurrent
  <2>7. CASE UNCHANGED <<running, busters, page, cache, shown, used, since>>
    BY <2>7 DEF KeepsCurrent, ShowsCurrent, NotAfter, Cached
  <2> QED
    BY <2>1, <2>2, <2>3, <2>4, <2>5, <2>6, <2>7 DEF AssetsNext, assetsVars, Trouble,
                                                            AskForMissing
<1>3. KeepsCurrent => ShowsCurrent
  BY DEF KeepsCurrent
<1> QED
  BY <1>1, <1>2, <1>3, StaysStored, StaysHolding, PTL DEF AssetsSpec
=============================================================================

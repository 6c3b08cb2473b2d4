------------------------------- MODULE Assets -------------------------------
(***************************************************************************)
(* Assets and their cache (http/cacheBuster.go, localPathMaker.go,         *)
(* fileSystemServer.go, joinProxyPath of handler.go): when the server      *)
(* starts it registers a directory and computes a hash of every file, it   *)
(* puts the hash into the URLs of the pages it makes, and it serves the    *)
(* file for any hash, from the stored variant that suits the browser.      *)
(* Browsers keep what they got under a URL.                                *)
(*                                                                         *)
(* One file is followed, which lies below the registered prefix and is     *)
(* stored plain, compressed with gzip or brotli, or in several ways.  A    *)
(* version stands for a content, and the hash of a stored variant is the   *)
(* variant with its version.  A compressed variant may be damaged, so that *)
(* it does not decompress, and at times the file system refuses to open    *)
(* files.  A URL has directories, a hash (or Nothing) and a file name.     *)
(* http.ServeMux and http.StripPrefix are external.                        *)
(***************************************************************************)
EXTENDS Naturals, Sequences, SequencesExt

CONSTANTS Browsers,
          Accept,      \* encodings a browser accepts: a subset of {"br", "gz"}
          Nothing,     \* no URL, no hash, nothing shown
          ProxyPath,   \* config.ProxyPath, as a sequence of directories
          Prefix,      \* the prefix given to RegisterAssetDirectory
          Subtree,     \* TRUE: that prefix ends in a slash
          Below,       \* the directories of the file below the prefix
          Processor,   \* TRUE: a file processor has the file's extension
          Versions,    \* contents of the file: 1, 2, ...
          Layouts,     \* sets of variants in which the file may be stored
          MaxDeploys,  \* bound on the changes of the file
          ErrorsAllowed, \* TRUE: variants may be damaged, and opening files may fail
          EditsLive,   \* TRUE: files also change while the server runs
          ComesBack    \* TRUE: the file may get a content it had before

Variants == {"plain", "br", "gz"}

ASSUME AssetsAssumption ==
  /\ Accept \in [Browsers -> SUBSET {"br", "gz"}]
  /\ {ProxyPath, Prefix, Below} \subseteq Seq(STRING)
  /\ Versions \subseteq Nat \ {0} /\ 1 \in Versions
  /\ \A v \in Variants, n \in Versions : <<v, n>> # Nothing
  /\ Layouts \subseteq (SUBSET Variants) \ {{}}
  /\ {Subtree, Processor, ErrorsAllowed, EditsLive, ComesBack} \subseteq BOOLEAN
  /\ MaxDeploys \in Nat

VARIABLES
  disk,     \* the version of each stored variant; 0 if it is not there
  damaged,  \* the stored variants that do not decompress
  troubled, \* the file system refuses to open files, or to make temporary ones
  running,  \* the server runs
  busters,  \* cacheBuster: the hash of a path, or Nothing
  page,     \* the URL of the file in the page a browser shows
  cache,    \* what a browser keeps under a URL
  shown,    \* the response the page got for its URL, or Nothing
  missing,  \* the status of the last request for another file, or Nothing
  used,     \* history: the versions that have been on disk
  since     \* history: the versions on disk since a page was made

diskVars == <<disk, damaged, troubled>>
assetsVars == <<diskVars, running, busters, page, cache, shown, missing, used, since>>

Url(dirs, bust, file) == [dirs |-> dirs, bust |-> bust, file |-> file]
File == "file"

-----------------------------------------------------------------------------
(* Paths *)

\* joinProxyPath, and MakeLocalPath of a path that starts with a slash.
joinProxyPath(dirs) == ProxyPath \o dirs

\* The path under which pages ask for the file: not behind the proxy path.
Location == Url(Prefix \o Below, Nothing, File)

\* RegisterAssetDirectory joins the proxy path and hands the result to
\* RegisterStaticHandler, which joins it again.
pattern == joinProxyPath(joinProxyPath(Prefix))
stripped == joinProxyPath(Prefix)

\* CacheBustedPath
CacheBustedPath(url) ==
  IF url.dirs = stripped \o Below /\ url.file = File
    THEN [url EXCEPT !.bust = busters] ELSE url

\* GetAssetUrl
GetAssetUrl(url) ==
  LET busted == CacheBustedPath(url)
  IN  [busted EXCEPT !.dirs = joinProxyPath(@)]

-----------------------------------------------------------------------------
(* Serving *)

stored == {v \in Variants : disk[v] # 0}

\* brotli comes before gzip, here and in the names of the files.
compressed(variants) == IF "br" \in variants THEN "br" ELSE "gz"

\* Mutant of chosen: a compressed variant is served as it is to everybody.
chosenAnyway(accepts) ==
  [variant |-> IF stored = {} THEN Nothing
               ELSE IF stored # {"plain"} THEN compressed(stored) ELSE "plain",
   raw |-> TRUE]

\* Mutant of chosen: a variant that nobody here decompresses is not found.
chosenIfAccepted(accepts) ==
  [variant |-> IF stored \cap accepts # {} THEN compressed(stored \cap accepts)
               ELSE IF "plain" \in stored THEN "plain" ELSE Nothing,
   raw |-> TRUE]

\* The variant serveStaticFile finds, and whether it serves its bytes as they are:
\* compressed as the browser likes it, then plain, then compressed to be
\* decompressed here.
chosen(accepts) ==
  LET variant == IF stored \cap accepts # {} THEN compressed(stored \cap accepts)
                 ELSE IF "plain" \in stored THEN "plain"
                 ELSE IF stored # {} THEN compressed(stored) ELSE Nothing
  IN  [variant |-> variant, raw |-> variant \in accepts \cup {"plain"}]

\* A response: its status, the version its body has, the encoding the browser
\* must undo, and what a file processor did: nothing, its job, or its job on
\* bytes that are still compressed.
Response(status, version, encoding, processing) ==
  [status |-> status, version |-> version, encoding |-> encoding,
   processing |-> processing]

Failure(status) == Response(status, 0, "plain", "none")

\* A variant that cannot be served: an error with a compressed one is logged and
\* answered as if there were no file, one with the plain file panics.
unserved(variant) == Failure(IF variant = "plain" THEN 500 ELSE 404)

\* servePath for a variant served as it is, damaged or not, serveDecompressed... for
\* the others: the latter never look for a processor, and their file has to
\* decompress.  No other variant is tried.
serveFile(accepts) ==
  LET c == chosen(accepts)
  IN  IF c.variant \notin stored THEN Failure(404)
      ELSE IF troubled \/ (~c.raw /\ c.variant \in damaged) THEN unserved(c.variant)
      ELSE IF ~c.raw THEN Response(200, disk[c.variant], "plain", "none")
      ELSE IF ~Processor THEN Response(200, disk[c.variant], c.variant, "none")
      ELSE Response(200, disk[c.variant], "plain",
                    IF c.variant = "plain" THEN "done" ELSE "garbled")

\* What ServeMux and StripPrefix make of a URL: not routed to the directory, or
\* the URL below the prefix.
routed(url) ==
  IF Subtree THEN IsPrefix(pattern, url.dirs) /\ IsPrefix(stripped, url.dirs)
             ELSE FALSE

below(url) == [url EXCEPT !.dirs = SubSeq(@, Len(stripped) + 1, Len(@))]

\* FileSystemServer.ServeHTTP.  StripCacheBusterPath cuts the last character of
\* the directory part, and panics when there is none.
serve(url, accepts) ==
  IF ~routed(url) THEN Failure(404)
  ELSE IF below(url).dirs = <<>> /\ url.bust = Nothing THEN Failure(500)
  ELSE IF below(url).dirs = Below /\ url.file = File THEN serveFile(accepts)
  ELSE Failure(404)

-----------------------------------------------------------------------------
\* The variants of a layout that may be damaged.
Damages(s) == IF ErrorsAllowed THEN SUBSET (s \ {"plain"}) ELSE {{}}

AssetsInit ==
  /\ \E s \in Layouts : /\ disk = [v \in Variants |-> IF v \in s THEN 1 ELSE 0]
                        /\ damaged \in Damages(s)
  /\ troubled = FALSE
  /\ running = FALSE
  /\ busters = Nothing
  /\ page = [b \in Browsers |-> Nothing]
  /\ cache = [b \in Browsers |-> {}]
  /\ shown = [b \in Browsers |-> Nothing]
  /\ missing = Nothing
  /\ used = <<1>>
  /\ since = [b \in Browsers |-> {}]

\* The variant WalkDir comes to first gives the hash: file, file.br, file.gz.
hashed == IF "plain" \in stored THEN "plain" ELSE compressed(stored)

\* Mutant of Start: the hashes of an earlier run are kept.
StartKeepsHashes ==
  /\ ~running
  /\ ~troubled
  /\ running' = TRUE
  /\ busters' = IF busters = Nothing THEN <<hashed, disk[hashed]>> ELSE busters
  /\ UNCHANGED <<diskVars, page, cache, shown, missing, used, since>>

\* The server starts: RegisterAssetDirectory, which panics, so that nothing starts,
\* when it cannot read the file.
Start ==
  /\ ~running
  /\ ~troubled
  /\ running' = TRUE
  /\ busters' = <<hashed, disk[hashed]>>
  /\ UNCHANGED <<diskVars, page, cache, shown, missing, used, since>>

Stop ==
  /\ running
  /\ running' = FALSE
  /\ UNCHANGED <<diskVars, busters, page, cache, shown, missing, used, since>>

\* Trouble with opening files comes and goes.
Trouble ==
  /\ ErrorsAllowed
  /\ troubled' = ~troubled
  /\ UNCHANGED <<disk, damaged, running, busters, page, cache, shown, missing, used, since>>

\* The file is replaced in all its variants, some of which may be damaged.
Deploy(v, s) ==
  /\ running => EditsLive
  /\ Len(used) <= MaxDeploys
  /\ v # Last(used)
  /\ ComesBack \/ v \notin ToSet(used)
  /\ disk' = [x \in Variants |-> IF x \in s THEN v ELSE 0]
  /\ damaged' \in Damages(s)
  /\ used' = Append(used, v)
  /\ since' = [b \in Browsers |-> since[b] \cup {v}]
  /\ UNCHANGED <<troubled, running, busters, page, cache, shown, missing>>

\* The server makes a page for a browser.
LoadPage(b) ==
  /\ running
  /\ page' = [page EXCEPT ![b] = GetAssetUrl(Location)]
  /\ shown' = [shown EXCEPT ![b] = Nothing]
  /\ since' = [since EXCEPT ![b] = {Last(used)}]
  /\ UNCHANGED <<diskVars, running, busters, cache, missing, used>>

\* What a browser has under the URL of its page.
Cached(b) == {e \in cache[b] : e.url = page[b]}

\* The page gets the file: from the cache of the browser ...
FromCache(b) ==
  /\ page[b] # Nothing
  /\ shown[b] = Nothing
  /\ \E e \in Cached(b) : shown' = [shown EXCEPT ![b] = e.response]
  /\ UNCHANGED <<diskVars, running, busters, page, cache, missing, used, since>>

\* ... or from the server, at once or much later.
FromServer(b) ==
  /\ running
  /\ page[b] # Nothing
  /\ shown[b] = Nothing
  /\ Cached(b) = {}
  /\ LET response == serve(page[b], Accept[b])
     IN  /\ shown' = [shown EXCEPT ![b] = response]
         /\ cache' = IF response.status = 200
                       THEN [cache EXCEPT ![b] = @ \cup
                               {[url |-> page[b], response |-> response]}]
                       ELSE cache
  /\ UNCHANGED <<diskVars, running, busters, page, missing, used, since>>

\* A browser asks for a file that is not in the directory.
AskForMissing(b) ==
  /\ running
  /\ missing' = serve(Url(ProxyPath \o Prefix, Nothing, "missing"), Accept[b]).status
  /\ UNCHANGED <<diskVars, running, busters, page, cache, shown, used, since>>

AssetsNext ==
  \/ Start \/ Stop \/ Trouble
  \/ \E v \in Versions, s \in Layouts : Deploy(v, s)
  \/ \E b \in Browsers : LoadPage(b) \/ FromCache(b) \/ FromServer(b) \/ AskForMissing(b)

AssetsSpec == AssetsInit /\ [][AssetsNext]_assetsVars

-----------------------------------------------------------------------------
(* Properties *)

\* "when you edit the file a new URL will be generated forcing the browser to
\* reload the asset" (cacheBuster.go:22): what a page shows was the content
\* of the file at some time since the page was made.
ShowsCurrent ==
  \A b \in Browsers :
    shown[b] # Nothing /\ shown[b].status = 200 => shown[b].version \in since[b]

\* A page gets an answer for the URL of its file.
Answered(b) == shown[b] = Nothing /\ shown'[b] # Nothing

\* Nothing is stored that a browser can be sent as it is, and the variant that is
\* decompressed for it is damaged.
Spoilt(b) ==
  /\ stored \cap (Accept[b] \cup {"plain"}) = {}
  /\ compressed(stored) \in damaged

\* A page finds the file in whatever variants it is stored, also a page made before
\* the file changed and the server was started again, unless files cannot be opened
\* or the variant that has to be decompressed is damaged (tests badGzip and badBrotli
\* of fileSystemServer_test.go:70 want a 404 then).
AssetFound ==
  [][\A b \in Browsers :
       Answered(b) => shown'[b].status = 200 \/ troubled \/ Spoilt(b)]_assetsVars

\* One stored variant that is sound is enough.  It is not: the damaged one hides it.
SoundIsFound ==
  [][\A b \in Browsers :
       Answered(b) => shown'[b].status = 200 \/ troubled \/ stored \subseteq damaged]_assetsVars

\* "If the file is not found or cannot be opened, it will return false"
\* (fileSystemServer.go:65), and ServeHTTP answers 404.  For a plain file it panics.
UnopenedIsNotFound == \A b \in Browsers : shown[b] # Nothing => shown[b].status \in {200, 404}

\* "if the browser does not support compression, the compressed file will be
\* decompressed here" (fileSystemServer.go:23): a browser never gets an
\* encoding that it does not accept.
Readable ==
  \A b \in Browsers :
    shown[b] # Nothing => shown[b].encoding \in Accept[b] \cup {"plain"}

\* "This will add the cache-buster path, and the proxy path if there is one"
\* (cacheBuster.go:68).
UrlsAreBusted ==
  \A b \in Browsers :
    page[b] # Nothing => page[b].bust # Nothing /\ IsPrefix(ProxyPath, page[b].dirs)

\* "If the browser attempts to access a file in the file system that does not
\* exist, a 404 NotFound error will be sent back" (cacheBuster.go:26).
MissingIsNotFound == missing \in {Nothing, 404}

\* "Files found will be sent to any registered file processors if the extension
\* matches" (fileSystemServer.go:31), and the processor sees the file.
FilesAreProcessed ==
  \A b \in Browsers :
    shown[b] # Nothing /\ shown[b].status = 200 /\ Processor =>
      shown[b].processing = "done"
=============================================================================

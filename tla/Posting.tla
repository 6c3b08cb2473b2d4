------------------------------- MODULE Posting -------------------------------
(***************************************************************************)
(* A file select control (assets/js/file_select.js) and the requests of    *)
(* AjaxQueue, which carry its files.                                       *)
(*                                                                         *)
(* upload() makes the files ready and triggers the event "upload", whose   *)
(* action posts a request a moment later.  The files are not given to that *)
(* request but to the first one that is sent and gathers the changed       *)
(* controls; all others get a description of the files.  A change of the   *)
(* files counts as an edit of the control.                                 *)
(***************************************************************************)
EXTENDS AjaxQueue

CONSTANT FileSelect  \* the control

ASSUME FileAssumption == FileSelect \in Controls

VARIABLES
  ready,    \* _readyToUpload
  asFiles,  \* requests that carry the files themselves
  upload,   \* history: what has become of the event "upload", the version of the
            \* files when it came, and its request
  stored    \* the version of the files that the server has

files == <<ready, asFiles, upload, stored>>

PostInit ==
  /\ Init
  /\ ready = FALSE
  /\ asFiles = {}
  /\ upload = [state |-> "none", version |-> 0, request |-> {}]
  /\ stored = 0

\* val, called for request r: the files themselves once, if they are ready.
val(r) ==
  /\ asFiles' = IF ready THEN asFiles \cup {r} ELSE asFiles
  /\ ready' = FALSE

\* The request that a step sends, if any, calls val if the control was changed.
Gathers ==
  LET sent == {r \in Requests : stage[r] # "sent" /\ stage'[r] = "sent"}
  IN IF sent # {} /\ FileSelect \in modified
       THEN \E r \in sent : val(r)
       ELSE UNCHANGED <<ready, asFiles>>

\* The server stores the files of the request it takes, in time or late.
Stores ==
  LET taken == {r \in asFiles : \/ stage[r] = "sent" /\ stage'[r] = "taken"
                                \/ r \in late \ late'}
  IN stored' = IF taken = {} THEN stored
               ELSE carried[CHOOSE r \in taken : TRUE][FileSelect]

\* A step of the page's events and requests, with what it does to the files.
AjaxStep ==
  /\ Next
  /\ Gathers
  /\ Stores
  /\ UNCHANGED upload

\* Mutant of Upload: the control is not recorded as changed.
UploadUnchanged ==
  /\ upload.state = "none"
  /\ ready' = TRUE
  /\ upload' = [upload EXCEPT !.state = "due", !.version = edit[FileSelect]]
  /\ UNCHANGED <<vars, asFiles, stored>>

\* upload(): the control counts as changed, and the action of "upload" is queued.
Upload ==
  /\ upload.state = "none"
  /\ ready' = TRUE
  /\ touched(FileSelect)
  /\ upload' = [upload EXCEPT !.state = "due", !.version = edit[FileSelect]]
  /\ UNCHANGED <<asFiles, stored>>

\* The action of "upload" posts its request.
PostUpload(r) ==
  /\ upload.state = "due"
  /\ postAjax(r, FALSE)
  /\ Gathers
  /\ upload' = [upload EXCEPT !.state = "posted", !.request = {r}]
  /\ UNCHANGED stored

\* Events are blocked and postAjax returns; the files stay ready.
UploadIsBlocked ==
  /\ upload.state = "due"
  /\ blockEvents
  /\ upload' = [upload EXCEPT !.state = "dropped"]
  /\ UNCHANGED <<vars, ready, asFiles, stored>>

PostNext ==
  \/ AjaxStep
  \/ Upload
  \/ \E r \in Requests : PostUpload(r)
  \/ UploadIsBlocked

PostSpec == PostInit /\ [][PostNext]_<<vars, files>>

-----------------------------------------------------------------------------
(* What must hold *)

\* When the server takes the request of "upload", it has the files of that moment
\* or later ones, whichever request gathered them; unless that one failed, or
\* asynchronous requests overtake.
FilesArrive ==
  Serial =>
    \A r \in upload.request :
      stage[r] \in {"taken", "loading", "applied"} =>
        \/ stored >= upload.version
        \/ \E s \in asFiles : stage[s] \in {"failed", "broken"}

\* The request of "upload" carries the files.
UploadCarriesFiles ==
  \A r \in upload.request : stage[r] \notin {"new", "queued"} => r \in asFiles
=============================================================================

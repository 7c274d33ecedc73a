-------------------------------- MODULE Intake --------------------------------
(***************************************************************************)
(* How sources come and go (core/input/service.go): uploads in chunks over  *)
(* gRPC, whose answers may be lost so that chunks are sent again, uploads   *)
(* over HTTP (uploadPCAP of cmd/server), and the stop and removal of live   *)
(* sources.  The capture of a live source is SensorCapture's.               *)
(* An operator Op_Word is a plausible bug in Op; no specification uses it.  *)
(***************************************************************************)
EXTENDS Naturals, Sequences

CONSTANTS
  Uploads,    \* identifiers of uploads, which become those of their sources
  Lives,      \* identifiers of live sources
  Chunks,     \* chunks of a file
  MaxSends    \* bound: chunks sent for one upload

ASSUME IntakeConstants ==
  /\ Uploads \cap Lives = {} /\ Chunks \in Nat \ {0} /\ MaxSends \in Nat

VARIABLES
  upload,     \* Service.uploads: "none", "open", or out of the map
  http,       \* uploads over HTTP, which send every chunk once
  hashed,     \* uploads that came with a SHA-256
  content,    \* what was written to the file: chunks, and 0 for a write that failed half-way
  next,       \* upload.next, with which upload.received grows
  sends,      \* chunks sent so far
  discarding, \* a failed write has released the mutex, discardUpload has not run
  complete,   \* CompleteUpload
  file,       \* the temporary file exists
  source,     \* Service.sources
  kept,       \* history: removed sources whose file was to be kept, uploads the HTTP handler gave up
  stop,       \* StopLive: its own call, and the one inside Remove
  removal,    \* Remove of a source, once each
  broken,     \* StopLive dereferenced a source that was gone, and holds the mutex for ever
  overlapped  \* history: live sources deleted between the Get and the last section of a StopLive

ways == <<http, hashed>>
uploadVars == <<upload, ways, content, next, sends, discarding, complete, file, kept>>
liveVars == <<stop, removal, broken, overlapped>>
intakeVars == <<uploadVars, source, liveVars>>

Sources == Uploads \cup Lives
Callers == {"stop", "remove"}

IntakeInit ==
  /\ upload = [u \in Uploads |-> "none"] /\ http = {} /\ hashed = {} /\ content = [u \in Uploads |-> <<>>]
  /\ next = [u \in Uploads |-> 1] /\ sends = [u \in Uploads |-> 0]
  /\ discarding = {} /\ complete = [u \in Uploads |-> "none"] /\ file = {} /\ kept = {}
  /\ source = [s \in Sources |-> "none"]
  /\ stop = [s \in Lives |-> [c \in Callers |-> "none"]] /\ removal = [s \in Sources |-> "none"]
  /\ broken = FALSE /\ overlapped = {}

----------------------------------------------------------------------------
\* Uploads.  Every section needs the mutex, which a broken service never gives up.
Section(vars) == ~broken /\ UNCHANGED <<vars, liveVars>>

BeginUpload(u, isHttp, isHashed) ==
  /\ upload[u] = "none" /\ ~(isHttp /\ isHashed)
  /\ upload' = [upload EXCEPT ![u] = "open"] /\ file' = file \cup {u}
  /\ http' = IF isHttp THEN http \cup {u} ELSE http
  /\ hashed' = IF isHashed THEN hashed \cup {u} ELSE hashed
  /\ Section(<<content, next, sends, discarding, complete, kept, source>>)

\* The HTTP handler sends a chunk after the answer to the one before, until an error.
Expected(u, i) == u \in http => i = next[u] /\ u \notin discarding \cup kept

\* A chunk arrives, perhaps again or too early; only the next one is written.
UploadChunk_AnyOrder(u, i) ==
  /\ upload[u] = "open" /\ sends[u] < MaxSends /\ next[u] <= Chunks
  /\ sends' = [sends EXCEPT ![u] = @ + 1]
  /\ content' = [content EXCEPT ![u] = Append(@, i)] /\ next' = [next EXCEPT ![u] = @ + 1]
  /\ Section(<<upload, ways, discarding, complete, file, kept, source>>)
UploadChunk(u, i) ==
  /\ upload[u] = "open" /\ sends[u] < MaxSends /\ Expected(u, i)
  /\ sends' = [sends EXCEPT ![u] = @ + 1]
  /\ IF i = next[u]
     THEN content' = [content EXCEPT ![u] = Append(@, i)] /\ next' = [next EXCEPT ![u] = @ + 1]
     ELSE UNCHANGED <<content, next>>
  /\ Section(<<upload, ways, discarding, complete, file, kept, source>>)

\* The write fails after a part of the chunk; discardUpload takes the mutex anew.
WriteFails(u) ==
  /\ upload[u] = "open" /\ u \notin discarding /\ next[u] <= Chunks /\ sends[u] < MaxSends /\ Expected(u, next[u])
  /\ sends' = [sends EXCEPT ![u] = @ + 1]
  /\ content' = [content EXCEPT ![u] = Append(@, 0)] /\ discarding' = discarding \cup {u}
  /\ Section(<<upload, ways, next, complete, file, kept, source>>)

\* Also for a chunk whose client has gone.
DiscardUpload(u) ==
  /\ u \in discarding \/ (upload[u] = "open" /\ Expected(u, next[u]))
  /\ discarding' = discarding \ {u}
  /\ upload' = [upload EXCEPT ![u] = "gone"] /\ file' = IF upload[u] = "open" THEN file \ {u} ELSE file
  /\ Section(<<ways, content, next, sends, complete, kept, source>>)

\* The body of an HTTP upload cannot be read to its end: nobody discards it.
GiveUp(u) ==
  /\ u \in http /\ upload[u] = "open" /\ Expected(u, next[u])
  /\ kept' = kept \cup {u}
  /\ Section(<<upload, ways, content, next, sends, discarding, complete, file, source>>)

\* CompleteUpload takes the upload out of the map, then checks it.
TakeUpload(u) ==
  /\ upload[u] = "open" /\ (u \in http => next[u] > Chunks) /\ Expected(u, next[u])
  /\ upload' = [upload EXCEPT ![u] = "gone"] /\ complete' = [complete EXCEPT ![u] = "checking"]
  /\ Section(<<ways, content, next, sends, discarding, file, kept, source>>)

Exact(u) == content[u] = [i \in 1..Chunks |-> i]
Accepted(u) == next[u] > Chunks /\ (u \in hashed => Exact(u))

\* Any later step may fail as well; then the file is removed.  (The Reset of the
\* session is refused, because the session is READY and not STOPPED.)
FailUpload_KeepsFile(u) ==
  /\ complete[u] \in {"checking", "reading"}
  /\ complete' = [complete EXCEPT ![u] = "failed"]
  /\ UNCHANGED <<upload, ways, content, next, sends, discarding, file, kept, source, liveVars>>
FailUpload(u) ==
  /\ complete[u] \in {"checking", "reading"}
  /\ complete' = [complete EXCEPT ![u] = "failed"] /\ file' = file \ {u}
  /\ UNCHANGED <<upload, ways, content, next, sends, discarding, kept, source, liveVars>>

ReadPCAP(u) ==
  /\ complete[u] = "checking" /\ Accepted(u)
  /\ complete' = [complete EXCEPT ![u] = "reading"]
  /\ UNCHANGED <<upload, ways, content, next, sends, discarding, file, kept, source, liveVars>>

StoreUpload(u) ==
  /\ complete[u] = "reading"
  /\ complete' = [complete EXCEPT ![u] = "done"] /\ source' = [source EXCEPT ![u] = "SOURCE_READY"]
  /\ Section(<<upload, ways, content, next, sends, discarding, file, kept>>)

----------------------------------------------------------------------------
\* StartLive: session and capture are the sensor's; if they fail there is no source.
StartLive(s) ==
  /\ source[s] = "none" /\ removal[s] = "none"
  /\ source' = [source EXCEPT ![s] = "CAPTURING"]
  /\ Section(uploadVars)

\* StopLive, called by a client or by Remove: Get, the sensor, the last section.
StopGet(s, c) ==
  /\ ~broken /\ stop[s][c] = "none" /\ source[s] = "CAPTURING"
  /\ IF c = "remove" THEN removal[s] = "got" ELSE TRUE
  /\ stop' = [stop EXCEPT ![s][c] = "stopping"]
  /\ UNCHANGED <<uploadVars, source, removal, broken, overlapped>>

\* Sessions.Stop refuses a session that is not running; Captures.Stats may fail too.
StopSession(s, c) ==
  /\ stop[s][c] = "stopping"
  /\ \E outcome \in {"stopped", "ended"} : stop' = [stop EXCEPT ![s][c] = outcome]
  /\ UNCHANGED <<uploadVars, source, removal, broken, overlapped>>

StopStore_Twice(s, c) ==
  /\ ~broken /\ stop[s][c] = "stopped" /\ stop' = [stop EXCEPT ![s][c] = "ended"]
  /\ IF source[s] # "CAPTURING" THEN broken' = TRUE /\ UNCHANGED source
     ELSE source' = [source EXCEPT ![s] = "STOPPED"] /\ UNCHANGED broken
  /\ UNCHANGED <<uploadVars, removal, overlapped>>
StopStore(s, c) ==
  /\ ~broken /\ stop[s][c] = "stopped" /\ stop' = [stop EXCEPT ![s][c] = "ended"]
  /\ IF source[s] = "none" THEN broken' = TRUE /\ UNCHANGED source
     ELSE source' = [source EXCEPT ![s] = "STOPPED"] /\ UNCHANGED broken
  /\ UNCHANGED <<uploadVars, removal, overlapped>>

RemoveGet(s) ==
  /\ ~broken /\ removal[s] = "none" /\ source[s] # "none"
  /\ removal' = [removal EXCEPT ![s] = IF source[s] = "CAPTURING" THEN "got" ELSE "past"]
  /\ UNCHANGED <<uploadVars, source, stop, broken, overlapped>>

\* After its StopLive, whatever that answered (NotFound and STOPPED included).
RemoveStopped(s) ==
  /\ removal[s] = "got"
  /\ stop[s]["remove"] = "ended" \/ (stop[s]["remove"] = "none" /\ source[s] # "CAPTURING")
  /\ removal' = [removal EXCEPT ![s] = "past"]
  /\ UNCHANGED <<uploadVars, source, stop, broken, overlapped>>

\* The file goes first, outside the mutex.
RemoveFile(s, deleteFile) ==
  /\ removal[s] = "past" /\ removal' = [removal EXCEPT ![s] = "unlinked"]
  /\ file' = IF deleteFile THEN file \ {s} ELSE file
  /\ kept' = IF deleteFile THEN kept ELSE kept \cup ({s} \cap Uploads)
  /\ UNCHANGED <<upload, ways, content, next, sends, discarding, complete, source, stop, broken, overlapped>>

RemoveSource(s) ==
  /\ ~broken /\ removal[s] = "unlinked"
  /\ removal' = [removal EXCEPT ![s] = "done"] /\ source' = [source EXCEPT ![s] = "none"]
  /\ overlapped' = IF s \in Lives /\ stop[s]["stop"] \in {"stopping", "stopped"} THEN overlapped \cup {s} ELSE overlapped
  /\ UNCHANGED <<uploadVars, stop, broken>>

Completes(u) == FailUpload(u) \/ ReadPCAP(u) \/ StoreUpload(u)

IntakeNext ==
  \/ \E u \in Uploads : \/ WriteFails(u) \/ DiscardUpload(u) \/ GiveUp(u)
                        \/ TakeUpload(u) \/ Completes(u)
                        \/ \E isHttp, isHashed \in BOOLEAN : BeginUpload(u, isHttp, isHashed)
                        \/ \E i \in 1..Chunks : UploadChunk(u, i)
  \/ \E s \in Sources : RemoveGet(s) \/ RemoveSource(s)
                        \/ \E deleteFile \in BOOLEAN : RemoveFile(s, deleteFile)
  \/ \E s \in Lives : StartLive(s) \/ RemoveStopped(s) \/ (\E c \in Callers : StopGet(s, c) \/ StopSession(s, c) \/ StopStore(s, c))

IntakeSpec == IntakeInit /\ [][IntakeNext]_intakeVars

----------------------------------------------------------------------------
\* Properties.

\* Types.
IntakeTypeOK ==
  /\ upload \in [Uploads -> {"none", "open", "gone"}]
  /\ content \in [Uploads -> Seq(0..Chunks)] /\ next \in [Uploads -> 1..(Chunks + 1)]
  /\ sends \in [Uploads -> 0..MaxSends] /\ {http, hashed, discarding, file, kept} \subseteq SUBSET Uploads
  /\ complete \in [Uploads -> {"none", "checking", "reading", "failed", "done"}]
  /\ source \in [Sources -> {"none", "CAPTURING", "STOPPED", "SOURCE_READY"}]
  /\ stop \in [Lives -> [Callers -> {"none", "stopping", "stopped", "ended"}]]
  /\ removal \in [Sources -> {"none", "got", "past", "unlinked", "done"}]
  /\ broken \in BOOLEAN /\ overlapped \subseteq Lives

\* Whatever was sent twice, too early or not at all, a source is made of every
\* chunk once and in order; without a hash this may fail after a failed write
\* (the size counts what was written whole).
SourceIsExact ==
  \A u \in Uploads : source[u] = "SOURCE_READY" => Exact(u) \/ (u \notin hashed /\ 0 \in {content[u][i] : i \in DOMAIN content[u]})

\* A temporary file is an open upload's, one's that is being completed, or a
\* source's, unless it was to be kept or its HTTP request gave up; and those
\* have their file.
FilesAreOwned ==
  \A u \in Uploads :
    LET owned == \/ upload[u] = "open" \/ complete[u] \in {"checking", "reading"}
                 \/ source[u] # "none" /\ removal[u] # "unlinked" IN
    (owned => u \in file) /\ (u \in file => owned \/ u \in kept)

\* The service breaks only when a source is removed while it is being stopped.
BreaksOnlyByRemoval == broken => overlapped # {}

\* A source is what was sent, owns its file, and breaks only where it is removed.
SourcesAreExact == SourceIsExact /\ FilesAreOwned /\ BreaksOnlyByRemoval
==============================================================================

-------------------------------- MODULE Board --------------------------------
(***************************************************************************)
(* The server of the community map: submissions with their file, local     *)
(* moderation or forwarding to the hub, the verified copy of the hub's     *)
(* feed, and what the public routes answer from both (backend/routes,      *)
(* backend/db.js, backend/hub.js, backend/middleware/sanitize.js).         *)
(*                                                                         *)
(* A memory keeps one name in the table and in the feed: the hub publishes *)
(* a migrated memory with its old id.  A published memory has the city its *)
(* generalised point is nearest to, or none where the hub withholds the    *)
(* place.  Relay models how the outbox delivers; Feed how the hub writes   *)
(* the feed.                                                               *)
(***************************************************************************)
EXTENDS Naturals, FiniteSets

CONSTANTS
  Mems,         \* memories
  Old,          \* those approved on the old map before the hub was connected, with their files
  Cities,
  Home,         \* the city the local rows are in
  Source,       \* PUBLIC_SOURCE
  MaxEdits,     \* bound: publications and withdrawals of the hub
  MaxFaults,    \* bound: statements, uploads and loads that fail, processes that die
  None

ASSUME BoardAssumption ==
  /\ Old \subseteq Mems /\ Home \in Cities
  /\ Source \in {"db", "both", "feed"}
  /\ None \notin Mems \cup Cities
  /\ {MaxEdits, MaxFaults} \subseteq Nat

VARIABLES
  intake,   \* the hub is connected: HUB_URL, HUB_SOURCE and HUB_INTAKE_KEY are set
  rows,     \* memories: the table
  store,    \* the files in the photo bucket
  post,     \* POST /api/memories: where each submission is
  outbox,   \* hub_outbox: what waits, is being forwarded, or was
  hub,      \* what the hub's feed publishes now
  site,     \* the last verified copy of it (state in hub.js)
  load,     \* refreshFeed in flight, with what it has read
  reader,   \* a public request in flight
  page,     \* the last answer: local rows, published rows
  edits, faults,
  reviewed  \* history: what was ever approved here or published by the hub

vars == <<intake, rows, store, post, outbox, hub, site, load, reader, page, edits, faults, reviewed>>

Published == [city : Cities \cup {None}, file : BOOLEAN]
Row == [approved : BOOLEAN, rejected : BOOLEAN, file : BOOLEAN]
Idle == [at |-> "idle"]
NoLoad == [at |-> "idle", got |-> [m \in Mems |-> None]]
NoPage == [local |-> {}, feed |-> {}]

useFeed == Source # "db"
useDb == Source # "feed"

Exists(m) == rows[m] # None
Approved(m) == Exists(m) /\ rows[m].approved
Pending(m) == Exists(m) /\ ~rows[m].approved /\ ~rows[m].rejected

Init ==
  /\ intake = FALSE
  /\ rows = [m \in Mems |-> IF m \in Old THEN [approved |-> TRUE, rejected |-> FALSE, file |-> TRUE] ELSE None]
  /\ store = Old
  /\ post = [m \in Mems |-> IF m \in Old THEN "done" ELSE "none"]
  /\ outbox = [m \in Mems |-> "none"]
  /\ hub = [m \in Mems |-> None] /\ site = hub
  /\ load = NoLoad
  /\ reader = Idle /\ page = NoPage
  /\ edits = 0 /\ faults = 0
  /\ reviewed = Old

Fault == faults < MaxFaults /\ faults' = faults + 1
NoFault == UNCHANGED faults

(* The photo bucket: a key is written over, and removed without a look at what names it *)

uploadPhoto(m) == store' = store \cup {m}
deletePhoto(m) == store' = store \ {m}
downloadPhoto(m) == m \in store

(* Submissions *)

\* A file is stored under the new id before the row is written; one that cannot be processed leaves a text memory.
StoreFile(m) ==
  /\ post[m] = "none"
  /\ \/ uploadPhoto(m) /\ post' = [post EXCEPT ![m] = "file"] /\ NoFault
     \/ UNCHANGED store /\ post' = [post EXCEPT ![m] = "text"] /\ Fault
  /\ UNCHANGED <<intake, rows, outbox, hub, site, load, reader, page, edits, reviewed>>

SubmitText(m) ==
  /\ post[m] = "none"
  /\ post' = [post EXCEPT ![m] = "text"]
  /\ UNCHANGED <<intake, rows, store, outbox, hub, site, load, reader, page, edits, faults, reviewed>>

NewRow(file) == [approved |-> FALSE, rejected |-> FALSE, file |-> file]

\* insertMemory: with the hub connected the row and its outbox row are one transaction.
Insert(m) ==
  /\ post[m] \in {"file", "text"}
  /\ \/ /\ rows' = [rows EXCEPT ![m] = NewRow(post[m] = "file")]
        /\ outbox' = [outbox EXCEPT ![m] = IF intake THEN "memory" ELSE @]
        /\ post' = [post EXCEPT ![m] = "done"] /\ NoFault
     \/ UNCHANGED <<rows, outbox>> /\ post' = [post EXCEPT ![m] = "failed"] /\ Fault
  /\ UNCHANGED <<intake, store, hub, site, load, reader, page, edits, reviewed>>

(* Moderation: here only while the hub takes no submissions *)

Approve(m) ==
  /\ ~intake /\ Pending(m)
  /\ rows' = [rows EXCEPT ![m].approved = TRUE] /\ reviewed' = reviewed \cup {m}
  /\ UNCHANGED <<intake, store, post, outbox, hub, site, load, reader, page, edits, faults>>

Reject(m) ==
  /\ ~intake /\ Pending(m)
  /\ rows' = [rows EXCEPT ![m].rejected = TRUE]
  /\ UNCHANGED <<intake, store, post, outbox, hub, site, load, reader, page, edits, faults, reviewed>>

(* The hub: scripts/export-to-hub.js and the relay send, the hub publishes *)

\* Approved memories are queued once, as already public.
Export(m) ==
  /\ intake /\ Approved(m) /\ outbox[m] = "none"
  /\ outbox' = [outbox EXCEPT ![m] = "legacy_memory"]
  /\ UNCHANGED <<intake, rows, store, post, hub, site, load, reader, page, edits, faults, reviewed>>

\* Mutant: what was forwarded is deleted whatever its kind.
ForwardAll(m) ==
  /\ outbox[m] \in {"memory", "legacy_memory"}
  /\ Exists(m) /\ (rows[m].file => downloadPhoto(m))
  /\ outbox' = [outbox EXCEPT ![m] = "purge"]
  /\ UNCHANGED <<intake, rows, store, post, hub, site, load, reader, page, edits, faults, reviewed>>

\* The text and the file have reached the hub; of a new memory nothing is kept here.
Forward(m) ==
  /\ outbox[m] \in {"memory", "legacy_memory"}
  /\ Exists(m) /\ (rows[m].file => downloadPhoto(m))
  /\ outbox' = [outbox EXCEPT ![m] = IF @ = "memory" THEN "purge" ELSE "sent"]
  /\ UNCHANGED <<intake, rows, store, post, hub, site, load, reader, page, edits, faults, reviewed>>

\* deleteFile: a file that cannot be deleted is only warned about.
PurgeFile(m) ==
  /\ outbox[m] = "purge"
  /\ outbox' = [outbox EXCEPT ![m] = "purge_row"]
  /\ \/ deletePhoto(m) /\ NoFault
     \/ UNCHANGED store /\ Fault
  /\ UNCHANGED <<intake, rows, post, hub, site, load, reader, page, edits, reviewed>>

\* A statement that fails makes the row of the outbox wait again, although it was sent.
PurgeRow(m) ==
  /\ outbox[m] = "purge_row"
  /\ \/ /\ rows' = [rows EXCEPT ![m] = IF Approved(m) THEN @ ELSE None] /\ NoFault
        /\ outbox' = [outbox EXCEPT ![m] = "sent"]
     \/ UNCHANGED rows /\ Fault /\ outbox' = [outbox EXCEPT ![m] = "memory"]
  /\ UNCHANGED <<intake, store, post, hub, site, load, reader, page, edits, reviewed>>

Sent(m) == outbox[m] \in {"purge", "purge_row", "sent"}

\* The hub publishes what it received, or a new version of it, or withdraws it, and writes its feed.
Publish(m) ==
  /\ Sent(m) /\ edits < MaxEdits /\ edits' = edits + 1
  /\ \E r \in Published : hub' = [hub EXCEPT ![m] = r]
  /\ reviewed' = reviewed \cup {m}
  /\ UNCHANGED <<intake, rows, store, post, outbox, site, load, reader, page, faults>>

Withdraw(m) ==
  /\ hub[m] # None /\ edits < MaxEdits /\ edits' = edits + 1
  /\ hub' = [hub EXCEPT ![m] = None]
  /\ UNCHANGED <<intake, rows, store, post, outbox, site, load, reader, page, faults, reviewed>>

(* refreshFeed: on a timer and on the hub's nudge, one load at a time *)

StartLoad ==
  /\ load.at = "idle" /\ load' = [load EXCEPT !.at = "reading"]
  /\ UNCHANGED <<intake, rows, store, post, outbox, hub, site, reader, page, edits, faults, reviewed>>

\* feedReader.load: the signed index names the records that are fetched.
ReadFeed ==
  /\ load.at = "reading" /\ load' = [at |-> "checking", got |-> hub]
  /\ UNCHANGED <<intake, rows, store, post, outbox, hub, site, reader, page, edits, faults, reviewed>>

LoadDone ==
  /\ load.at = "checking"
  /\ site' = load.got /\ load' = NoLoad
  /\ UNCHANGED <<intake, rows, store, post, outbox, hub, reader, page, edits, faults, reviewed>>

\* Mutant: only a load that succeeds makes room for the next.
LoadHangs ==
  /\ load.at \in {"reading", "checking"} /\ Fault
  /\ load' = [load EXCEPT !.at = "failed"]
  /\ UNCHANGED <<intake, rows, store, post, outbox, hub, site, reader, page, edits, reviewed>>

\* A fetch, a hash, the delegation or the signature is wrong: the last verified copy stays.
LoadFails ==
  /\ load.at \in {"reading", "checking"} /\ Fault
  /\ load' = NoLoad
  /\ UNCHANGED <<intake, rows, store, post, outbox, hub, site, reader, page, edits, reviewed>>

(* The public routes *)

\* Mutant: everything that is not rejected is listed.
NotRejected(city) == {m \in Mems : Exists(m) /\ ~rows[m].rejected /\ city \in {None, Home}}

publicList(city) == {m \in Mems : Approved(m) /\ city \in {None, Home}}

\* Published memories have a point to show, and are filtered by the city nearest to it.
feedMemories(city) ==
  IF useFeed THEN {m \in Mems : site[m] # None /\ site[m].city # None /\ city \in {None, site[m].city}} ELSE {}

mergeMemories(local, feed) == [local |-> local \ feed, feed |-> feed]

\* GET /api/memories: the rows are queried first, the feed's are taken when they have come.
List(city) ==
  /\ reader.at = "idle"
  /\ reader' = [at |-> "merge", city |-> city, rows |-> IF useDb THEN publicList(city) ELSE {}]
  /\ UNCHANGED <<intake, rows, store, post, outbox, hub, site, load, page, edits, faults, reviewed>>

Merge ==
  /\ reader.at = "merge"
  /\ page' = mergeMemories(reader.rows, feedMemories(reader.city)) /\ reader' = Idle
  /\ UNCHANGED <<intake, rows, store, post, outbox, hub, site, load, edits, faults, reviewed>>

\* GET /api/memories/:id: the published memory, else the local row.
Show(m) ==
  /\ reader.at = "idle"
  /\ IF useFeed /\ site[m] # None
     THEN page' = [local |-> {}, feed |-> {m}] /\ UNCHANGED reader
     ELSE reader' = [at |-> "row", mem |-> m] /\ UNCHANGED page
  /\ UNCHANGED <<intake, rows, store, post, outbox, hub, site, load, edits, faults, reviewed>>

publicById(m) == IF useDb /\ Approved(m) THEN {m} ELSE {}

LocalRow ==
  /\ reader.at = "row"
  /\ page' = [local |-> publicById(reader.mem), feed |-> {}] /\ reader' = Idle
  /\ UNCHANGED <<intake, rows, store, post, outbox, hub, site, load, edits, faults, reviewed>>

\* GET /api/memories/:id/photo: the cleaned file of the published memory, else the local one.
Photo(m) ==
  /\ reader.at = "idle"
  /\ reader' = [at |-> IF useFeed /\ site[m] # None /\ site[m].file THEN "fetch" ELSE "path", mem |-> m]
  /\ UNCHANGED <<intake, rows, store, post, outbox, hub, site, load, page, edits, faults, reviewed>>

FetchPhoto ==
  /\ reader.at = "fetch"
  /\ \/ page' = [local |-> {}, feed |-> {reader.mem}] /\ reader' = Idle /\ NoFault
     \/ reader' = [reader EXCEPT !.at = "path"] /\ UNCHANGED page /\ Fault
  /\ UNCHANGED <<intake, rows, store, post, outbox, hub, site, load, edits, reviewed>>

photoPath(m) == IF useDb /\ Approved(m) /\ rows[m].file /\ downloadPhoto(m) THEN {m} ELSE {}

LocalPhoto ==
  /\ reader.at = "path"
  /\ page' = [local |-> photoPath(reader.mem), feed |-> {}] /\ reader' = Idle
  /\ UNCHANGED <<intake, rows, store, post, outbox, hub, site, load, edits, faults, reviewed>>

(* The process *)

\* A restart: submissions and requests in flight are gone, and so is the copy of the feed, which is kept in memory.
Fresh ==
  /\ post' = [m \in Mems |-> IF post[m] \in {"file", "text"} THEN "failed" ELSE post[m]]
  /\ site' = [m \in Mems |-> None] /\ load' = NoLoad
  /\ reader' = Idle /\ page' = NoPage
  /\ outbox' = [m \in Mems |-> IF outbox[m] \in {"purge", "purge_row"} THEN "sent" ELSE outbox[m]]

Restart == Fault /\ Fresh /\ UNCHANGED <<intake, rows, store, hub, edits, reviewed>>

\* The hub is connected: the server starts again with its address and key.
Connect == ~intake /\ intake' = TRUE /\ Fresh /\ UNCHANGED <<rows, store, hub, edits, faults, reviewed>>

Submission(m) == StoreFile(m) \/ SubmitText(m) \/ Insert(m)
Moderation(m) == Approve(m) \/ Reject(m)
Forwarding(m) == Export(m) \/ Forward(m) \/ PurgeFile(m) \/ PurgeRow(m)
Refresh == StartLoad \/ ReadFeed \/ LoadDone
Answer == Merge \/ LocalRow \/ FetchPhoto \/ LocalPhoto

Next ==
  \/ \E m \in Mems : Submission(m) \/ Moderation(m) \/ Forwarding(m) \/ Publish(m) \/ Withdraw(m) \/ Show(m) \/ Photo(m)
  \/ Refresh \/ LoadFails \/ Answer \/ Restart \/ Connect
  \/ \E c \in Cities \cup {None} : List(c)

Spec == Init /\ [][Next]_vars

\* setInterval(refreshFeed) runs for the life of the process, and a load ends: every fetch has a timeout.
FairSpec == Spec /\ WF_vars(Refresh)

-----------------------------------------------------------------------------
(* Properties *)

\* What a public route answers was approved here or published by the hub, in every mode and whatever is being
\* submitted, moderated, forwarded or withdrawn while the answer is put together (routes/memories.js).
ReviewedOnly == page.local \cup page.feed \subseteq reviewed

\* A public row that says it has a file has one: it was stored before the row, and what the relay deletes after
\* forwarding is never a file the map still serves.
PublicFileIsThere == \A m \in Mems : Approved(m) /\ rows[m].file => m \in store

\* The site comes to serve what the hub publishes, whichever loads fail and whichever nudges meet a load in flight.
EventuallyServed == <>[](site = hub)

-----------------------------------------------------------------------------
(* Statements of the documentation that the code does not keep *)

\* "a feed copy of a migrated memory replaces the local one" (backend/README.md:43).
ReplacedByFeed == [][reader.at = "merge" /\ page' # page => \A m \in page'.local : site[m] = None]_vars
=============================================================================

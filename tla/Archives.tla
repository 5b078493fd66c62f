------------------------------ MODULE Archives ------------------------------
(***************************************************************************)
(* The legacy archive of the community map: the `archives` table as a job  *)
(* queue, the archive worker that captures links with ArchiveBox, auto-    *)
(* archiver and the Wayback Machine, its three sweeps over ArchiveBox's    *)
(* index, and the editorial gate of the Archive API (worker/*.js,          *)
(* backend/db.js, backend/routes/archive.js, backend/routes/materials.js). *)
(*                                                                         *)
(* A copy is the number of the capture that made it, 0 where there is      *)
(* none; the fingerprint of a row is the number of the copy it hashes.     *)
(* Titles, places and topics are left out.  created_at is a date, so rows  *)
(* of one day are claimed in any order.                                    *)
(***************************************************************************)
EXTENDS Naturals, FiniteSets

CONSTANTS
  Links,
  Social,       \* links of a social platform
  JobIds,       \* rows POST /api/archive may insert
  SweepIds,     \* rows the sweeps may insert
  Outcomes,     \* what a capture of ArchiveBox may be: content, archive_org, a login or bot wall
  Workers,      \* worker processes
  MayStrand,    \* the statement that records a failed job, or takes back a stuck row, may fail itself
  MaxAttempts,  \* MAX_ATTEMPTS
  MaxClaims,    \* bound: a row is not retried by hand after this many claims
  MaxCaptures,  \* bound: captures that leave something
  MaxFaults,    \* bound: deaths, and statements and docker commands that fail
  None

ASSUME ArchivesAssumption ==
  /\ Social \subseteq Links /\ JobIds \cap SweepIds = {}
  /\ None \notin Links \cup JobIds \cup SweepIds
  /\ MayStrand \in BOOLEAN
  /\ Outcomes \subseteq {o \in [content : BOOLEAN, ia : BOOLEAN, wall : BOOLEAN] : o.wall => o.content}
  /\ {MaxAttempts, MaxClaims, MaxCaptures, MaxFaults} \subseteq Nat

VARIABLES
  rows,    \* archives
  box,     \* ArchiveBox's index: the snapshots of each link
  worker,  \* drainQueue: where each process is, with which job and results
  sweep,   \* reconcileLoop: where each process is
  taken,   \* captures taken so far
  faults   \* faults so far

vars == <<rows, box, worker, sweep, taken, faults>>

Ids == JobIds \cup SweepIds
Tools == {"archive-box", "auto-archiver"}
Statuses == {"pending", "running", "archived", "partial", "failed"}
Copies == 0..MaxCaptures
Row == [link : Links, tool : Tools, status : Statuses, attempts : 0..(MaxClaims + MaxFaults),
        wayback : Copies, local : Copies, sha : Copies, approved : BOOLEAN]

\* A snapshot: a content extractor succeeded, archive_org succeeded, the content is a login or bot wall, tagged so.
Snapshot == [n : Copies, content : BOOLEAN, ia : BOOLEAN, wall : BOOLEAN, tagged : BOOLEAN]

Exists(id) == rows[id] # None
FreeJob(id) == id \in JobIds /\ ~Exists(id) /\ \A w \in Workers : worker[w].job # id
FreeSweep(id) == id \in SweepIds /\ ~Exists(id)

\* What the public Materials API and a case's page show; the link they show prefers the Wayback copy.
Public(r) == r # None /\ r.approved /\ r.status \in {"archived", "partial"}
Shown(r) == IF r.wayback # 0 THEN r.wayback ELSE r.local

Latest(S) == CHOOSE s \in S : \A t \in S : t.n <= s.n
HasContent(S) == {s \in S : s.content}

\* Mutant: the first snapshot of a link is kept, a later one is not looked at.
FirstListing ==
  LET First(S) == CHOOSE s \in S : \A t \in S : s.n <= t.n
  IN {[link |-> l, local |-> First(HasContent(box[l])).n,
       wayback |-> IF First(HasContent(box[l])).ia THEN First(HasContent(box[l])).n ELSE 0] :
        l \in {k \in Links : HasContent(box[k]) # {}}}

\* listCapturedUrls: per link the latest snapshot with content.
Listing == {[link |-> l, local |-> Latest(HasContent(box[l])).n,
             wayback |-> IF Latest(HasContent(box[l])).ia THEN Latest(HasContent(box[l])).n ELSE 0] :
              l \in {k \in Links : HasContent(box[k]) # {}}}

NoJob == [at |-> "poll", job |-> None, link |-> None, tool |-> None,
          tried |-> 0, ok |-> 0, wayback |-> 0, local |-> 0]
Down == [NoJob EXCEPT !.at = "down"]
Asleep == [at |-> "sleep", todo |-> {}, cur |-> None]
Off == [Asleep EXCEPT !.at = "off"]

Init ==
  /\ rows = [id \in Ids |-> None]
  /\ box = [l \in Links |-> {}]
  /\ worker = [w \in Workers |-> Down]
  /\ sweep = [w \in Workers |-> Off]
  /\ taken = 0 /\ faults = 0

Fault == faults < MaxFaults /\ faults' = faults + 1
NoFault == UNCHANGED faults
Take == taken < MaxCaptures /\ taken' = taken + 1

(* The queries of worker/db.js and backend/db.js *)

NewJob(l, t) == [link |-> l, tool |-> t, status |-> "pending", attempts |-> 0,
                 wayback |-> 0, local |-> 0, sha |-> 0, approved |-> FALSE]
Backfilled(l, t, wb, lc) ==
  [NewJob(l, t) EXCEPT !.status = "archived", !.wayback = wb, !.local = lc]

claimNext(id) == [rows EXCEPT ![id].status = "running", ![id].attempts = rows[id].attempts + 1]

\* The fingerprint keeps its old value when there is no new one; the copies do not.
Completed(r, out, hash) ==
  [r EXCEPT !.wayback = out.wayback, !.local = out.local,
            !.status = IF out.ok = out.tried THEN "archived" ELSE "partial",
            !.sha = IF hash # 0 THEN hash ELSE @]

complete(id, out, hash) ==
  IF Exists(id) THEN [rows EXCEPT ![id] = Completed(@, out, hash)] ELSE rows

fail(id) == IF Exists(id) THEN [rows EXCEPT ![id].status = "failed"] ELSE rows

\* Mutant: a row that used up its attempts is left alone.
recoverBelowLimit ==
  [id \in Ids |->
     IF Exists(id) /\ rows[id].status = "running" /\ rows[id].attempts < MaxAttempts
     THEN [rows[id] EXCEPT !.status = "pending"] ELSE rows[id]]

recoverStuck ==
  [id \in Ids |->
     IF Exists(id) /\ rows[id].status = "running"
     THEN [rows[id] EXCEPT !.status = IF rows[id].attempts >= MaxAttempts THEN "failed" ELSE "pending"]
     ELSE rows[id]]

\* Mutant: only rows submitted through the API are looked at.
hasWaybackInQueue(l) == \E id \in JobIds : Exists(id) /\ rows[id].link = l /\ rows[id].wayback # 0

hasWaybackFor(l) == \E id \in Ids : Exists(id) /\ rows[id].link = l /\ rows[id].wayback # 0
hasBeenArchivedBy(l, t) == \E id \in Ids : Exists(id) /\ rows[id].link = l /\ rows[id].tool = t

insertBackfilled(row) == \E id \in SweepIds : FreeSweep(id) /\ rows' = [rows EXCEPT ![id] = row]

(* The Archive API *)

Submit ==
  /\ \E id \in JobIds, l \in Links, t \in Tools : FreeJob(id) /\ rows' = [rows EXCEPT ![id] = NewJob(l, t)]
  /\ UNCHANGED <<box, worker, sweep, taken, faults>>

Approve(id) ==
  /\ Exists(id) /\ rows[id].status \in {"archived", "partial"}
  /\ rows' = [rows EXCEPT ![id].approved = TRUE]
  /\ UNCHANGED <<box, worker, sweep, taken, faults>>

Reject(id) ==
  /\ Exists(id)
  /\ rows' = [rows EXCEPT ![id].approved = FALSE]
  /\ UNCHANGED <<box, worker, sweep, taken, faults>>

Retry(id) ==
  /\ Exists(id) /\ rows[id].status \in {"failed", "partial"}
  /\ rows[id].attempts < MaxClaims
  /\ rows' = [rows EXCEPT ![id].status = "pending"]
  /\ UNCHANGED <<box, worker, sweep, taken, faults>>

Delete(id) ==
  /\ Exists(id)
  /\ rows' = [rows EXCEPT ![id] = None]
  /\ UNCHANGED <<box, worker, sweep, taken, faults>>

\* ArchiveBox captures a link: any extractor may fail, and what was captured may be a wall.
Capture(l) ==
  /\ Take
  /\ \E o \in Outcomes :
       box' = [box EXCEPT ![l] = @ \cup
         {[n |-> taken', content |-> o.content, ia |-> o.ia, wall |-> o.wall, tagged |-> FALSE]}]

\* Somebody adds a link in ArchiveBox's own admin or browser extension.
AddDirectly(l) == Capture(l) /\ UNCHANGED <<rows, worker, sweep, faults>>

(* The worker *)

\* One archiver of a job: it fails, or leaves copies.
Tried(out) == [out EXCEPT !.tried = @ + 1]
TryStep(out, r) ==
  [Tried(out) EXCEPT !.ok = @ + 1,
                     !.wayback = IF @ # 0 THEN @ ELSE r.wayback,
                     !.local = IF @ # 0 THEN @ ELSE r.local]

Go(w, st) == worker' = [worker EXCEPT ![w] = st]
At(w, place) == worker[w].at = place

\* main: rows a dead worker left 'running' are taken back, unless that statement fails.
Boot(w) ==
  /\ At(w, "down")
  /\ \/ rows' = recoverStuck /\ NoFault
     \/ MayStrand /\ UNCHANGED rows /\ Fault
  /\ Go(w, NoJob) /\ sweep' = [sweep EXCEPT ![w] = Asleep]
  /\ UNCHANGED <<box, taken>>

Claim(w, id) ==
  /\ At(w, "poll")
  /\ Exists(id) /\ rows[id].status = "pending"
  /\ rows' = claimNext(id)
  /\ Go(w, [NoJob EXCEPT !.at = "capture", !.job = id, !.link = rows[id].link, !.tool = rows[id].tool])
  /\ UNCHANGED <<box, sweep, taken, faults>>

\* Mutant: a run that printed success but no link counts.
ArtifactsOrNone == [wayback : {0, taken + 1}, local : {0, taken + 1}]

\* auto-archiver: a run without an artifact counts as failed.
Artifacts == {r \in [wayback : {0, taken + 1}, local : {0, taken + 1}] : r.wayback + r.local # 0}

AutoArchive(w) ==
  /\ At(w, "capture") /\ worker[w].tool = "auto-archiver"
  /\ \/ UNCHANGED taken /\ Go(w, [Tried(worker[w]) EXCEPT !.at = "wayback"])
     \/ Take /\ \E r \in Artifacts : Go(w, [TryStep(worker[w], r) EXCEPT !.at = "wayback"])
  /\ UNCHANGED <<rows, box, sweep, faults>>

SaveToWayback(w) ==
  /\ At(w, "wayback")
  /\ \/ UNCHANGED taken /\ Go(w, [Tried(worker[w]) EXCEPT !.at = "store"])
     \/ Take /\ Go(w, [TryStep(worker[w], [wayback |-> taken', local |-> 0]) EXCEPT !.at = "store"])
  /\ UNCHANGED <<rows, box, sweep, faults>>

\* docker exec archivebox add: the snapshot is in the index before the worker reads it back.
BoxAdd(w) ==
  /\ At(w, "capture") /\ worker[w].tool = "archive-box"
  /\ \/ UNCHANGED <<box, taken>> /\ Go(w, [Tried(Tried(worker[w])) EXCEPT !.at = "store"])
     \/ Capture(worker[w].link) /\ Go(w, [worker[w] EXCEPT !.at = "readback"])
  /\ UNCHANGED <<rows, sweep, faults>>

\* archive: the copies of the latest snapshot if it has content, and the Wayback step of an archive-box job.
BoxRead(w) ==
  LET s == Latest(box[worker[w].link])
      wb == IF s.ia THEN s.n ELSE 0
      out == TryStep(worker[w], [wayback |-> wb, local |-> s.n])
      both == IF out.wayback # 0 THEN [Tried(out) EXCEPT !.ok = @ + 1] ELSE Tried(out)
  IN /\ At(w, "readback")
     /\ Go(w, [(IF s.content THEN both ELSE Tried(Tried(worker[w]))) EXCEPT !.at = "store"])
     /\ UNCHANGED <<rows, box, sweep, taken, faults>>

\* sha256OfUrl: the hash of the copy, or none if it cannot be fetched or is too large.
Hash(out) == {0, IF out.local # 0 THEN out.local ELSE out.wayback}

Store(w) ==
  LET out == worker[w] IN
  /\ At(w, "store")
  /\ \/ out.ok = 0 /\ UNCHANGED rows /\ NoFault /\ Go(w, [out EXCEPT !.at = "fail"])
     \/ out.ok > 0 /\ UNCHANGED rows /\ Fault /\ Go(w, [out EXCEPT !.at = "fail"])
     \/ /\ out.ok > 0 /\ NoFault /\ Go(w, NoJob)
        /\ \E hash \in Hash(out) : rows' = complete(out.job, out, hash)
  /\ UNCHANGED <<box, sweep, taken>>

\* drainQueue: a job that failed is recorded; if that fails too, its row stays 'running' until the next start.
Fail(w) ==
  /\ At(w, "fail") /\ Go(w, NoJob)
  /\ \/ rows' = fail(worker[w].job) /\ NoFault
     \/ MayStrand /\ UNCHANGED rows /\ Fault
  /\ UNCHANGED <<box, sweep, taken>>

Die(w) ==
  /\ ~At(w, "down") /\ Fault
  /\ Go(w, Down) /\ sweep' = [sweep EXCEPT ![w] = Off]
  /\ UNCHANGED <<rows, box, taken>>

(* The sweeps, in the same process as the queue *)

SweepAt(w, place) == sweep[w].at = place
SweepTo(w, st) == sweep' = [sweep EXCEPT ![w] = st]
Keep(w, place) == [at |-> place, todo |-> sweep[w].todo, cur |-> None]

\* A sweep starts with the list of what ArchiveBox holds; a list that fails ends it.
ListFor(w, from, to, next) ==
  /\ SweepAt(w, from)
  /\ \/ SweepTo(w, [at |-> to, todo |-> Listing, cur |-> None]) /\ NoFault
     \/ SweepTo(w, [at |-> next, todo |-> {}, cur |-> None]) /\ Fault
  /\ UNCHANGED <<rows, box, worker, taken>>

Listed(w) == ListFor(w, "sleep", "reconcile", "resocial")
SocialListed(w) == ListFor(w, "resocial", "social", "botwall")

\* reconcileWayback: skip what archive_org has not saved or a row has a Wayback link for.
Reconcile(w) ==
  /\ SweepAt(w, "reconcile")
  /\ \/ /\ sweep[w].todo = {}
        /\ SweepTo(w, [at |-> "resocial", todo |-> {}, cur |-> None])
     \/ \E e \in sweep[w].todo :
          SweepTo(w, [at |-> IF e.wayback = 0 \/ hasWaybackFor(e.link) THEN "reconcile" ELSE "record",
                      todo |-> sweep[w].todo \ {e},
                      cur |-> IF e.wayback = 0 \/ hasWaybackFor(e.link) THEN None ELSE e])
  /\ UNCHANGED <<rows, box, worker, taken, faults>>

Record(w) ==
  LET e == sweep[w].cur IN
  /\ SweepAt(w, "record") /\ SweepTo(w, Keep(w, "reconcile"))
  /\ \/ insertBackfilled(Backfilled(e.link, "archive-box", e.wayback, e.local)) /\ NoFault
     \/ UNCHANGED rows /\ Fault
  /\ UNCHANGED <<box, worker, taken>>

\* socialSweep: what auto-archiver has no row for is captured, and sent to the Wayback Machine if it was not.
SocialCheck(w) ==
  /\ SweepAt(w, "social")
  /\ \/ /\ sweep[w].todo = {}
        /\ SweepTo(w, [at |-> "botwall", todo |-> {}, cur |-> None])
     \/ \E e \in sweep[w].todo :
          LET skip == e.link \notin Social \/ hasBeenArchivedBy(e.link, "auto-archiver")
          IN SweepTo(w, [at |-> IF skip THEN "social" ELSE "archive", todo |-> sweep[w].todo \ {e},
                         cur |-> IF skip THEN None ELSE e])
  /\ UNCHANGED <<rows, box, worker, taken, faults>>

SocialArchive(w) ==
  /\ SweepAt(w, "archive")
  /\ \/ UNCHANGED taken /\ SweepTo(w, Keep(w, "social"))
     \/ Take /\ \E r \in Artifacts :
          \E saved \in IF r.wayback # 0 THEN {r.wayback} ELSE {0, taken'} :
            SweepTo(w, [sweep[w] EXCEPT !.at = "insert", !.cur.wayback = saved, !.cur.local = r.local])
  /\ UNCHANGED <<rows, box, worker, faults>>

SocialInsert(w) ==
  LET e == sweep[w].cur IN
  /\ SweepAt(w, "insert")
  /\ \/ /\ insertBackfilled(Backfilled(e.link, "auto-archiver", e.wayback, e.local)) /\ NoFault
        /\ SweepTo(w, [sweep[w] EXCEPT !.at = IF e.local # 0 THEN "inject" ELSE "social",
                                        !.cur = IF e.local # 0 THEN e ELSE None])
     \/ UNCHANGED rows /\ Fault /\ SweepTo(w, Keep(w, "social"))
  /\ UNCHANGED <<box, worker, taken>>

\* The latest snapshot of the link gets a screenshot that counts as content, whichever snapshot was listed.
injectScreenshot(l) ==
  LET s == Latest(box[l]) IN [box EXCEPT ![l] = (@ \ {s}) \cup {[s EXCEPT !.content = TRUE]}]

\* It may fail, or the artifact is not an image.
Inject(w) ==
  /\ SweepAt(w, "inject") /\ SweepTo(w, Keep(w, "social"))
  /\ box' \in {box, injectScreenshot(sweep[w].cur.link)}
  /\ UNCHANGED <<rows, worker, taken, faults>>

\* The script run inside ArchiveBox: every snapshot whose content is a wall is tagged.
TagWalls == [l \in Links |-> {[s EXCEPT !.tagged = s.wall] : s \in box[l]}]

BotWall(w) ==
  /\ SweepAt(w, "botwall") /\ SweepTo(w, Asleep)
  /\ \/ box' = TagWalls /\ NoFault
     \/ UNCHANGED box /\ Fault
  /\ UNCHANGED <<rows, worker, taken>>

QueueStep(w) ==
  Boot(w) \/ (\E id \in Ids : Claim(w, id)) \/ AutoArchive(w) \/ SaveToWayback(w) \/ BoxAdd(w) \/ BoxRead(w) \/ Store(w) \/ Fail(w)

SweepStep(w) ==
  \/ Listed(w) \/ SocialListed(w) \/ Reconcile(w) \/ Record(w)
  \/ SocialCheck(w) \/ SocialArchive(w) \/ SocialInsert(w) \/ Inject(w) \/ BotWall(w)

Next ==
  \/ Submit
  \/ \E id \in Ids : Approve(id) \/ Reject(id) \/ Retry(id) \/ Delete(id)
  \/ \E l \in Links : AddDirectly(l)
  \/ \E w \in Workers : QueueStep(w) \/ Die(w) \/ SweepStep(w)

Spec == Init /\ [][Next]_vars

\* The container restarts unless stopped, and both loops of the process go on whatever fails.
FairSpec == Spec /\ \A w \in Workers : WF_vars(QueueStep(w)) /\ WF_vars(SweepStep(w))

-----------------------------------------------------------------------------
(* Properties *)

\* The status of a row says what there is: 'archived' and 'partial' have a copy to show, and a job whose archivers
\* all succeeded has a Wayback copy, and with ArchiveBox a local one (worker/index.js:15-17).
StatusTruthful ==
  \A id \in Ids : Exists(id) =>
    /\ rows[id].status \in {"archived", "partial"} => Shown(rows[id]) # 0
    /\ rows[id].status = "archived" /\ id \in JobIds =>
         rows[id].wayback # 0 /\ (rows[id].tool = "archive-box" => rows[id].local # 0)

\* The sweeps run again and again over the same index and record a link once for each tool.
RecordedOnce ==
  \A i, j \in SweepIds :
    i # j /\ Exists(i) /\ Exists(j) => <<rows[i].link, rows[i].tool>> # <<rows[j].link, rows[j].tool>>

\* A queued job ends, whatever fails and whenever the worker dies, unless its row is deleted.
Settles ==
  \A id \in JobIds :
    (Exists(id) /\ rows[id].status = "pending") ~>
      (~Exists(id) \/ rows[id].status \in {"archived", "partial", "failed"})

\* What was added directly in ArchiveBox and saved by archive_org gets a row, while it is the latest snapshot of its
\* link with content, and whatever is deleted in the meantime.
LatestSaved(l) == HasContent(box[l]) # {} /\ Latest(HasContent(box[l])).ia
DirectlyAddedIsFound ==
  \A l \in Links : LatestSaved(l) ~> (hasWaybackFor(l) \/ ~LatestSaved(l))

-----------------------------------------------------------------------------
(* Statements of the code that its runs do not keep *)

\* The fingerprint of a material is the hash of the copy readers get (worker/integrity.js:3-10).
FingerprintOfCopy ==
  \A id \in Ids : Exists(id) /\ rows[id].sha # 0 /\ rows[id].status \in {"archived", "partial"} =>
    rows[id].sha \in {rows[id].local, rows[id].wayback}
=============================================================================

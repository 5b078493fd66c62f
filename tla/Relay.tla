-------------------------------- MODULE Relay --------------------------------
(***************************************************************************)
(* How a memory submitted to the community map reaches the hub: it is      *)
(* written with an outbox row in one transaction, a relay forwards the     *)
(* text and then the file to the hub's Intake API, and when the hub has    *)
(* confirmed the file's hash the local copy is deleted (backend/hub.js,    *)
(* backend/lib/hub-client.js; on the hub, intake.py).                      *)
(*                                                                         *)
(* A request carries a memory: its text, or its one file.  Signatures,     *)
(* nonces (fresh for each request) and contents are left out: retries read *)
(* the same row and the same file, so every request for a memory carries   *)
(* the same bytes and the hash the hub answers is the hash of the file.    *)
(***************************************************************************)
EXTENDS Naturals

CONSTANTS
  Memories,    \* by the id of their outbox row, the order the relay takes them in
  WithFile,    \* memories with a photo, video or document
  Legacy,      \* memories published on the map before the hub: kept, and queued by export-to-hub.js
  RefusedText, \* submissions the hub answers with a 4xx other than 401 and 429 (call: err.retryable)
  RefusedFile, \* files the hub does not accept
  Procs,       \* processes with a relay loop: the backend, export-to-hub.js
  None,
  MayOutlive,  \* an attempt can outlive its lease of five minutes
  MaxFaults    \* bound: requests not answered in time, failed statements, failed deletes and deaths

ASSUME RelayAssumption ==
  /\ Memories \subseteq Nat
  /\ WithFile \subseteq Memories /\ Legacy \subseteq Memories
  /\ RefusedText \subseteq Memories /\ RefusedFile \subseteq WithFile
  /\ None \notin Procs
  /\ MayOutlive \in BOOLEAN /\ MaxFaults \in Nat

VARIABLES
  row,     \* memories: the row of the map's database
  file,    \* the file in the map's storage
  outbox,  \* hub_outbox.state
  due,     \* outbox rows whose next_try_at has passed
  relay,   \* where each relay loop is, and with which memory
  net,     \* requests under way, and answers not read yet
  intake,  \* capture.intake: memories the hub has a submission of
  blob,    \* files in the hub's storage
  stored,  \* capture.intake_files: files in state 'stored'
  faults   \* faults so far

hubVars == <<intake, blob, stored>>
localVars == <<row, file, outbox, due>>
vars == <<localVars, relay, net, hubVars, faults>>

Stages == {"build", "submit", "upload", "mark", "unlink", "forget", "retry", "fatal"}
Idle == [at |-> "idle", mem |-> None]
Requests == [kind : {"submit", "upload"}, mem : Memories, by : Procs \cup {None},
             phase : {"sent", "put", "answered", "refused"}]

Refused == RefusedText \cup RefusedFile

\* The hub has the memory: the submission and, if there is one, the file.
AtHub(m) == m \in intake /\ (m \in WithFile => m \in stored /\ m \in blob)

\* The map has it: the row and, if there is one, the file.
OnTheMap(m) == row[m] = "there" /\ (m \in WithFile => file[m] = "there")

Held(m) == \E p \in Procs : relay[p].at # "idle" /\ relay[p].mem = m

Init ==
  /\ row = [m \in Memories |-> IF m \in Legacy THEN "there" ELSE "none"]
  /\ file = [m \in Memories |-> IF m \in Legacy \cap WithFile THEN "there" ELSE "none"]
  /\ outbox = [m \in Memories |-> "none"]
  /\ due = {}
  /\ relay = [p \in Procs |-> Idle]
  /\ net = {}
  /\ intake = {} /\ blob = {} /\ stored = {}
  /\ faults = 0

-----------------------------------------------------------------------------
(* The map *)

\* POST /api/memories stores the file first; the request can end before the insert.
StoreFile(m) ==
  /\ m \in WithFile /\ row[m] = "none" /\ file[m] = "none"
  /\ file' = [file EXCEPT ![m] = "there"]
  /\ UNCHANGED <<row, outbox, due, relay, net, hubVars, faults>>

\* Mutant: The row is inserted without its outbox row (it was to follow in a second transaction).
InsertAlone(m) ==
  /\ row[m] = "none"
  /\ m \in WithFile => file[m] = "there"
  /\ row' = [row EXCEPT ![m] = "there"]
  /\ UNCHANGED <<file, outbox, due, relay, net, hubVars, faults>>

\* insertMemory: the memory and its outbox row, in one transaction.
InsertMemory(m) ==
  /\ row[m] = "none"
  /\ m \in WithFile => file[m] = "there"
  /\ row' = [row EXCEPT ![m] = "there"]
  /\ outbox' = [outbox EXCEPT ![m] = "pending"]
  /\ due' = due \cup {m}
  /\ UNCHANGED <<file, relay, net, hubVars, faults>>

\* enqueue, for a memory that is public already. Queued once, whatever became of it.
Enqueue(m) ==
  /\ m \in Legacy /\ row[m] = "there" /\ outbox[m] = "none"
  /\ outbox' = [outbox EXCEPT ![m] = "pending"]
  /\ due' = due \cup {m}
  /\ UNCHANGED <<row, file, relay, net, hubVars, faults>>

\* next_try_at passes: after the back-off, or when the lease ends. An attempt is over by then unless MayOutlive.
NextTry(m) ==
  /\ outbox[m] = "pending" /\ m \notin due
  /\ MayOutlive \/ ~Held(m)
  /\ due' = due \cup {m}
  /\ UNCHANGED <<row, file, outbox, relay, net, hubVars, faults>>

-----------------------------------------------------------------------------
(* The relay loop: one per process (`relaying`), over the rows that are due *)

Goto(p, stage) == relay' = [relay EXCEPT ![p].at = stage]
Rest(p) == relay' = [relay EXCEPT ![p] = Idle]
Request(p, m, kind) == [kind |-> kind, mem |-> m, by |-> p, phase |-> "sent"]

\* The first due row, leased for five minutes.
Claim(p, m) ==
  /\ relay[p].at = "idle"
  /\ outbox[m] = "pending" /\ m \in due
  /\ \A n \in Memories : outbox[n] = "pending" /\ n \in due => m <= n
  /\ due' = due \ {m}
  /\ relay' = [relay EXCEPT ![p] = [at |-> "build", mem |-> m]]
  /\ UNCHANGED <<row, file, outbox, net, hubVars, faults>>

\* buildEnvelope reads the row and the file; then the submission is sent.
Build(p) ==
  LET m == relay[p].mem IN
  /\ relay[p].at = "build"
  /\ row[m] = "there"
  /\ m \in WithFile => file[m] = "there"
  /\ net' = net \cup {Request(p, m, "submit")}
  /\ Goto(p, "submit")
  /\ UNCHANGED <<localVars, hubVars, faults>>

\* The file is not there to read.
FileGone(p) ==
  /\ relay[p].at = "build"
  /\ row[relay[p].mem] = "there"
  /\ relay[p].mem \in WithFile /\ file[relay[p].mem] # "there"
  /\ Goto(p, "retry")
  /\ UNCHANGED <<localVars, net, hubVars, faults>>

\* 'source row gone'.
RowGone(p) ==
  /\ relay[p].at = "build"
  /\ row[relay[p].mem] # "there"
  /\ outbox' = [outbox EXCEPT ![relay[p].mem] = "failed"]
  /\ Rest(p)
  /\ UNCHANGED <<row, file, due, net, hubVars, faults>>

\* Mutant: the text taken by the hub is taken for all of the memory.
SubmittedIsEnough(p) ==
  \E r \in net :
    /\ relay[p].at = "submit" /\ r.by = p /\ r.phase = "answered"
    /\ net' = net \ {r}
    /\ Goto(p, "mark")
    /\ UNCHANGED <<localVars, hubVars, faults>>

\* The submission was taken: the file comes next, if there is one.
Submitted(p) ==
  \E r \in net :
    /\ relay[p].at = "submit" /\ r.by = p /\ r.phase = "answered"
    /\ IF r.mem \in WithFile
         THEN net' = (net \ {r}) \cup {Request(p, r.mem, "upload")} /\ Goto(p, "upload")
         ELSE net' = net \ {r} /\ Goto(p, "mark")
    /\ UNCHANGED <<localVars, hubVars, faults>>

\* The hub stored the file and answered its hash.
Uploaded(p) ==
  \E r \in net :
    /\ relay[p].at = "upload" /\ r.by = p /\ r.phase = "answered"
    /\ net' = net \ {r}
    /\ Goto(p, "mark")
    /\ UNCHANGED <<localVars, hubVars, faults>>

\* A 4xx that is final: any but 401 and 429, as call marks it before the catch of relay sees it.
Rejected(p) ==
  \E r \in net :
    /\ relay[p].at \in {"submit", "upload"} /\ r.by = p /\ r.phase = "refused"
    /\ net' = net \ {r}
    /\ Goto(p, "fatal")
    /\ UNCHANGED <<localVars, hubVars, faults>>

\* state = 'sent'; a legacy memory stays on the map.
MarkSent(p) ==
  LET m == relay[p].mem IN
  /\ relay[p].at = "mark"
  /\ outbox' = [outbox EXCEPT ![m] = "sent"]
  /\ CASE m \in Legacy            -> Rest(p)
       [] m \in WithFile \ Legacy -> Goto(p, "unlink")
       [] OTHER                   -> Goto(p, "forget")
  /\ UNCHANGED <<row, file, due, net, hubVars, faults>>

\* deleteFile.
Unlink(p) ==
  /\ relay[p].at = "unlink"
  /\ file' = [file EXCEPT ![relay[p].mem] = "deleted"]
  /\ Goto(p, "forget")
  /\ UNCHANGED <<row, outbox, due, net, hubVars, faults>>

\* DELETE FROM memories. Nothing else deletes a row or approves one while the intake is on.
Forget(p) ==
  /\ relay[p].at = "forget"
  /\ row' = [row EXCEPT ![relay[p].mem] = "gone"]
  /\ Rest(p)
  /\ UNCHANGED <<file, outbox, due, net, hubVars, faults>>

\* The catch block: the row is due again after the back-off, or is not tried again. It writes by id, whatever
\* the state is by now.
Catch(p) ==
  LET m == relay[p].mem IN
  /\ relay[p].at \in {"retry", "fatal"}
  /\ outbox' = [outbox EXCEPT ![m] = IF relay[p].at = "fatal" THEN "failed" ELSE "pending"]
  /\ due' = due \ {m}
  /\ Rest(p)
  /\ UNCHANGED <<row, file, net, hubVars, faults>>

-----------------------------------------------------------------------------
(* The hub *)

\* An answer is kept for a process that waits for it.
Answer(r, phase) ==
  net' = (net \ {r}) \cup (IF r.by = None THEN {} ELSE {[r EXCEPT !.phase = phase]})

\* submit: the check for the external_id and the insert are one transaction under an advisory lock.
HubSubmit(r) ==
  /\ r.kind = "submit" /\ r.phase = "sent"
  /\ IF r.mem \in RefusedText
       THEN Answer(r, "refused") /\ UNCHANGED intake
       ELSE Answer(r, "answered") /\ intake' = intake \cup {r.mem}
  /\ UNCHANGED <<localVars, relay, blob, stored, faults>>

\* upload_file, with the row of the file locked from here on.
FileLocked(m) == \E r \in net : r.kind = "upload" /\ r.mem = m /\ r.phase = "put"

\* A file that was stored before is answered from its row.
HubDuplicate(r) ==
  /\ r.kind = "upload" /\ r.phase = "sent" /\ ~FileLocked(r.mem)
  /\ r.mem \in stored
  /\ Answer(r, "answered")
  /\ UNCHANGED <<localVars, relay, hubVars, faults>>

\* The row 'rejected' is rolled back by the 422 raised in its transaction.
HubRefuse(r) ==
  /\ r.kind = "upload" /\ r.phase = "sent" /\ ~FileLocked(r.mem)
  /\ r.mem \notin stored /\ r.mem \in RefusedFile
  /\ Answer(r, "refused")
  /\ UNCHANGED <<localVars, relay, hubVars, faults>>

\* Mutant: An error of the storage is swallowed: the row says stored, the file is not there.
PutOrNot(r) ==
  /\ r.kind = "upload" /\ r.phase = "sent" /\ ~FileLocked(r.mem)
  /\ r.mem \notin stored /\ r.mem \notin RefusedFile
  /\ blob' \in {blob, blob \cup {r.mem}}
  /\ net' = (net \ {r}) \cup {[r EXCEPT !.phase = "put"]}
  /\ UNCHANGED <<localVars, relay, intake, stored, faults>>

\* Mutant: A file whose type is not on the list is put in storage all the same.
PutAnyFile(r) ==
  /\ r.kind = "upload" /\ r.phase = "sent" /\ ~FileLocked(r.mem)
  /\ r.mem \notin stored
  /\ blob' = blob \cup {r.mem}
  /\ net' = (net \ {r}) \cup {[r EXCEPT !.phase = "put"]}
  /\ UNCHANGED <<localVars, relay, intake, stored, faults>>

\* The file is put in storage before its row says so.
HubPut(r) ==
  /\ r.kind = "upload" /\ r.phase = "sent" /\ ~FileLocked(r.mem)
  /\ r.mem \notin stored /\ r.mem \notin RefusedFile
  /\ blob' = blob \cup {r.mem}
  /\ net' = (net \ {r}) \cup {[r EXCEPT !.phase = "put"]}
  /\ UNCHANGED <<localVars, relay, intake, stored, faults>>

HubStore(r) ==
  /\ r.phase = "put"
  /\ stored' = stored \cup {r.mem}
  /\ Answer(r, "answered")
  /\ UNCHANGED <<localVars, relay, intake, blob, faults>>

\* A request nobody waits for does not arrive, or its handler dies and its transaction is rolled back.
HubDrop(r) ==
  /\ r.by = None
  /\ net' = net \ {r}
  /\ UNCHANGED <<localVars, relay, hubVars, faults>>

-----------------------------------------------------------------------------
(* Faults *)

Fault == faults < MaxFaults /\ faults' = faults + 1

\* p stops waiting: an answer is lost with the connection, a request under way may still be handled.
Abandon(p) ==
  net' = {r \in net : r.by # p}
           \cup {[r EXCEPT !.by = None] : r \in {q \in net : q.by = p /\ q.phase \in {"sent", "put"}}}

\* Mutant: An unanswered request is taken for a refusal.
TimeoutIsFatal(p) ==
  /\ Fault
  /\ relay[p].at \in {"submit", "upload"}
  /\ Abandon(p)
  /\ Goto(p, "fatal")
  /\ UNCHANGED <<localVars, hubVars>>

\* No answer within 60 s, a connection that breaks, a 5xx or a 429.
Timeout(p) ==
  /\ Fault
  /\ relay[p].at \in {"submit", "upload"}
  /\ Abandon(p)
  /\ Goto(p, "retry")
  /\ UNCHANGED <<localVars, hubVars>>

\* A statement fails, or is executed and its answer is lost; a file cannot be read.
StatementFails(p) ==
  /\ Fault
  /\ relay[p].at \in {"build", "mark", "forget"}
  /\ \/ UNCHANGED <<row, outbox>>
     \/ relay[p].at = "mark" /\ outbox' = [outbox EXCEPT ![relay[p].mem] = "sent"] /\ UNCHANGED row
     \/ relay[p].at = "forget" /\ row' = [row EXCEPT ![relay[p].mem] = "gone"] /\ UNCHANGED outbox
  /\ Goto(p, "retry")
  /\ UNCHANGED <<file, due, net, hubVars>>

\* deleteFile keeps its errors to itself.
UnlinkFails(p) ==
  /\ Fault
  /\ relay[p].at = "unlink"
  /\ Goto(p, "forget")
  /\ UNCHANGED <<localVars, net, hubVars>>

\* The process dies and is restarted, or the statement of the catch block fails. The lease stays.
Die(p) ==
  /\ Fault
  /\ relay[p].at # "idle"
  /\ Abandon(p)
  /\ Rest(p)
  /\ UNCHANGED <<localVars, hubVars>>

-----------------------------------------------------------------------------
RelayStep(p) ==
  \/ \E m \in Memories : Claim(p, m)
  \/ Build(p) \/ FileGone(p) \/ RowGone(p)
  \/ Submitted(p) \/ Uploaded(p) \/ Rejected(p)
  \/ MarkSent(p) \/ Unlink(p) \/ Forget(p) \/ Catch(p)

HubStep(r) == HubSubmit(r) \/ HubDuplicate(r) \/ HubRefuse(r) \/ HubPut(r) \/ HubStore(r)

Next ==
  \/ \E m \in Memories : StoreFile(m) \/ InsertMemory(m) \/ Enqueue(m) \/ NextTry(m)
  \/ \E p \in Procs : RelayStep(p)
  \/ \E r \in net : HubStep(r) \/ HubDrop(r)
  \/ \E p \in Procs : Timeout(p) \/ StatementFails(p) \/ UnlinkFails(p) \/ Die(p)

Spec == Init /\ [][Next]_vars

\* A loop that can go on does, time passes, and the hub handles the requests it has received.  The loop ticks
\* every ten seconds and the back-off of a row that fails grows from two minutes to six hours: a row that is
\* due again and again while others fail is claimed in between.
FairSpec ==
  /\ Spec
  /\ \A p \in Procs : WF_vars(RelayStep(p))
  /\ \A m \in Memories : WF_vars(NextTry(m))
  /\ \A m \in Memories : SF_vars(\E p \in Procs : Claim(p, m))
  /\ \A m \in Memories : WF_vars(\E r \in net : r.mem = m /\ HubStep(r))

-----------------------------------------------------------------------------
\* Every variable keeps its type; states and stages are those of the code.
TypeOK ==
  /\ row \in [Memories -> {"none", "there", "gone"}]
  /\ file \in [Memories -> {"none", "there", "deleted"}]
  /\ outbox \in [Memories -> {"none", "pending", "sent", "failed"}]
  /\ due \subseteq Memories
  /\ relay \in [Procs -> [at : Stages, mem : Memories] \cup {Idle}]
  /\ net \subseteq Requests
  /\ intake \subseteq Memories /\ blob \subseteq Memories /\ stored \subseteq Memories
  /\ faults \in Nat

\* Whatever fails, and whoever else forwards the same memory, an accepted memory is complete in one of two
\* places: on the map, with its file, or at the hub, with its file (hub.js deletes the local copy only then).
NothingLost ==
  \A m \in Memories : row[m] # "none" =>
    AtHub(m) \/ OnTheMap(m)

\* A row 'sent' is one the hub has: with two loops on a row, late requests and handlers that die, relay never
\* marks what the hub did not keep.
SentIsThere == \A m \in Memories : outbox[m] = "sent" => AtHub(m)

\* relay gives a row up only when the hub refused the memory, or has it (the row 'failed' for a source row that
\* another attempt had forwarded and deleted).
FailedIsRefused == \A m \in Memories : outbox[m] = "failed" => m \in Refused \/ AtHub(m)

\* Where a memory is complete, seen from outside.
Place(m) ==
  IF row[m] = "none"    THEN "none"
  ELSE IF AtHub(m)      THEN IF OnTheMap(m) THEN "both" ELSE "hub"
  ELSE IF OnTheMap(m)   THEN "map" ELSE "lost"

Shown == [m \in Memories |-> Place(m)]

Handed == INSTANCE Handover WITH Kept <- Legacy, place <- Shown, word <- outbox

\* The transaction of the map, the relay loops and the Intake API carry out a handover, step by step: a memory
\* arrives whole before its copy on the map goes, one published before the hub never goes, what the hub refuses
\* stays, and hub_outbox.state says "sent" or "failed" with that ground, whoever writes it last.
ImplementsHandover == Handed!Spec

\* A memory the map accepted reaches the hub, or is refused by it: no order of faults leaves it waiting.
Delivered == \A m \in Memories \ Legacy : (row[m] # "none") ~> (AtHub(m) \/ outbox[m] = "failed")

\* hub.js:7-9: once the hub has confirmed the file's hash, the local copy is deleted; so when no loop is at it
\* any more, nothing is left of a memory that was sent.
CopiesArePurged ==
  \A m \in Memories \ Legacy :
    outbox[m] = "sent" /\ ~Held(m) => row[m] = "gone" /\ file[m] # "there"

=============================================================================

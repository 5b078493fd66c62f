---------------------------- MODULE CaptureQueue ----------------------------
(***************************************************************************)
(* The capture queue: the table capture.captures, the API requests that    *)
(* insert rows into it (save_link, recapture) and the worker processes     *)
(* that claim rows, run a capture and record what came out of it           *)
(* (capture/memlane_capture/worker.py, inbox_core.py, api.py).             *)
(*                                                                         *)
(* One transaction of the code is one action.  A worker process runs a few *)
(* slots (_loop); a slot holds in memory the row as it was when claimed.   *)
(* The time stamps run_after and started_at are kept as two sets: the      *)
(* captures whose run_after has come and those that started more than      *)
(* STUCK_AFTER_MINUTES ago.                                                *)
(***************************************************************************)
EXTENDS Naturals, FiniteSets

CONSTANTS
  Items,                \* saved links
  Captures,             \* ids of the rows capture.captures may get
  ItemOf,               \* ItemOf[c]: the item a capture is of
  Platform,             \* Platform[i]: the platform of an item
  OpenWeb,              \* the platforms a rate limit says nothing about: web, document
  Procs,                \* worker processes
  Slots,                \* the loops of all the processes
  ProcOf,               \* ProcOf[s]: the process a slot belongs to
  Requesters,           \* API requests in progress
  Recapturers,          \* those that may call POST /v1/items/{id}/recapture
  GoodVerdicts,         \* the verdicts of the gate other than "failed"
  MaxAttempts,          \* captures.max_attempts
  RateLimitMaxAttempts,
  MayOutlive,           \* may an attempt take longer than STUCK_AFTER_MINUTES?
  LostAcks,             \* may a commit succeed and its acknowledgement be lost?
  MaxFaults,            \* bound: worker processes killed and acknowledgements lost
  None

ASSUME QueueAssumption ==
  /\ ItemOf \in [Captures -> Items]
  /\ DOMAIN Platform = Items
  /\ ProcOf \in [Slots -> Procs]
  /\ Recapturers \subseteq Requesters
  /\ MaxAttempts \in Nat \ {0}
  /\ RateLimitMaxAttempts \in Nat \ {0}
  /\ MayOutlive \in BOOLEAN
  /\ LostAcks \in BOOLEAN
  /\ MaxFaults \in Nat
  /\ None \notin Captures
  /\ GoodVerdicts \cap {"failed", "limited", "queued", "capturing", "rate_limited", "unsaved"} = {}

VARIABLES
  state,     \* captures.state; "absent" before the row is inserted
  verdict,   \* captures.verdict
  attempts,  \* captures.attempts
  recorded,  \* attempts whose outcome _finish recorded for good: artifact rows, feed entries, Wayback request
  due,       \* captures with run_after <= now()
  old,       \* captures with started_at < now() - STUCK_AFTER_MINUTES
  status,    \* items.status; "unsaved" before the item exists
  latest,    \* items.latest_capture_id
  slot,      \* what each slot is working on: the capture and its attempts when claimed
  up,        \* worker processes: up, stopping (SIGTERM received) or down
  req,       \* where each API request is
  faults     \* processes killed and acknowledgements lost so far

captureVars == <<state, verdict, attempts, recorded, due, old>>
itemVars    == <<status, latest>>
procVars    == <<slot, up, faults>>
vars        == <<captureVars, itemVars, procVars, req>>

Verdicts == GoodVerdicts \cup {"failed"}

\* How an attempt may end: a verdict, "limited" being "failed" with rate_limited set.
Outcomes == Verdicts \cup {"limited"}

Idle == [cap |-> None, att |-> 0, acked |-> TRUE]
Busy(s) == slot[s] # Idle

NoRequest == [at |-> "none", item |-> None, cap |-> None]

InProgress(c) == c # None /\ state[c] \in {"queued", "running"}
Held(c) == \E s \in Slots : slot[s].cap = c

Init ==
  /\ state = [c \in Captures |-> "absent"]
  /\ verdict = [c \in Captures |-> "none"]
  /\ attempts = [c \in Captures |-> 0]
  /\ recorded = [c \in Captures |-> {}]
  /\ due = {} /\ old = {}
  /\ status = [i \in Items |-> "unsaved"]
  /\ latest = [i \in Items |-> None]
  /\ slot = [s \in Slots |-> Idle]
  /\ up = [p \in Procs |-> "down"]
  /\ req = [r \in Requesters |-> NoRequest]
  /\ faults = 0

-----------------------------------------------------------------------------
(* API requests *)

\* The INSERT of new_capture: run_after defaults to now().
InsertCapture(c) ==
  /\ state[c] = "absent"
  /\ state' = [state EXCEPT ![c] = "queued"]
  /\ due' = due \cup {c}
  /\ UNCHANGED <<verdict, attempts, recorded, old>>

\* Its UPDATE of the item.
PointItemAt(i, c) ==
  /\ latest' = [latest EXCEPT ![i] = c]
  /\ status' = [status EXCEPT ![i] = "queued"]

\* The check both requests make: no capture of the item is queued or running.
MayCapture(i) == ~InProgress(latest[i])

\* Mutant: the advisory lock is not taken.
NoLock(i) == FALSE

\* Another save of the link holds the advisory lock.
LinkLocked(i) == \E q \in Requesters : req[q].at = "save" /\ req[q].item = i

\* save_link took the advisory lock on the canonical link and read the item. A link already being captured
\* is returned as it is, which changes nothing.
SaveBegin(r, i) ==
  /\ req[r] = NoRequest
  /\ ~LinkLocked(i)
  /\ MayCapture(i)
  /\ req' = [req EXCEPT ![r] = [at |-> "save", item |-> i, cap |-> None]]
  /\ UNCHANGED <<captureVars, itemVars, procVars>>

\* ... new_capture in the same transaction, which commits and releases the lock.
SaveCommit(r, c) ==
  /\ req[r].at = "save"
  /\ ItemOf[c] = req[r].item
  /\ InsertCapture(c)
  /\ PointItemAt(req[r].item, c)
  /\ req' = [req EXCEPT ![r] = NoRequest]
  /\ UNCHANGED procVars

\* recapture runs on an autocommit connection, without the lock: the check, the INSERT and the UPDATE are
\* three transactions.
RecaptureCheck(r, i) ==
  /\ r \in Recapturers
  /\ req[r] = NoRequest
  /\ status[i] # "unsaved"
  /\ MayCapture(i)
  /\ req' = [req EXCEPT ![r] = [at |-> "insert", item |-> i, cap |-> None]]
  /\ UNCHANGED <<captureVars, itemVars, procVars>>

RecaptureInsert(r, c) ==
  /\ req[r].at = "insert"
  /\ ItemOf[c] = req[r].item
  /\ InsertCapture(c)
  /\ req' = [req EXCEPT ![r] = [at |-> "point", item |-> req[r].item, cap |-> c]]
  /\ UNCHANGED <<itemVars, procVars>>

RecapturePoint(r) ==
  /\ req[r].at = "point"
  /\ PointItemAt(req[r].item, req[r].cap)
  /\ req' = [req EXCEPT ![r] = NoRequest]
  /\ UNCHANGED <<captureVars, procVars>>

\* The API process or the client's connection goes away: an open transaction is rolled back.
RequestDies(r) ==
  /\ req[r] # NoRequest
  /\ req' = [req EXCEPT ![r] = NoRequest]
  /\ UNCHANGED <<captureVars, itemVars, procVars>>

-----------------------------------------------------------------------------
(* A slot of a worker: _claim, run_capture, _finish or _crash *)

\* Mutants: a running row, or any row, is claimed; a row is not claimed after its last attempt.
ClaimableTwice(c) == state[c] \in {"queued", "running"} /\ c \in due
ClaimableAgain(c) == state[c] # "absent" /\ c \in due
ClaimableFew(c) == state[c] = "queued" /\ c \in due /\ attempts[c] < MaxAttempts

\* The WHERE of CLAIM_SQL: attempts are not looked at.
Claimable(c) == state[c] = "queued" /\ c \in due

\* The transaction of _claim. ORDER BY run_after: any due capture may be the first.
ClaimRow(c) ==
  /\ Claimable(c)
  /\ state' = [state EXCEPT ![c] = "running"]
  /\ attempts' = [attempts EXCEPT ![c] = @ + 1]
  /\ old' = old \ {c}
  /\ status' = [status EXCEPT ![ItemOf[c]] = "capturing"]
  /\ UNCHANGED <<verdict, recorded, due, latest>>

Claim(s, c) ==
  /\ ~Busy(s) /\ up[ProcOf[s]] = "up"
  /\ ClaimRow(c)
  /\ slot' = [slot EXCEPT ![s] = [cap |-> c, att |-> attempts[c] + 1, acked |-> TRUE]]
  /\ UNCHANGED <<up, faults, req>>

\* The commit went through but the connection broke: "claim failed", and the slot goes on without it.
ClaimAckLost(s, c) ==
  /\ LostAcks /\ faults < MaxFaults
  /\ ~Busy(s) /\ up[ProcOf[s]] = "up"
  /\ ClaimRow(c)
  /\ faults' = faults + 1
  /\ UNCHANGED <<slot, up, req>>

\* How many attempts retry_plan allows a capture that failed.
AttemptLimit(o) ==
  IF o = "limited" /\ RateLimitMaxAttempts > MaxAttempts THEN RateLimitMaxAttempts ELSE MaxAttempts

\* retry_plan(verdict, attempts, max_attempts): is there another attempt, and the item's status meanwhile.
Retries(o, n) == o \notin GoodVerdicts /\ n < AttemptLimit(o)

VerdictOf(o) == IF o \in GoodVerdicts THEN o ELSE "failed"

\* Mutants: the outcome is shown as it is; an item stays rate-limited after its last attempt.
PlannedStatusRaw(o, n) ==
  IF Retries(o, n) THEN (IF o = "limited" THEN "rate_limited" ELSE "queued") ELSE o

PlannedStatusForever(o, n) ==
  IF o = "limited" THEN "rate_limited" ELSE IF Retries(o, n) THEN "queued" ELSE VerdictOf(o)

PlannedStatus(o, n) ==
  IF Retries(o, n) THEN (IF o = "limited" THEN "rate_limited" ELSE "queued") ELSE VerdictOf(o)

\* The queued captures of the same platform are held back when it limits the rate of this server.
HeldBack(c, o) ==
  IF o = "limited" /\ Platform[ItemOf[c]] \notin OpenWeb
  THEN {d \in Captures \ {c} : state[d] = "queued" /\ Platform[ItemOf[d]] = Platform[ItemOf[c]]}
  ELSE {}

\* Mutants: every attempt is recorded; only those that are retried are.
RecordedEachTime(c, n, retry) == recorded[c] \cup {n}
RecordedOnRetry(c, n, retry) == IF retry THEN recorded[c] \cup {n} ELSE recorded[c]

\* A failed attempt that will be retried records nothing.
RecordedBy(c, n, retry) == IF retry THEN recorded[c] ELSE recorded[c] \cup {n}

\* The transaction of _finish, for the row the slot claimed, whatever the row is now.
FinishRow(s, o) ==
  LET c == slot[s].cap
      n == slot[s].att
      retry == Retries(o, n)
  IN  /\ state' = [state EXCEPT ![c] = IF retry THEN "queued" ELSE "done"]
      /\ verdict' = [verdict EXCEPT ![c] = IF retry THEN "none" ELSE VerdictOf(o)]
      /\ recorded' = [recorded EXCEPT ![c] = RecordedBy(c, n, retry)]
      /\ due' = IF retry THEN due \ ({c} \cup HeldBack(c, o)) ELSE due
      /\ status' = [status EXCEPT ![ItemOf[c]] = PlannedStatus(o, n)]
      /\ latest' = [latest EXCEPT ![ItemOf[c]] = c]
      /\ UNCHANGED <<attempts, old>>

Finish(s, o) ==
  /\ Busy(s) /\ slot[s].acked
  /\ FinishRow(s, o)
  /\ slot' = [slot EXCEPT ![s] = Idle]
  /\ UNCHANGED <<up, faults, req>>

\* Committed, but the exception of the broken connection makes the slot go to _crash.
FinishAckLost(s, o) ==
  /\ LostAcks /\ faults < MaxFaults
  /\ Busy(s) /\ slot[s].acked
  /\ FinishRow(s, o)
  /\ slot' = [slot EXCEPT ![s] = [cap |-> @.cap, att |-> @.att, acked |-> FALSE]]
  /\ faults' = faults + 1
  /\ UNCHANGED <<up, req>>

\* _crash: run_capture or _finish raised. It writes the row whatever the row is now.
Crash(s) ==
  LET c == slot[s].cap
      retry == slot[s].att < MaxAttempts
  IN  /\ Busy(s)
      /\ state' = [state EXCEPT ![c] = IF retry THEN "queued" ELSE "done"]
      /\ verdict' = [verdict EXCEPT ![c] = IF retry THEN "none" ELSE "failed"]
      /\ due' = due \ {c}
      /\ status' = [status EXCEPT ![ItemOf[c]] = IF retry THEN "queued" ELSE "failed"]
      /\ latest' = [latest EXCEPT ![ItemOf[c]] = c]
      /\ slot' = [slot EXCEPT ![s] = Idle]
      /\ UNCHANGED <<attempts, recorded, old, up, faults, req>>

-----------------------------------------------------------------------------
(* Worker processes *)

\* Mutants: whatever started long ago, or what has attempts left, is requeued.
StuckEver == {c \in Captures : state[c] # "absent" /\ c \in old}
StuckFresh == {c \in Captures : state[c] = "running" /\ c \in old /\ attempts[c] < MaxAttempts}

\* What recover_stuck requeues.
Stuck == {c \in Captures : state[c] = "running" /\ c \in old}

\* main: recover_stuck, once, then the loops.
Start(p) ==
  /\ up[p] = "down"
  /\ up' = [up EXCEPT ![p] = "up"]
  /\ state' = [c \in Captures |-> IF c \in Stuck THEN "queued" ELSE state[c]]
  /\ UNCHANGED <<verdict, attempts, recorded, due, old, itemVars, slot, faults, req>>

\* SIGTERM: the loops claim nothing more.
Stop(p) ==
  /\ up[p] = "up"
  /\ up' = [up EXCEPT ![p] = "stopping"]
  /\ UNCHANGED <<captureVars, itemVars, slot, faults, req>>

\* Every loop has ended.
Exit(p) ==
  /\ up[p] = "stopping"
  /\ \A s \in Slots : ProcOf[s] = p => ~Busy(s)
  /\ up' = [up EXCEPT ![p] = "down"]
  /\ UNCHANGED <<captureVars, itemVars, slot, faults, req>>

\* Killed (a host reboot, docker's SIGKILL after the stop grace), or ended by an exception of _crash itself.
Die(p) ==
  /\ up[p] # "down" /\ faults < MaxFaults
  /\ up' = [up EXCEPT ![p] = "down"]
  /\ slot' = [s \in Slots |-> IF ProcOf[s] = p THEN Idle ELSE slot[s]]
  /\ faults' = faults + 1
  /\ UNCHANGED <<captureVars, itemVars, req>>

-----------------------------------------------------------------------------
(* Time *)

\* run_after comes. The shortest back-off (2 minutes) is longer than the 30 seconds after which _crash gets
\* a connection or gives up, so a row _crash still has to write is not yet due.
Due(c) ==
  /\ state[c] = "queued" /\ c \notin due
  /\ \A s \in Slots : slot[s].cap = c => slot[s].acked
  /\ due' = due \cup {c}
  /\ UNCHANGED <<state, verdict, attempts, recorded, old, itemVars, procVars, req>>

\* A capture has been running for STUCK_AFTER_MINUTES.
Overdue(c) ==
  /\ state[c] = "running" /\ c \notin old
  /\ MayOutlive \/ ~Held(c)
  /\ old' = old \cup {c}
  /\ UNCHANGED <<state, verdict, attempts, recorded, due, itemVars, procVars, req>>

-----------------------------------------------------------------------------
Save == \E r \in Requesters : \/ \E i \in Items : SaveBegin(r, i)
                              \/ \E c \in Captures : SaveCommit(r, c)
Recapture == \E r \in Requesters : \/ \E i \in Items : RecaptureCheck(r, i)
                                   \/ \E c \in Captures : RecaptureInsert(r, c)
                                   \/ RecapturePoint(r)
Work == \E s \in Slots : \/ \E c \in Captures : Claim(s, c) \/ ClaimAckLost(s, c)
                         \/ \E o \in Outcomes : Finish(s, o) \/ FinishAckLost(s, o)
                         \/ Crash(s)
Manage == \E p \in Procs : Start(p) \/ Stop(p) \/ Exit(p) \/ Die(p)
Clock == \E c \in Captures : Due(c) \/ Overdue(c)

Next == \/ Save \/ Recapture \/ (\E r \in Requesters : RequestDies(r))
        \/ Work \/ Manage \/ Clock

Spec == Init /\ [][Next]_vars

\* An API request goes on or dies; a slot works on what it holds; a process asked to stop exits and a
\* process that is down is started again (restart: unless-stopped); time passes. A due capture is claimed
\* in the end although other rows may be taken first: rows are taken in the order of run_after, so only
\* finitely many go before it (strong fairness).
Fairness ==
  /\ \A r \in Requesters : WF_vars(\E c \in Captures : SaveCommit(r, c)) /\ WF_vars(RequestDies(r))
  /\ \A c \in Captures :
       /\ SF_vars(\E s \in Slots : Claim(s, c))
       /\ WF_vars(Due(c)) /\ WF_vars(Overdue(c))
  /\ \A s \in Slots : WF_vars(Crash(s) \/ \E o \in Outcomes : Finish(s, o))
  /\ \A p \in Procs : WF_vars(Start(p)) /\ WF_vars(Exit(p))

FairSpec == Spec /\ Fairness

-----------------------------------------------------------------------------
(* Properties *)

RequestStates == [at : {"none", "save", "insert", "point"}, item : Items \cup {None}, cap : Captures \cup {None}]

TypeOK ==
  /\ state \in [Captures -> {"absent", "queued", "running", "done"}]
  /\ verdict \in [Captures -> Verdicts \cup {"none"}]
  /\ attempts \in [Captures -> Nat]
  /\ recorded \in [Captures -> SUBSET Nat]
  /\ due \subseteq Captures /\ old \subseteq Captures
  /\ status \in [Items -> Verdicts \cup {"unsaved", "queued", "capturing", "rate_limited"}]
  /\ latest \in [Items -> Captures \cup {None}]
  /\ slot \in [Slots -> [cap : Captures \cup {None}, att : Nat, acked : BOOLEAN]]
  /\ up \in [Procs -> {"up", "stopping", "down"}]
  /\ req \in [Requesters -> RequestStates]
  /\ faults \in Nat

\* Two slots, of one process or of two, never hold the same capture: what a slot holds is running, and is at
\* the attempt the slot believes it to be at. (worker.py:5-7: any number of processes side by side; the row
\* _finish and _crash write is then still the one that was claimed.)
ExclusiveClaim ==
  /\ \A s \in Slots : Busy(s) => /\ state[slot[s].cap] = "running"
                                 /\ attempts[slot[s].cap] = slot[s].att
  /\ \A s, t \in Slots : Busy(s) /\ Busy(t) /\ s # t => slot[s].cap # slot[t].cap

\* Only the final attempt's files belong to a capture (worker.py:86): whatever crashed, was retried or was
\* requeued before, a capture has the artifacts of its last attempt or of none, and none while it is open.
OnlyFinalAttempt ==
  \A c \in Captures : recorded[c] \subseteq (IF state[c] = "done" THEN {attempts[c]} ELSE {})

\* A verdict other than "failed" is never shown without the evidence of the attempt it was given to.
VerdictHasEvidence ==
  \A c \in Captures : state[c] = "done" /\ verdict[c] \in GoodVerdicts => attempts[c] \in recorded[c]

\* A capture that is done stays as it is: no late slot, restart or request reopens it, changes its verdict or
\* adds files to it.
DoneIsFinal ==
  [][\A c \in Captures : state[c] = "done" =>
       /\ state'[c] = "done" /\ verdict'[c] = verdict[c]
       /\ recorded'[c] = recorded[c] /\ attempts'[c] = attempts[c]]_vars

\* What an item's status says is what its latest capture is doing. ("capturing" stays while a capture taken
\* from a dead worker waits to be claimed again: recover_stuck leaves the item alone.)
StatusTruthful ==
  \A i \in Items : LET c == latest[i] IN
    /\ status[i] = "unsaved" <=> c = None
    /\ c # None => \/ state[c] = "queued" /\ status[i] \in {"queued", "rate_limited", "capturing"}
                   \/ state[c] = "running" /\ status[i] = "capturing"
                   \/ state[c] = "done" /\ status[i] = verdict[c]

\* A link is captured again only when none is in progress (api.py:211-212 and 459-460).
OneInProgress ==
  \A c, d \in Captures : InProgress(c) /\ InProgress(d) /\ ItemOf[c] = ItemOf[d] => c = d

\* The queue as its users see it: what a row stands for while it is open does not matter to them.
Ledger == INSTANCE CaptureLedger WITH
  outcome  <- [c \in Captures |-> IF state[c] = "done" THEN verdict[c]
                                  ELSE IF state[c] = "absent" THEN "absent" ELSE "open"],
  evidence <- recorded

\* Retries, back-offs, crashes and restarts are invisible outside: the queue implements the ledger, in which
\* a capture is closed once and for all, a good verdict with the files of exactly one attempt.
ImplementsLedger == Ledger!Spec

\* The result of a capture goes into the feeds of the incidents that use it (worker.py:117-118).
ResultAnnounced == \A c \in Captures : state[c] = "done" => recorded[c] # {}

\* As long as no worker is killed and no acknowledgement is lost, a queued capture ends with a verdict, across
\* rate limits, back-offs and graceful restarts, and without any restart.
QueuedIsDone == [](faults = 0) => \A c \in Captures : state[c] = "queued" ~> state[c] = "done"

\* A capture lost by a dead worker, or by a claim nobody heard of, is not lost for good as long as workers are
\* restarted now and then (worker.py:59-65, the only place where one is taken back).
RestartsRecover ==
  (\A p \in Procs : []<>(up[p] = "down"))
    => \A c \in Captures : state[c] \in {"queued", "running"} ~> state[c] = "done"
=============================================================================

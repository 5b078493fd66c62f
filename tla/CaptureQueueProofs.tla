------------------------- MODULE CaptureQueueProofs -------------------------
(***************************************************************************)
(* Theorems about CaptureQueue, for any number of links, captures, worker  *)
(* processes, slots and requests.                                          *)
(***************************************************************************)
EXTENDS CaptureQueue, TLAPS

USE QueueAssumption

\* What the row written by _finish is made of has the right type.
LEMMA FinishTypes ==
  ASSUME NEW o \in Outcomes, NEW n \in Nat
  PROVE  /\ VerdictOf(o) \in Verdicts
         /\ Retries(o, n) \in BOOLEAN
         /\ PlannedStatus(o, n) \in Verdicts \cup {"queued", "rate_limited"}
BY DEF VerdictOf, Retries, PlannedStatus, Outcomes, Verdicts

\* _finish writes well-typed rows.
LEMMA FinishRowTypes ==
  ASSUME TypeOK, NEW s \in Slots, NEW o \in Outcomes, FinishRow(s, o)
  PROVE  /\ state' \in [Captures -> {"absent", "queued", "running", "done"}]
         /\ verdict' \in [Captures -> Verdicts \cup {"none"}]
         /\ recorded' \in [Captures -> SUBSET Nat]
         /\ due' \subseteq Captures
         /\ status' \in [Items -> Verdicts \cup {"unsaved", "queued", "capturing", "rate_limited"}]
         /\ latest' \in [Items -> Captures \cup {None}]
<1> DEFINE c == slot[s].cap
           n == slot[s].att
<1>1. n \in Nat /\ c \in Captures \cup {None}
  BY DEF TypeOK
<1>2. /\ VerdictOf(o) \in Verdicts
      /\ PlannedStatus(o, n) \in Verdicts \cup {"queued", "rate_limited"}
  BY <1>1, FinishTypes
<1>3. RecordedBy(c, n, Retries(o, n)) \in SUBSET Nat \/ c \notin Captures
  BY <1>1 DEF RecordedBy, TypeOK
<1>4. state' \in [Captures -> {"absent", "queued", "running", "done"}]
  BY DEF FinishRow, TypeOK
<1>5. verdict' \in [Captures -> Verdicts \cup {"none"}]
  BY <1>2 DEF FinishRow, TypeOK
<1>6. recorded' \in [Captures -> SUBSET Nat]
  BY <1>3 DEF FinishRow, TypeOK
<1>7. due' \subseteq Captures
  BY DEF FinishRow, TypeOK
<1>8. status' \in [Items -> Verdicts \cup {"unsaved", "queued", "capturing", "rate_limited"}]
  BY <1>2 DEF FinishRow, TypeOK
<1>9. latest' \in [Items -> Captures \cup {None}]
  BY <1>1 DEF FinishRow, TypeOK
<1> QED BY <1>4, <1>5, <1>6, <1>7, <1>8, <1>9

\* Every action keeps every variable in its type.
LEMMA TypeStep == TypeOK /\ [Next]_vars => TypeOK'
<1> SUFFICES ASSUME TypeOK, [Next]_vars PROVE TypeOK'
  OBVIOUS
<1> USE DEF captureVars, itemVars, procVars
<1>1. ASSUME NEW r \in Requesters, NEW i \in Items, SaveBegin(r, i) PROVE TypeOK'
  BY <1>1 DEF TypeOK, SaveBegin, RequestStates
<1>2. ASSUME NEW r \in Requesters, NEW c \in Captures, SaveCommit(r, c) PROVE TypeOK'
  BY <1>2 DEF TypeOK, SaveCommit, InsertCapture, PointItemAt, RequestStates, NoRequest
<1>3. ASSUME NEW r \in Requesters, NEW i \in Items, RecaptureCheck(r, i) PROVE TypeOK'
  BY <1>3 DEF TypeOK, RecaptureCheck, RequestStates
<1>4. ASSUME NEW r \in Requesters, NEW c \in Captures, RecaptureInsert(r, c) PROVE TypeOK'
  BY <1>4 DEF TypeOK, RecaptureInsert, InsertCapture, RequestStates
<1>5. ASSUME NEW r \in Requesters, RecapturePoint(r) PROVE TypeOK'
  <2>1. req[r].cap \in Captures \cup {None}
    BY DEF TypeOK, RequestStates
  <2> QED BY <1>5, <2>1 DEF TypeOK, RecapturePoint, PointItemAt, RequestStates, NoRequest
<1>6. ASSUME NEW r \in Requesters, RequestDies(r) PROVE TypeOK'
  BY <1>6 DEF TypeOK, RequestDies, RequestStates, NoRequest
<1>7. ASSUME NEW s \in Slots, NEW c \in Captures, Claim(s, c) PROVE TypeOK'
  BY <1>7 DEF TypeOK, Claim, ClaimRow
<1>8. ASSUME NEW s \in Slots, NEW c \in Captures, ClaimAckLost(s, c) PROVE TypeOK'
  BY <1>8 DEF TypeOK, ClaimAckLost, ClaimRow
<1>9. ASSUME NEW s \in Slots, NEW o \in Outcomes, Finish(s, o) PROVE TypeOK'
  <2>1. FinishRow(s, o)
    BY <1>9 DEF Finish
  <2>2. slot' \in [Slots -> [cap : Captures \cup {None}, att : Nat, acked : BOOLEAN]]
    BY <1>9 DEF TypeOK, Finish, Idle
  <2>3. attempts' = attempts /\ old' = old /\ up' = up /\ req' = req /\ faults' = faults
    BY <1>9 DEF Finish, FinishRow
  <2> QED BY <2>1, <2>2, <2>3, FinishRowTypes DEF TypeOK
<1>10. ASSUME NEW s \in Slots, NEW o \in Outcomes, FinishAckLost(s, o) PROVE TypeOK'
  <2>1. FinishRow(s, o)
    BY <1>10 DEF FinishAckLost
  <2>2. slot' \in [Slots -> [cap : Captures \cup {None}, att : Nat, acked : BOOLEAN]]
    BY <1>10 DEF TypeOK, FinishAckLost
  <2>3. attempts' = attempts /\ old' = old /\ up' = up /\ req' = req /\ faults' = faults + 1
    BY <1>10 DEF FinishAckLost, FinishRow
  <2> QED BY <2>1, <2>2, <2>3, FinishRowTypes DEF TypeOK
<1>11. ASSUME NEW s \in Slots, Crash(s) PROVE TypeOK'
  <2>1. slot[s].cap \in Captures \cup {None}
    BY DEF TypeOK
  <2>2. slot' \in [Slots -> [cap : Captures \cup {None}, att : Nat, acked : BOOLEAN]]
    BY <1>11 DEF TypeOK, Crash, Idle
  <2>3. state' \in [Captures -> {"absent", "queued", "running", "done"}]
    BY <1>11 DEF TypeOK, Crash
  <2>4. /\ verdict' \in [Captures -> Verdicts \cup {"none"}]
        /\ status' \in [Items -> Verdicts \cup {"unsaved", "queued", "capturing", "rate_limited"}]
    BY <1>11 DEF TypeOK, Crash, Verdicts
  <2>5. /\ latest' \in [Items -> Captures \cup {None}]
        /\ due' \subseteq Captures
    BY <1>11, <2>1 DEF TypeOK, Crash
  <2> QED BY <1>11, <2>2, <2>3, <2>4, <2>5 DEF TypeOK, Crash
<1>12. ASSUME NEW p \in Procs, Start(p) PROVE TypeOK'
  BY <1>12 DEF TypeOK, Start
<1>13. ASSUME NEW p \in Procs, Stop(p) PROVE TypeOK'
  BY <1>13 DEF TypeOK, Stop
<1>14. ASSUME NEW p \in Procs, Exit(p) PROVE TypeOK'
  BY <1>14 DEF TypeOK, Exit
<1>15. ASSUME NEW p \in Procs, Die(p) PROVE TypeOK'
  BY <1>15 DEF TypeOK, Die, Idle
<1>16. ASSUME NEW c \in Captures, Due(c) PROVE TypeOK'
  BY <1>16 DEF TypeOK, Due
<1>17. ASSUME NEW c \in Captures, Overdue(c) PROVE TypeOK'
  BY <1>17 DEF TypeOK, Overdue
<1>18. CASE UNCHANGED vars
  BY <1>18 DEF TypeOK, vars
<1> QED
  BY <1>1, <1>2, <1>3, <1>4, <1>5, <1>6, <1>7, <1>8, <1>9, <1>10, <1>11, <1>12, <1>13, <1>14, <1>15,
     <1>16, <1>17, <1>18 DEF Next, Save, Recapture, Work, Manage, Clock

\* Every variable of the queue stays in its type, whatever the workers, the requests and the clock do.
THEOREM TypeCorrect == Spec => []TypeOK
<1>1. Init => TypeOK
  BY DEF Init, TypeOK, Idle, NoRequest, RequestStates
<1> QED BY <1>1, TypeStep, PTL DEF Spec

-----------------------------------------------------------------------------
(***************************************************************************)
(* The safety of the queue rests on two facts about its deployment: a      *)
(* committed transaction is acknowledged, and a worker process starting up *)
(* never finds a live slot's capture overdue, because there is one worker  *)
(* or because no attempt takes longer than STUCK_AFTER_MINUTES.            *)
(***************************************************************************)
OneWorker == \A p, q \in Procs : p = q

Careful == ~LostAcks /\ (MayOutlive => OneWorker)

\* What a slot of a live process holds: a running capture, at the attempt the slot claimed, not overdue
\* unless attempts may take that long.
HoldsRow(s) ==
  /\ slot[s].cap \in Captures
  /\ state[slot[s].cap] = "running"
  /\ attempts[slot[s].cap] = slot[s].att
  /\ up[ProcOf[s]] # "down"
  /\ ~MayOutlive => slot[s].cap \notin old

Holding == \A s \in Slots : Busy(s) => HoldsRow(s)

Apart == \A s, t \in Slots : Busy(s) /\ Busy(t) /\ s # t => slot[s].cap # slot[t].cap

IInv == TypeOK /\ Holding /\ Apart /\ OnlyFinalAttempt /\ VerdictHasEvidence

\* What recover_stuck requeues is held by no slot.
LEMMA StuckIsFree ==
  ASSUME Careful, IInv, NEW p \in Procs, up[p] = "down", NEW s \in Slots, Busy(s)
  PROVE  slot[s].cap \notin Stuck
<1>1. HoldsRow(s) /\ ProcOf[s] \in Procs
  BY DEF IInv, Holding
<1>2. CASE MayOutlive
  BY <1>1, <1>2 DEF Careful, OneWorker, HoldsRow
<1>3. CASE ~MayOutlive
  BY <1>1, <1>3 DEF HoldsRow, Stuck
<1> QED BY <1>2, <1>3

\* A step that leaves the rows, the slots and the processes alone preserves the invariant.
LEMMA RowsUnchanged ==
  ASSUME IInv, TypeOK', UNCHANGED <<state, verdict, attempts, recorded, old, slot, up>>
  PROVE  IInv'
BY DEF IInv, Holding, Apart, HoldsRow, Busy, OnlyFinalAttempt, VerdictHasEvidence

\* So does one that inserts a new row.
LEMMA InsertKeeps ==
  ASSUME IInv, TypeOK', NEW c \in Captures, InsertCapture(c), UNCHANGED <<slot, up>>
  PROVE  IInv'
<1>1. /\ state[c] = "absent"
      /\ state' = [state EXCEPT ![c] = "queued"]
      /\ state \in [Captures -> {"absent", "queued", "running", "done"}]
  BY DEF InsertCapture, IInv, TypeOK
<1>2. Holding'
  BY <1>1 DEF IInv, Holding, HoldsRow, Busy, InsertCapture
<1>3. Apart'
  BY DEF IInv, Apart, Busy
<1>4. OnlyFinalAttempt'
  BY <1>1 DEF IInv, OnlyFinalAttempt, InsertCapture
<1>5. VerdictHasEvidence'
  BY <1>1 DEF IInv, VerdictHasEvidence, InsertCapture
<1> QED BY <1>2, <1>3, <1>4, <1>5 DEF IInv

\* The slot that claims a row is the only one to hold it.
LEMMA ClaimKeeps ==
  ASSUME IInv, TypeOK', NEW s \in Slots, NEW c \in Captures, Claim(s, c)
  PROVE  IInv'
<1>1. /\ state[c] = "queued" /\ ~Busy(s) /\ up[ProcOf[s]] = "up"
      /\ state' = [state EXCEPT ![c] = "running"]
      /\ attempts' = [attempts EXCEPT ![c] = @ + 1]
      /\ old' = old \ {c}
      /\ slot' = [slot EXCEPT ![s] = [cap |-> c, att |-> attempts[c] + 1, acked |-> TRUE]]
      /\ UNCHANGED <<verdict, recorded, up>>
  BY DEF Claim, ClaimRow, Claimable
<1>2. /\ state \in [Captures -> {"absent", "queued", "running", "done"}]
      /\ attempts \in [Captures -> Nat]
      /\ DOMAIN slot = Slots
  BY DEF IInv, TypeOK
<1>3. ASSUME NEW t \in Slots, t # s, Busy(t) PROVE HoldsRow(t) /\ slot[t].cap # c
  BY <1>1, <1>3 DEF IInv, Holding, HoldsRow
<1>4. HoldsRow(s)'
  BY <1>1, <1>2 DEF HoldsRow
<1>5. ASSUME NEW t \in Slots, Busy(t)', t # s PROVE HoldsRow(t)'
  <2>1. Busy(t) /\ slot'[t] = slot[t]
    BY <1>1, <1>2, <1>5 DEF Busy
  <2>2. HoldsRow(t) /\ slot[t].cap # c
    BY <1>3, <1>5, <2>1
  <2> QED BY <1>1, <1>2, <2>1, <2>2 DEF HoldsRow
<1>6. Holding'
  BY <1>4, <1>5 DEF Holding
<1>7. Apart'
  <2>1. slot'[s].cap = c
    BY <1>1, <1>2
  <2>2. ASSUME NEW t \in Slots, t # s, Busy(t)' PROVE slot'[t] = slot[t] /\ Busy(t) /\ slot[t].cap # c
    BY <1>1, <1>2, <1>3, <2>2 DEF Busy
  <2> QED BY <2>1, <2>2 DEF IInv, Apart, Busy
<1>8. OnlyFinalAttempt'
  BY <1>1, <1>2 DEF IInv, OnlyFinalAttempt
<1>9. VerdictHasEvidence'
  BY <1>1, <1>2 DEF IInv, VerdictHasEvidence
<1> QED BY <1>6, <1>7, <1>8, <1>9 DEF IInv

\* A slot that lets go of its row, after writing that row and no other, disturbs no other slot.
LEMMA ReleaseKeeps ==
  ASSUME IInv, NEW s \in Slots, Busy(s), NEW x,
         state' = [state EXCEPT ![slot[s].cap] = x],
         slot' = [slot EXCEPT ![s] = Idle],
         UNCHANGED <<attempts, old, up>>
  PROVE  Holding' /\ Apart'
<1>1. /\ DOMAIN slot = Slots
      /\ state \in [Captures -> {"absent", "queued", "running", "done"}]
  BY DEF IInv, TypeOK
<1>2. ~Busy(s)'
  BY <1>1 DEF Busy
<1>3. ASSUME NEW t \in Slots, Busy(t)'
      PROVE /\ t # s /\ slot'[t] = slot[t] /\ Busy(t) /\ HoldsRow(t)
            /\ slot[t].cap # slot[s].cap
  <2>1. t # s
    BY <1>2, <1>3
  <2>2. slot'[t] = slot[t] /\ Busy(t)
    BY <1>1, <1>3, <2>1 DEF Busy
  <2> QED BY <2>1, <2>2 DEF IInv, Holding, Apart
<1>4. Holding'
  BY <1>1, <1>3 DEF Holding, HoldsRow
<1>5. Apart'
  BY <1>3 DEF IInv, Apart
<1> QED BY <1>4, <1>5

\* _finish records at most the attempt the slot claimed.
LEMMA FinishKeeps ==
  ASSUME IInv, TypeOK', NEW s \in Slots, NEW o \in Outcomes, Finish(s, o)
  PROVE  IInv'
<1> DEFINE c == slot[s].cap
           n == slot[s].att
           retry == Retries(o, n)
<1>1. HoldsRow(s) /\ Busy(s)
  BY DEF IInv, Holding, Finish
<1>2. /\ c \in Captures /\ state[c] = "running" /\ attempts[c] = n /\ recorded[c] = {}
      /\ state \in [Captures -> {"absent", "queued", "running", "done"}]
      /\ verdict \in [Captures -> Verdicts \cup {"none"}]
      /\ recorded \in [Captures -> SUBSET Nat]
  BY <1>1 DEF IInv, TypeOK, HoldsRow, OnlyFinalAttempt
<1>3. /\ state' = [state EXCEPT ![c] = IF retry THEN "queued" ELSE "done"]
      /\ verdict' = [verdict EXCEPT ![c] = IF retry THEN "none" ELSE VerdictOf(o)]
      /\ recorded' = [recorded EXCEPT ![c] = IF retry THEN {} ELSE {n}]
      /\ slot' = [slot EXCEPT ![s] = Idle]
      /\ UNCHANGED <<attempts, old, up>>
  BY <1>2 DEF Finish, FinishRow, RecordedBy
<1>4. Holding' /\ Apart'
  <2> HIDE DEF retry
  <2> QED BY <1>1, <1>3, ReleaseKeeps
<1>5. OnlyFinalAttempt'
  BY <1>2, <1>3 DEF IInv, OnlyFinalAttempt
<1>6. VerdictHasEvidence'
  BY <1>2, <1>3 DEF IInv, VerdictHasEvidence
<1> QED BY <1>4, <1>5, <1>6 DEF IInv

\* _crash records nothing, and its last verdict is "failed".
LEMMA CrashKeeps ==
  ASSUME IInv, TypeOK', NEW s \in Slots, Crash(s)
  PROVE  IInv'
<1> DEFINE c == slot[s].cap
           retry == slot[s].att < MaxAttempts
<1>1. HoldsRow(s) /\ Busy(s)
  BY DEF IInv, Holding, Crash
<1>2. /\ c \in Captures /\ state[c] = "running" /\ recorded[c] = {}
      /\ state \in [Captures -> {"absent", "queued", "running", "done"}]
      /\ verdict \in [Captures -> Verdicts \cup {"none"}]
  BY <1>1 DEF IInv, TypeOK, HoldsRow, OnlyFinalAttempt
<1>3. /\ state' = [state EXCEPT ![c] = IF retry THEN "queued" ELSE "done"]
      /\ verdict' = [verdict EXCEPT ![c] = IF retry THEN "none" ELSE "failed"]
      /\ slot' = [slot EXCEPT ![s] = Idle]
      /\ UNCHANGED <<attempts, recorded, old, up>>
  BY DEF Crash
<1>4. Holding' /\ Apart'
  <2> HIDE DEF retry
  <2> QED BY <1>1, <1>3, ReleaseKeeps
<1>5. OnlyFinalAttempt'
  BY <1>2, <1>3 DEF IInv, OnlyFinalAttempt
<1>6. VerdictHasEvidence'
  BY <1>2, <1>3 DEF IInv, VerdictHasEvidence
<1> QED BY <1>4, <1>5, <1>6 DEF IInv

\* recover_stuck takes no row from a slot.
LEMMA StartKeeps ==
  ASSUME Careful, IInv, TypeOK', NEW p \in Procs, Start(p)
  PROVE  IInv'
<1>1. /\ up[p] = "down"
      /\ up' = [up EXCEPT ![p] = "up"]
      /\ state' = [c \in Captures |-> IF c \in Stuck THEN "queued" ELSE state[c]]
      /\ UNCHANGED <<verdict, attempts, recorded, old, slot>>
  BY DEF Start
<1>2. up \in [Procs -> {"up", "stopping", "down"}]
  BY DEF IInv, TypeOK
<1>3. Holding'
  <2>1. ASSUME NEW s \in Slots, Busy(s) PROVE HoldsRow(s)'
    <3>1. HoldsRow(s) /\ slot[s].cap \notin Stuck /\ ProcOf[s] \in Procs
      BY <1>1, <2>1, StuckIsFree DEF IInv, Holding
    <3> QED BY <1>1, <1>2, <3>1 DEF HoldsRow
  <2> QED BY <1>1, <2>1 DEF Holding, Busy
<1>4. Apart'
  BY <1>1 DEF IInv, Apart, Busy
<1>5. OnlyFinalAttempt'
  BY <1>1 DEF IInv, OnlyFinalAttempt, Stuck
<1>6. VerdictHasEvidence'
  BY <1>1 DEF IInv, VerdictHasEvidence
<1> QED BY <1>3, <1>4, <1>5, <1>6 DEF IInv

\* A process that ends holds nothing any more.
LEMMA EndKeeps ==
  ASSUME IInv, TypeOK', NEW p \in Procs, Stop(p) \/ Exit(p) \/ Die(p)
  PROVE  IInv'
<1>1. UNCHANGED <<state, verdict, attempts, recorded, old>>
  BY DEF Stop, Exit, Die, captureVars
<1>2. ASSUME NEW s \in Slots, Busy(s)'
      PROVE slot'[s] = slot[s] /\ Busy(s) /\ HoldsRow(s)'
  <2>1. /\ DOMAIN slot = Slots /\ ProcOf[s] \in Procs
        /\ up \in [Procs -> {"up", "stopping", "down"}]
    BY DEF IInv, TypeOK
  <2>2. slot'[s] = slot[s] /\ Busy(s) /\ up'[ProcOf[s]] # "down"
    <3>1. CASE Stop(p)
      BY <1>2, <2>1, <3>1 DEF Stop, Busy, IInv, Holding, HoldsRow
    <3>2. CASE Exit(p)
      BY <1>2, <2>1, <3>2 DEF Exit, Busy, IInv, Holding, HoldsRow
    <3>3. CASE Die(p)
      BY <1>2, <2>1, <3>3 DEF Die, Busy, IInv, Holding, HoldsRow
    <3> QED BY <3>1, <3>2, <3>3
  <2> QED BY <1>1, <2>2 DEF IInv, Holding, HoldsRow
<1>3. Holding' /\ Apart'
  BY <1>2 DEF IInv, Holding, Apart
<1> QED BY <1>1, <1>3 DEF IInv, OnlyFinalAttempt, VerdictHasEvidence

\* A capture becomes overdue in a slot's hands only where attempts may take that long.
LEMMA OverdueKeeps ==
  ASSUME IInv, TypeOK', NEW c \in Captures, Overdue(c)
  PROVE  IInv'
<1>1. /\ old' = old \cup {c} /\ (MayOutlive \/ ~Held(c))
      /\ UNCHANGED <<state, verdict, attempts, recorded, slot, up>>
  BY DEF Overdue, procVars
<1>2. Holding'
  BY <1>1 DEF IInv, Holding, HoldsRow, Busy, Held
<1> QED BY <1>1, <1>2 DEF IInv, Apart, Busy, OnlyFinalAttempt, VerdictHasEvidence

\* The invariant is inductive: no action of a careful deployment breaks it.
LEMMA InvStep == Careful /\ IInv /\ [Next]_vars => IInv'
<1> SUFFICES ASSUME Careful, IInv, [Next]_vars PROVE IInv'
  OBVIOUS
<1>0. TypeOK'
  BY TypeStep DEF IInv
<1> USE DEF procVars
<1>1. ASSUME NEW r \in Requesters, NEW i \in Items, SaveBegin(r, i) \/ RecaptureCheck(r, i) PROVE IInv'
  BY <1>0, <1>1, RowsUnchanged DEF SaveBegin, RecaptureCheck, captureVars
<1>2. ASSUME NEW r \in Requesters, NEW c \in Captures, SaveCommit(r, c) \/ RecaptureInsert(r, c) PROVE IInv'
  BY <1>0, <1>2, InsertKeeps DEF SaveCommit, RecaptureInsert
<1>3. ASSUME NEW r \in Requesters, RecapturePoint(r) \/ RequestDies(r) PROVE IInv'
  BY <1>0, <1>3, RowsUnchanged DEF RecapturePoint, RequestDies, captureVars
<1>4. ASSUME NEW s \in Slots, NEW c \in Captures, Claim(s, c) PROVE IInv'
  BY <1>0, <1>4, ClaimKeeps
<1>5. ASSUME NEW s \in Slots, NEW o \in Outcomes, Finish(s, o) PROVE IInv'
  BY <1>0, <1>5, FinishKeeps
<1>6. ASSUME NEW s \in Slots, Crash(s) PROVE IInv'
  BY <1>0, <1>6, CrashKeeps
<1>8. ASSUME NEW p \in Procs, Start(p) PROVE IInv'
  BY <1>0, <1>8, StartKeeps
<1>9. ASSUME NEW p \in Procs, Stop(p) \/ Exit(p) \/ Die(p) PROVE IInv'
  BY <1>0, <1>9, EndKeeps
<1>10. ASSUME NEW c \in Captures, Due(c) PROVE IInv'
  BY <1>0, <1>10, RowsUnchanged DEF Due
<1>11. ASSUME NEW c \in Captures, Overdue(c) PROVE IInv'
  BY <1>0, <1>11, OverdueKeeps
<1>12. CASE UNCHANGED vars
  BY <1>0, <1>12, RowsUnchanged DEF vars, captureVars
<1>7. ASSUME NEW s \in Slots, NEW c \in Captures, ClaimAckLost(s, c) PROVE IInv'
  BY <1>7 DEF Careful, ClaimAckLost
<1>13. ASSUME NEW s \in Slots, NEW o \in Outcomes, FinishAckLost(s, o) PROVE IInv'
  BY <1>13 DEF Careful, FinishAckLost
<1> QED
  BY <1>1, <1>2, <1>3, <1>4, <1>5, <1>6, <1>8, <1>9, <1>10, <1>11, <1>12, <1>7, <1>13
     DEF Next, Save, Recapture, Work, Manage, Clock

\* The inductive invariant holds throughout, in a careful deployment.
LEMMA InvHolds == ASSUME Careful PROVE Spec => []IInv
<1>1. Init => IInv
  <2>1. Init => TypeOK
    BY DEF Init, TypeOK, Idle, NoRequest, RequestStates
  <2> QED BY <2>1 DEF Init, IInv, Holding, Apart, Busy, OnlyFinalAttempt, VerdictHasEvidence
<1>2. IInv /\ [Next]_vars => IInv'
  BY InvStep
<1> QED BY <1>1, <1>2, PTL DEF Spec

\* In a careful deployment no two slots, of one worker or of several, hold the same capture, and a slot holds
\* the row it claimed.
THEOREM ClaimsAreExclusive == ASSUME Careful PROVE Spec => []ExclusiveClaim
<1>1. IInv => ExclusiveClaim
  BY DEF IInv, Holding, HoldsRow, Apart, ExclusiveClaim
<1> QED BY <1>1, InvHolds, PTL

\* ... a capture has the files of its final attempt or none, through retries, crashes and restarts.
THEOREM FilesOfFinalAttempt == ASSUME Careful PROVE Spec => []OnlyFinalAttempt
<1>1. IInv => OnlyFinalAttempt
  BY DEF IInv
<1> QED BY <1>1, InvHolds, PTL

\* ... and a verdict other than "failed" is never without evidence.
THEOREM VerdictsHaveEvidence == ASSUME Careful PROVE Spec => []VerdictHasEvidence
<1>1. IInv => VerdictHasEvidence
  BY DEF IInv
<1> QED BY <1>1, InvHolds, PTL

\* The parts of a row that are settled when the capture is done.
RowKept(c) == /\ state'[c] = state[c] /\ verdict'[c] = verdict[c]
              /\ recorded'[c] = recorded[c] /\ attempts'[c] = attempts[c]

\* No step changes a capture that is done: only a row a slot holds is written, and that one is running.
LEMMA DoneStep ==
  ASSUME IInv, [Next]_vars, ~LostAcks, NEW c \in Captures, state[c] = "done"
  PROVE  RowKept(c)
<1>0. /\ state \in [Captures -> {"absent", "queued", "running", "done"}]
      /\ verdict \in [Captures -> Verdicts \cup {"none"}]
      /\ attempts \in [Captures -> Nat]
      /\ recorded \in [Captures -> SUBSET Nat]
  BY DEF IInv, TypeOK
<1> USE DEF RowKept
<1>1. ASSUME UNCHANGED captureVars PROVE RowKept(c)
  BY <1>1 DEF captureVars
<1>2. ASSUME NEW d \in Captures, InsertCapture(d) PROVE RowKept(c)
  BY <1>0, <1>2 DEF InsertCapture
<1>3. ASSUME NEW s \in Slots, NEW d \in Captures, Claim(s, d) PROVE RowKept(c)
  BY <1>0, <1>3 DEF Claim, ClaimRow, Claimable
<1>4. ASSUME NEW s \in Slots, Busy(s) PROVE slot[s].cap # c
  BY <1>4 DEF IInv, Holding, HoldsRow
<1>5. ASSUME NEW s \in Slots, NEW o \in Outcomes, Finish(s, o) PROVE RowKept(c)
  <2>1. slot[s].cap # c
    BY <1>4, <1>5 DEF Finish
  <2> QED BY <1>0, <1>5, <2>1 DEF Finish, FinishRow
<1>6. ASSUME NEW s \in Slots, Crash(s) PROVE RowKept(c)
  <2>1. slot[s].cap # c
    BY <1>4, <1>6 DEF Crash
  <2> QED BY <1>0, <1>6, <2>1 DEF Crash
<1>7. ASSUME NEW p \in Procs, Start(p) PROVE RowKept(c)
  BY <1>7 DEF Start, Stuck
<1>8. ASSUME NEW d \in Captures, Due(d) \/ Overdue(d) PROVE RowKept(c)
  BY <1>8 DEF Due, Overdue
<1> QED
  BY <1>1, <1>2, <1>3, <1>5, <1>6, <1>7, <1>8
     DEF Next, Save, SaveBegin, SaveCommit, Recapture, RecaptureCheck, RecaptureInsert, RecapturePoint,
         RequestDies, Work, ClaimAckLost, FinishAckLost, Manage, Stop, Exit, Die, Clock, vars

\* A capture that is done is never reopened, re-judged or given more files.
THEOREM DoneStaysDone == ASSUME Careful PROVE Spec => DoneIsFinal
<1>1. IInv /\ [Next]_vars =>
        [\A c \in Captures : state[c] = "done" =>
           /\ state'[c] = "done" /\ verdict'[c] = verdict[c]
           /\ recorded'[c] = recorded[c] /\ attempts'[c] = attempts[c]]_vars
  BY DoneStep DEF RowKept, Careful
<1> QED BY <1>1, InvHolds, PTL DEF Spec, DoneIsFinal

-----------------------------------------------------------------------------
(* The queue implements the ledger of CaptureLedger. *)

\* A row as the ledger sees it.
Shown == [c \in Captures |-> IF state[c] = "done" THEN verdict[c]
                             ELSE IF state[c] = "absent" THEN "absent" ELSE "open"]

Settled(c) == /\ state'[c] = "done" <=> state[c] = "done"
              /\ state'[c] = "absent" <=> state[c] = "absent"
              /\ state[c] = "done" => verdict'[c] = verdict[c]

LedgerStep == [Ledger!Next]_<<Shown, recorded>>

\* Steps that settle nothing are invisible.
LEMMA Invisible ==
  ASSUME \A c \in Captures : Settled(c), recorded' = recorded
  PROVE  LedgerStep
<1>1. \A c \in Captures : Shown'[c] = Shown[c]
  BY DEF Shown, Settled
<1>2. Shown' = Shown
  BY <1>1 DEF Shown
<1> QED BY <1>2 DEF LedgerStep

\* Inserting a row asks the ledger for a capture.
LEMMA InsertAsks ==
  ASSUME IInv, NEW c \in Captures, InsertCapture(c)
  PROVE  LedgerStep
<1>1. /\ state[c] = "absent" /\ state' = [state EXCEPT ![c] = "queued"]
      /\ UNCHANGED <<verdict, recorded>>
      /\ state \in [Captures -> {"absent", "queued", "running", "done"}]
  BY DEF InsertCapture, IInv, TypeOK
<1>2. Shown[c] = "absent"
  BY <1>1 DEF Shown
<1>3. Shown' = [Shown EXCEPT ![c] = "open"]
  BY <1>1 DEF Shown
<1>4. Ledger!Ask(c)
  BY <1>1, <1>2, <1>3 DEF Ledger!Ask, Shown
<1> QED BY <1>4 DEF LedgerStep, Ledger!Next, Shown

\* A slot that writes "done" to the row it holds closes it; one that writes "queued" goes unnoticed.
LEMMA ReleaseCloses ==
  ASSUME IInv, NEW s \in Slots, Busy(s), NEW retry \in BOOLEAN, NEW v \in Verdicts, NEW E \in SUBSET Nat,
         retry => E = {}, v \in GoodVerdicts /\ ~retry => E # {}, \A m, n \in E : m = n,
         state' = [state EXCEPT ![slot[s].cap] = IF retry THEN "queued" ELSE "done"],
         verdict' = [verdict EXCEPT ![slot[s].cap] = IF retry THEN "none" ELSE v],
         recorded' = [recorded EXCEPT ![slot[s].cap] = E]
  PROVE  LedgerStep
<1>0. slot[s].cap \in Captures
  BY DEF IInv, Holding, HoldsRow
<1>c. PICK c \in Captures : c = slot[s].cap
  BY <1>0
<1>1. /\ state[c] = "running" /\ recorded[c] = {}
      /\ state' = [state EXCEPT ![c] = IF retry THEN "queued" ELSE "done"]
      /\ verdict' = [verdict EXCEPT ![c] = IF retry THEN "none" ELSE v]
      /\ recorded' = [recorded EXCEPT ![c] = E]
      /\ state \in [Captures -> {"absent", "queued", "running", "done"}]
      /\ verdict \in [Captures -> Verdicts \cup {"none"}]
      /\ recorded \in [Captures -> SUBSET Nat]
  BY <1>c DEF IInv, TypeOK, Holding, HoldsRow, OnlyFinalAttempt
<1>2. CASE retry
  <2>1. recorded' = recorded
    <3>1. E = {}
      BY <1>2
    <3>2. /\ recorded = [d \in Captures |-> recorded[d]]
          /\ recorded' = [d \in Captures |-> IF d = c THEN {} ELSE recorded[d]]
      BY <1>1, <3>1
    <3>3. \A d \in Captures : (IF d = c THEN {} ELSE recorded[d]) = recorded[d]
      BY <1>1
    <3>4. [d \in Captures |-> IF d = c THEN {} ELSE recorded[d]] = [d \in Captures |-> recorded[d]]
      BY <3>3
    <3> QED BY <3>2, <3>4
  <2>2. \A d \in Captures : Settled(d)
    BY <1>1, <1>2 DEF Settled
  <2> QED BY <2>1, <2>2, Invisible
<1>3. CASE ~retry
  <2>1. /\ state' = [state EXCEPT ![c] = "done"]
        /\ verdict' = [verdict EXCEPT ![c] = v]
    BY <1>1, <1>3
  <2>2. Shown[c] = "open"
    BY <1>1 DEF Shown
  <2>3. Shown' = [Shown EXCEPT ![c] = v]
    BY <1>1, <2>1 DEF Shown
  <2>4. /\ recorded'[c] = E
        /\ recorded' \in [Captures -> SUBSET Nat]
        /\ \A d \in Captures \ {c} : recorded'[d] = recorded[d]
    BY <1>1
  <2>5. Ledger!Close(c)
    BY <1>3, <2>2, <2>3, <2>4 DEF Ledger!Close, Shown, Verdicts
  <2> QED BY <2>5 DEF LedgerStep, Ledger!Next
<1> QED BY <1>2, <1>3

\* Every step of the queue is a step of the ledger or invisible to it.
LEMMA QueueStepIsLedgerStep ==
  ASSUME IInv, [Next]_vars, ~LostAcks
  PROVE  LedgerStep
<1>0. /\ state \in [Captures -> {"absent", "queued", "running", "done"}]
      /\ recorded \in [Captures -> SUBSET Nat]
  BY DEF IInv, TypeOK
<1>1. ASSUME UNCHANGED captureVars PROVE LedgerStep
  BY <1>1, Invisible DEF captureVars, Settled
<1>2. ASSUME NEW c \in Captures, InsertCapture(c) PROVE LedgerStep
  BY <1>2, InsertAsks
<1>3. ASSUME NEW s \in Slots, NEW c \in Captures, Claim(s, c) PROVE LedgerStep
  <2>1. \A d \in Captures : Settled(d)
    BY <1>0, <1>3 DEF Claim, ClaimRow, Claimable, Settled
  <2>2. recorded' = recorded
    BY <1>3 DEF Claim, ClaimRow
  <2> QED BY <2>1, <2>2, Invisible
<1>4. ASSUME NEW s \in Slots, NEW o \in Outcomes, Finish(s, o) PROVE LedgerStep
  <2> DEFINE c == slot[s].cap
             n == slot[s].att
             retry == Retries(o, n)
             E == IF retry THEN {} ELSE {n}
  <2>1. HoldsRow(s) /\ Busy(s) /\ n \in Nat
    BY <1>4 DEF IInv, TypeOK, Holding, Finish
  <2>2. recorded[c] = {}
    BY <2>1 DEF IInv, HoldsRow, OnlyFinalAttempt
  <2>3. /\ state' = [state EXCEPT ![c] = IF retry THEN "queued" ELSE "done"]
        /\ verdict' = [verdict EXCEPT ![c] = IF retry THEN "none" ELSE VerdictOf(o)]
        /\ recorded' = [recorded EXCEPT ![c] = E]
    BY <1>4, <2>2 DEF Finish, FinishRow, RecordedBy
  <2>4. retry \in BOOLEAN /\ VerdictOf(o) \in Verdicts /\ E \in SUBSET Nat
    BY <2>1, FinishTypes
  <2>5. (retry => E = {}) /\ (~retry => E # {}) /\ \A k, m \in E : k = m
    OBVIOUS
  <2> HIDE DEF retry, E
  <2> QED BY <2>1, <2>3, <2>4, <2>5, ReleaseCloses
<1>5. ASSUME NEW s \in Slots, Crash(s) PROVE LedgerStep
  <2> DEFINE c == slot[s].cap
             retry == slot[s].att < MaxAttempts
  <2>1. HoldsRow(s) /\ Busy(s) /\ slot[s].att \in Nat
    BY <1>5 DEF IInv, TypeOK, Holding, Crash
  <2>2. recorded[c] = {} /\ c \in Captures
    BY <2>1 DEF IInv, HoldsRow, OnlyFinalAttempt
  <2>3. /\ state' = [state EXCEPT ![c] = IF retry THEN "queued" ELSE "done"]
        /\ verdict' = [verdict EXCEPT ![c] = IF retry THEN "none" ELSE "failed"]
        /\ recorded' = [recorded EXCEPT ![c] = {}]
    BY <1>0, <1>5, <2>2 DEF Crash
  <2>4. retry \in BOOLEAN /\ "failed" \in Verdicts /\ "failed" \notin GoodVerdicts
    BY <2>1 DEF Verdicts
  <2> HIDE DEF retry
  <2> QED BY <2>1, <2>3, <2>4, ReleaseCloses
<1>6. ASSUME NEW p \in Procs, Start(p) PROVE LedgerStep
  <2>1. \A d \in Captures : Settled(d)
    BY <1>6 DEF Start, Stuck, Settled
  <2>2. recorded' = recorded
    BY <1>6 DEF Start
  <2> QED BY <2>1, <2>2, Invisible
<1>7. ASSUME NEW c \in Captures, Due(c) \/ Overdue(c) PROVE LedgerStep
  BY <1>7, Invisible DEF Due, Overdue, Settled
<1> QED
  BY <1>1, <1>2, <1>3, <1>4, <1>5, <1>6, <1>7
     DEF Next, Save, SaveBegin, SaveCommit, Recapture, RecaptureCheck, RecaptureInsert, RecapturePoint,
         RequestDies, Work, ClaimAckLost, FinishAckLost, Manage, Stop, Exit, Die, Clock, vars

\* In a careful deployment the queue implements the ledger: retries, back-offs, crashes and restarts cannot be
\* told from outside, and a capture is closed once, a good verdict with the files of one attempt.
THEOREM QueueImplementsLedger == ASSUME Careful PROVE Spec => ImplementsLedger
<1>1. Init => Ledger!Init
  BY DEF Init, Ledger!Init
<1>2. IInv /\ [Next]_vars => LedgerStep
  BY QueueStepIsLedgerStep DEF Careful
<1> QED BY <1>1, <1>2, InvHolds, PTL DEF Spec, ImplementsLedger, Ledger!Spec, LedgerStep, Shown
-----------------------------------------------------------------------------
(***************************************************************************)
(* What the items say, when captures are asked for by saving a link only:  *)
(* the advisory lock of save_link makes its check and its INSERT one step. *)
(* (recapture takes no lock: two of them, or one of them and a save, can   *)
(* both find nothing in progress.)                                         *)
(***************************************************************************)
SavesOnly == Recapturers = {}

\* A capture in progress is the one its item points at, and an item points at captures of its own.
PointedAt ==
  /\ \A c \in Captures : InProgress(c) => latest[ItemOf[c]] = c
  /\ \A i \in Items : latest[i] # None => ItemOf[latest[i]] = i

\* While a save holds the lock of a link nothing of it is in progress, and no other save holds it.
SavesAlone ==
  /\ \A r \in Requesters : /\ req[r].at \in {"none", "save"}
                           /\ req[r].at = "save" => req[r].item \in Items /\ MayCapture(req[r].item)
  /\ \A q, r \in Requesters :
       req[q].at = "save" /\ req[r].at = "save" /\ req[q].item = req[r].item => q = r

LinkInv == StatusTruthful /\ PointedAt /\ SavesAlone

\* What the status of an item may say of its latest capture.
Says(st, x, v) == \/ x = "queued" /\ st \in {"queued", "rate_limited", "capturing"}
                  \/ x = "running" /\ st = "capturing"
                  \/ x = "done" /\ st = v

\* A step that writes the row of a capture in progress, and the status of its item to match, preserves it.
LEMMA RowWritten ==
  ASSUME IInv, LinkInv, NEW c \in Captures, InProgress(c), latest' = latest, req' = req,
         \A d \in Captures \ {c} : state'[d] = state[d] /\ verdict'[d] = verdict[d],
         \A i \in Items \ {ItemOf[c]} : status'[i] = status[i],
         status'[ItemOf[c]] # "unsaved", Says(status'[ItemOf[c]], state'[c], verdict'[c])
  PROVE  LinkInv'
<1> DEFINE j == ItemOf[c]
<1>0. j \in Items /\ latest[j] = c /\ c # None
  BY DEF LinkInv, PointedAt
<1>1. StatusTruthful'
  <2> SUFFICES ASSUME NEW i \in Items
               PROVE  /\ status'[i] = "unsaved" <=> latest[i] = None
                      /\ latest[i] # None => Says(status'[i], state'[latest[i]], verdict'[latest[i]])
    BY DEF StatusTruthful, Says
  <2>1. CASE i = j
    BY <1>0, <2>1
  <2>2. CASE i # j
    <3>1. latest[i] # c /\ latest[i] \in Captures \cup {None}
      BY <2>2 DEF LinkInv, PointedAt, IInv, TypeOK
    <3> QED BY <2>2, <3>1 DEF LinkInv, StatusTruthful, Says
  <2> QED BY <2>1, <2>2
<1>2. PointedAt'
  BY <1>0 DEF LinkInv, PointedAt, InProgress
<1>3. SavesAlone'
  <2>1. ASSUME NEW r \in Requesters, req[r].at = "save" PROVE req[r].item \in Items /\ MayCapture(req[r].item)'
    <3>1. req[r].item \in Items /\ ~InProgress(latest[req[r].item])
      BY <2>1 DEF LinkInv, SavesAlone, MayCapture
    <3>2. latest[req[r].item] # c /\ latest[req[r].item] \in Captures \cup {None}
      BY <3>1 DEF IInv, TypeOK
    <3> QED BY <3>1, <3>2 DEF MayCapture, InProgress
  <2> QED BY <2>1 DEF LinkInv, SavesAlone
<1> QED BY <1>1, <1>2, <1>3 DEF LinkInv

\* ... as does one that writes none of them.
LEMMA LinksUntouched ==
  ASSUME LinkInv, UNCHANGED <<state, verdict, status, latest, req>>
  PROVE  LinkInv'
BY DEF LinkInv, StatusTruthful, PointedAt, SavesAlone, InProgress, MayCapture

\* The request itself: the check under the lock, the INSERT that relies on it, and a rollback.
LEMMA SaveKeepsLinks ==
  ASSUME SavesOnly, IInv, LinkInv, Save \/ Recapture \/ \E r \in Requesters : RequestDies(r)
  PROVE  LinkInv'
<1>0. /\ req \in [Requesters -> RequestStates] /\ latest \in [Items -> Captures \cup {None}]
      /\ status \in [Items -> Verdicts \cup {"unsaved", "queued", "capturing", "rate_limited"}]
      /\ state \in [Captures -> {"absent", "queued", "running", "done"}]
      /\ StatusTruthful /\ PointedAt /\ SavesAlone
  BY DEF IInv, TypeOK, LinkInv
<1> USE DEF captureVars, itemVars, procVars
<1>1. ASSUME NEW r \in Requesters, NEW i \in Items, SaveBegin(r, i) PROVE LinkInv'
  <2>1. /\ req' = [req EXCEPT ![r] = [at |-> "save", item |-> i, cap |-> None]]
        /\ MayCapture(i) /\ \A q \in Requesters : ~(req[q].at = "save" /\ req[q].item = i)
        /\ UNCHANGED <<state, verdict, status, latest>>
    BY <1>1 DEF SaveBegin, LinkLocked
  <2>2. StatusTruthful' /\ PointedAt'
    BY <1>0, <2>1 DEF StatusTruthful, PointedAt, InProgress
  <2>3. SavesAlone'
    BY <1>0, <2>1 DEF SavesAlone, MayCapture, InProgress
  <2> QED BY <2>2, <2>3 DEF LinkInv
<1>2. ASSUME NEW r \in Requesters, NEW c \in Captures, SaveCommit(r, c) PROVE LinkInv'
  <2> DEFINE i == req[r].item
  <2>1. /\ req[r].at = "save" /\ ItemOf[c] = i /\ state[c] = "absent"
        /\ state' = [state EXCEPT ![c] = "queued"] /\ verdict' = verdict
        /\ latest' = [latest EXCEPT ![i] = c] /\ status' = [status EXCEPT ![i] = "queued"]
        /\ req' = [req EXCEPT ![r] = NoRequest]
    BY <1>2 DEF SaveCommit, InsertCapture, PointItemAt
  <2>2. i \in Items /\ ~InProgress(latest[i]) /\ c # None
    BY <1>0, <2>1 DEF SavesAlone, MayCapture
  <2>3. \A j \in Items : latest[j] # c
    BY <1>0, <2>1, <2>2 DEF StatusTruthful
  <2>4. StatusTruthful'
    BY <1>0, <2>1, <2>2, <2>3 DEF StatusTruthful
  <2>5. PointedAt'
    <3>1. ASSUME NEW d \in Captures, InProgress(d)' PROVE latest'[ItemOf[d]] = d
      <4>1. CASE d = c
        BY <1>0, <2>1, <2>2, <4>1
      <4>2. CASE d # c
        <5>1. InProgress(d)
          BY <1>0, <2>1, <3>1, <4>2 DEF InProgress
        <5>2. latest[ItemOf[d]] = d /\ ItemOf[d] # i
          BY <1>0, <2>2, <5>1 DEF PointedAt
        <5> QED BY <1>0, <2>1, <2>2, <5>2
      <4> QED BY <4>1, <4>2
    <3>2. \A j \in Items : latest'[j] # None => ItemOf[latest'[j]] = j
      BY <1>0, <2>1, <2>2 DEF PointedAt
    <3> QED BY <3>1, <3>2 DEF PointedAt
  <2>6. SavesAlone'
    <3>1. \A q \in Requesters : req'[q] = IF q = r THEN NoRequest ELSE req[q]
      BY <1>0, <2>1
    <3>2. ASSUME NEW q \in Requesters, req'[q].at = "save"
          PROVE  req[q].at = "save" /\ req'[q] = req[q] /\ req[q].item # i
      BY <1>0, <2>1, <3>1, <3>2 DEF SavesAlone, NoRequest
    <3>3. ASSUME NEW q \in Requesters, req'[q].at = "save" PROVE (req[q].item \in Items /\ MayCapture(req[q].item))'
      <4>1. req[q].item \in Items \ {i} /\ ~InProgress(latest[req[q].item]) /\ req'[q] = req[q]
        BY <1>0, <3>2, <3>3 DEF SavesAlone, MayCapture
      <4>2. latest'[req[q].item] = latest[req[q].item] /\ latest[req[q].item] # c
        BY <1>0, <2>1, <2>3, <4>1
      <4>3. latest[req[q].item] \in Captures \cup {None}
        BY <1>0, <4>1
      <4> QED BY <1>0, <2>1, <4>1, <4>2, <4>3 DEF MayCapture, InProgress
    <3> QED BY <1>0, <3>1, <3>2, <3>3 DEF SavesAlone, NoRequest
  <2> QED BY <2>4, <2>5, <2>6 DEF LinkInv
<1>3. ASSUME NEW r \in Requesters, RequestDies(r) PROVE LinkInv'
  <2>1. /\ req' = [req EXCEPT ![r] = NoRequest] /\ UNCHANGED <<state, verdict, status, latest>>
    BY <1>3 DEF RequestDies
  <2>2. StatusTruthful' /\ PointedAt'
    BY <1>0, <2>1 DEF StatusTruthful, PointedAt, InProgress
  <2>3. SavesAlone'
    BY <1>0, <2>1 DEF SavesAlone, MayCapture, InProgress, NoRequest
  <2> QED BY <2>2, <2>3 DEF LinkInv
<1>4. ~Recapture
  BY <1>0 DEF SavesOnly, Recapture, RecaptureCheck, RecaptureInsert, RecapturePoint, SavesAlone
<1> QED BY <1>1, <1>2, <1>3, <1>4 DEF Save

\* A slot writes the row it holds, which is in progress, and its item.
LEMMA WorkKeepsLinks ==
  ASSUME Careful, IInv, LinkInv, Work
  PROVE  LinkInv'
<1>0. /\ state \in [Captures -> {"absent", "queued", "running", "done"}]
      /\ verdict \in [Captures -> Verdicts \cup {"none"}]
      /\ latest \in [Items -> Captures \cup {None}]
      /\ status \in [Items -> Verdicts \cup {"unsaved", "queued", "capturing", "rate_limited"}]
  BY DEF IInv, TypeOK
<1>p. ASSUME NEW c \in Captures, InProgress(c) PROVE ItemOf[c] \in Items /\ latest[ItemOf[c]] = c
  BY <1>p DEF LinkInv, PointedAt
<1>h. ASSUME NEW s \in Slots, Busy(s) PROVE slot[s].cap \in Captures /\ InProgress(slot[s].cap) /\ slot[s].att \in Nat
  BY <1>h DEF IInv, TypeOK, Holding, HoldsRow, InProgress
<1>1. ASSUME NEW s \in Slots, NEW c \in Captures, Claim(s, c) PROVE LinkInv'
  <2>1. /\ state[c] = "queued" /\ state' = [state EXCEPT ![c] = "running"] /\ verdict' = verdict
        /\ status' = [status EXCEPT ![ItemOf[c]] = "capturing"] /\ latest' = latest /\ req' = req
    BY <1>1 DEF Claim, ClaimRow, Claimable
  <2>2. InProgress(c)
    BY <2>1 DEF InProgress
  <2> QED BY <1>0, <2>1, <2>2, RowWritten DEF Says
<1>2. ASSUME NEW s \in Slots, NEW o \in Outcomes, Finish(s, o) PROVE LinkInv'
  <2> DEFINE c == slot[s].cap
             n == slot[s].att
  <2>1. c \in Captures /\ InProgress(c) /\ n \in Nat
    BY <1>h, <1>2 DEF Finish
  <2>2. ItemOf[c] \in Items /\ latest[ItemOf[c]] = c
    BY <1>p, <2>1
  <2>3. /\ state' = [state EXCEPT ![c] = IF Retries(o, n) THEN "queued" ELSE "done"]
        /\ verdict' = [verdict EXCEPT ![c] = IF Retries(o, n) THEN "none" ELSE VerdictOf(o)]
        /\ status' = [status EXCEPT ![ItemOf[c]] = PlannedStatus(o, n)]
        /\ latest' = [latest EXCEPT ![ItemOf[c]] = c] /\ req' = req
    BY <1>2 DEF Finish, FinishRow
  <2>4. latest' = latest
    BY <1>0, <2>2, <2>3
  <2>5. Says(PlannedStatus(o, n), IF Retries(o, n) THEN "queued" ELSE "done",
             IF Retries(o, n) THEN "none" ELSE VerdictOf(o))
    BY DEF Says, PlannedStatus
  <2>6. PlannedStatus(o, n) # "unsaved"
    BY DEF PlannedStatus, VerdictOf
  <2>7. /\ state'[c] = IF Retries(o, n) THEN "queued" ELSE "done"
        /\ verdict'[c] = IF Retries(o, n) THEN "none" ELSE VerdictOf(o)
        /\ status'[ItemOf[c]] = PlannedStatus(o, n)
        /\ \A d \in Captures \ {c} : state'[d] = state[d] /\ verdict'[d] = verdict[d]
        /\ \A i \in Items \ {ItemOf[c]} : status'[i] = status[i]
    BY <1>0, <2>1, <2>2, <2>3
  <2> HIDE DEF c, n
  <2> QED BY <2>1, <2>3, <2>4, <2>5, <2>6, <2>7, RowWritten
<1>3. ASSUME NEW s \in Slots, Crash(s) PROVE LinkInv'
  <2> DEFINE c == slot[s].cap
             retry == slot[s].att < MaxAttempts
  <2>1. c \in Captures /\ InProgress(c)
    BY <1>h, <1>3 DEF Crash
  <2>2. ItemOf[c] \in Items /\ latest[ItemOf[c]] = c
    BY <1>p, <2>1
  <2>3. /\ state' = [state EXCEPT ![c] = IF retry THEN "queued" ELSE "done"]
        /\ verdict' = [verdict EXCEPT ![c] = IF retry THEN "none" ELSE "failed"]
        /\ status' = [status EXCEPT ![ItemOf[c]] = IF retry THEN "queued" ELSE "failed"]
        /\ latest' = [latest EXCEPT ![ItemOf[c]] = c] /\ req' = req
    BY <1>3 DEF Crash
  <2> HIDE DEF c, retry
  <2>4. latest' = latest
    BY <1>0, <2>2, <2>3
  <2>5. /\ state'[c] = IF retry THEN "queued" ELSE "done"
        /\ verdict'[c] = IF retry THEN "none" ELSE "failed"
        /\ status'[ItemOf[c]] = IF retry THEN "queued" ELSE "failed"
        /\ \A d \in Captures \ {c} : state'[d] = state[d] /\ verdict'[d] = verdict[d]
        /\ \A i \in Items \ {ItemOf[c]} : status'[i] = status[i]
    BY <1>0, <2>1, <2>2, <2>3
  <2>6. status'[ItemOf[c]] # "unsaved" /\ Says(status'[ItemOf[c]], state'[c], verdict'[c])
    BY <2>5 DEF Says
  <2> QED BY <2>1, <2>3, <2>4, <2>5, <2>6, RowWritten
<1> QED BY <1>1, <1>2, <1>3 DEF Work, ClaimAckLost, FinishAckLost, Careful

\* recover_stuck requeues rows whose items say "capturing" already.
LEMMA ManageKeepsLinks ==
  ASSUME IInv, LinkInv, NEW p \in Procs, Start(p)
  PROVE  LinkInv'
<1>1. /\ state' = [c \in Captures |-> IF c \in Stuck THEN "queued" ELSE state[c]]
      /\ UNCHANGED <<verdict, status, latest, req>>
  BY DEF Start, itemVars
<1>2. \A c \in Captures : /\ InProgress(c)' <=> InProgress(c)
                          /\ state'[c] = state[c] \/ (state[c] = "running" /\ state'[c] = "queued")
  <2> TAKE c \in Captures
  <2>1. CASE c \in Stuck
    BY <1>1, <2>1 DEF InProgress, Stuck
  <2>2. CASE c \notin Stuck
    BY <1>1, <2>2 DEF InProgress
  <2> QED BY <2>1, <2>2
<1>3. latest \in [Items -> Captures \cup {None}]
  BY DEF IInv, TypeOK
<1>4. StatusTruthful'
  BY <1>1, <1>2, <1>3 DEF LinkInv, StatusTruthful
<1>5. PointedAt'
  BY <1>1, <1>2 DEF LinkInv, PointedAt
<1>6. SavesAlone'
  <2>1. \A i \in Items : MayCapture(i) => MayCapture(i)'
    BY <1>1, <1>2, <1>3 DEF MayCapture, InProgress
  <2> QED BY <1>1, <2>1 DEF LinkInv, SavesAlone
<1> QED BY <1>4, <1>5, <1>6 DEF LinkInv

LEMMA LinkStep == Careful /\ SavesOnly /\ IInv /\ LinkInv /\ [Next]_vars => LinkInv'
<1> SUFFICES ASSUME Careful, SavesOnly, IInv, LinkInv, [Next]_vars PROVE LinkInv'
  OBVIOUS
<1> USE DEF captureVars, itemVars
<1>1. ASSUME NEW p \in Procs, Stop(p) \/ Exit(p) \/ Die(p) PROVE LinkInv'
  BY <1>1, LinksUntouched DEF Stop, Exit, Die
<1>2. CASE Clock
  BY <1>2, LinksUntouched DEF Clock, Due, Overdue
<1>3. CASE UNCHANGED vars
  BY <1>3, LinksUntouched DEF vars
<1> QED BY <1>1, <1>2, <1>3, SaveKeepsLinks, WorkKeepsLinks, ManageKeepsLinks DEF Next, Manage

LEMMA LinksHold == ASSUME Careful, SavesOnly PROVE Spec => [](IInv /\ LinkInv)
<1>1. Init => LinkInv
  BY DEF Init, LinkInv, StatusTruthful, PointedAt, SavesAlone, InProgress, NoRequest
<1>2. IInv /\ LinkInv /\ [Next]_vars => LinkInv'
  BY LinkStep
<1> QED BY <1>1, <1>2, InvHolds, PTL DEF Spec

\* When links are only saved, what an item says is what its latest capture is doing, at every step of the
\* workers, their crashes and their restarts.
THEOREM StatusIsTrue == ASSUME Careful, SavesOnly PROVE Spec => []StatusTruthful
<1>1. LinkInv => StatusTruthful
  BY DEF LinkInv
<1> QED BY <1>1, LinksHold, PTL

\* ... and no link is being captured twice.
THEOREM OneCapture == ASSUME Careful, SavesOnly PROVE Spec => []OneInProgress
<1>1. LinkInv => OneInProgress
  BY DEF LinkInv, PointedAt, OneInProgress
<1> QED BY <1>1, LinksHold, PTL
=============================================================================

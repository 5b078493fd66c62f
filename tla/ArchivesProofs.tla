--------------------------- MODULE ArchivesProofs ---------------------------
(***************************************************************************)
(* Theorems about Archives, for any number of links, rows, captures and    *)
(* faults.                                                                 *)
(***************************************************************************)
EXTENDS Archives, TLAPS

USE ArchivesAssumption

-----------------------------------------------------------------------------
(* ArchiveBox's index *)

\* There is a latest snapshot, if there is one.
Ordered(S) == S = {} \/ \E s \in S : \A t \in S : t.n <= s.n

\* Every snapshot has a number from the count of captures; the latest of a link is well defined, with and without those
\* that have no content.
BoxInv ==
  /\ taken \in Copies /\ box \in [Links -> SUBSET Snapshot]
  /\ \A l \in Links : /\ Ordered(box[l]) /\ Ordered(HasContent(box[l]))
                      /\ \A s \in box[l] : s.n \in 1 .. taken

LEMMA LatestIs ==
  ASSUME NEW S, Ordered(S), S # {}
  PROVE  Latest(S) \in S /\ \A t \in S : t.n <= Latest(S).n
BY DEF Ordered, Latest

LEMMA BoxInit == Init => BoxInv
BY DEF Init, BoxInv, Ordered, HasContent, Copies

\* A capture is later than all before.
LEMMA CaptureBox == ASSUME BoxInv, NEW l \in Links, Capture(l) PROVE BoxInv' /\ box'[l] # {} /\ taken' # 0
<1>1. PICK o \in Outcomes :
        box' = [box EXCEPT ![l] = box[l] \cup
                  {[n |-> taken', content |-> o.content, ia |-> o.ia, wall |-> o.wall, tagged |-> FALSE]}]
  BY DEF Capture
<1> DEFINE s == [n |-> taken', content |-> o.content, ia |-> o.ia, wall |-> o.wall, tagged |-> FALSE]
<1>2. /\ taken' = taken + 1 /\ taken' \in Copies /\ taken \in Nat /\ taken' # 0
  BY DEF Capture, Take, BoxInv, Copies
<1>3. s \in Snapshot /\ s.n = taken'
  BY <1>2 DEF Snapshot
<1> HIDE DEF s
<1>4. box'[l] = box[l] \cup {s} /\ \A k \in Links \ {l} : box'[k] = box[k]
  BY <1>1 DEF BoxInv, s
<1>5. box' \in [Links -> SUBSET Snapshot]
  BY <1>1, <1>3 DEF BoxInv, s
<1>6. \A t \in box[l] : t.n \in 1 .. taken
  BY DEF BoxInv
<1>7. \A t \in box'[l] : t.n \in 1 .. taken' /\ t.n <= s.n
  BY <1>2, <1>3, <1>4, <1>6
<1>8. Ordered(box'[l])
  BY <1>4, <1>7 DEF Ordered
<1>9. Ordered(HasContent(box'[l]))
  <2>1. CASE s.content
    BY <1>4, <1>7, <2>1 DEF Ordered, HasContent
  <2>2. CASE ~s.content
    <3>1. HasContent(box'[l]) = HasContent(box[l])
      BY <1>4, <2>2 DEF HasContent
    <3> QED BY <3>1 DEF BoxInv
  <2> QED BY <2>1, <2>2
<1>10. \A k \in Links : \A t \in box'[k] : t.n \in 1 .. taken'
  <2> SUFFICES ASSUME NEW k \in Links, NEW t \in box'[k] PROVE t.n \in 1 .. taken'
    OBVIOUS
  <2>1. CASE k = l
    BY <1>7, <2>1
  <2>2. CASE k # l
    <3>1. t.n \in 1 .. taken
      BY <1>4, <2>2 DEF BoxInv
    <3> QED BY <1>2, <3>1
  <2> QED BY <2>1, <2>2
<1>11. \A k \in Links : Ordered(box'[k]) /\ Ordered(HasContent(box'[k]))
  BY <1>4, <1>8, <1>9 DEF BoxInv
<1> QED BY <1>2, <1>4, <1>5, <1>10, <1>11 DEF BoxInv

\* A screenshot that is put into the latest snapshot, and the tags, leave the order alone.
LEMMA InjectBox ==
  ASSUME BoxInv, NEW l \in Links, box[l] # {}, box' = injectScreenshot(l), taken' = taken
  PROVE  BoxInv'
<1> DEFINE s == Latest(box[l])
           c == [s EXCEPT !.content = TRUE]
<1>1. s \in box[l] /\ s \in Snapshot /\ \A t \in box[l] : t.n <= s.n
  BY LatestIs DEF BoxInv
<1>2. c \in Snapshot /\ c.n = s.n /\ c.content
  BY <1>1 DEF Snapshot
<1>3. box' = [box EXCEPT ![l] = (box[l] \ {s}) \cup {c}]
  BY DEF injectScreenshot, BoxInv
<1> HIDE DEF c, s
<1>4. box'[l] = (box[l] \ {s}) \cup {c} /\ \A k \in Links \ {l} : box'[k] = box[k]
  BY <1>3 DEF BoxInv
<1>5. c \in box'[l] /\ \A t \in box'[l] : t.n <= c.n /\ t.n \in 1 .. taken
  BY <1>1, <1>2, <1>4 DEF BoxInv, Snapshot, Copies
<1>6. Ordered(box'[l]) /\ Ordered(HasContent(box'[l]))
  BY <1>2, <1>5 DEF Ordered, HasContent
<1>7. box' \in [Links -> SUBSET Snapshot]
  BY <1>2, <1>3 DEF BoxInv
<1> QED BY <1>4, <1>5, <1>6, <1>7 DEF BoxInv

LEMMA TagBox == ASSUME BoxInv, box' = TagWalls, taken' = taken PROVE BoxInv'
<1> DEFINE T(s) == [s EXCEPT !.tagged = s.wall]
<1>1. \A l \in Links : box'[l] = {T(s) : s \in box[l]}
  BY DEF TagWalls
<1>2. \A s \in Snapshot : T(s) \in Snapshot /\ T(s).n = s.n /\ T(s).content = s.content
  BY DEF Snapshot
<1> HIDE DEF T
<1>3. ASSUME NEW l \in Links
      PROVE  /\ box'[l] \in SUBSET Snapshot /\ Ordered(box'[l]) /\ Ordered(HasContent(box'[l]))
             /\ \A s \in box'[l] : s.n \in 1 .. taken
  <2>1. box[l] \subseteq Snapshot /\ \A s \in box[l] : s.n \in 1 .. taken
    BY DEF BoxInv
  <2>2. Ordered(box'[l])
    BY <1>1, <1>2, <2>1 DEF BoxInv, Ordered
  <2>3. HasContent(box'[l]) = {T(s) : s \in HasContent(box[l])}
    BY <1>1, <1>2, <2>1 DEF HasContent
  <2>4. Ordered(HasContent(box'[l]))
    <3>1. Ordered(HasContent(box[l])) /\ HasContent(box[l]) \subseteq Snapshot
      BY <2>1 DEF BoxInv, HasContent
    <3> QED BY <1>2, <2>3, <3>1 DEF Ordered
  <2> QED BY <1>1, <1>2, <2>1, <2>2, <2>4
<1>4. box' \in [Links -> SUBSET Snapshot]
  BY <1>3 DEF TagWalls
<1> QED BY <1>3, <1>4 DEF BoxInv

\* Snapshots are not deleted.
LEMMA BoxGrows ==
  ASSUME BoxInv, NEW l \in Links, box[l] # {},
         \/ UNCHANGED box \/ \E k \in Links : Capture(k) \/ box' = injectScreenshot(k)
         \/ box' = TagWalls
  PROVE  box'[l] # {}
<1>1. CASE UNCHANGED box
  BY <1>1
<1>2. ASSUME NEW k \in Links, Capture(k) PROVE box'[l] # {}
  BY <1>2 DEF BoxInv, Capture
<1>3. ASSUME NEW k \in Links, box' = injectScreenshot(k) PROVE box'[l] # {}
  BY <1>3 DEF BoxInv, injectScreenshot
<1>4. CASE box' = TagWalls
  <2>1. PICK s \in box[l] : TRUE
    OBVIOUS
  <2>2. [s EXCEPT !.tagged = s.wall] \in box'[l]
    BY <1>4, <2>1 DEF TagWalls
  <2> QED BY <2>2
<1> QED BY <1>1, <1>2, <1>3, <1>4

-----------------------------------------------------------------------------
(* Types *)

ARow == [link : Links, tool : Tools, status : Statuses, attempts : Nat,
         wayback : Copies, local : Copies, sha : Copies, approved : BOOLEAN]
Found == [link : Links, local : Copies, wayback : Copies]
Places == {"down", "poll", "capture", "wayback", "readback", "store", "fail"}
Jobs == [at : Places, job : Ids \cup {None}, link : Links \cup {None}, tool : Tools \cup {None},
         tried : Nat, ok : Nat, wayback : Copies, local : Copies]
InHand == {"record", "archive", "insert", "inject"}
Sweeps == [at : {"off", "sleep", "reconcile", "resocial", "social", "botwall"} \cup InHand, todo : SUBSET Found,
           cur : Found \cup {None}]

Busy(w) == worker[w].at \in {"capture", "wayback", "readback", "store", "fail"}

\* The index holds a link.
Held(l) == box[l] # {}

RowsTyped == rows \in [Ids -> ARow \cup {None}]

\* A busy worker has a job, its link and its tool; what it reads back is in the index.
WorkersTyped ==
  /\ worker \in [Workers -> Jobs]
  /\ \A w \in Workers : Busy(w) =>
       /\ worker[w].job \in Ids /\ worker[w].link \in Links /\ worker[w].tool \in Tools
       /\ worker[w].at = "readback" => Held(worker[w].link)

\* A sweep goes through what the index holds.
SweepsTyped ==
  /\ sweep \in [Workers -> Sweeps]
  /\ \A w \in Workers :
       /\ \A e \in sweep[w].todo : Held(e.link)
       /\ sweep[w].at \in InHand => sweep[w].cur \in Found /\ Held(sweep[w].cur.link)

Typed == BoxInv /\ RowsTyped /\ WorkersTyped /\ SweepsTyped /\ faults \in Nat

LEMMA CopiesAre == 0 \in Copies /\ Copies \subseteq Nat
BY DEF Copies

LEMMA ListingIs ==
  ASSUME BoxInv, NEW e \in Listing
  PROVE  e \in Found /\ Held(e.link)
<1>1. PICK l \in Links :
        /\ HasContent(box[l]) # {}
        /\ e = [link |-> l, local |-> Latest(HasContent(box[l])).n,
                wayback |-> IF Latest(HasContent(box[l])).ia THEN Latest(HasContent(box[l])).n ELSE 0]
  BY DEF Listing
<1>2. Latest(HasContent(box[l])) \in HasContent(box[l])
  BY <1>1, LatestIs DEF BoxInv
<1>3. Latest(HasContent(box[l])) \in Snapshot /\ box[l] # {}
  BY <1>1, <1>2 DEF HasContent, BoxInv
<1>4. Latest(HasContent(box[l])).n \in Copies
  BY <1>3 DEF Snapshot
<1> HIDE DEF Listing
<1> QED BY <1>1, <1>3, <1>4, CopiesAre DEF Found, Held

LEMMA TypedInit == Init => Typed
<1> SUFFICES ASSUME Init PROVE Typed
  OBVIOUS
<1>1. Down \in Jobs /\ Off \in Sweeps /\ Down.at = "down" /\ Off.at = "off" /\ Off.todo = {}
  BY CopiesAre DEF Down, NoJob, Off, Asleep, Jobs, Sweeps, Places
<1>2. worker = [w \in Workers |-> Down] /\ sweep = [w \in Workers |-> Off] /\ rows = [id \in Ids |-> None] /\ faults = 0
  BY DEF Init
<1>3. WorkersTyped
  BY <1>1, <1>2 DEF WorkersTyped, Busy
<1>4. SweepsTyped
  BY <1>1, <1>2 DEF SweepsTyped, InHand
<1> QED BY <1>2, <1>3, <1>4, BoxInit DEF Typed, RowsTyped

\* The index of a step: as it is, or with a capture, a screenshot or tags.
BoxStep == \/ UNCHANGED <<box, taken>>
           \/ UNCHANGED box /\ Take
           \/ \E l \in Links : Capture(l)
           \/ UNCHANGED taken /\ \E l \in Links : box[l] # {} /\ box' = injectScreenshot(l)
           \/ UNCHANGED taken /\ box' = TagWalls

LEMMA BoxStepIs ==
  ASSUME BoxInv, BoxStep
  PROVE  BoxInv' /\ \A l \in Links : Held(l) => Held(l)'
<1>1. CASE UNCHANGED box /\ Take
  <2>1. taken \in Nat /\ MaxCaptures \in Nat /\ taken' = taken + 1 /\ taken' \in Copies
    BY <1>1 DEF Take, BoxInv, Copies
  <2>2. \A l \in Links : \A s \in box[l] : s.n \in 1 .. taken'
    BY <2>1 DEF BoxInv
  <2> QED BY <1>1, <2>1, <2>2 DEF BoxInv, Held
<1>2. BoxInv'
  BY <1>1, CaptureBox, InjectBox, TagBox DEF BoxStep, BoxInv
<1>3. UNCHANGED box \/ (\E k \in Links : Capture(k) \/ box' = injectScreenshot(k)) \/ box' = TagWalls
  BY DEF BoxStep
<1> QED BY <1>2, <1>3, BoxGrows DEF Held

\* One worker or one sweep moves on.
LEMMA WorkerTyped ==
  ASSUME Typed, BoxStep, NEW w \in Workers, NEW j \in Jobs, Go(w, j),
         j.at \in {"capture", "wayback", "readback", "store", "fail"} =>
           /\ j.job \in Ids /\ j.link \in Links /\ j.tool \in Tools
           /\ j.at = "readback" => Held(j.link)'
  PROVE  WorkersTyped'
<1>1. \A l \in Links : Held(l) => Held(l)'
  BY BoxStepIs DEF Typed
<1> QED BY <1>1 DEF Go, Typed, WorkersTyped, Busy

LEMMA WorkersStay == ASSUME Typed, BoxStep, UNCHANGED worker PROVE WorkersTyped'
<1>1. \A l \in Links : Held(l) => Held(l)'
  BY BoxStepIs DEF Typed
<1> QED BY <1>1 DEF Typed, WorkersTyped, Busy

LEMMA FoundStays == ASSUME Typed, BoxStep, NEW e \in Found, Held(e.link) PROVE Held(e.link)'
<1>1. e.link \in Links
  BY DEF Found
<1> QED BY <1>1, BoxStepIs DEF Typed

LEMMA SweepTyped ==
  ASSUME Typed, BoxStep, NEW w \in Workers, NEW x \in Sweeps, SweepTo(w, x),
         \A e \in x.todo : Held(e.link),
         x.at \in InHand => x.cur \in Found /\ Held(x.cur.link)
  PROVE  SweepsTyped'
<1>1. sweep' \in [Workers -> Sweeps] /\ sweep'[w] = x /\ \A v \in Workers \ {w} : sweep'[v] = sweep[v]
  BY DEF SweepTo, Typed, SweepsTyped
<1>2. ASSUME NEW v \in Workers, NEW e \in sweep'[v].todo PROVE Held(e.link)'
  <2>1. e \in Found
    BY <1>1 DEF Sweeps
  <2>2. Held(e.link)
    BY <1>1 DEF Typed, SweepsTyped
  <2> QED BY <2>1, <2>2, FoundStays
<1>3. ASSUME NEW v \in Workers, sweep'[v].at \in InHand PROVE sweep'[v].cur \in Found /\ Held(sweep[v].cur.link)'
  <2>1. sweep'[v].cur \in Found /\ Held(sweep'[v].cur.link)
    BY <1>1, <1>3 DEF Typed, SweepsTyped
  <2> QED BY <2>1, FoundStays
<1> QED BY <1>1, <1>2, <1>3 DEF SweepsTyped

LEMMA SweepsStay == ASSUME Typed, BoxStep, UNCHANGED sweep PROVE SweepsTyped'
<1>1. ASSUME NEW v \in Workers, NEW e \in sweep[v].todo PROVE Held(e.link)'
  <2>1. e \in Found /\ Held(e.link)
    BY DEF Typed, SweepsTyped, Sweeps
  <2> QED BY <2>1, FoundStays
<1>2. ASSUME NEW v \in Workers, sweep[v].at \in InHand PROVE sweep[v].cur \in Found /\ Held(sweep[v].cur.link)'
  <2>1. sweep[v].cur \in Found /\ Held(sweep[v].cur.link)
    BY <1>2 DEF Typed, SweepsTyped
  <2> QED BY <2>1, FoundStays
<1> QED BY <1>1, <1>2 DEF Typed, SweepsTyped

-----------------------------------------------------------------------------
(* The rows *)

HasCopy(r) == r.wayback # 0 \/ r.local # 0

\* What StatusTruthful says of one row, and what the sweeps insert is archived and stays so: no worker claims it.
RowTrue(id, r) == r # None =>
  /\ id \in SweepIds => r.status = "archived"
  /\ r.status \in {"archived", "partial"} => HasCopy(r)
  /\ r.status = "archived" /\ id \in JobIds => r.wayback # 0 /\ (r.tool = "archive-box" => r.local # 0)

RowsTrue == \A id \in Ids : RowTrue(id, rows[id])

\* A queued row keeps its tool, and its id is not given to another while a worker has it in hand.
SameTool(id, r) ==
  id \in JobIds /\ r # None => (Exists(id) /\ r.tool = rows[id].tool) \/ \A w \in Workers : worker[w].job # id

ToolsStay == \A id \in Ids : SameTool(id, rows'[id])
RowsKept == RowsTyped' /\ RowsTrue' /\ ToolsStay

LEMMA RowIs == ASSUME RowsTyped, NEW id \in Ids, Exists(id) PROVE rows[id] \in ARow
BY DEF RowsTyped, Exists

LEMMA RowsStay == ASSUME RowsTyped, RowsTrue, UNCHANGED rows PROVE RowsKept
BY DEF RowsKept, RowsTyped, RowsTrue, ToolsStay, SameTool, Exists

\* A statement on one row.
LEMMA RowChange ==
  ASSUME RowsTyped, RowsTrue, NEW id \in Ids, NEW r \in ARow \cup {None}, rows' = [rows EXCEPT ![id] = r],
         RowTrue(id, r), SameTool(id, r)
  PROVE  RowsKept
<1>1. rows' \in [Ids -> ARow \cup {None}] /\ rows'[id] = r /\ \A i \in Ids \ {id} : rows'[i] = rows[i]
  BY DEF RowsTyped
<1>2. \A i \in Ids : RowTrue(i, rows'[i])
  BY <1>1 DEF RowsTrue
<1>3. \A i \in Ids \ {id} : SameTool(i, rows[i])
  BY DEF SameTool, Exists
<1> QED BY <1>1, <1>2, <1>3 DEF RowsKept, RowsTyped, RowsTrue, ToolsStay

LEMMA NewJobIs ==
  ASSUME NEW l \in Links, NEW t \in Tools, NEW wb \in Copies, NEW lc \in Copies
  PROVE  /\ NewJob(l, t) \in ARow /\ NewJob(l, t).status = "pending"
         /\ Backfilled(l, t, wb, lc) \in ARow /\ Backfilled(l, t, wb, lc).status = "archived"
         /\ Backfilled(l, t, wb, lc).wayback = wb /\ Backfilled(l, t, wb, lc).local = lc
         /\ Backfilled(l, t, wb, lc).link = l /\ Backfilled(l, t, wb, lc).tool = t
BY CopiesAre DEF NewJob, Backfilled, ARow, Statuses

LEMMA CompletedIs ==
  ASSUME NEW r \in ARow, NEW out \in Jobs, NEW hash \in Copies
  PROVE  /\ Completed(r, out, hash) \in ARow
         /\ Completed(r, out, hash).wayback = out.wayback /\ Completed(r, out, hash).local = out.local
         /\ Completed(r, out, hash).tool = r.tool /\ Completed(r, out, hash).link = r.link
         /\ Completed(r, out, hash).status = IF out.ok = out.tried THEN "archived" ELSE "partial"
<1>1. out.wayback \in Copies /\ out.local \in Copies
  BY DEF Jobs
<1> DEFINE status == IF out.ok = out.tried THEN "archived" ELSE "partial"
           sha == IF hash # 0 THEN hash ELSE r.sha
<1>2. status \in Statuses /\ sha \in Copies
  BY DEF Statuses, ARow
<1>3. Completed(r, out, hash) = [r EXCEPT !.wayback = out.wayback, !.local = out.local, !.status = status, !.sha = sha]
  BY DEF Completed, ARow
<1> HIDE DEF status, sha
<1>4. /\ Completed(r, out, hash) \in ARow /\ Completed(r, out, hash).status = status
      /\ Completed(r, out, hash).wayback = out.wayback /\ Completed(r, out, hash).local = out.local
      /\ Completed(r, out, hash).tool = r.tool /\ Completed(r, out, hash).link = r.link
  BY <1>1, <1>2, <1>3 DEF ARow
<1> QED BY <1>4 DEF status

LEMMA ApiRows ==
  ASSUME RowsTyped, RowsTrue, Submit \/ \E id \in Ids : Approve(id) \/ Reject(id) \/ Retry(id) \/ Delete(id)
  PROVE  RowsKept
<1>1. ASSUME Submit PROVE RowsKept
  <2>1. PICK id \in JobIds, l \in Links, t \in Tools : FreeJob(id) /\ rows' = [rows EXCEPT ![id] = NewJob(l, t)]
    BY <1>1 DEF Submit
  <2>2. NewJob(l, t) \in ARow /\ NewJob(l, t).status = "pending"
    BY NewJobIs, CopiesAre
  <2>3. RowTrue(id, NewJob(l, t)) /\ SameTool(id, NewJob(l, t))
    BY <2>1, <2>2 DEF RowTrue, SameTool, FreeJob
  <2> HIDE DEF NewJob
  <2> QED BY <2>1, <2>2, <2>3, RowChange DEF Ids
<1>2. ASSUME NEW id \in Ids, NEW b \in BOOLEAN, Exists(id), rows' = [rows EXCEPT ![id].approved = b]
      PROVE  RowsKept
  <2> DEFINE r == [rows[id] EXCEPT !.approved = b]
  <2>1. rows[id] \in ARow /\ RowTrue(id, rows[id]) /\ rows[id] # None
    BY <1>2, RowIs DEF RowsTrue, Exists
  <2>2. r \in ARow /\ r.status = rows[id].status /\ r.wayback = rows[id].wayback /\ r.local = rows[id].local /\ r.tool = rows[id].tool
    BY <2>1 DEF ARow
  <2>3. rows' = [rows EXCEPT ![id] = r]
    BY <1>2
  <2> HIDE DEF r
  <2>4. RowTrue(id, r) /\ SameTool(id, r)
    BY <1>2, <2>1, <2>2 DEF RowTrue, SameTool, HasCopy
  <2> QED BY <2>2, <2>3, <2>4, RowChange
<1>3. ASSUME NEW id \in Ids, Approve(id) \/ Reject(id) PROVE RowsKept
  BY <1>2, <1>3 DEF Approve, Reject
<1>4. ASSUME NEW id \in Ids, Retry(id) PROVE RowsKept
  <2> DEFINE r == [rows[id] EXCEPT !.status = "pending"]
  <2>1. /\ rows[id] \in ARow /\ RowTrue(id, rows[id]) /\ rows[id] # None /\ rows[id].status \in {"failed", "partial"}
        /\ rows' = [rows EXCEPT ![id] = r]
    BY <1>4, RowIs DEF Retry, RowsTrue, Exists
  <2>2. r \in ARow /\ r.status = "pending" /\ r.tool = rows[id].tool
    BY <2>1 DEF ARow, Statuses
  <2> HIDE DEF r
  <2>3. RowTrue(id, r) /\ SameTool(id, r)
    BY <2>1, <2>2 DEF RowTrue, SameTool, Exists
  <2> QED BY <2>1, <2>2, <2>3, RowChange
<1>5. ASSUME NEW id \in Ids, Delete(id) PROVE RowsKept
  BY <1>5, RowChange DEF Delete, RowTrue, SameTool
<1> QED BY <1>1, <1>3, <1>4, <1>5

LEMMA ClaimRows ==
  ASSUME RowsTyped, RowsTrue, NEW id \in Ids, Exists(id), rows[id].status = "pending", rows' = claimNext(id)
  PROVE  RowsKept /\ id \in JobIds /\ rows'[id].tool = rows[id].tool
<1> DEFINE r == [rows[id] EXCEPT !.status = "running", !.attempts = rows[id].attempts + 1]
<1>1. rows[id] \in ARow /\ RowTrue(id, rows[id]) /\ rows[id] # None
  BY RowIs DEF RowsTrue, Exists
<1>2. r \in ARow
  <2>1. rows[id].attempts + 1 \in Nat
    BY <1>1 DEF ARow
  <2>2. "running" \in Statuses
    BY DEF Statuses
  <2> QED BY <1>1, <2>1, <2>2 DEF ARow
<1>3. r.status = "running" /\ r.tool = rows[id].tool
  BY <1>1 DEF ARow
<1>4. rows' = [rows EXCEPT ![id] = r]
  <2>1. rows'[id] = r
    BY <1>1 DEF claimNext, RowsTyped, ARow
  <2>2. DOMAIN rows' = Ids /\ rows' = [i \in Ids |-> rows'[i]] /\ \A i \in Ids \ {id} : rows'[i] = rows[i]
    BY DEF claimNext, RowsTyped
  <2> HIDE DEF r
  <2> QED BY <2>1, <2>2 DEF RowsTyped
<1> HIDE DEF r
<1>5. id \in JobIds
  BY <1>1 DEF RowTrue, Ids
<1>6. RowTrue(id, r) /\ SameTool(id, r)
  BY <1>1, <1>3, <1>5 DEF RowTrue, SameTool, Exists
<1>7. RowsKept
  BY <1>2, <1>4, <1>6, RowChange
<1> QED BY <1>3, <1>4, <1>5, <1>7 DEF RowsTyped

LEMMA RecoverRows == ASSUME RowsTyped, RowsTrue, rows' = recoverStuck PROVE RowsKept
<1>1. ASSUME NEW i \in Ids PROVE recoverStuck[i] \in ARow \cup {None} /\ RowTrue(i, recoverStuck[i]) /\ SameTool(i, recoverStuck[i])
  <2>1. CASE Exists(i) /\ rows[i].status = "running"
    <3> DEFINE st == IF rows[i].attempts >= MaxAttempts THEN "failed" ELSE "pending"
               r == [rows[i] EXCEPT !.status = st]
    <3>1. rows[i] \in ARow /\ RowTrue(i, rows[i]) /\ rows[i] # None
      BY <2>1, RowIs DEF RowsTrue, Exists
    <3>2. recoverStuck[i] = r
      BY <2>1 DEF recoverStuck
    <3>3. st \in {"failed", "pending"}
      OBVIOUS
    <3> HIDE DEF st
    <3>4. r \in ARow /\ r.status = st /\ r.tool = rows[i].tool
      BY <3>1, <3>3 DEF ARow, Statuses
    <3> HIDE DEF r
    <3> QED BY <2>1, <3>1, <3>2, <3>3, <3>4 DEF RowTrue, SameTool, Ids
  <2>2. CASE ~(Exists(i) /\ rows[i].status = "running")
    <3>1. recoverStuck[i] = rows[i]
      BY <2>2 DEF recoverStuck
    <3> QED BY <3>1 DEF RowsTyped, RowsTrue, SameTool, Exists
  <2> QED BY <2>1, <2>2
<1>2. rows' \in [Ids -> ARow \cup {None}]
  BY <1>1 DEF recoverStuck
<1> HIDE DEF recoverStuck
<1> QED BY <1>1, <1>2 DEF RowsKept, RowsTyped, RowsTrue, ToolsStay

\* A job is completed with what its archivers left, if its row is still there.
LEMMA CompleteRows ==
  ASSUME RowsTyped, RowsTrue, NEW id \in JobIds, NEW out \in Jobs, NEW hash \in Copies,
         Exists(id) => rows[id].tool = out.tool, HasCopy(out),
         out.ok = out.tried => out.wayback # 0 /\ (out.tool = "archive-box" => out.local # 0),
         rows' = complete(id, out, hash)
  PROVE  RowsKept
<1>1. CASE ~Exists(id)
  BY <1>1, RowsStay DEF complete
<1>2. CASE Exists(id)
  <2> DEFINE r == Completed(rows[id], out, hash)
  <2>1. rows[id] \in ARow /\ id \notin SweepIds /\ id \in Ids
    BY <1>2, RowIs DEF Ids
  <2>2. /\ r \in ARow /\ r.wayback = out.wayback /\ r.local = out.local /\ r.tool = rows[id].tool
        /\ r.status = IF out.ok = out.tried THEN "archived" ELSE "partial"
    BY <2>1, CompletedIs
  <2>3. rows' = [rows EXCEPT ![id] = r]
    BY <1>2 DEF complete
  <2> HIDE DEF r
  <2>4. RowTrue(id, r)
    BY <1>2, <2>1, <2>2 DEF RowTrue, HasCopy
  <2>5. SameTool(id, r)
    BY <1>2, <2>2 DEF SameTool
  <2> QED BY <2>1, <2>2, <2>3, <2>4, <2>5, RowChange
<1> QED BY <1>1, <1>2

LEMMA FailRows == ASSUME RowsTyped, RowsTrue, NEW id \in JobIds, rows' = fail(id) PROVE RowsKept
<1>1. CASE ~Exists(id)
  BY <1>1, RowsStay DEF fail
<1>2. CASE Exists(id)
  <2> DEFINE r == [rows[id] EXCEPT !.status = "failed"]
  <2>1. rows[id] \in ARow /\ id \notin SweepIds /\ id \in Ids
    BY <1>2, RowIs DEF Ids
  <2>2. r \in ARow /\ r.status = "failed" /\ r.tool = rows[id].tool
    BY <2>1 DEF ARow, Statuses
  <2>3. rows' = [rows EXCEPT ![id] = r]
    BY <1>2 DEF fail
  <2> HIDE DEF r
  <2>4. RowTrue(id, r) /\ SameTool(id, r)
    BY <1>2, <2>1, <2>2 DEF RowTrue, SameTool
  <2> QED BY <2>1, <2>2, <2>3, <2>4, RowChange
<1> QED BY <1>1, <1>2

\* What a sweep inserts has a copy.
LEMMA InsertRows ==
  ASSUME RowsTyped, RowsTrue, NEW l \in Links, NEW t \in Tools, NEW wb \in Copies, NEW lc \in Copies,
         wb # 0 \/ lc # 0, insertBackfilled(Backfilled(l, t, wb, lc))
  PROVE  RowsKept
<1> DEFINE r == Backfilled(l, t, wb, lc)
<1>1. PICK id \in SweepIds : rows' = [rows EXCEPT ![id] = r]
  BY DEF insertBackfilled
<1>2. r \in ARow /\ r.status = "archived" /\ HasCopy(r)
  BY NewJobIs DEF HasCopy
<1> HIDE DEF r
<1>3. id \notin JobIds /\ id \in Ids
  BY DEF Ids
<1>4. RowTrue(id, r) /\ SameTool(id, r)
  BY <1>2, <1>3 DEF RowTrue, SameTool
<1> QED BY <1>1, <1>2, <1>3, <1>4, RowChange

-----------------------------------------------------------------------------
(* The steps of the worker *)

LEMMA PlacesAre ==
  /\ NoJob \in Jobs /\ Down \in Jobs /\ NoJob.at = "poll" /\ Down.at = "down" /\ NoJob.job = None /\ Down.job = None
  /\ Asleep \in Sweeps /\ Off \in Sweeps /\ Asleep.at = "sleep" /\ Off.at = "off" /\ Asleep.todo = {} /\ Off.todo = {}
BY CopiesAre DEF NoJob, Down, Jobs, Places, Asleep, Off, Sweeps

\* What the record of a job says at each place: nothing was tried yet; the first archiver has failed or left a copy;
\* an archiver that succeeded left a copy, and if both did there is a Wayback copy, and with ArchiveBox a local one.
Result(j) ==
  /\ j.at \in {"capture", "readback"} => j.tried = 0 /\ j.ok = 0 /\ j.wayback = 0 /\ j.local = 0
  /\ j.at = "readback" => j.tool = "archive-box"
  /\ j.at = "wayback" => /\ j.tool = "auto-archiver" /\ j.tried = 1 /\ j.ok \in {0, 1}
                         /\ j.ok = 1 => j.wayback # 0 \/ j.local # 0
  /\ j.at = "store" => /\ j.ok > 0 => j.wayback # 0 \/ j.local # 0
                       /\ j.ok = j.tried => j.wayback # 0 /\ (j.tool = "archive-box" => j.local # 0)

Results == \A w \in Workers : Result(worker[w])

\* The same job in another record.
SameJob(j, k) == j.job = k.job /\ j.link = k.link /\ j.tool = k.tool

LEMMA TriedIs ==
  ASSUME NEW j \in Jobs
  PROVE  /\ Tried(j) \in Jobs /\ SameJob(Tried(j), j)
         /\ Tried(j).tried = j.tried + 1 /\ Tried(j).ok = j.ok
         /\ Tried(j).wayback = j.wayback /\ Tried(j).local = j.local
<1>1. Tried(j) = [j EXCEPT !.tried = j.tried + 1] /\ j.tried + 1 \in Nat
  BY DEF Tried, Jobs
<1> QED BY <1>1 DEF Jobs, SameJob

LEMMA TryStepIs ==
  ASSUME NEW j \in Jobs, NEW r, r.wayback \in Copies, r.local \in Copies
  PROVE  LET k == TryStep(j, r) IN
         /\ k \in Jobs /\ SameJob(k, j) /\ k.tried = j.tried + 1 /\ k.ok = j.ok + 1
         /\ k.wayback = (IF j.wayback # 0 THEN j.wayback ELSE r.wayback)
         /\ k.local = (IF j.local # 0 THEN j.local ELSE r.local)
<1> DEFINE wb == IF j.wayback # 0 THEN j.wayback ELSE r.wayback
           lc == IF j.local # 0 THEN j.local ELSE r.local
<1>1. wb \in Copies /\ lc \in Copies /\ j.ok + 1 \in Nat /\ j.tried + 1 \in Nat
  BY DEF Jobs
<1>2. TryStep(j, r) = [Tried(j) EXCEPT !.ok = j.ok + 1, !.wayback = wb, !.local = lc]
  BY DEF TryStep, Tried, Jobs
<1>3. /\ Tried(j) \in Jobs /\ SameJob(Tried(j), j) /\ Tried(j).tried = j.tried + 1
  BY TriedIs
<1> HIDE DEF wb, lc
<1>4. /\ TryStep(j, r) \in Jobs /\ SameJob(TryStep(j, r), j)
      /\ TryStep(j, r).tried = j.tried + 1 /\ TryStep(j, r).ok = j.ok + 1
      /\ TryStep(j, r).wayback = wb /\ TryStep(j, r).local = lc
  BY <1>1, <1>2, <1>3 DEF Jobs, SameJob
<1> QED BY <1>4 DEF wb, lc

LEMMA PlaceIs ==
  ASSUME NEW j \in Jobs, NEW place \in Places
  PROVE  LET k == [j EXCEPT !.at = place] IN
         /\ k \in Jobs /\ SameJob(k, j) /\ k.at = place
         /\ k.tried = j.tried /\ k.ok = j.ok /\ k.wayback = j.wayback /\ k.local = j.local
BY DEF Jobs, SameJob

\* Where one archiver leads: the same job with its result.
Onward(w, j) ==
  /\ Go(w, j) /\ SameJob(j, worker[w]) /\ Result(j) /\ BoxStep
  /\ j.at \in {"wayback", "readback", "store"} /\ (j.at = "readback" => box'[j.link] # {})

LEMMA AutoArchiveMoves ==
  ASSUME Typed, Results, NEW w \in Workers, AutoArchive(w) PROVE \E j \in Jobs : Onward(w, j)
<1>1. worker[w] \in Jobs /\ Result(worker[w]) /\ worker[w].at = "capture" /\ worker[w].tool = "auto-archiver"
  BY DEF AutoArchive, At, Typed, WorkersTyped, Results
<1>2. /\ worker[w].tried = 0 /\ worker[w].ok = 0 /\ worker[w].wayback = 0 /\ worker[w].local = 0
  BY <1>1 DEF Result
<1>3. taken \in Nat /\ MaxCaptures \in Nat
  BY DEF Typed, BoxInv, Copies
<1>4. CASE UNCHANGED taken /\ Go(w, [Tried(worker[w]) EXCEPT !.at = "wayback"])
  <2> DEFINE k == Tried(worker[w])
             j == [k EXCEPT !.at = "wayback"]
  <2>1. k \in Jobs /\ SameJob(k, worker[w]) /\ k.tried = 1 /\ k.ok = 0
    BY <1>1, <1>2, TriedIs
  <2> HIDE DEF k
  <2>2. j \in Jobs /\ SameJob(j, k) /\ j.at = "wayback" /\ j.tried = 1 /\ j.ok = 0
    BY <2>1, PlaceIs DEF Places
  <2>3. Result(j)
    BY <1>1, <2>1, <2>2 DEF Result, SameJob
  <2>4. BoxStep
    BY <1>4 DEF BoxStep, AutoArchive
  <2> HIDE DEF j
  <2>5. Go(w, j)
    BY <1>4 DEF j, k
  <2> QED BY <2>1, <2>2, <2>3, <2>4, <2>5 DEF Onward, SameJob
<1>5. ASSUME Take, NEW r \in Artifacts, Go(w, [TryStep(worker[w], r) EXCEPT !.at = "wayback"])
      PROVE  \E j \in Jobs : Onward(w, j)
  <2> DEFINE k == TryStep(worker[w], r)
             j == [k EXCEPT !.at = "wayback"]
  <2>1. r.wayback \in Copies /\ r.local \in Copies /\ (r.wayback # 0 \/ r.local # 0)
    BY <1>3, <1>5 DEF Artifacts, Take, Copies
  <2>2. /\ k \in Jobs /\ SameJob(k, worker[w]) /\ k.tried = 1 /\ k.ok = 1
        /\ k.wayback = r.wayback /\ k.local = r.local
    BY <1>1, <1>2, <2>1, TryStepIs
  <2> HIDE DEF k
  <2>3. /\ j \in Jobs /\ SameJob(j, k) /\ j.at = "wayback" /\ j.tried = 1 /\ j.ok = 1
        /\ j.wayback = r.wayback /\ j.local = r.local
    BY <2>2, PlaceIs DEF Places
  <2>4. Result(j)
    BY <1>1, <2>1, <2>2, <2>3 DEF Result, SameJob
  <2>5. BoxStep
    BY <1>5 DEF BoxStep, AutoArchive
  <2> HIDE DEF j
  <2>6. Go(w, j)
    BY <1>5 DEF j, k
  <2> QED BY <2>2, <2>3, <2>4, <2>5, <2>6 DEF Onward, SameJob
<1> QED BY <1>4, <1>5 DEF AutoArchive

LEMMA SaveToWaybackMoves ==
  ASSUME Typed, Results, NEW w \in Workers, SaveToWayback(w) PROVE \E j \in Jobs : Onward(w, j)
<1>1. worker[w] \in Jobs /\ Result(worker[w]) /\ worker[w].at = "wayback"
  BY DEF SaveToWayback, At, Typed, WorkersTyped, Results
<1>2. /\ worker[w].tried = 1 /\ worker[w].ok \in {0, 1} /\ worker[w].tool = "auto-archiver"
      /\ worker[w].ok = 1 => worker[w].wayback # 0 \/ worker[w].local # 0
  BY <1>1 DEF Result
<1>3. taken \in Nat /\ MaxCaptures \in Nat /\ worker[w].wayback \in Nat /\ worker[w].local \in Nat
  BY <1>1, CopiesAre DEF Typed, BoxInv, Copies, Jobs
<1>4. CASE UNCHANGED taken /\ Go(w, [Tried(worker[w]) EXCEPT !.at = "store"])
  <2> DEFINE k == Tried(worker[w])
             j == [k EXCEPT !.at = "store"]
  <2>1. /\ k \in Jobs /\ SameJob(k, worker[w]) /\ k.tried = 2 /\ k.ok = worker[w].ok
        /\ k.wayback = worker[w].wayback /\ k.local = worker[w].local
    BY <1>1, <1>2, TriedIs
  <2> HIDE DEF k
  <2>2. /\ j \in Jobs /\ SameJob(j, k) /\ j.at = "store" /\ j.tried = 2 /\ j.ok = k.ok
        /\ j.wayback = k.wayback /\ j.local = k.local
    BY <2>1, PlaceIs DEF Places
  <2>3. Result(j)
    BY <1>1, <1>2, <2>1, <2>2 DEF Result, SameJob
  <2>4. BoxStep
    BY <1>4 DEF BoxStep, SaveToWayback
  <2> HIDE DEF j
  <2>5. Go(w, j)
    BY <1>4 DEF j, k
  <2> QED BY <2>1, <2>2, <2>3, <2>4, <2>5 DEF Onward, SameJob
<1>5. CASE Take /\ Go(w, [TryStep(worker[w], [wayback |-> taken', local |-> 0]) EXCEPT !.at = "store"])
  <2> DEFINE r == [wayback |-> taken', local |-> 0]
             k == TryStep(worker[w], r)
             j == [k EXCEPT !.at = "store"]
  <2>1. r.wayback \in Copies /\ r.local \in Copies /\ r.wayback # 0 /\ r.local = 0
    BY <1>3, <1>5 DEF Take, Copies
  <2> HIDE DEF r
  <2>2. /\ k \in Jobs /\ SameJob(k, worker[w]) /\ k.tried = 2 /\ k.ok = worker[w].ok + 1
        /\ k.wayback # 0 /\ k.local = worker[w].local
    BY <1>1, <1>2, <1>3, <2>1, TryStepIs
  <2> HIDE DEF k
  <2>3. /\ j \in Jobs /\ SameJob(j, k) /\ j.at = "store" /\ j.wayback # 0
    BY <2>2, PlaceIs DEF Places
  <2>4. Result(j)
    BY <1>2, <2>2, <2>3 DEF Result, SameJob
  <2>5. BoxStep
    BY <1>5 DEF BoxStep, SaveToWayback
  <2> HIDE DEF j
  <2>6. Go(w, j)
    BY <1>5 DEF j, k, r
  <2> QED BY <2>2, <2>3, <2>4, <2>5, <2>6 DEF Onward, SameJob
<1> QED BY <1>4, <1>5 DEF SaveToWayback

LEMMA BoxAddMoves ==
  ASSUME Typed, Results, NEW w \in Workers, BoxAdd(w) PROVE \E j \in Jobs : Onward(w, j)
<1>1. /\ worker[w] \in Jobs /\ Result(worker[w]) /\ worker[w].at = "capture" /\ worker[w].tool = "archive-box"
      /\ worker[w].link \in Links
  BY DEF BoxAdd, At, Typed, WorkersTyped, Results, Busy
<1>2. /\ worker[w].tried = 0 /\ worker[w].ok = 0 /\ worker[w].wayback = 0 /\ worker[w].local = 0
  BY <1>1 DEF Result
<1>3. CASE UNCHANGED <<box, taken>> /\ Go(w, [Tried(Tried(worker[w])) EXCEPT !.at = "store"])
  <2> DEFINE k == Tried(Tried(worker[w]))
             j == [k EXCEPT !.at = "store"]
  <2>1. k \in Jobs /\ SameJob(k, worker[w]) /\ k.tried = 2 /\ k.ok = 0
    BY <1>1, <1>2, TriedIs DEF SameJob
  <2> HIDE DEF k
  <2>2. j \in Jobs /\ SameJob(j, k) /\ j.at = "store" /\ j.tried = 2 /\ j.ok = 0
    BY <2>1, PlaceIs DEF Places
  <2>3. Result(j)
    BY <2>2 DEF Result
  <2>4. BoxStep
    BY <1>3 DEF BoxStep
  <2> HIDE DEF j
  <2>5. Go(w, j)
    BY <1>3 DEF j, k
  <2> QED BY <2>1, <2>2, <2>3, <2>4, <2>5 DEF Onward, SameJob
<1>4. CASE Capture(worker[w].link) /\ Go(w, [worker[w] EXCEPT !.at = "readback"])
  <2> DEFINE j == [worker[w] EXCEPT !.at = "readback"]
  <2>1. /\ j \in Jobs /\ SameJob(j, worker[w]) /\ j.at = "readback"
        /\ j.tried = 0 /\ j.ok = 0 /\ j.wayback = 0 /\ j.local = 0
    BY <1>1, <1>2, PlaceIs DEF Places
  <2>2. Result(j)
    BY <1>1, <2>1 DEF Result, SameJob
  <2>3. BoxStep /\ box'[worker[w].link] # {}
    BY <1>1, <1>4, CaptureBox DEF Typed, BoxStep
  <2> HIDE DEF j
  <2>4. Go(w, j)
    BY <1>4 DEF j
  <2>5. j.link = worker[w].link
    BY <2>1 DEF SameJob
  <2> QED BY <2>1, <2>2, <2>3, <2>4, <2>5 DEF Onward
<1> QED BY <1>3, <1>4 DEF BoxAdd

LEMMA BoxReadMoves ==
  ASSUME Typed, Results, NEW w \in Workers, BoxRead(w) PROVE \E j \in Jobs : Onward(w, j)
<1> DEFINE q == worker[w]
           s == Latest(box[q.link])
           wb == IF s.ia THEN s.n ELSE 0
           r == [wayback |-> wb, local |-> s.n]
           out == TryStep(q, r)
           both == IF out.wayback # 0 THEN [Tried(out) EXCEPT !.ok = @ + 1] ELSE Tried(out)
           k == IF s.content THEN both ELSE Tried(Tried(q))
           j == [k EXCEPT !.at = "store"]
<1>1. q \in Jobs /\ Result(q) /\ q.at = "readback" /\ q.link \in Links /\ Held(q.link)
  BY DEF BoxRead, At, Typed, WorkersTyped, Results, Busy
<1>2. q.tried = 0 /\ q.ok = 0 /\ q.wayback = 0 /\ q.local = 0 /\ q.tool = "archive-box"
  BY <1>1 DEF Result
<1>3. s \in box[q.link] /\ s \in Snapshot /\ s.n \in 1 .. taken
  BY <1>1, LatestIs DEF Held, Typed, BoxInv
<1>4. s.n \in Copies /\ s.n # 0 /\ wb \in Copies
  BY <1>3, CopiesAre DEF Snapshot, Typed, BoxInv, Copies
<1>5. Go(w, j)
  BY DEF BoxRead
<1>6. BoxStep
  BY DEF BoxRead, BoxStep
<1> HIDE DEF s, q, wb
<1>7. r.wayback = wb /\ r.local = s.n
  OBVIOUS
<1> HIDE DEF r
<1>8. out \in Jobs /\ SameJob(out, q) /\ out.tried = 1 /\ out.ok = 1 /\ out.wayback = wb /\ out.local = s.n
  BY <1>1, <1>2, <1>4, <1>7, TryStepIs
<1> HIDE DEF out
<1>9. /\ k \in Jobs /\ SameJob(k, q) /\ k.tried = 2
      /\ k.ok > 0 => k.local # 0
      /\ k.ok = 2 => k.wayback # 0
  <2>1. CASE ~s.content
    <3>1. Tried(q) \in Jobs /\ SameJob(Tried(q), q) /\ Tried(q).tried = 1 /\ Tried(q).ok = 0
      BY <1>1, <1>2, TriedIs
    <3>2. Tried(Tried(q)) \in Jobs /\ SameJob(Tried(Tried(q)), Tried(q)) /\ Tried(Tried(q)).tried = 2 /\ Tried(Tried(q)).ok = 0
      BY <3>1, TriedIs
    <3>3. k = Tried(Tried(q))
      BY <2>1
    <3> HIDE DEF k
    <3> QED BY <3>1, <3>2, <3>3 DEF SameJob
  <2>2. CASE s.content
    <3> DEFINE t == Tried(out)
    <3>1. /\ t \in Jobs /\ SameJob(t, out) /\ t.tried = 2 /\ t.ok = 1
          /\ t.wayback = wb /\ t.local = s.n
      BY <1>8, TriedIs
    <3>2. k = IF wb # 0 THEN [t EXCEPT !.ok = 2] ELSE t
      BY <1>8, <2>2, <3>1 DEF Jobs
    <3> HIDE DEF t, k
    <3>3. CASE wb = 0
      BY <1>4, <1>8, <3>1, <3>2, <3>3 DEF SameJob
    <3>4. CASE wb # 0
      <4>1. k = [t EXCEPT !.ok = 2]
        BY <3>2, <3>4
      <4>2. /\ k \in Jobs /\ SameJob(k, t) /\ k.tried = 2
            /\ k.wayback = wb /\ k.local = s.n
        BY <3>1, <4>1 DEF Jobs, SameJob
      <4> QED BY <1>4, <1>8, <3>1, <3>4, <4>2 DEF SameJob
    <3> QED BY <3>3, <3>4
  <2> QED BY <2>1, <2>2
<1> HIDE DEF k
<1>10. /\ j \in Jobs /\ SameJob(j, k) /\ j.at = "store" /\ j.tried = 2 /\ j.ok = k.ok
       /\ j.wayback = k.wayback /\ j.local = k.local
  BY <1>9, PlaceIs DEF Places
<1> HIDE DEF j
<1>11. Result(j)
  BY <1>9, <1>10 DEF Result
<1>12. SameJob(j, worker[w])
  BY <1>9, <1>10 DEF SameJob, q
<1> QED BY <1>5, <1>6, <1>10, <1>11, <1>12 DEF Onward

-----------------------------------------------------------------------------
(* The inductive invariant *)

\* A busy worker has a queued job, and the tool of its row unless the row was deleted.
JobsHeld ==
  \A w \in Workers : Busy(w) =>
    worker[w].job \in JobIds /\ (Exists(worker[w].job) => rows[worker[w].job].tool = worker[w].tool)

\* What a sweep is about to insert has a copy.
Backed(x) ==
  /\ x.at = "record" => x.cur.wayback # 0
  /\ x.at = "insert" => HasCopy(x.cur)

SweepsBacked == \A w \in Workers : Backed(sweep[w])

ArchivesInv == Typed /\ Results /\ RowsTrue /\ JobsHeld /\ SweepsBacked

LEMMA HeldStays ==
  ASSUME WorkersTyped, JobsHeld, ToolsStay, NEW v \in Workers, Busy(v)
  PROVE  worker[v].job \in JobIds /\ (rows'[worker[v].job] # None => rows'[worker[v].job].tool = worker[v].tool)
<1> DEFINE id == worker[v].job
<1>1. id \in JobIds /\ id \in Ids /\ (Exists(id) => rows[id].tool = worker[v].tool)
  BY DEF JobsHeld, Ids
<1>2. rows'[id] # None => Exists(id) /\ rows'[id].tool = rows[id].tool
  BY <1>1 DEF ToolsStay, SameTool
<1> QED BY <1>1, <1>2

\* A worker goes on with its job, or is done with it.
LEMMA WorkerStep ==
  ASSUME ArchivesInv, BoxStep, RowsKept, NEW w \in Workers, NEW j \in Jobs, Go(w, j), Result(j),
         \/ j.at \in {"down", "poll"}
         \/ Busy(w) /\ SameJob(j, worker[w]) /\ (j.at = "readback" => box'[j.link] # {})
  PROVE  WorkersTyped' /\ Results' /\ JobsHeld'
<1>1. worker' \in [Workers -> Jobs] /\ worker'[w] = j /\ \A v \in Workers \ {w} : worker'[v] = worker[v]
  BY DEF Go, ArchivesInv, Typed, WorkersTyped
<1>2. WorkersTyped'
  <2>1. j.at \in {"capture", "wayback", "readback", "store", "fail"} =>
           /\ j.job \in Ids /\ j.link \in Links /\ j.tool \in Tools
           /\ j.at = "readback" => Held(j.link)'
    BY DEF ArchivesInv, Typed, WorkersTyped, SameJob, Held
  <2> QED BY <2>1, WorkerTyped DEF ArchivesInv
<1>3. Results'
  BY <1>1 DEF Results, ArchivesInv
<1>4. ASSUME NEW v \in Workers, worker'[v].at \in {"capture", "wayback", "readback", "store", "fail"}
      PROVE  /\ worker'[v].job \in JobIds
             /\ rows'[worker'[v].job] # None => rows'[worker'[v].job].tool = worker'[v].tool
  <2>1. Busy(v) /\ worker'[v].job = worker[v].job /\ worker'[v].tool = worker[v].tool
    BY <1>1, <1>4 DEF SameJob, Busy
  <2> QED BY <2>1, HeldStays DEF ArchivesInv, Typed, RowsKept, Exists
<1> QED BY <1>2, <1>3, <1>4 DEF JobsHeld, Busy, Exists

LEMMA WorkersRest ==
  ASSUME ArchivesInv, BoxStep, RowsKept, UNCHANGED worker
  PROVE  WorkersTyped' /\ Results' /\ JobsHeld'
<1>1. WorkersTyped'
  BY WorkersStay DEF ArchivesInv
<1>2. Results'
  BY DEF Results, ArchivesInv
<1>3. ASSUME NEW v \in Workers, Busy(v)
      PROVE  worker[v].job \in JobIds /\ (rows'[worker[v].job] # None => rows'[worker[v].job].tool = worker[v].tool)
  BY <1>3, HeldStays DEF ArchivesInv, Typed, RowsKept
<1> QED BY <1>1, <1>2, <1>3 DEF JobsHeld, Busy, Exists

LEMMA SweepsRest == ASSUME ArchivesInv, BoxStep, UNCHANGED sweep PROVE SweepsTyped' /\ SweepsBacked'
BY SweepsStay DEF ArchivesInv, SweepsBacked, Backed, HasCopy

LEMMA SweepGoes ==
  ASSUME ArchivesInv, BoxStep, NEW w \in Workers, NEW x \in Sweeps, SweepTo(w, x),
         \A e \in x.todo : Held(e.link),
         x.at \in InHand => x.cur \in Found /\ Held(x.cur.link), Backed(x)
  PROVE  SweepsTyped' /\ SweepsBacked'
<1>1. SweepsTyped'
  BY SweepTyped DEF ArchivesInv
<1>2. sweep'[w] = x /\ \A v \in Workers \ {w} : sweep'[v] = sweep[v]
  BY DEF SweepTo, ArchivesInv, Typed, SweepsTyped
<1> QED BY <1>1, <1>2 DEF SweepsBacked, ArchivesInv

\* What every action shows.
Shows == BoxStep /\ RowsKept /\ (WorkersTyped' /\ Results' /\ JobsHeld') /\ (SweepsTyped' /\ SweepsBacked') /\ faults' \in Nat

LEMMA ShownStep == ASSUME ArchivesInv, Shows PROVE ArchivesInv'
BY BoxStepIs DEF ArchivesInv, Shows, RowsKept, Typed

LEMMA ArchivesInit == Init => ArchivesInv
<1> SUFFICES ASSUME Init PROVE ArchivesInv
  OBVIOUS
<1>1. Down.at = "down" /\ Off.at = "off"
  BY PlacesAre
<1>2. /\ \A w \in Workers : worker[w] = Down /\ sweep[w] = Off
      /\ \A id \in Ids : rows[id] = None
  BY DEF Init
<1>3. RowsTrue
  BY <1>2 DEF RowsTrue, RowTrue
<1> QED BY <1>1, <1>2, <1>3, TypedInit DEF ArchivesInv, Results, Result, JobsHeld, Busy, SweepsBacked, Backed

LEMMA FaultsAre == ASSUME ArchivesInv, Fault \/ NoFault PROVE faults' \in Nat
BY DEF ArchivesInv, Typed, Fault, NoFault

LEMMA ApiStep ==
  ASSUME ArchivesInv, Submit \/ \E id \in Ids : Approve(id) \/ Reject(id) \/ Retry(id) \/ Delete(id)
  PROVE  Shows
<1>1. UNCHANGED <<box, worker, sweep, taken, faults>>
  BY DEF Submit, Approve, Reject, Retry, Delete
<1>2. RowsKept
  BY ApiRows DEF ArchivesInv, Typed
<1>3. BoxStep
  BY <1>1 DEF BoxStep
<1> QED BY <1>1, <1>2, <1>3, WorkersRest, SweepsRest DEF Shows, ArchivesInv, Typed

LEMMA AddDirectlyStep == ASSUME ArchivesInv, NEW l \in Links, AddDirectly(l) PROVE Shows
<1>1. UNCHANGED <<rows, worker, sweep, faults>> /\ BoxStep
  BY DEF AddDirectly, BoxStep
<1>2. RowsKept
  BY <1>1, RowsStay DEF ArchivesInv, Typed
<1> QED BY <1>1, <1>2, WorkersRest, SweepsRest DEF Shows, ArchivesInv, Typed

LEMMA BootStep == ASSUME ArchivesInv, NEW w \in Workers, Boot(w) PROVE Shows
<1>1. UNCHANGED <<box, taken>> /\ Go(w, NoJob) /\ SweepTo(w, Asleep) /\ faults' \in Nat
  BY FaultsAre DEF Boot, SweepTo
<1>2. RowsKept
  BY RowsStay, RecoverRows DEF Boot, ArchivesInv, Typed
<1>3. BoxStep
  BY <1>1 DEF BoxStep
<1>4. Result(NoJob) /\ Backed(Asleep)
  BY PlacesAre DEF Result, Backed
<1>5. WorkersTyped' /\ Results' /\ JobsHeld'
  BY <1>1, <1>2, <1>3, <1>4, PlacesAre, WorkerStep
<1>6. SweepsTyped' /\ SweepsBacked'
  BY <1>1, <1>3, <1>4, PlacesAre, SweepGoes DEF InHand
<1> QED BY <1>1, <1>2, <1>3, <1>5, <1>6 DEF Shows

LEMMA DieStep == ASSUME ArchivesInv, NEW w \in Workers, Die(w) PROVE Shows
<1>1. UNCHANGED <<rows, box, taken>> /\ Go(w, Down) /\ SweepTo(w, Off) /\ faults' \in Nat
  BY FaultsAre DEF Die, SweepTo
<1>2. RowsKept
  BY <1>1, RowsStay DEF ArchivesInv, Typed
<1>3. BoxStep
  BY <1>1 DEF BoxStep
<1>4. Result(Down) /\ Backed(Off)
  BY PlacesAre DEF Result, Backed
<1>5. WorkersTyped' /\ Results' /\ JobsHeld'
  BY <1>1, <1>2, <1>3, <1>4, PlacesAre, WorkerStep
<1>6. SweepsTyped' /\ SweepsBacked'
  BY <1>1, <1>3, <1>4, PlacesAre, SweepGoes DEF InHand
<1> QED BY <1>1, <1>2, <1>3, <1>5, <1>6 DEF Shows

LEMMA ClaimStep == ASSUME ArchivesInv, NEW w \in Workers, NEW id \in Ids, Claim(w, id) PROVE Shows
<1> DEFINE j == [NoJob EXCEPT !.at = "capture", !.job = id, !.link = rows[id].link, !.tool = rows[id].tool]
<1>1. /\ UNCHANGED <<box, sweep, taken, faults>> /\ Go(w, j) /\ worker[w].at = "poll"
      /\ Exists(id) /\ rows[id].status = "pending" /\ rows' = claimNext(id)
  BY DEF Claim, At
<1>2. RowsKept /\ id \in JobIds /\ rows'[id].tool = rows[id].tool /\ rows[id] \in ARow
  BY <1>1, ClaimRows, RowIs DEF ArchivesInv, Typed
<1>3. BoxStep
  BY <1>1 DEF BoxStep
<1>4. rows[id].link \in Links /\ rows[id].tool \in Tools
  BY <1>2 DEF ARow
<1>5. /\ j \in Jobs /\ j.at = "capture" /\ j.job = id /\ j.link = rows[id].link /\ j.tool = rows[id].tool
      /\ j.tried = 0 /\ j.ok = 0 /\ j.wayback = 0 /\ j.local = 0
  BY <1>2, <1>4, CopiesAre DEF NoJob, Jobs, Places
<1> HIDE DEF j
<1>6. Result(j)
  BY <1>5 DEF Result
<1>7. worker' \in [Workers -> Jobs] /\ worker'[w] = j /\ \A v \in Workers \ {w} : worker'[v] = worker[v]
  BY <1>1, <1>5 DEF Go, ArchivesInv, Typed, WorkersTyped
<1>8. WorkersTyped'
  <2>1. /\ \A l \in Links : Held(l) => Held(l)'
        /\ \A v \in Workers : Busy(v) =>
              /\ worker[v].job \in Ids /\ worker[v].link \in Links /\ worker[v].tool \in Tools
              /\ worker[v].at = "readback" => Held(worker[v].link)
    BY <1>3, BoxStepIs DEF ArchivesInv, Typed, WorkersTyped
  <2> QED BY <1>2, <1>4, <1>5, <1>7, <2>1 DEF WorkersTyped, Busy, Held
<1>9. Results'
  BY <1>6, <1>7 DEF Results, ArchivesInv
<1>10. ASSUME NEW v \in Workers, worker'[v].at \in {"capture", "wayback", "readback", "store", "fail"}
      PROVE  /\ worker'[v].job \in JobIds
             /\ rows'[worker'[v].job] # None => rows'[worker'[v].job].tool = worker'[v].tool
  <2>1. CASE v = w
    BY <1>2, <1>5, <1>7, <2>1
  <2>2. CASE v # w
    <3>1. Busy(v) /\ worker'[v] = worker[v]
      BY <1>7, <1>10, <2>2 DEF Busy
    <3> QED BY <1>2, <3>1, HeldStays DEF ArchivesInv, Typed, RowsKept, Exists
  <2> QED BY <2>1, <2>2
<1>11. JobsHeld'
  BY <1>10 DEF JobsHeld, Busy, Exists
<1> QED BY <1>1, <1>2, <1>3, <1>8, <1>9, <1>11, SweepsRest DEF Shows, ArchivesInv, Typed

LEMMA ArchiverStep ==
  ASSUME ArchivesInv, NEW w \in Workers, AutoArchive(w) \/ SaveToWayback(w) \/ BoxAdd(w) \/ BoxRead(w)
  PROVE  Shows
<1>1. PICK j \in Jobs : Onward(w, j)
  BY AutoArchiveMoves, SaveToWaybackMoves, BoxAddMoves, BoxReadMoves DEF ArchivesInv
<1>2. Go(w, j) /\ SameJob(j, worker[w]) /\ Result(j) /\ BoxStep /\ (j.at = "readback" => box'[j.link] # {})
  BY <1>1 DEF Onward
<1>3. UNCHANGED <<rows, sweep, faults>> /\ Busy(w)
  BY DEF AutoArchive, SaveToWayback, BoxAdd, BoxRead, At, Busy
<1>4. RowsKept
  BY <1>3, RowsStay DEF ArchivesInv, Typed
<1> QED BY <1>2, <1>3, <1>4, WorkerStep, SweepsRest DEF Shows, ArchivesInv, Typed

LEMMA StoreStep == ASSUME ArchivesInv, NEW w \in Workers, Store(w) PROVE Shows
<1> DEFINE out == worker[w]
<1>1. /\ out \in Jobs /\ Busy(w) /\ out.at = "store" /\ Result(out)
      /\ out.job \in JobIds /\ (Exists(out.job) => rows[out.job].tool = out.tool)
  BY DEF Store, At, ArchivesInv, Typed, WorkersTyped, Results, JobsHeld, Busy
<1>2. UNCHANGED <<box, sweep, taken>> /\ faults' \in Nat
  BY FaultsAre DEF Store
<1>3. BoxStep
  BY <1>2 DEF BoxStep
<1>4. CASE UNCHANGED rows /\ Go(w, [out EXCEPT !.at = "fail"])
  <2> DEFINE j == [out EXCEPT !.at = "fail"]
  <2>1. j \in Jobs /\ SameJob(j, out) /\ j.at = "fail"
    BY <1>1, PlaceIs DEF Places
  <2>2. Result(j)
    BY <2>1 DEF Result
  <2>3. RowsKept
    BY <1>4, RowsStay DEF ArchivesInv, Typed
  <2>4. Go(w, j)
    BY <1>4
  <2> HIDE DEF j
  <2>5. WorkersTyped' /\ Results' /\ JobsHeld'
    BY <1>1, <1>3, <2>1, <2>2, <2>3, <2>4, WorkerStep
  <2> QED BY <1>2, <1>3, <2>3, <2>5, SweepsRest DEF Shows
<1>5. ASSUME out.ok > 0, Go(w, NoJob), NEW hash \in Hash(out), rows' = complete(out.job, out, hash)
      PROVE  Shows
  <2>1. HasCopy(out) /\ (out.ok = out.tried => out.wayback # 0 /\ (out.tool = "archive-box" => out.local # 0))
    BY <1>1, <1>5 DEF Result, HasCopy
  <2>2. hash \in Copies
    BY <1>1, <1>5, CopiesAre DEF Hash, Jobs
  <2>3. RowsKept
    BY <1>1, <1>5, <2>1, <2>2, CompleteRows DEF ArchivesInv, Typed
  <2>4. Result(NoJob)
    BY PlacesAre DEF Result
  <2>5. WorkersTyped' /\ Results' /\ JobsHeld'
    BY <1>3, <1>5, <2>3, <2>4, PlacesAre, WorkerStep
  <2> QED BY <1>2, <1>3, <2>3, <2>5, SweepsRest DEF Shows
<1> QED BY <1>4, <1>5 DEF Store

LEMMA FailStep == ASSUME ArchivesInv, NEW w \in Workers, Fail(w) PROVE Shows
<1>1. worker[w].job \in JobIds
  BY DEF Fail, At, ArchivesInv, JobsHeld, Busy
<1>2. UNCHANGED <<box, sweep, taken>> /\ faults' \in Nat /\ Go(w, NoJob)
  BY FaultsAre DEF Fail
<1>3. BoxStep
  BY <1>2 DEF BoxStep
<1>4. RowsKept
  BY <1>1, RowsStay, FailRows DEF Fail, ArchivesInv, Typed
<1>5. Result(NoJob)
  BY PlacesAre DEF Result
<1>6. WorkersTyped' /\ Results' /\ JobsHeld'
  BY <1>2, <1>3, <1>4, <1>5, PlacesAre, WorkerStep
<1> QED BY <1>2, <1>3, <1>4, <1>6, SweepsRest DEF Shows

-----------------------------------------------------------------------------
(* The steps of the sweeps *)

LEMMA IdleSweep ==
  ASSUME NEW place \in {"sleep", "reconcile", "resocial", "social", "botwall"}, NEW todo \in SUBSET Found
  PROVE  LET x == [at |-> place, todo |-> todo, cur |-> None] IN
         x \in Sweeps /\ x.todo = todo /\ x.at \notin InHand /\ Backed(x)
BY DEF Sweeps, InHand, Backed

LEMMA TodoIs ==
  ASSUME ArchivesInv, NEW w \in Workers
  PROVE  sweep[w].todo \in SUBSET Found /\ \A e \in sweep[w].todo : Held(e.link)
BY DEF ArchivesInv, Typed, SweepsTyped, Sweeps

\* A sweep that goes on with nothing in hand, whatever it did to the rows and the index.
LEMMA IdleStep ==
  ASSUME ArchivesInv, BoxStep, RowsKept, UNCHANGED worker, faults' \in Nat, NEW w \in Workers,
         NEW place \in {"sleep", "reconcile", "resocial", "social", "botwall"}, NEW todo \in SUBSET Found,
         \A e \in todo : Held(e.link), SweepTo(w, [at |-> place, todo |-> todo, cur |-> None])
  PROVE  Shows
<1> DEFINE x == [at |-> place, todo |-> todo, cur |-> None]
<1>1. x \in Sweeps /\ x.todo = todo /\ x.at \notin InHand /\ Backed(x)
  BY IdleSweep
<1>2. SweepTo(w, x)
  OBVIOUS
<1> HIDE DEF x
<1>3. SweepsTyped' /\ SweepsBacked'
  BY <1>1, <1>2, SweepGoes
<1> QED BY <1>3, WorkersRest DEF Shows

LEMMA KeepStep ==
  ASSUME ArchivesInv, BoxStep, RowsKept, UNCHANGED worker, faults' \in Nat, NEW w \in Workers,
         NEW place \in {"reconcile", "social"}, SweepTo(w, Keep(w, place))
  PROVE  Shows
BY TodoIs, IdleStep DEF Keep

LEMMA ListStep ==
  ASSUME ArchivesInv, NEW w \in Workers, Listed(w) \/ SocialListed(w)
  PROVE  Shows
<1>1. UNCHANGED <<rows, box, worker, taken>> /\ faults' \in Nat
  BY FaultsAre DEF Listed, SocialListed, ListFor
<1>2. RowsKept /\ BoxStep
  BY <1>1, RowsStay DEF ArchivesInv, Typed, BoxStep
<1>3. Listing \in SUBSET Found /\ \A e \in Listing : Held(e.link)
  BY ListingIs DEF ArchivesInv, Typed
<1>4. PICK place \in {"reconcile", "resocial", "social", "botwall"}, todo \in {Listing, {}} :
        SweepTo(w, [at |-> place, todo |-> todo, cur |-> None])
  BY DEF Listed, SocialListed, ListFor
<1>5. todo \in SUBSET Found /\ \A e \in todo : Held(e.link)
  BY <1>3
<1> QED BY <1>1, <1>2, <1>4, <1>5, IdleStep

\* The next of the list: taken in hand, or passed over.
LEMMA NextStep ==
  ASSUME ArchivesInv, UNCHANGED <<rows, box, worker, taken, faults>>, NEW w \in Workers,
         NEW e \in sweep[w].todo, NEW x, SweepTo(w, x), x.todo = sweep[w].todo \ {e}, x \in Sweeps,
         x.at \in InHand => x.cur = e, Backed(x)
  PROVE  Shows
<1>1. RowsKept /\ BoxStep /\ faults' \in Nat
  BY RowsStay DEF ArchivesInv, Typed, BoxStep
<1>2. e \in Found /\ Held(e.link) /\ \A f \in x.todo : Held(f.link)
  BY TodoIs
<1>3. SweepsTyped' /\ SweepsBacked'
  BY <1>1, <1>2, SweepGoes
<1> QED BY <1>1, <1>3, WorkersRest DEF Shows

LEMMA ReconcileStep == ASSUME ArchivesInv, NEW w \in Workers, Reconcile(w) PROVE Shows
<1>1. UNCHANGED <<rows, box, worker, taken, faults>>
  BY DEF Reconcile
<1>2. RowsKept /\ BoxStep /\ faults' \in Nat
  BY <1>1, RowsStay DEF ArchivesInv, Typed, BoxStep
<1>3. CASE SweepTo(w, [at |-> "resocial", todo |-> {}, cur |-> None])
  BY <1>1, <1>2, <1>3, IdleStep
<1>4. ASSUME NEW e \in sweep[w].todo,
             SweepTo(w, [at |-> IF e.wayback = 0 \/ hasWaybackFor(e.link) THEN "reconcile" ELSE "record",
                         todo |-> sweep[w].todo \ {e},
                         cur |-> IF e.wayback = 0 \/ hasWaybackFor(e.link) THEN None ELSE e])
      PROVE  Shows
  <2> DEFINE skip == e.wayback = 0 \/ hasWaybackFor(e.link)
             x == [at |-> IF skip THEN "reconcile" ELSE "record", todo |-> sweep[w].todo \ {e},
                   cur |-> IF skip THEN None ELSE e]
  <2>1. e \in Found /\ sweep[w].todo \in SUBSET Found
    BY TodoIs
  <2>2. ~skip => e.wayback # 0
    OBVIOUS
  <2>3. SweepTo(w, x)
    BY <1>4
  <2> HIDE DEF skip
  <2>4. /\ x \in Sweeps /\ x.todo = sweep[w].todo \ {e}
        /\ x.at \in InHand => x.cur = e
        /\ Backed(x)
    BY <2>1, <2>2 DEF Sweeps, InHand, Backed
  <2> HIDE DEF x
  <2> QED BY <1>1, <2>3, <2>4, NextStep
<1> QED BY <1>3, <1>4 DEF Reconcile

LEMMA SocialCheckStep == ASSUME ArchivesInv, NEW w \in Workers, SocialCheck(w) PROVE Shows
<1>1. UNCHANGED <<rows, box, worker, taken, faults>>
  BY DEF SocialCheck
<1>2. RowsKept /\ BoxStep /\ faults' \in Nat
  BY <1>1, RowsStay DEF ArchivesInv, Typed, BoxStep
<1>3. CASE SweepTo(w, [at |-> "botwall", todo |-> {}, cur |-> None])
  BY <1>1, <1>2, <1>3, IdleStep
<1>4. ASSUME NEW e \in sweep[w].todo, NEW skip \in BOOLEAN,
             SweepTo(w, [at |-> IF skip THEN "social" ELSE "archive", todo |-> sweep[w].todo \ {e},
                         cur |-> IF skip THEN None ELSE e])
      PROVE  Shows
  <2> DEFINE x == [at |-> IF skip THEN "social" ELSE "archive", todo |-> sweep[w].todo \ {e},
                   cur |-> IF skip THEN None ELSE e]
  <2>1. e \in Found /\ sweep[w].todo \in SUBSET Found
    BY TodoIs
  <2>2. SweepTo(w, x)
    BY <1>4
  <2>3. /\ x \in Sweeps /\ x.todo = sweep[w].todo \ {e}
        /\ x.at \in InHand => x.cur = e
        /\ Backed(x)
    BY <2>1 DEF Sweeps, InHand, Backed
  <2> HIDE DEF x
  <2> QED BY <1>1, <2>2, <2>3, NextStep
<1> QED BY <1>3, <1>4 DEF SocialCheck

LEMMA RecordStep == ASSUME ArchivesInv, NEW w \in Workers, Record(w) PROVE Shows
<1> DEFINE e == sweep[w].cur
<1>1. UNCHANGED <<box, worker, taken>> /\ faults' \in Nat /\ SweepTo(w, Keep(w, "reconcile"))
  BY FaultsAre DEF Record
<1>2. e \in Found /\ e.wayback # 0
  BY DEF Record, SweepAt, ArchivesInv, Typed, SweepsTyped, InHand, SweepsBacked, Backed
<1>3. RowsKept
  <2>1. e.link \in Links /\ e.wayback \in Copies /\ e.local \in Copies /\ "archive-box" \in Tools
    BY <1>2 DEF Found, Tools
  <2> QED BY <1>2, <2>1, RowsStay, InsertRows DEF Record, ArchivesInv, Typed
<1>4. BoxStep
  BY <1>1 DEF BoxStep
<1> QED BY <1>1, <1>3, <1>4, KeepStep

LEMMA SocialArchiveStep == ASSUME ArchivesInv, NEW w \in Workers, SocialArchive(w) PROVE Shows
<1> DEFINE e == sweep[w].cur
<1>1. UNCHANGED <<rows, box, worker, faults>> /\ e \in Found /\ Held(e.link) /\ sweep[w] \in Sweeps
  BY DEF SocialArchive, SweepAt, ArchivesInv, Typed, SweepsTyped, InHand
<1>2. RowsKept /\ faults' \in Nat
  BY <1>1, RowsStay DEF ArchivesInv, Typed
<1>3. CASE UNCHANGED taken /\ SweepTo(w, Keep(w, "social"))
  BY <1>1, <1>2, <1>3, KeepStep DEF BoxStep
<1>4. ASSUME Take, NEW r \in Artifacts, NEW saved, saved \in (IF r.wayback # 0 THEN {r.wayback} ELSE {0, taken'}),
             SweepTo(w, [sweep[w] EXCEPT !.at = "insert", !.cur.wayback = saved, !.cur.local = r.local])
      PROVE  Shows
  <2>1. taken \in Nat /\ MaxCaptures \in Nat /\ taken' \in Copies /\ taken' = taken + 1
    BY <1>4 DEF ArchivesInv, Typed, BoxInv, Take, Copies
  <2>2. r.wayback \in Copies /\ r.local \in Copies /\ (r.wayback # 0 \/ r.local # 0)
    BY <2>1, <1>4, CopiesAre DEF Artifacts
  <2>3. saved \in Copies /\ (saved # 0 \/ r.local # 0)
    BY <1>4, <2>1, <2>2, CopiesAre
  <2> DEFINE c == [sweep[w].cur EXCEPT !.wayback = saved, !.local = r.local]
             x == [sweep[w] EXCEPT !.at = "insert", !.cur = c]
  <2>4. c \in Found /\ c.link = e.link /\ HasCopy(c)
    BY <1>1, <2>2, <2>3 DEF Found, HasCopy
  <2>5. x = [sweep[w] EXCEPT !.at = "insert", !.cur.wayback = saved, !.cur.local = r.local]
    BY <1>1 DEF Sweeps
  <2>6. SweepTo(w, x)
    BY <1>4, <2>5
  <2> HIDE DEF c
  <2>7. x \in Sweeps /\ x.todo = sweep[w].todo /\ x.at = "insert" /\ x.cur = c
    BY <1>1, <2>4 DEF Sweeps, InHand
  <2> HIDE DEF x
  <2>8. Backed(x)
    BY <2>4, <2>7 DEF Backed
  <2>9. BoxStep
    BY <1>1, <1>4 DEF BoxStep
  <2>10. (\A f \in x.todo : Held(f.link)) /\ x.cur \in Found /\ Held(x.cur.link)
    BY <1>1, <2>4, <2>7, TodoIs
  <2>11. SweepsTyped' /\ SweepsBacked'
    BY <2>6, <2>7, <2>8, <2>9, <2>10, SweepGoes
  <2> QED BY <1>1, <1>2, <2>9, <2>11, WorkersRest DEF Shows
<1> QED BY <1>3, <1>4 DEF SocialArchive

LEMMA SocialInsertStep == ASSUME ArchivesInv, NEW w \in Workers, SocialInsert(w) PROVE Shows
<1> DEFINE e == sweep[w].cur
<1>1. UNCHANGED <<box, worker, taken>> /\ faults' \in Nat /\ BoxStep
  BY FaultsAre DEF SocialInsert, BoxStep
<1>2. e \in Found /\ Held(e.link) /\ HasCopy(e) /\ sweep[w] \in Sweeps
  BY DEF SocialInsert, SweepAt, ArchivesInv, Typed, SweepsTyped, InHand, SweepsBacked, Backed
<1>3. RowsKept
  <2>1. e.link \in Links /\ e.wayback \in Copies /\ e.local \in Copies /\ "auto-archiver" \in Tools
    BY <1>2 DEF Found, Tools
  <2> QED BY <1>2, <2>1, RowsStay, InsertRows DEF SocialInsert, ArchivesInv, Typed, HasCopy
<1>4. CASE SweepTo(w, Keep(w, "social"))
  BY <1>1, <1>3, <1>4, KeepStep
<1>5. CASE SweepTo(w, [sweep[w] EXCEPT !.at = IF e.local # 0 THEN "inject" ELSE "social",
                                       !.cur = IF e.local # 0 THEN e ELSE None])
  <2> DEFINE x == [sweep[w] EXCEPT !.at = IF e.local # 0 THEN "inject" ELSE "social",
                                   !.cur = IF e.local # 0 THEN e ELSE None]
  <2>1. /\ x \in Sweeps /\ x.todo = sweep[w].todo /\ x.at \in {"inject", "social"}
        /\ x.at = "inject" => x.cur = e
    BY <1>2 DEF Sweeps, InHand
  <2>2. SweepTo(w, x)
    BY <1>5
  <2> HIDE DEF x
  <2>3. Backed(x)
    BY <2>1 DEF Backed
  <2>4. (x.at \in InHand => x.cur \in Found /\ Held(x.cur.link)) /\ \A f \in x.todo : Held(f.link)
    BY <1>2, <2>1, TodoIs DEF InHand
  <2>5. SweepsTyped' /\ SweepsBacked'
    BY <1>1, <2>1, <2>2, <2>3, <2>4, SweepGoes
  <2> QED BY <1>1, <1>3, <2>5, WorkersRest DEF Shows
<1> QED BY <1>4, <1>5 DEF SocialInsert

LEMMA InjectStep == ASSUME ArchivesInv, NEW w \in Workers, Inject(w) PROVE Shows
<1>1. UNCHANGED <<rows, worker, taken, faults>> /\ SweepTo(w, Keep(w, "social")) /\ faults' \in Nat
  BY DEF Inject, ArchivesInv, Typed
<1>2. sweep[w].cur.link \in Links /\ box[sweep[w].cur.link] # {}
  BY DEF Inject, SweepAt, ArchivesInv, Typed, SweepsTyped, InHand, Found, Held
<1>3. BoxStep
  BY <1>1, <1>2 DEF Inject, BoxStep
<1>4. RowsKept
  BY <1>1, RowsStay DEF ArchivesInv, Typed
<1> QED BY <1>1, <1>3, <1>4, KeepStep

LEMMA BotWallStep == ASSUME ArchivesInv, NEW w \in Workers, BotWall(w) PROVE Shows
<1>1. /\ UNCHANGED <<rows, worker, taken>> /\ faults' \in Nat
      /\ SweepTo(w, [at |-> "sleep", todo |-> {}, cur |-> None])
  BY FaultsAre DEF BotWall, Asleep
<1>2. BoxStep
  BY <1>1 DEF BotWall, BoxStep
<1>3. RowsKept
  BY <1>1, RowsStay DEF ArchivesInv, Typed
<1> QED BY <1>1, <1>2, <1>3, IdleStep

LEMMA ArchivesStep == ArchivesInv /\ [Next]_vars => ArchivesInv'
<1> SUFFICES ASSUME ArchivesInv, [Next]_vars PROVE ArchivesInv'
  OBVIOUS
<1>1. CASE Next
  <2>1. CASE Submit \/ \E id \in Ids : Approve(id) \/ Reject(id) \/ Retry(id) \/ Delete(id)
    BY <2>1, ApiStep, ShownStep
  <2>2. CASE \E l \in Links : AddDirectly(l)
    BY <2>2, AddDirectlyStep, ShownStep
  <2>3. ASSUME NEW w \in Workers, QueueStep(w) PROVE ArchivesInv'
    <3>1. Shows
      BY <2>3, BootStep, ClaimStep, ArchiverStep, StoreStep, FailStep DEF QueueStep
    <3> QED BY <3>1, ShownStep
  <2>4. ASSUME NEW w \in Workers, Die(w) PROVE ArchivesInv'
    BY <2>4, DieStep, ShownStep
  <2>5. ASSUME NEW w \in Workers, SweepStep(w) PROVE ArchivesInv'
    <3>1. Shows
      BY <2>5, ListStep, ReconcileStep, RecordStep, SocialCheckStep, SocialArchiveStep, SocialInsertStep, InjectStep,
         BotWallStep DEF SweepStep
    <3> QED BY <3>1, ShownStep
  <2> QED BY <1>1, <2>1, <2>2, <2>3, <2>4, <2>5 DEF Next
<1>2. CASE UNCHANGED vars
  <2>1. UNCHANGED <<rows, box, worker, sweep, taken, faults>>
    BY <1>2 DEF vars
  <2>2. RowsKept /\ BoxStep /\ faults' \in Nat
    BY <2>1, RowsStay DEF ArchivesInv, Typed, BoxStep
  <2>3. Shows
    BY <2>1, <2>2, WorkersRest, SweepsRest DEF Shows
  <2> QED BY <2>3, ShownStep
<1> QED BY <1>1, <1>2

\* Types: a row, a snapshot, a job in hand and a sweep are what Archives says; a job that is read back and a link that a
\* sweep has in hand are in ArchiveBox's index; and a link with snapshots has a latest one.
THEOREM ArchivesTypeCorrect == Spec => []Typed
BY ArchivesInit, ArchivesStep, PTL DEF Spec, ArchivesInv

\* StatusTruthful, for any number of workers: an 'archived' or 'partial' row has a copy to show, and a queued job is
\* 'archived' only if there is a Wayback copy, and with ArchiveBox a local one.
THEOREM StatusIsTruthful == Spec => []StatusTruthful
<1>1. ArchivesInv => StatusTruthful
  <2> SUFFICES ASSUME ArchivesInv, NEW id \in Ids, Exists(id)
               PROVE  /\ rows[id].status \in {"archived", "partial"} => Shown(rows[id]) # 0
                      /\ rows[id].status = "archived" /\ id \in JobIds =>
                           rows[id].wayback # 0 /\ (rows[id].tool = "archive-box" => rows[id].local # 0)
    BY DEF StatusTruthful
  <2>1. RowTrue(id, rows[id]) /\ rows[id] # None
    BY DEF ArchivesInv, RowsTrue, Exists
  <2> QED BY <2>1 DEF RowTrue, HasCopy, Shown
<1> QED BY <1>1, ArchivesInit, ArchivesStep, PTL DEF Spec

-----------------------------------------------------------------------------
(* What is recorded once *)

\* docker-compose.vps.yml starts one worker.
OneWorker == \A v, w \in Workers : v = w

\* No sweep has recorded a link for a tool.
Unrecorded(l, t) == \A i \in SweepIds : Exists(i) => ~(rows[i].link = l /\ rows[i].tool = t)

\* What a sweep has in hand is still not recorded.
Fresh(x) ==
  /\ x.at = "record" => Unrecorded(x.cur.link, "archive-box")
  /\ x.at \in {"archive", "insert"} => Unrecorded(x.cur.link, "auto-archiver")

OnceInv ==
  /\ RecordedOnce
  /\ \A i \in SweepIds : Exists(i) /\ rows[i].tool = "archive-box" => rows[i].wayback # 0
  /\ \A w \in Workers : Fresh(sweep[w])

\* No row of a sweep is new, and none gets another link, tool or Wayback copy.
SweepRowsStay ==
  \A i \in SweepIds : rows'[i] # None =>
    /\ Exists(i) /\ rows'[i].link = rows[i].link /\ rows'[i].tool = rows[i].tool /\ rows'[i].wayback = rows[i].wayback

LEMMA OnceStays ==
  ASSUME OnceInv, SweepRowsStay, \A w \in Workers : Fresh(sweep'[w])
  PROVE  OnceInv'
<1>1. RecordedOnce'
  BY DEF OnceInv, RecordedOnce, SweepRowsStay, Exists
<1>2. \A i \in SweepIds : rows'[i] # None /\ rows'[i].tool = "archive-box" => rows'[i].wayback # 0
  BY DEF OnceInv, SweepRowsStay
<1>3. \A l, t : Unrecorded(l, t) => \A i \in SweepIds : rows'[i] # None => ~(rows'[i].link = l /\ rows'[i].tool = t)
  BY DEF Unrecorded, SweepRowsStay
<1> QED BY <1>1, <1>2, <1>3 DEF OnceInv, Fresh, Unrecorded, Exists

\* A sweep inserts what it has not recorded.
LEMMA OnceInserts ==
  ASSUME ArchivesInv, OnceInv, NEW l \in Links, NEW t \in Tools, NEW wb \in Copies, NEW lc \in Copies,
         Unrecorded(l, t), t = "archive-box" => wb # 0, insertBackfilled(Backfilled(l, t, wb, lc)),
         \A w \in Workers : sweep'[w].at \notin {"record", "archive", "insert"}
  PROVE  OnceInv'
<1> DEFINE r == Backfilled(l, t, wb, lc)
<1>1. PICK id \in SweepIds : FreeSweep(id) /\ rows' = [rows EXCEPT ![id] = r]
  BY DEF insertBackfilled
<1>2. r.link = l /\ r.tool = t /\ r.wayback = wb
  BY NewJobIs
<1> HIDE DEF r
<1>3. rows'[id] = r /\ \A i \in SweepIds \ {id} : rows'[i] = rows[i]
  BY <1>1 DEF ArchivesInv, Typed, RowsTyped, Ids
<1>4. RecordedOnce'
  <2> SUFFICES ASSUME NEW i \in SweepIds, NEW j \in SweepIds, i # j, rows'[i] # None, rows'[j] # None,
                      rows'[i].link = rows'[j].link, rows'[i].tool = rows'[j].tool
               PROVE  FALSE
    BY DEF RecordedOnce, Exists
  <2>1. CASE i = id
    <3>1. Exists(j) /\ rows[j].link = l /\ rows[j].tool = t
      BY <1>2, <1>3, <2>1 DEF Exists
    <3> QED BY <3>1 DEF Unrecorded
  <2>2. CASE j = id
    <3>1. Exists(i) /\ rows[i].link = l /\ rows[i].tool = t
      BY <1>2, <1>3, <2>2 DEF Exists
    <3> QED BY <3>1 DEF Unrecorded
  <2>3. CASE i # id /\ j # id
    BY <1>3, <2>3 DEF OnceInv, RecordedOnce, Exists
  <2> QED BY <2>1, <2>2, <2>3
<1>5. \A i \in SweepIds : rows'[i] # None /\ rows'[i].tool = "archive-box" => rows'[i].wayback # 0
  BY <1>2, <1>3 DEF OnceInv, Exists
<1> QED BY <1>4, <1>5 DEF OnceInv, Fresh, Exists

LEMMA SweepAlone ==
  ASSUME OneWorker, ArchivesInv, NEW w \in Workers, NEW x, SweepTo(w, x)
  PROVE  \A v \in Workers : sweep'[v] = x
BY DEF OneWorker, SweepTo, ArchivesInv, Typed, SweepsTyped

LEMMA ApiOnce ==
  ASSUME ArchivesInv, Submit \/ \E id \in Ids : Approve(id) \/ Reject(id) \/ Retry(id) \/ Delete(id)
  PROVE  SweepRowsStay
<1>1. ASSUME Submit PROVE SweepRowsStay
  <2>1. PICK id \in JobIds : \A i \in Ids \ {id} : rows'[i] = rows[i]
    BY <1>1 DEF Submit, ArchivesInv, Typed, RowsTyped
  <2> QED BY <2>1 DEF SweepRowsStay, Exists, Ids
<1>2. ASSUME NEW id \in Ids, Delete(id) PROVE SweepRowsStay
  BY <1>2 DEF Delete, SweepRowsStay, Exists, Ids, ArchivesInv, Typed, RowsTyped
<1>3. ASSUME NEW id \in Ids, NEW b \in BOOLEAN, Exists(id), rows' = [rows EXCEPT ![id].approved = b] PROVE SweepRowsStay
  <2>1. rows[id] \in ARow /\ rows[id] # None
    BY <1>3, RowIs DEF ArchivesInv, Typed, Exists
  <2>2. /\ rows'[id].link = rows[id].link /\ rows'[id].tool = rows[id].tool /\ rows'[id].wayback = rows[id].wayback
        /\ \A i \in Ids \ {id} : rows'[i] = rows[i]
    BY <1>3, <2>1 DEF ARow, ArchivesInv, Typed, RowsTyped
  <2> QED BY <2>1, <2>2 DEF SweepRowsStay, Exists, Ids
<1>4. ASSUME NEW id \in Ids, Retry(id) PROVE SweepRowsStay
  <2>1. rows[id] \in ARow /\ rows[id] # None
    BY <1>4, RowIs DEF Retry, ArchivesInv, Typed, Exists
  <2>2. /\ rows'[id].link = rows[id].link /\ rows'[id].tool = rows[id].tool /\ rows'[id].wayback = rows[id].wayback
        /\ \A i \in Ids \ {id} : rows'[i] = rows[i]
    BY <1>4, <2>1 DEF Retry, ARow, ArchivesInv, Typed, RowsTyped
  <2> QED BY <2>1, <2>2 DEF SweepRowsStay, Exists, Ids
<1> QED BY <1>1, <1>2, <1>3, <1>4 DEF Approve, Reject

LEMMA QueueOnce == ASSUME ArchivesInv, NEW w \in Workers, QueueStep(w) PROVE SweepRowsStay
<1>1. ASSUME NEW id \in JobIds, \A i \in Ids \ {id} : rows'[i] = rows[i] PROVE SweepRowsStay
  BY <1>1 DEF SweepRowsStay, Exists, Ids
<1>2. CASE UNCHANGED rows
  BY <1>2 DEF SweepRowsStay, Exists
<1>3. CASE rows' = recoverStuck
  <2> SUFFICES ASSUME NEW i \in SweepIds PROVE rows'[i] = rows[i]
    BY DEF SweepRowsStay, Exists
  <2>1. RowTrue(i, rows[i]) /\ i \in Ids
    BY DEF ArchivesInv, RowsTrue, Ids
  <2>2. ~(Exists(i) /\ rows[i].status = "running")
    BY <2>1 DEF RowTrue, Exists
  <2> QED BY <1>3, <2>1, <2>2 DEF recoverStuck
<1>4. ASSUME NEW id \in Ids, Claim(w, id) PROVE SweepRowsStay
  <2>1. id \in JobIds
    BY <1>4, ClaimRows DEF Claim, ArchivesInv, Typed
  <2>2. \A i \in Ids \ {id} : rows'[i] = rows[i]
    BY <1>4 DEF Claim, claimNext, ArchivesInv, Typed, RowsTyped
  <2> QED BY <1>1, <2>1, <2>2
<1>5. ASSUME Store(w) \/ Fail(w) PROVE SweepRowsStay
  <2>1. worker[w].job \in JobIds
    BY <1>5 DEF Store, Fail, At, ArchivesInv, JobsHeld, Busy
  <2>2. \A i \in Ids \ {worker[w].job} : rows'[i] = rows[i]
    BY <1>5 DEF Store, Fail, complete, fail, ArchivesInv, Typed, RowsTyped
  <2> QED BY <1>1, <2>1, <2>2
<1> QED BY <1>2, <1>3, <1>4, <1>5 DEF QueueStep, Boot, AutoArchive, SaveToWayback, BoxAdd, BoxRead

LEMMA RecordOnce ==
  ASSUME OneWorker, ArchivesInv, OnceInv, NEW w \in Workers, Record(w) PROVE OnceInv'
<1> DEFINE e == sweep[w].cur
<1>1. e \in Found /\ e.wayback # 0 /\ Unrecorded(e.link, "archive-box")
  BY DEF Record, SweepAt, ArchivesInv, Typed, SweepsTyped, InHand, SweepsBacked, Backed, OnceInv, Fresh
<1>2. \A v \in Workers : sweep'[v].at = "reconcile"
  <2>1. \A v \in Workers : sweep'[v] = Keep(w, "reconcile")
    BY SweepAlone DEF Record
  <2> QED BY <2>1 DEF Keep
<1>3. CASE insertBackfilled(Backfilled(e.link, "archive-box", e.wayback, e.local))
  <2>1. e.link \in Links /\ e.wayback \in Copies /\ e.local \in Copies /\ "archive-box" \in Tools
    BY <1>1 DEF Found, Tools
  <2> QED BY <1>1, <1>2, <1>3, <2>1, OnceInserts
<1>4. CASE UNCHANGED rows
  BY <1>2, <1>4, OnceStays DEF Fresh, SweepRowsStay, Exists
<1> QED BY <1>3, <1>4 DEF Record

LEMMA SocialInsertOnce ==
  ASSUME OneWorker, ArchivesInv, OnceInv, NEW w \in Workers, SocialInsert(w) PROVE OnceInv'
<1> DEFINE e == sweep[w].cur
<1>1. e \in Found /\ Unrecorded(e.link, "auto-archiver") /\ sweep[w] \in Sweeps
  BY DEF SocialInsert, SweepAt, ArchivesInv, Typed, SweepsTyped, InHand, OnceInv, Fresh
<1>2. \A v \in Workers : sweep'[v].at \in {"inject", "social"}
  <2> DEFINE x == [sweep[w] EXCEPT !.at = IF e.local # 0 THEN "inject" ELSE "social",
                                   !.cur = IF e.local # 0 THEN e ELSE None]
  <2>1. Keep(w, "social").at = "social" /\ x.at \in {"inject", "social"}
    BY <1>1 DEF Keep, Sweeps
  <2>2. SweepTo(w, Keep(w, "social")) \/ SweepTo(w, x)
    BY DEF SocialInsert
  <2> HIDE DEF x
  <2> QED BY <2>1, <2>2, SweepAlone
<1>3. CASE insertBackfilled(Backfilled(e.link, "auto-archiver", e.wayback, e.local))
  <2>1. e.link \in Links /\ e.wayback \in Copies /\ e.local \in Copies /\ "auto-archiver" \in Tools
    BY <1>1 DEF Found, Tools
  <2> QED BY <1>1, <1>2, <1>3, <2>1, OnceInserts
<1>4. CASE UNCHANGED rows
  BY <1>2, <1>4, OnceStays DEF Fresh, SweepRowsStay, Exists
<1> QED BY <1>3, <1>4 DEF SocialInsert

\* What is looked up before a sweep takes a link in hand.
LEMMA SweepFresh ==
  ASSUME OneWorker, ArchivesInv, OnceInv, NEW w \in Workers,
         \/ Listed(w) \/ SocialListed(w) \/ Reconcile(w) \/ SocialCheck(w) \/ SocialArchive(w) \/ Inject(w) \/ BotWall(w)
  PROVE  \A v \in Workers : Fresh(sweep'[v])
<1> SUFFICES ASSUME NEW v \in Workers PROVE Fresh(sweep'[v])
  OBVIOUS
<1>1. CASE sweep'[v].at \notin {"record", "archive", "insert"}
  BY <1>1 DEF Fresh
<1>2. ASSUME NEW place \in {"reconcile", "social"}, SweepTo(w, Keep(w, place)) PROVE Fresh(sweep'[v])
  <2>1. sweep'[v] = Keep(w, place)
    BY <1>2, SweepAlone
  <2> QED BY <1>1, <2>1 DEF Keep
<1>3. ASSUME NEW place \in {"sleep", "reconcile", "resocial", "social", "botwall"}, NEW todo,
             SweepTo(w, [at |-> place, todo |-> todo, cur |-> None])
      PROVE  Fresh(sweep'[v])
  <2>1. sweep'[v] = [at |-> place, todo |-> todo, cur |-> None]
    BY <1>3, SweepAlone
  <2> QED BY <1>1, <2>1
<1>4. ASSUME Listed(w) \/ SocialListed(w) PROVE Fresh(sweep'[v])
  BY <1>3, <1>4 DEF Listed, SocialListed, ListFor
<1>5. ASSUME Reconcile(w) PROVE Fresh(sweep'[v])
  <2>1. CASE SweepTo(w, [at |-> "resocial", todo |-> {}, cur |-> None])
    BY <1>3, <2>1
  <2>2. ASSUME NEW e \in sweep[w].todo,
               SweepTo(w, [at |-> IF e.wayback = 0 \/ hasWaybackFor(e.link) THEN "reconcile" ELSE "record",
                           todo |-> sweep[w].todo \ {e},
                           cur |-> IF e.wayback = 0 \/ hasWaybackFor(e.link) THEN None ELSE e])
        PROVE  Fresh(sweep'[v])
    <3>1. CASE e.wayback = 0 \/ hasWaybackFor(e.link)
      BY <1>3, <2>2, <3>1
    <3>2. CASE ~(e.wayback = 0 \/ hasWaybackFor(e.link))
      <4>1. sweep'[v] = [at |-> "record", todo |-> sweep[w].todo \ {e}, cur |-> e]
        BY <2>2, <3>2, SweepAlone
      <4>2. Unrecorded(e.link, "archive-box")
        BY <3>2 DEF hasWaybackFor, Unrecorded, OnceInv, Ids
      <4> QED BY <4>1, <4>2 DEF Fresh
    <3> QED BY <3>1, <3>2
  <2> QED BY <1>5, <2>1, <2>2 DEF Reconcile
<1>6. ASSUME SocialCheck(w) PROVE Fresh(sweep'[v])
  <2>1. CASE SweepTo(w, [at |-> "botwall", todo |-> {}, cur |-> None])
    BY <1>3, <2>1
  <2>2. ASSUME NEW e \in sweep[w].todo, NEW skip, skip = (e.link \notin Social \/ hasBeenArchivedBy(e.link, "auto-archiver")),
               SweepTo(w, [at |-> IF skip THEN "social" ELSE "archive", todo |-> sweep[w].todo \ {e},
                           cur |-> IF skip THEN None ELSE e])
        PROVE  Fresh(sweep'[v])
    <3>1. CASE skip
      BY <1>3, <2>2, <3>1
    <3>2. CASE ~skip
      <4>1. sweep'[v] = [at |-> "archive", todo |-> sweep[w].todo \ {e}, cur |-> e]
        BY <2>2, <3>2, SweepAlone
      <4>2. Unrecorded(e.link, "auto-archiver")
        BY <2>2, <3>2 DEF hasBeenArchivedBy, Unrecorded, Ids
      <4> QED BY <4>1, <4>2 DEF Fresh
    <3> QED BY <3>1, <3>2
  <2> QED BY <1>6, <2>1, <2>2 DEF SocialCheck
<1>7. ASSUME SocialArchive(w) PROVE Fresh(sweep'[v])
  <2>1. CASE SweepTo(w, Keep(w, "social"))
    BY <1>2, <2>1
  <2>2. ASSUME NEW a, NEW b, SweepTo(w, [sweep[w] EXCEPT !.at = "insert", !.cur.wayback = a, !.cur.local = b])
        PROVE  Fresh(sweep'[v])
    <3>1. sweep[w] \in Sweeps /\ sweep[w].cur \in Found /\ Unrecorded(sweep[w].cur.link, "auto-archiver")
      BY <1>7 DEF SocialArchive, SweepAt, ArchivesInv, Typed, SweepsTyped, InHand, OnceInv, Fresh
    <3>2. sweep'[v] = [sweep[w] EXCEPT !.at = "insert", !.cur.wayback = a, !.cur.local = b]
      BY <2>2, SweepAlone
    <3> DEFINE c == [sweep[w].cur EXCEPT !.wayback = a, !.local = b]
    <3>3. c.link = sweep[w].cur.link
      BY <3>1 DEF Found
    <3>4. sweep'[v] = [sweep[w] EXCEPT !.at = "insert", !.cur = c]
      BY <3>1, <3>2 DEF Sweeps
    <3> HIDE DEF c
    <3>5. sweep'[v].at = "insert" /\ sweep'[v].cur = c
      BY <3>1, <3>4 DEF Sweeps
    <3> QED BY <3>1, <3>3, <3>5 DEF Fresh
  <2> QED BY <1>7, <2>1, <2>2 DEF SocialArchive
<1>8. ASSUME Inject(w) PROVE Fresh(sweep'[v])
  BY <1>2, <1>8 DEF Inject
<1>9. ASSUME BotWall(w) PROVE Fresh(sweep'[v])
  BY <1>3, <1>9 DEF BotWall, Asleep
<1> QED BY <1>4, <1>5, <1>6, <1>7, <1>8, <1>9

\* RecordedOnce: the one worker that runs never records a link twice for a tool, whatever is deleted, submitted or added
\* to ArchiveBox between its look-up and its insert, and wherever it dies.
THEOREM SweepsRecordOnce == ASSUME OneWorker PROVE Spec => []RecordedOnce
<1>1. Init => OnceInv
  <2> SUFFICES ASSUME Init PROVE OnceInv
    OBVIOUS
  <2>1. (\A id \in Ids : rows[id] = None) /\ \A w \in Workers : sweep[w].at = "off"
    BY PlacesAre DEF Init
  <2> QED BY <2>1 DEF OnceInv, RecordedOnce, Fresh, Exists, Ids
<1>2. ArchivesInv /\ OnceInv /\ [Next]_vars => OnceInv'
  <2> SUFFICES ASSUME ArchivesInv, OnceInv, [Next]_vars PROVE OnceInv'
    OBVIOUS
  <2>1. ASSUME SweepRowsStay, UNCHANGED sweep PROVE OnceInv'
    BY <2>1, OnceStays DEF OnceInv
  <2>2. CASE Submit \/ \E id \in Ids : Approve(id) \/ Reject(id) \/ Retry(id) \/ Delete(id)
    BY <2>1, <2>2, ApiOnce DEF Submit, Approve, Reject, Retry, Delete
  <2>3. ASSUME NEW l \in Links, AddDirectly(l) PROVE OnceInv'
    BY <2>1, <2>3 DEF AddDirectly, SweepRowsStay, Exists
  <2>4. ASSUME NEW w \in Workers, QueueStep(w) PROVE OnceInv'
    <3>1. SweepRowsStay
      BY <2>4, QueueOnce
    <3>2. UNCHANGED sweep \/ \A v \in Workers : sweep'[v] = sweep[v] \/ sweep'[v] = Asleep
      BY <2>4 DEF QueueStep, Boot, Claim, AutoArchive, SaveToWayback, BoxAdd, BoxRead, Store, Fail,
                  ArchivesInv, Typed, SweepsTyped
    <3>3. Fresh(Asleep)
      BY PlacesAre DEF Fresh
    <3> QED BY <2>1, <3>1, <3>2, <3>3, OnceStays DEF OnceInv
  <2>5. ASSUME NEW w \in Workers, Die(w) PROVE OnceInv'
    <3>1. SweepRowsStay /\ \A v \in Workers : sweep'[v] = sweep[v] \/ sweep'[v] = Off
      BY <2>5 DEF Die, SweepRowsStay, Exists, ArchivesInv, Typed, SweepsTyped
    <3>2. Fresh(Off)
      BY PlacesAre DEF Fresh
    <3> QED BY <3>1, <3>2, OnceStays DEF OnceInv
  <2>6. ASSUME NEW w \in Workers, SweepStep(w) PROVE OnceInv'
    <3>1. CASE Record(w) \/ SocialInsert(w)
      BY <3>1, RecordOnce, SocialInsertOnce
    <3>2. CASE \/ Listed(w) \/ SocialListed(w) \/ Reconcile(w) \/ SocialCheck(w) \/ SocialArchive(w) \/ Inject(w)
               \/ BotWall(w)
      <4>1. SweepRowsStay
        BY <3>2 DEF Listed, SocialListed, ListFor, Reconcile, SocialCheck, SocialArchive, Inject, BotWall,
                    SweepRowsStay, Exists
      <4> QED BY <3>2, <4>1, SweepFresh, OnceStays
    <3> QED BY <2>6, <3>1, <3>2 DEF SweepStep
  <2>7. CASE UNCHANGED vars
    BY <2>1, <2>7 DEF vars, SweepRowsStay, Exists
  <2> QED BY <2>2, <2>3, <2>4, <2>5, <2>6, <2>7 DEF Next
<1>3. OnceInv => RecordedOnce
  BY DEF OnceInv
<1> QED BY <1>1, <1>2, <1>3, ArchivesInit, ArchivesStep, PTL DEF Spec
=============================================================================

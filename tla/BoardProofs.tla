----------------------------- MODULE BoardProofs -----------------------------
(***************************************************************************)
(* Theorems about Board, for any number of memories, cities, edits and     *)
(* faults, and for each PUBLIC_SOURCE.                                     *)
(***************************************************************************)
EXTENDS Board, TLAPS

USE BoardAssumption

-----------------------------------------------------------------------------
(* Types *)

Feeds == [Mems -> Published \cup {None}]
Readers ==
  {Idle} \cup [at : {"merge"}, city : Cities \cup {None}, rows : SUBSET Mems]
         \cup [at : {"row", "fetch", "path"}, mem : Mems]

Typed ==
  /\ intake \in BOOLEAN /\ rows \in [Mems -> Row \cup {None}] /\ store \subseteq Mems
  /\ post \in [Mems -> {"none", "file", "text", "done", "failed"}]
  /\ outbox \in [Mems -> {"none", "memory", "legacy_memory", "purge", "purge_row", "sent"}]
  /\ hub \in Feeds /\ site \in Feeds
  /\ load \in [at : {"idle", "reading", "checking"}, got : Feeds]
  /\ reader \in Readers /\ page \in [local : SUBSET Mems, feed : SUBSET Mems]
  /\ edits \in Nat /\ faults \in Nat /\ reviewed \subseteq Mems

LEMMA TypedInit == Init => Typed
<1> SUFFICES ASSUME Init PROVE Typed
  OBVIOUS
<1>1. rows \in [Mems -> Row \cup {None}]
  BY DEF Init, Row
<1>2. /\ hub \in Feeds /\ site \in Feeds /\ load \in [at : {"idle", "reading", "checking"}, got : Feeds]
  BY DEF Init, NoLoad, Feeds
<1> QED BY <1>1, <1>2 DEF Init, Typed, Idle, NoPage, Readers, Feeds

\* A row that an action writes over is a row again.
LEMMA RowTypes ==
  ASSUME Typed, NEW m \in Mems, NEW r \in Row \cup {None}, rows' = [rows EXCEPT ![m] = r]
  PROVE  rows' \in [Mems -> Row \cup {None}]
BY DEF Typed

LEMMA PendingTypes == ASSUME Typed, NEW m \in Mems, Exists(m) PROVE rows[m] \in Row
BY DEF Typed, Exists

LEMMA FaultTypes == ASSUME Typed, Fault \/ NoFault PROVE faults' \in Nat
BY DEF Typed, Fault, NoFault

LEMMA SubmissionTyped == ASSUME Typed, NEW m \in Mems, Submission(m) \/ Moderation(m) PROVE Typed'
<1>1. ASSUME StoreFile(m) PROVE Typed'
  <2>1. faults' \in Nat
    BY <1>1, FaultTypes DEF StoreFile
  <2> QED BY <1>1, <2>1 DEF StoreFile, uploadPhoto, Typed
<1>2. ASSUME SubmitText(m) PROVE Typed'
  BY <1>2 DEF SubmitText, Typed
<1>3. ASSUME Insert(m) PROVE Typed'
  <2>1. faults' \in Nat
    BY <1>3, FaultTypes DEF Insert
  <2>2. NewRow(post[m] = "file") \in Row
    BY DEF NewRow, Row
  <2>3. rows' \in [Mems -> Row \cup {None}]
    BY <1>3, <2>2, RowTypes DEF Insert, Typed
  <2> QED BY <1>3, <2>1, <2>3 DEF Insert, Typed
<1>4. ASSUME Approve(m) PROVE Typed'
  <2>1. [rows[m] EXCEPT !.approved = TRUE] \in Row
    BY <1>4, PendingTypes DEF Approve, Pending, Row
  <2>2. rows' \in [Mems -> Row \cup {None}]
    BY <1>4, <2>1, RowTypes DEF Approve
  <2> QED BY <1>4, <2>2 DEF Approve, Typed
<1>5. ASSUME Reject(m) PROVE Typed'
  <2>1. [rows[m] EXCEPT !.rejected = TRUE] \in Row
    BY <1>5, PendingTypes DEF Reject, Pending, Row
  <2>2. rows' \in [Mems -> Row \cup {None}]
    BY <1>5, <2>1, RowTypes DEF Reject
  <2> QED BY <1>5, <2>2 DEF Reject, Typed
<1> QED BY <1>1, <1>2, <1>3, <1>4, <1>5 DEF Submission, Moderation

LEMMA ForwardingTyped ==
  ASSUME Typed, NEW m \in Mems, Forwarding(m) \/ Publish(m) \/ Withdraw(m)
  PROVE  Typed'
<1>1. ASSUME Export(m) PROVE Typed'
  BY <1>1 DEF Export, Typed
<1>2. ASSUME Forward(m) PROVE Typed'
  BY <1>2 DEF Forward, Typed
<1>3. ASSUME PurgeFile(m) PROVE Typed'
  <2>1. faults' \in Nat
    BY <1>3, FaultTypes DEF PurgeFile
  <2> QED BY <1>3, <2>1 DEF PurgeFile, deletePhoto, Typed
<1>4. ASSUME PurgeRow(m) PROVE Typed'
  <2>1. faults' \in Nat
    BY <1>4, FaultTypes DEF PurgeRow
  <2>2. rows' \in [Mems -> Row \cup {None}]
    BY <1>4 DEF PurgeRow, Typed
  <2> QED BY <1>4, <2>1, <2>2 DEF PurgeRow, Typed
<1>5. ASSUME Publish(m) PROVE Typed'
  BY <1>5 DEF Publish, Typed, Feeds
<1>6. ASSUME Withdraw(m) PROVE Typed'
  BY <1>6 DEF Withdraw, Typed, Feeds
<1> QED BY <1>1, <1>2, <1>3, <1>4, <1>5, <1>6 DEF Forwarding

LEMMA ServingTyped ==
  ASSUME Typed,
         \/ Refresh \/ LoadFails \/ Answer \/ Restart \/ Connect
         \/ \E c \in Cities \cup {None} : List(c)
         \/ \E m \in Mems : Show(m) \/ Photo(m)
  PROVE  Typed'
<1>0. NoLoad \in [at : {"idle", "reading", "checking"}, got : Feeds] /\ NoLoad.at = "idle"
  BY DEF NoLoad, Feeds
<1>1. ASSUME Refresh PROVE Typed'
  BY <1>0, <1>1 DEF Refresh, StartLoad, ReadFeed, LoadDone, Typed, Feeds
<1>2. ASSUME LoadFails PROVE Typed'
  BY <1>0, <1>2 DEF LoadFails, Typed, Fault
<1>3. ASSUME Restart \/ Connect PROVE Typed'
  <2>1. faults' \in Nat
    BY <1>3 DEF Restart, Connect, Fault, Typed
  <2>2. intake' \in BOOLEAN
    BY <1>3, Zenon DEF Restart, Connect, Typed
  <2>3. Fresh /\ UNCHANGED <<rows, store, hub, edits, reviewed>>
    BY <1>3 DEF Restart, Connect
  <2>4. site' \in Feeds
    BY <2>3 DEF Fresh, Feeds
  <2>5. /\ post' \in [Mems -> {"none", "file", "text", "done", "failed"}]
        /\ outbox' \in [Mems -> {"none", "memory", "legacy_memory", "purge", "purge_row", "sent"}]
    BY <2>3 DEF Fresh, Typed
  <2>6. load' = NoLoad /\ reader' \in Readers /\ page' \in [local : SUBSET Mems, feed : SUBSET Mems]
    BY <2>3 DEF Fresh, Readers, NoPage
  <2> QED BY <1>0, <2>1, <2>2, <2>3, <2>4, <2>5, <2>6 DEF Typed
<1>4. ASSUME NEW c \in Cities \cup {None}, List(c) PROVE Typed'
  <2>1. (IF useDb THEN publicList(c) ELSE {}) \in SUBSET Mems
    BY DEF publicList
  <2>2. reader' \in Readers
    BY <1>4, <2>1 DEF List, Readers
  <2> QED BY <1>4, <2>2 DEF List, Typed
<1>5. ASSUME NEW m \in Mems, Show(m) \/ Photo(m) PROVE Typed'
  <2>1. reader' \in Readers /\ page' \in [local : SUBSET Mems, feed : SUBSET Mems]
    BY <1>5 DEF Show, Photo, Readers, Typed
  <2>2. UNCHANGED <<intake, rows, store, post, outbox, hub, site, load, edits, faults, reviewed>>
    BY <1>5 DEF Show, Photo
  <2> QED BY <2>1, <2>2 DEF Typed
<1>6. ASSUME Answer PROVE Typed'
  <2>1. reader' \in Readers /\ page' \in [local : SUBSET Mems, feed : SUBSET Mems]
    <3>1. CASE Merge
      <4>1. reader.rows \subseteq Mems
        BY <3>1 DEF Merge, Typed, Readers, Idle
      <4>2. feedMemories(reader.city) \subseteq Mems
        BY DEF feedMemories
      <4> QED BY <3>1, <4>1, <4>2 DEF Merge, mergeMemories, Readers
    <3>2. CASE LocalRow
      BY <3>2 DEF LocalRow, publicById, Readers, Typed, Idle
    <3>3. CASE FetchPhoto
      BY <3>3 DEF FetchPhoto, Readers, Typed, Idle
    <3>4. CASE LocalPhoto
      BY <3>4 DEF LocalPhoto, photoPath, Readers, Typed, Idle
    <3> QED BY <1>6, <3>1, <3>2, <3>3, <3>4 DEF Answer
  <2>2. faults' \in Nat /\ UNCHANGED <<intake, rows, store, post, outbox, hub, site, load, edits, reviewed>>
    BY <1>6, FaultTypes DEF Answer, Merge, LocalRow, FetchPhoto, LocalPhoto, NoFault
  <2> QED BY <2>1, <2>2 DEF Typed
<1> QED BY <1>1, <1>2, <1>3, <1>4, <1>5, <1>6

LEMMA TypedStep == Typed /\ [Next]_vars => Typed'
<1> SUFFICES ASSUME Typed, [Next]_vars PROVE Typed'
  OBVIOUS
<1>1. CASE UNCHANGED vars
  BY <1>1 DEF vars, Typed
<1> QED BY <1>1, SubmissionTyped, ForwardingTyped, ServingTyped DEF Next

\* Every variable keeps its type, in every mode of the map.
THEOREM BoardTypeCorrect == Spec => []Typed
BY TypedInit, TypedStep, PTL DEF Spec

-----------------------------------------------------------------------------
(* What is answered was reviewed *)

\* Every way into an answer: the rows, the feed and its copies on the way, and what a request already holds.
Names(f) == {m \in Mems : f[m] # None}

ServedInv ==
  /\ {m \in Mems : Approved(m)} \subseteq reviewed
  /\ Names(hub) \cup Names(site) \cup Names(load.got) \subseteq reviewed
  /\ reader.at = "merge" => reader.rows \subseteq reviewed
  /\ reader.at = "fetch" => reader.mem \in reviewed
  /\ ReviewedOnly

LEMMA ServedInit == Init => ServedInv
BY DEF Init, ServedInv, Names, Approved, Exists, NoLoad, NoPage, Idle, ReviewedOnly

\* A step that serves nothing new.
LEMMA ServedStays ==
  ASSUME ServedInv, UNCHANGED <<hub, site, load, reader, page>>, reviewed \subseteq reviewed',
         \A m \in Mems : Approved(m)' => Approved(m) \/ m \in reviewed'
  PROVE  ServedInv'
BY DEF ServedInv, Names, ReviewedOnly

LEMMA RowsServed ==
  ASSUME Typed, ServedInv, NEW m \in Mems, Submission(m) \/ Moderation(m) \/ Forwarding(m)
  PROVE  ServedInv'
<1>1. UNCHANGED <<hub, site, load, reader, page>> /\ reviewed \subseteq reviewed'
  BY DEF Submission, Moderation, Forwarding, StoreFile, SubmitText, Insert, Approve, Reject, Export, Forward, PurgeFile,
         PurgeRow
<1>2. ASSUME NEW n \in Mems, Approved(n)' PROVE Approved(n) \/ n \in reviewed'
  <2>1. CASE rows' = rows
    BY <1>2, <2>1 DEF Approved, Exists
  <2>2. CASE Insert(m) /\ rows' = [rows EXCEPT ![m] = NewRow(post[m] = "file")]
    BY <1>2, <2>2 DEF Typed, Approved, Exists, NewRow
  <2>3. CASE Approve(m)
    BY <1>2, <2>3 DEF Approve, Typed, Approved, Exists
  <2>4. CASE Reject(m)
    <3>1. rows[m] \in Row
      BY <2>4, PendingTypes DEF Reject, Pending
    <3>2. n = m => rows'[n].approved = rows[n].approved
      BY <2>4, <3>1 DEF Reject, Typed, Row
    <3>3. n # m => rows'[n] = rows[n]
      BY <2>4 DEF Reject, Typed
    <3>4. Exists(m)
      BY <2>4 DEF Reject, Pending
    <3> QED BY <1>2, <3>2, <3>3, <3>4 DEF Approved, Exists
  <2>5. CASE PurgeRow(m) /\ rows' = [rows EXCEPT ![m] = IF Approved(m) THEN rows[m] ELSE None]
    BY <1>2, <2>5 DEF Typed, Approved, Exists
  <2> QED
    BY <2>1, <2>2, <2>3, <2>4, <2>5 DEF Submission, Moderation, Forwarding, StoreFile, SubmitText, Insert, Export, Forward,
       PurgeFile, PurgeRow
<1> QED BY <1>1, <1>2, ServedStays

LEMMA HubServed ==
  ASSUME Typed, ServedInv, NEW m \in Mems, Publish(m) \/ Withdraw(m)
  PROVE  ServedInv'
<1>1. UNCHANGED <<rows, site, load, reader, page>> /\ reviewed \subseteq reviewed'
  BY DEF Publish, Withdraw
<1>2. Names(hub') \subseteq Names(hub) \cup reviewed'
  BY DEF Publish, Withdraw, Names, Typed, Feeds
<1> QED BY <1>1, <1>2 DEF ServedInv, ReviewedOnly, Approved, Exists, Names

LEMMA ServingServed ==
  ASSUME Typed, ServedInv,
         \/ Refresh \/ LoadFails \/ Answer \/ Restart \/ Connect
         \/ \E c \in Cities \cup {None} : List(c)
         \/ \E m \in Mems : Show(m) \/ Photo(m)
  PROVE  ServedInv'
<1>0. UNCHANGED <<rows, hub, reviewed>>
  BY DEF Refresh, StartLoad, ReadFeed, LoadDone, LoadFails, Answer, Merge, LocalRow, FetchPhoto, LocalPhoto, Restart,
         Connect, List, Show, Photo
<1>1. Names(NoLoad.got) = {}
  BY DEF Names, NoLoad
<1>2. ASSUME Refresh \/ LoadFails PROVE ServedInv'
  <2>1. UNCHANGED <<reader, page>>
    BY <1>2 DEF Refresh, StartLoad, ReadFeed, LoadDone, LoadFails
  <2>2. /\ site' = site \/ site' = load.got
        /\ load'.got = load.got \/ load'.got = hub \/ load' = NoLoad
    BY <1>2 DEF Refresh, StartLoad, ReadFeed, LoadDone, LoadFails, Typed
  <2>3. Names(site') \subseteq reviewed /\ Names(load'.got) \subseteq reviewed
    BY <1>1, <2>2 DEF ServedInv
  <2> QED BY <1>0, <2>1, <2>3 DEF ServedInv, ReviewedOnly, Approved, Exists, Names
<1>3. ASSUME Restart \/ Connect PROVE ServedInv'
  <2>1. /\ site' = [m \in Mems |-> None] /\ load' = NoLoad /\ reader' = Idle /\ page' = NoPage
    BY <1>3 DEF Restart, Connect, Fresh
  <2>2. Names(site') = {}
    BY <2>1 DEF Names
  <2> QED BY <1>0, <1>1, <2>1, <2>2 DEF ServedInv, ReviewedOnly, Approved, Exists, Names, Idle, NoPage
<1>4. ASSUME NEW c \in Cities \cup {None}, List(c) PROVE ServedInv'
  <2>1. (IF useDb THEN publicList(c) ELSE {}) \subseteq reviewed
    BY DEF ServedInv, publicList
  <2> QED BY <1>0, <1>4, <2>1 DEF List, ServedInv, ReviewedOnly, Approved, Exists, Names
<1>5. ASSUME NEW m \in Mems, Show(m) PROVE ServedInv'
  BY <1>0, <1>5 DEF Show, ServedInv, ReviewedOnly, Approved, Exists, Names
<1>6. ASSUME NEW m \in Mems, Photo(m) PROVE ServedInv'
  BY <1>0, <1>6 DEF Photo, ServedInv, ReviewedOnly, Approved, Exists, Names
<1>7. ASSUME Answer PROVE ServedInv'
  <2>1. UNCHANGED <<site, load>>
    BY <1>7 DEF Answer, Merge, LocalRow, FetchPhoto, LocalPhoto
  <2>2. page'.local \cup page'.feed \subseteq reviewed
    <3>1. CASE Merge
      <4>1. feedMemories(reader.city) \subseteq reviewed
        BY DEF feedMemories, ServedInv, Names
      <4> QED BY <3>1, <4>1 DEF Merge, mergeMemories, ServedInv
    <3>2. CASE LocalRow
      <4>1. reader.mem \in Mems
        BY <3>2 DEF LocalRow, Typed, Readers, Idle
      <4> QED BY <3>2, <4>1 DEF LocalRow, publicById, ServedInv
    <3>3. CASE FetchPhoto
      BY <3>3 DEF FetchPhoto, ServedInv, ReviewedOnly
    <3>4. CASE LocalPhoto
      <4>1. reader.mem \in Mems
        BY <3>4 DEF LocalPhoto, Typed, Readers, Idle
      <4> QED BY <3>4, <4>1 DEF LocalPhoto, photoPath, ServedInv
    <3> QED BY <1>7, <3>1, <3>2, <3>3, <3>4 DEF Answer
  <2>3. reader'.at \in {"idle", "path"}
    BY <1>7 DEF Answer, Merge, LocalRow, FetchPhoto, LocalPhoto, Idle, Typed, Readers
  <2> QED BY <1>0, <2>1, <2>2, <2>3 DEF ServedInv, ReviewedOnly, Approved, Exists, Names
<1> QED BY <1>2, <1>3, <1>4, <1>5, <1>6, <1>7

\* What a public route answers was approved here or published by the hub, in every mode of the map and whatever is
\* submitted, moderated, forwarded, published and withdrawn while the answer is put together (routes/memories.js).
THEOREM OnlyReviewedIsServed == Spec => []ReviewedOnly
<1>1. Typed /\ ServedInv /\ [Next]_vars => ServedInv'
  <2> SUFFICES ASSUME Typed, ServedInv, [Next]_vars PROVE ServedInv'
    OBVIOUS
  <2>1. CASE UNCHANGED vars
    BY <2>1, ServedStays DEF vars, Approved, Exists
  <2> QED BY <2>1, RowsServed, HubServed, ServingServed DEF Next
<1>2. ServedInv => ReviewedOnly
  BY DEF ServedInv
<1> QED BY <1>1, <1>2, ServedInit, BoardTypeCorrect, PTL DEF Spec

-----------------------------------------------------------------------------
(* The files of what is public *)

\* Why the file of a public row is there: it is stored before its row, under a name no other memory has; the relay
\* deletes only what was not approved when it was queued; and nothing is approved here once the hub is connected.
FileKept(m) ==
  /\ post[m] # "done" => outbox[m] = "none" /\ ~Exists(m)
  /\ post[m] = "file" => m \in store
  /\ outbox[m] # "none" => intake
  /\ outbox[m] \in {"memory", "purge", "purge_row"} => ~Approved(m)
  /\ Exists(m) /\ rows[m].file /\ (outbox[m] = "none" \/ Approved(m)) => m \in store

FilesInv == \A m \in Mems : FileKept(m)

LEMMA FilesInit == Init => FilesInv
BY DEF Init, FilesInv, FileKept, Approved, Exists

\* An action on one memory leaves the others, their files and what is forwarded of them alone.
LEMMA FilesOfOthers ==
  ASSUME FilesInv, NEW m \in Mems, intake' = intake, FileKept(m)',
         \A n \in Mems \ {m} : /\ rows'[n] = rows[n] /\ post'[n] = post[n] /\ outbox'[n] = outbox[n]
                               /\ n \in store => n \in store'
  PROVE  FilesInv'
BY DEF FilesInv, FileKept, Approved, Exists

LEMMA FilesStay == ASSUME FilesInv, UNCHANGED <<intake, rows, store, post, outbox>> PROVE FilesInv'
BY DEF FilesInv, FileKept, Approved, Exists

LEMMA FilesOfOne ==
  ASSUME Typed, FilesInv, NEW m \in Mems, Submission(m) \/ Moderation(m) \/ Forwarding(m)
  PROVE  FilesInv'
<1>0. FileKept(m)
  BY DEF FilesInv
<1>1. /\ intake' = intake
      /\ \A n \in Mems \ {m} : /\ rows'[n] = rows[n] /\ post'[n] = post[n] /\ outbox'[n] = outbox[n]
                               /\ n \in store => n \in store'
  <2>1. CASE Submission(m)
    BY <2>1 DEF Submission, StoreFile, SubmitText, Insert, uploadPhoto, Typed
  <2>2. CASE Moderation(m)
    BY <2>2 DEF Moderation, Approve, Reject, Typed
  <2>3. CASE Forwarding(m)
    BY <2>3 DEF Forwarding, Export, Forward, PurgeFile, PurgeRow, deletePhoto, Typed
  <2> QED BY <2>1, <2>2, <2>3
<1>2. ASSUME StoreFile(m) \/ SubmitText(m) PROVE FileKept(m)'
  BY <1>0, <1>2 DEF StoreFile, SubmitText, uploadPhoto, Typed, FileKept, Approved, Exists
<1>3. ASSUME Insert(m) PROVE FileKept(m)'
  <2>1. outbox[m] = "none" /\ (post[m] = "file" => m \in store)
    BY <1>0, <1>3 DEF Insert, FileKept
  <2>2. CASE rows' = [rows EXCEPT ![m] = NewRow(post[m] = "file")] /\ post' = [post EXCEPT ![m] = "done"]
    <3>1. rows'[m].file => post[m] = "file"
      BY <2>2 DEF NewRow, Typed
    <3>2. ~rows'[m].approved
      BY <2>2 DEF NewRow, Typed
    <3>3. outbox' = [outbox EXCEPT ![m] = IF intake THEN "memory" ELSE outbox[m]] /\ store' = store /\ intake' = intake
      BY <1>3, <2>1, <2>2 DEF Insert, Typed
    <3> QED BY <2>1, <2>2, <3>1, <3>2, <3>3 DEF FileKept, Approved, Exists, Typed
  <2>3. CASE UNCHANGED <<rows, outbox>> /\ post' = [post EXCEPT ![m] = "failed"]
    BY <1>0, <1>3, <2>1, <2>3 DEF Insert, FileKept, Approved, Exists, Typed
  <2> QED BY <1>3, <2>2, <2>3 DEF Insert
<1>4. ASSUME Approve(m) PROVE FileKept(m)'
  <2>1. outbox[m] = "none" /\ Exists(m) /\ UNCHANGED <<store, post, outbox, intake>>
    BY <1>0, <1>4 DEF Approve, Pending, FileKept
  <2>2. rows[m] \in Row
    BY <2>1, PendingTypes
  <2>3. rows'[m].file = rows[m].file
    BY <1>4, <2>2 DEF Approve, Typed, Row
  <2> QED BY <1>0, <2>1, <2>3 DEF FileKept
<1>5. ASSUME Reject(m) PROVE FileKept(m)'
  <2>1. Exists(m) /\ UNCHANGED <<store, post, outbox, intake>>
    BY <1>5 DEF Reject, Pending
  <2>2. rows[m] \in Row
    BY <2>1, PendingTypes
  <2>3. rows'[m].file = rows[m].file /\ rows'[m].approved = rows[m].approved
    BY <1>5, <2>2 DEF Reject, Typed, Row
  <2> QED BY <1>0, <2>1, <2>3 DEF FileKept, Approved, Exists
<1>6. ASSUME Export(m) \/ Forward(m) PROVE FileKept(m)'
  <2>1. UNCHANGED <<intake, rows, store, post>> /\ intake /\ post[m] = "done" /\ outbox[m] # "purge"
    BY <1>0, <1>6 DEF Export, Forward, FileKept, Approved, Exists
  <2>2. /\ outbox'[m] \in {"legacy_memory", "purge", "sent"}
        /\ outbox'[m] = "purge" => outbox[m] = "memory"
    BY <1>6 DEF Export, Forward, Typed
  <2> QED BY <1>0, <2>1, <2>2 DEF FileKept, Approved, Exists
<1>7. ASSUME PurgeFile(m) PROVE FileKept(m)'
  BY <1>0, <1>7 DEF PurgeFile, deletePhoto, FileKept, Approved, Exists, Typed
<1>8. ASSUME PurgeRow(m) PROVE FileKept(m)'
  <2>1. UNCHANGED <<intake, store, post>> /\ outbox[m] = "purge_row" /\ outbox'[m] \in {"sent", "memory"}
    BY <1>8 DEF PurgeRow, Typed
  <2>2. ~Approved(m)
    BY <1>0, <2>1 DEF FileKept
  <2>3. rows'[m] \in {rows[m], None}
    BY <1>8 DEF PurgeRow, Typed
  <2>4. ~Approved(m)'
    BY <2>2, <2>3 DEF Approved, Exists
  <2> QED BY <1>0, <2>1, <2>4 DEF FileKept
<1>9. FileKept(m)'
  BY <1>2, <1>3, <1>4, <1>5, <1>6, <1>7, <1>8 DEF Submission, Moderation, Forwarding
<1> QED BY <1>1, <1>9, FilesOfOthers

LEMMA FilesOfFresh == ASSUME Typed, FilesInv, Restart \/ Connect PROVE FilesInv'
<1>1. Fresh /\ UNCHANGED <<rows, store>> /\ (intake => intake')
  BY DEF Restart, Connect
<1>2. ASSUME NEW m \in Mems PROVE FileKept(m)'
  <2>1. FileKept(m)
    BY DEF FilesInv
  <2>2. /\ post'[m] = IF post[m] \in {"file", "text"} THEN "failed" ELSE post[m]
        /\ outbox'[m] = IF outbox[m] \in {"purge", "purge_row"} THEN "sent" ELSE outbox[m]
    BY <1>1 DEF Fresh
  <2> QED BY <1>1, <2>1, <2>2 DEF FileKept, Approved, Exists
<1> QED BY <1>2 DEF FilesInv

\* A public row that says it has a file has one (db.js, hub.js), for any number of memories, through every migration,
\* restart, failed statement and failed upload.
THEOREM PublicFilesAreThere == Spec => []PublicFileIsThere
<1>1. Typed /\ FilesInv /\ [Next]_vars => FilesInv'
  <2> SUFFICES ASSUME Typed, FilesInv, [Next]_vars PROVE FilesInv'
    OBVIOUS
  <2>1. CASE UNCHANGED <<intake, rows, store, post, outbox>>
    BY <2>1, FilesStay
  <2>2. CASE \E m \in Mems : Publish(m) \/ Withdraw(m) \/ Show(m) \/ Photo(m)
    BY <2>1, <2>2 DEF Publish, Withdraw, Show, Photo
  <2>3. CASE Refresh \/ LoadFails \/ Answer \/ \E c \in Cities \cup {None} : List(c)
    BY <2>1, <2>3 DEF Refresh, StartLoad, ReadFeed, LoadDone, LoadFails, Answer, Merge, LocalRow, FetchPhoto, LocalPhoto, List
  <2>4. CASE UNCHANGED vars
    BY <2>1, <2>4 DEF vars
  <2> QED BY <2>2, <2>3, <2>4, FilesOfOne, FilesOfFresh DEF Next
<1>2. FilesInv => PublicFileIsThere
  BY DEF FilesInv, FileKept, PublicFileIsThere, Approved
<1> QED BY <1>1, <1>2, FilesInit, BoardTypeCorrect, PTL DEF Spec
=============================================================================

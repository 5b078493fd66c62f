----------------------------- MODULE FeedProofs -----------------------------
(***************************************************************************)
(* Theorems about Feed, for any number of publications, files, sites,      *)
(* versions, failures and crashes.                                         *)
(***************************************************************************)
EXTENDS Feed, TLAPS

USE FeedAssumption

-----------------------------------------------------------------------------
(* Types *)

\* What is or was published has been approved, so its version is not 0.
Approved(rows) == \A p \in Pubs : rows[p].state # "draft" => rows[p].version # 0

\* A builder has read such rows, and puts records of what it has read as published.
Sound(x) == Approved(x.pubs) /\ (x.at = "records" => x.todo \subseteq Published(x.pubs))

RowsApproved == Approved(pub) /\ \A b \in Builders : Sound(builder[b])

Typed == TypeOK /\ RowsApproved

\* What a builder has read of a published row names a record of the store.
LEMMA PublishedVersion ==
  ASSUME Typed, NEW b \in Builders, NEW p \in Pubs
  PROVE  /\ builder[b].pubs[p].version \in 0 .. MaxVersion
         /\ builder[b].prev[p] \subseteq Paths
         /\ builder[b] \in BuilderStates
BY DEF Typed, TypeOK, BuilderStates, Rows

\* The paths of a generation, and of what is kept, are paths of the store.
LEMMA PathTypes ==
  ASSUME Typed, NEW b \in Builders
  PROVE  /\ \A p \in Published(builder[b].pubs) :
              /\ <<p, builder[b].pubs[p].version>> \in Records
              /\ PathsOf(p, builder[b].pubs[p].version) \subseteq Paths
         /\ PathsById(b) \in [Pubs -> SUBSET Paths]
<1>1. ASSUME NEW p \in Published(builder[b].pubs)
      PROVE  /\ <<p, builder[b].pubs[p].version>> \in Records
             /\ PathsOf(p, builder[b].pubs[p].version) \subseteq Paths
  <2>1. p \in Pubs /\ builder[b].pubs[p].state = "published"
    BY DEF Published
  <2>2. builder[b].pubs[p].version \in 1 .. MaxVersion
    BY <2>1, PublishedVersion DEF Typed, RowsApproved, Sound, Approved
  <2>3. <<p, builder[b].pubs[p].version>> \in Records
    BY <2>1, <2>2 DEF Records
  <2>4. MediaOf[p] \subseteq Media
    BY <2>1
  <2> QED BY <2>3, <2>4 DEF PathsOf, Paths
<1>2. PathsById(b) \in [Pubs -> SUBSET Paths]
  BY <1>1 DEF PathsById
<1> QED BY <1>1, <1>2

\* The index that a build writes is well-typed.
LEMMA NewIndexType ==
  ASSUME Typed, NEW b \in Builders
  PROVE  NewIndex(b) \in Indexes
<1>1. {<<p, builder[b].pubs[p].version>> : p \in Published(builder[b].pubs)} \subseteq Records
  BY PathTypes
<1>2. Withdrawn(builder[b].pubs) \subseteq Pubs
  BY DEF Withdrawn
<1>3. built + 1 \in Nat
  BY DEF Typed, TypeOK
<1> QED BY <1>1, <1>2, <1>3 DEF NewIndex, Indexes

LEMMA NoIndexType == NoIndex \in Indexes
BY DEF NoIndex, Indexes

LEMMA RestingType == Resting \in BuilderStates
<1>1. NoRows \in Rows /\ NoPaths \in [Pubs -> SUBSET Paths]
  BY DEF NoRows, NoPaths, Rows
<1> QED BY <1>1, NoIndexType DEF Resting, BuilderStates

LEMMA AwayType == Away \in ReaderStates
BY NoIndexType DEF Away, ReaderStates

\* The variables that no step of a builder, and none of a site, changes alone.
LEMMA BuilderTypes ==
  ASSUME TypeOK, NEW b \in Builders, NEW x \in BuilderStates, builder' = [builder EXCEPT ![b] = x]
  PROVE  builder' \in [Builders -> BuilderStates]
BY DEF TypeOK

LEMMA ReaderTypes ==
  ASSUME TypeOK, NEW r \in Readers, NEW x \in ReaderStates, reader' = [reader EXCEPT ![r] = x]
  PROVE  reader' \in [Readers -> ReaderStates]
BY DEF TypeOK

LEMMA SpendTypes ==
  ASSUME TypeOK, NEW e \in Events, Spend(e)
  PROVE  spent' \in [Events -> Nat]
BY DEF TypeOK, Spend

\* Publications change in their types, and only an approval publishes.
LEMMA PublishTypes ==
  ASSUME Typed, NEW p \in Pubs, Approve(p) \/ Withdraw(p) \/ Republish(p)
  PROVE  Typed'
<1>1. pub \in Rows /\ pub[p].state \in {"draft", "published", "withdrawn"} /\ pub[p].version \in 0 .. MaxVersion
  BY DEF Typed, TypeOK, Rows
<1>2. pub' \in Rows /\ Approved(pub')
  <2>1. CASE Approve(p)
    <3>1. pub[p].version + 1 \in 1 .. MaxVersion
      BY <1>1, <2>1 DEF Approve
    <3>2. pub' = [pub EXCEPT ![p] = [state |-> "published", version |-> pub[p].version + 1]]
      BY <2>1 DEF Approve
    <3> QED BY <1>1, <3>1, <3>2 DEF Typed, RowsApproved, Approved, Rows
  <2>2. CASE Withdraw(p)
    BY <1>1, <2>2 DEF Withdraw, Typed, RowsApproved, Approved, Rows
  <2>3. CASE Republish(p)
    BY <1>1, <2>3 DEF Republish, Typed, RowsApproved, Approved, Rows
  <2> QED BY <2>1, <2>2, <2>3
<1>3. /\ dirty' \in BOOLEAN /\ spent' \in [Events -> Nat]
      /\ UNCHANGED <<error, live, files, index, sig, builder, reader, copy, torn, built>>
  <2>1. Republish(p) => spent' \in [Events -> Nat]
    BY SpendTypes DEF Republish, Typed, Events
  <2> QED BY <2>1 DEF Approve, Withdraw, Republish, storeVars, Typed, TypeOK
<1> QED BY <1>2, <1>3 DEF Typed, TypeOK, RowsApproved

\* Everything but the row of the one builder that takes a step.
LEMMA BuilderStep ==
  ASSUME Typed, NEW b \in Builders, NEW x \in BuilderStates, Sound(x), builder' = [builder EXCEPT ![b] = x], pub' = pub
  PROVE  builder' \in [Builders -> BuilderStates] /\ RowsApproved'
<1>1. /\ builder \in [Builders -> BuilderStates] /\ TypeOK
      /\ \A c \in Builders : builder'[c] = IF c = b THEN x ELSE builder[c]
  BY DEF Typed, TypeOK
<1>2. builder' \in [Builders -> BuilderStates]
  BY <1>1, BuilderTypes
<1>3. Approved(pub)' /\ \A c \in Builders : Sound(builder'[c])
  BY <1>1 DEF Typed, RowsApproved, Approved
<1> QED BY <1>2, <1>3 DEF RowsApproved

\* One build, from the dirty flag to the summary, leaves well-typed rows, paths and indexes.
LEMMA BuildTypes ==
  ASSUME Typed, NEW b \in Builders, Build(b)
  PROVE  Typed'
<1> DEFINE B == builder[b]
<1>0. /\ B \in BuilderStates /\ builder \in [Builders -> BuilderStates]
      /\ TypeOK /\ Approved(pub) /\ Sound(B)
  BY DEF Typed, TypeOK, RowsApproved
<1> HIDE DEF B
<1>g. ASSUME NEW at \in {"idle", "publications", "live_paths", "signature", "list", "delete", "summary"},
             builder' = [builder EXCEPT ![b].at = at], pub' = pub
      PROVE  builder' \in [Builders -> BuilderStates] /\ RowsApproved'
  <2>1. [B EXCEPT !.at = at] \in BuilderStates /\ Sound([B EXCEPT !.at = at])
    BY <1>0 DEF BuilderStates, Sound
  <2>2. builder' = [builder EXCEPT ![b] = [B EXCEPT !.at = at]]
    BY <1>g DEF B
  <2> QED BY <1>g, <2>1, <2>2, BuilderStep
<1>t. ASSUME NEW y, builder' = [builder EXCEPT ![b].todo = @ \ {y}], pub' = pub
      PROVE  builder' \in [Builders -> BuilderStates] /\ RowsApproved'
  <2>1. [B EXCEPT !.todo = @ \ {y}] \in BuilderStates /\ Sound([B EXCEPT !.todo = @ \ {y}])
    BY <1>0 DEF BuilderStates, Sound
  <2>2. builder' = [builder EXCEPT ![b] = [B EXCEPT !.todo = @ \ {y}]]
    BY <1>t DEF B
  <2> QED BY <1>t, <2>1, <2>2, BuilderStep
<1>1. CASE Take(b)
  BY <1>0, <1>1, <1>g DEF Typed, TypeOK, Take, Go, storeVars
<1>2. CASE SelectPublications(b)
  <2>1. builder' = [builder EXCEPT ![b] = [B EXCEPT !.at = "live_paths", !.pubs = pub]] /\ pub' = pub
    BY <1>2 DEF SelectPublications, B
  <2>2. /\ [B EXCEPT !.at = "live_paths", !.pubs = pub] \in BuilderStates
        /\ Sound([B EXCEPT !.at = "live_paths", !.pubs = pub])
    BY <1>0 DEF BuilderStates, TypeOK, Sound
  <2>3. builder' \in [Builders -> BuilderStates] /\ RowsApproved'
    BY <2>1, <2>2, BuilderStep
  <2> QED BY <1>0, <1>2, <2>3 DEF Typed, TypeOK, SelectPublications, storeVars
<1>3. CASE SelectLivePaths(b)
  <2> DEFINE x == [B EXCEPT !.at = "records", !.prev = live, !.todo = Published(B.pubs)]
  <2>1. builder' = [builder EXCEPT ![b] = x] /\ pub' = pub
    BY <1>3 DEF SelectLivePaths, B
  <2>2. x \in BuilderStates /\ Sound(x)
    <3>1. Published(B.pubs) \subseteq Pubs
      BY DEF Published
    <3> QED BY <1>0, <3>1 DEF BuilderStates, TypeOK, Sound
  <2>3. builder' \in [Builders -> BuilderStates] /\ RowsApproved'
    <3> HIDE DEF x
    <3> QED BY <2>1, <2>2, BuilderStep
  <2> QED BY <1>0, <1>3, <2>3 DEF Typed, TypeOK, SelectLivePaths, storeVars
<1>4. ASSUME NEW p \in Pubs, PutRecord(b, p) PROVE Typed'
  <2>1. files' \subseteq Paths
    <3>1. p \in Published(B.pubs)
      BY <1>0, <1>4 DEF PutRecord, Sound, B
    <3> QED BY <1>0, <1>4, <3>1, PathTypes DEF PutRecord, TypeOK, B
  <2>2. builder' \in [Builders -> BuilderStates] /\ RowsApproved'
    BY <1>4, <1>t DEF PutRecord
  <2> QED BY <1>0, <1>4, <2>1, <2>2 DEF Typed, TypeOK, PutRecord
<1>5. CASE PutIndex(b)
  <2> DEFINE x == [B EXCEPT !.at = "signature", !.doc = NewIndex(b)]
  <2>1. builder' = [builder EXCEPT ![b] = x] /\ pub' = pub
    BY <1>5 DEF PutIndex, B
  <2>2. x \in BuilderStates /\ Sound(x)
    BY <1>0, NewIndexType DEF BuilderStates, Sound
  <2>3. builder' \in [Builders -> BuilderStates] /\ RowsApproved'
    <3> HIDE DEF x
    <3> QED BY <2>1, <2>2, BuilderStep
  <2>4. reader' \in [Readers -> ReaderStates]
    <3>1. ASSUME NEW r \in Readers
          PROVE  (IF reader[r].index = NoIndex \/ reader[r].age = 2 THEN reader[r]
                  ELSE [reader[r] EXCEPT !.age = @ + 1]) \in ReaderStates
      BY <1>0 DEF TypeOK, ReaderStates
    <3> QED BY <1>5, <3>1 DEF PutIndex
  <2>5. index' \in Indexes /\ built' \in Nat
    BY <1>0, <1>5, NewIndexType DEF PutIndex, TypeOK
  <2> QED BY <1>0, <1>5, <2>3, <2>4, <2>5 DEF Typed, TypeOK, PutIndex
<1>6. CASE PutSignature(b)
  <2>1. sig' \in Indexes
    BY <1>0, <1>6 DEF PutSignature, BuilderStates, B
  <2> QED BY <1>0, <1>6, <1>g, <2>1 DEF Typed, TypeOK, PutSignature, Go
<1>7. CASE ListStale(b)
  <2> DEFINE x == [B EXCEPT !.at = "delete", !.todo = files \ Keep(b)]
  <2>1. builder' = [builder EXCEPT ![b] = x] /\ pub' = pub
    BY <1>7 DEF ListStale, B
  <2>2. x \in BuilderStates /\ Sound(x)
    BY <1>0 DEF BuilderStates, Sound, TypeOK
  <2>3. builder' \in [Builders -> BuilderStates] /\ RowsApproved'
    <3> HIDE DEF x
    <3> QED BY <2>1, <2>2, BuilderStep
  <2> QED BY <1>0, <1>7, <2>3 DEF Typed, TypeOK, ListStale, storeVars
<1>8. ASSUME NEW path, Delete(b, path) PROVE Typed'
  BY <1>0, <1>8, <1>t DEF Typed, TypeOK, Delete
<1>9. CASE SaveLivePaths(b)
  BY <1>0, <1>9, <1>g, PathTypes DEF Typed, TypeOK, SaveLivePaths, Go, storeVars
<1>10. CASE Finish(b)
  <2>1. builder' \in [Builders -> BuilderStates] /\ RowsApproved'
    BY <1>10, BuilderStep, RestingType DEF Finish, Sound, Approved, Resting, NoRows
  <2> QED BY <1>0, <1>10, <2>1 DEF Typed, TypeOK, Finish, storeVars
<1> QED BY <1>1, <1>2, <1>3, <1>4, <1>5, <1>6, <1>7, <1>8, <1>9, <1>10 DEF Build

\* A build that fails or dies is forgotten.
LEMMA EndTypes ==
  ASSUME Typed, NEW b \in Builders, Fail(b) \/ Crash(b)
  PROVE  Typed'
<1>1. builder' \in [Builders -> BuilderStates] /\ RowsApproved'
  BY BuilderStep, RestingType DEF Fail, Crash, Sound, Approved, Resting, NoRows
<1>2. spent' \in [Events -> Nat]
  BY SpendTypes DEF Fail, Crash, Typed, Events
<1> QED BY <1>1, <1>2 DEF Typed, TypeOK, Fail, Crash, storeVars

\* A site reads indexes and signatures that were written.
LEMMA LoadTypes ==
  ASSUME Typed, NEW r \in Readers, Load(r) \/ GiveUp(r)
  PROVE  Typed'
<1>0. TypeOK /\ RowsApproved /\ reader[r] \in ReaderStates /\ Away \in ReaderStates
  BY AwayType DEF Typed, TypeOK
<1>1. CASE ReadIndex(r)
  <2>1. reader' \in [Readers -> ReaderStates]
    <3>1. index \in Indexes /\ 0 \in 0 .. 2
      BY <1>0 DEF TypeOK
    <3>2. ASSUME NEW at \in {"have_index", "verify"}
          PROVE  [reader[r] EXCEPT !.at = at, !.index = index, !.age = 0] \in ReaderStates
      BY <1>0, <3>1 DEF ReaderStates
    <3> QED BY <1>0, <1>1, <3>2, ReaderTypes DEF ReadIndex, TypeOK
  <2> QED BY <1>0, <1>1, <2>1 DEF Typed, TypeOK, RowsApproved, ReadIndex, storeVars
<1>2. CASE ReadSignature(r)
  <2>1. reader' \in [Readers -> ReaderStates]
    BY <1>0, <1>2 DEF ReadSignature, ReaderStates, TypeOK
  <2> QED BY <1>0, <1>2, <2>1 DEF Typed, TypeOK, RowsApproved, ReadSignature, storeVars
<1>3. CASE Verify(r)
  <2>1. reader[r].index.records \subseteq Records
    BY <1>0 DEF ReaderStates, Indexes
  <2>2. reader' \in [Readers -> ReaderStates]
    BY <1>0, <1>3, <2>1, ReaderTypes DEF Verify, ReaderStates
  <2> QED BY <1>0, <1>3, <2>2 DEF Typed, TypeOK, RowsApproved, Verify, storeVars
<1>4. ASSUME NEW rec, FetchRecord(r, rec) PROVE Typed'
  <2>1. reader' \in [Readers -> ReaderStates]
    <3>1. [reader[r] EXCEPT !.todo = @ \ {rec}] \in ReaderStates
      BY <1>0 DEF ReaderStates
    <3>2. CASE rec \in files
      BY <1>0, <1>4, <3>1, <3>2, ReaderTypes DEF FetchRecord
    <3>3. CASE rec \notin files
      BY <1>0, <1>4, <3>3, ReaderTypes DEF FetchRecord
    <3> QED BY <3>2, <3>3
  <2> QED BY <1>0, <1>4, <2>1 DEF Typed, TypeOK, RowsApproved, FetchRecord, storeVars
<1>5. CASE Refreshed(r)
  <2>1. reader' \in [Readers -> ReaderStates] /\ copy' \in [Readers -> Indexes]
    BY <1>0, <1>5, ReaderTypes DEF Refreshed, ReaderStates, TypeOK
  <2> QED BY <1>0, <1>5, <2>1 DEF Typed, TypeOK, RowsApproved, Refreshed, storeVars
<1>6. CASE GiveUp(r)
  <2>1. reader' \in [Readers -> ReaderStates] /\ spent' \in [Events -> Nat]
    BY <1>0, <1>6, ReaderTypes, SpendTypes DEF GiveUp, Events
  <2> QED BY <1>0, <1>6, <2>1 DEF Typed, TypeOK, RowsApproved, GiveUp, storeVars
<1> QED BY <1>1, <1>2, <1>3, <1>4, <1>5, <1>6 DEF Load

LEMMA RebuildTypes == ASSUME Typed, Rebuild PROVE Typed'
<1>1. spent' \in [Events -> Nat]
  BY SpendTypes DEF Rebuild, Typed, Events
<1> QED BY <1>1 DEF Typed, TypeOK, RowsApproved, Rebuild, storeVars

LEMMA TypedStep == Typed /\ [Next]_vars => Typed'
<1> SUFFICES ASSUME Typed, [Next]_vars PROVE Typed'
  OBVIOUS
<1>1. CASE UNCHANGED vars
  BY <1>1 DEF vars, storeVars, Typed, TypeOK, RowsApproved
<1> QED BY <1>1, PublishTypes, RebuildTypes, BuildTypes, EndTypes, LoadTypes DEF Next, Publish

LEMMA TypedInit == Init => Typed
<1> SUFFICES ASSUME Init PROVE Typed
  OBVIOUS
<1>1. /\ NoRows \in Rows /\ NoPaths \in [Pubs -> SUBSET Paths] /\ NoIndex \in Indexes
      /\ Resting \in BuilderStates /\ Away \in ReaderStates
  BY NoIndexType, RestingType, AwayType DEF NoRows, NoPaths, Rows
<1>2. RowsApproved
  BY DEF Init, RowsApproved, Approved, Sound, NoRows, Resting
<1> QED BY <1>1, <1>2 DEF Init, Typed, TypeOK

\* Every variable of the feed stays in its type, with any number of workers building at once, of builds that
\* fail or die and of sites that read meanwhile.
THEOREM FeedTypeCorrect == Spec => []TypeOK
<1>1. Typed => TypeOK
  BY DEF Typed
<1> QED BY <1>1, TypedInit, TypedStep, PTL DEF Spec

-----------------------------------------------------------------------------
(***************************************************************************)
(* With one worker building, as deployed.  StoreInv says for each stage of *)
(* a build what is in the store already; TableInv what the rows it has     *)
(* read have to do with the table as it is by now.                         *)
(***************************************************************************)
OneBuilder == \A b, c \in Builders : b = c

RecordsOf(rows) == {<<p, rows[p].version>> : p \in Published(rows)}

\* What a build has done so far, up to the index and after it.
PutSoFar(x) ==
  x.at = "records" => \A p \in Published(x.pubs) \ x.todo : PathsOf(p, x.pubs[p].version) \subseteq files

IndexIsOf(x) ==
  x.at \in {"signature", "list", "delete", "summary"} =>
    /\ index.records = RecordsOf(x.pubs) /\ index.tombstones = Withdrawn(x.pubs)
    /\ index = x.doc

\* It deletes nothing that it keeps.
SparesKept(b) == builder[b].at = "delete" => builder[b].todo \cap Keep(b) = {}

StoreInv ==
  /\ IndexComplete
  /\ \A b \in Builders : PutSoFar(builder[b]) /\ IndexIsOf(builder[b]) /\ SparesKept(b)

\* It is enough to show the invariant for the builder at work.
LEMMA StoreInvOf ==
  ASSUME OneBuilder, NEW b \in Builders, IndexComplete', PutSoFar(builder[b])', IndexIsOf(builder[b])', SparesKept(b)'
  PROVE  StoreInv'
<1>1. \A c \in Builders : c = b
  BY DEF OneBuilder
<1>2. \A c \in Builders : PutSoFar(builder[c])' /\ IndexIsOf(builder[c])' /\ SparesKept(c)'
  BY <1>1
<1> QED BY <1>2 DEF StoreInv

\* What a build keeps depends on what it has read only.
LEMMA KeepSame ==
  ASSUME NEW b \in Builders, builder'[b].pubs = builder[b].pubs, builder'[b].prev = builder[b].prev
  PROVE  PathsById(b)' = PathsById(b) /\ Keep(b)' = Keep(b)
<1>1. PathsById(b)' = PathsById(b)
  BY DEF PathsById
<1> QED BY <1>1 DEF Keep

\* Each record of the index being built, and its files, are kept.
LEMMA KeepsPublished ==
  ASSUME NEW b \in Builders, NEW p \in Published(builder[b].pubs)
  PROVE  PathsOf(p, builder[b].pubs[p].version) \subseteq Keep(b)
<1>1. p \in Pubs
  BY DEF Published
<1>2. PathsById(b)[p] = PathsOf(p, builder[b].pubs[p].version)
  BY <1>1 DEF PathsById
<1> QED BY <1>1, <1>2 DEF Keep

\* A record of an index is that of one publication and version.
LEMMA RecordsOfPaths ==
  ASSUME NEW rows, NEW rec \in RecordsOf(rows)
  PROVE  /\ rec[1] \in Published(rows) /\ rec[2] = rows[rec[1]].version /\ rec = <<rec[1], rec[2]>>
BY DEF RecordsOf

LEMMA StoreBuild ==
  ASSUME OneBuilder, Typed, StoreInv, NEW b \in Builders, Build(b)
  PROVE  StoreInv'
<1> DEFINE B == builder[b]
<1>0. /\ builder \in [Builders -> BuilderStates] /\ B \in BuilderStates /\ Sound(B)
      /\ IndexComplete /\ PutSoFar(B) /\ IndexIsOf(B) /\ SparesKept(b)
  BY DEF Typed, TypeOK, RowsApproved, StoreInv
<1>s. SUFFICES IndexComplete' /\ PutSoFar(builder[b])' /\ IndexIsOf(builder[b])' /\ SparesKept(b)'
  BY StoreInvOf
<1>1. CASE Take(b)
  BY <1>0, <1>1 DEF Take, Go, storeVars, IndexComplete, PutSoFar, IndexIsOf, SparesKept
<1>2. CASE SelectPublications(b)
  BY <1>0, <1>2 DEF SelectPublications, storeVars, IndexComplete, PutSoFar, IndexIsOf, SparesKept
<1>3. CASE SelectLivePaths(b)
  BY <1>0, <1>3 DEF SelectLivePaths, storeVars, IndexComplete, PutSoFar, IndexIsOf, SparesKept
<1>4. ASSUME NEW p \in Pubs, PutRecord(b, p)
      PROVE  IndexComplete' /\ PutSoFar(builder[b])' /\ IndexIsOf(builder[b])' /\ SparesKept(b)'
  <2>1. /\ files' = files \cup PathsOf(p, B.pubs[p].version) /\ index' = index
        /\ builder'[b] = [B EXCEPT !.todo = @ \ {p}] /\ B.at = "records"
    BY <1>0, <1>4 DEF PutRecord
  <2>2. IndexComplete'
    BY <1>0, <2>1 DEF IndexComplete
  <2>3. PutSoFar(builder[b])'
    BY <1>0, <2>1 DEF PutSoFar, BuilderStates
  <2> QED BY <1>0, <2>1, <2>2, <2>3 DEF IndexIsOf, SparesKept, BuilderStates
<1>5. CASE PutIndex(b)
  <2>1. /\ B.at = "records" /\ B.todo = {} /\ files' = files /\ index' = NewIndex(b)
        /\ builder'[b] = [B EXCEPT !.at = "signature", !.doc = NewIndex(b)]
    BY <1>0, <1>5 DEF PutIndex, AllPut
  <2>2. /\ NewIndex(b).records = RecordsOf(B.pubs)
        /\ NewIndex(b).tombstones = Withdrawn(B.pubs)
    BY DEF NewIndex, RecordsOf
  <2>3. \A rec \in RecordsOf(B.pubs) : PathsOf(rec[1], rec[2]) \subseteq files
    BY <1>0, <2>1, RecordsOfPaths DEF PutSoFar
  <2>4. IndexComplete'
    BY <2>1, <2>2, <2>3 DEF IndexComplete
  <2>5. IndexIsOf(builder[b])'
    BY <1>0, <2>1, <2>2 DEF IndexIsOf, BuilderStates
  <2> QED BY <1>0, <2>1, <2>4, <2>5 DEF PutSoFar, SparesKept, BuilderStates
<1>6. CASE PutSignature(b)
  BY <1>0, <1>6 DEF PutSignature, Go, IndexComplete, PutSoFar, IndexIsOf, SparesKept, BuilderStates
<1>7. CASE ListStale(b)
  <2>1. /\ B.at = "list" /\ index' = index /\ files' = files
        /\ builder'[b] = [B EXCEPT !.at = "delete", !.todo = files \ Keep(b)]
    BY <1>0, <1>7 DEF ListStale, storeVars
  <2>2. Keep(b)' = Keep(b)
    BY <1>0, <2>1, KeepSame DEF BuilderStates
  <2>3. SparesKept(b)'
    BY <1>0, <2>1, <2>2 DEF SparesKept, BuilderStates
  <2> QED BY <1>0, <2>1, <2>3 DEF IndexComplete, PutSoFar, IndexIsOf, BuilderStates
<1>8. ASSUME NEW path, Delete(b, path)
      PROVE  IndexComplete' /\ PutSoFar(builder[b])' /\ IndexIsOf(builder[b])' /\ SparesKept(b)'
  <2>1. /\ B.at = "delete" /\ path \in B.todo /\ files' = files \ {path} /\ index' = index
        /\ builder'[b] = [B EXCEPT !.todo = @ \ {path}]
    BY <1>0, <1>8 DEF Delete
  <2>2. Keep(b)' = Keep(b)
    BY <1>0, <2>1, KeepSame DEF BuilderStates
  <2>3. path \notin Keep(b)
    BY <1>0, <2>1 DEF SparesKept
  <2>4. index.records = RecordsOf(B.pubs)
    BY <1>0, <2>1 DEF IndexIsOf
  <2>5. \A rec \in index.records : path \notin PathsOf(rec[1], rec[2])
    BY <2>3, <2>4, RecordsOfPaths, KeepsPublished
  <2>6. IndexComplete'
    BY <1>0, <2>1, <2>5 DEF IndexComplete
  <2>7. SparesKept(b)'
    BY <1>0, <2>1, <2>2 DEF SparesKept, BuilderStates
  <2> QED BY <1>0, <2>1, <2>6, <2>7 DEF PutSoFar, IndexIsOf, BuilderStates
<1>9. CASE SaveLivePaths(b)
  BY <1>0, <1>9 DEF SaveLivePaths, Go, storeVars, IndexComplete, PutSoFar, IndexIsOf, SparesKept, BuilderStates
<1>10. CASE Finish(b)
  BY <1>0, <1>10 DEF Finish, storeVars, IndexComplete, PutSoFar, IndexIsOf, SparesKept, Resting
<1> QED BY <1>1, <1>2, <1>3, <1>4, <1>5, <1>6, <1>7, <1>8, <1>9, <1>10 DEF Build

LEMMA StoreEnd ==
  ASSUME OneBuilder, Typed, StoreInv, NEW b \in Builders, Fail(b) \/ Crash(b)
  PROVE  StoreInv'
<1>1. builder'[b] = Resting /\ files' = files /\ index' = index /\ IndexComplete
  BY DEF Fail, Crash, storeVars, Typed, TypeOK, StoreInv
<1>2. IndexComplete' /\ PutSoFar(builder[b])' /\ IndexIsOf(builder[b])' /\ SparesKept(b)'
  BY <1>1 DEF IndexComplete, PutSoFar, IndexIsOf, SparesKept, Resting
<1> QED BY <1>2, StoreInvOf

\* Nothing else touches the store or the builders.
LEMMA StoreSame ==
  ASSUME StoreInv, UNCHANGED <<files, index, builder>>
  PROVE  StoreInv'
BY DEF StoreInv, IndexComplete, PutSoFar, IndexIsOf, SparesKept, Keep, PathsById

LEMMA StoreStep == OneBuilder /\ Typed /\ StoreInv /\ [Next]_vars => StoreInv'
<1> SUFFICES ASSUME OneBuilder, Typed, StoreInv, [Next]_vars PROVE StoreInv'
  OBVIOUS
<1>1. CASE UNCHANGED vars
  BY <1>1, StoreSame DEF vars, storeVars
<1>2. CASE Publish
  BY <1>2, StoreSame DEF Publish, Approve, Withdraw, Republish, storeVars
<1>3. CASE Rebuild
  BY <1>3, StoreSame DEF Rebuild, storeVars
<1>4. ASSUME NEW r \in Readers, Load(r) \/ GiveUp(r) PROVE StoreInv'
  BY <1>4, StoreSame DEF Load, ReadIndex, ReadSignature, Verify, FetchRecord, Refreshed, GiveUp, storeVars
<1> QED BY <1>1, <1>2, <1>3, <1>4, StoreBuild, StoreEnd DEF Next

LEMMA StoreInit == Init => StoreInv
BY DEF Init, StoreInv, IndexComplete, PutSoFar, IndexIsOf, SparesKept, NoIndex, Resting

\* At every moment of a build the store has every record the index names, and its files, whatever fails.
THEOREM FeedIndexComplete == ASSUME OneBuilder PROVE Spec => []IndexComplete
<1>1. Typed /\ StoreInv /\ [Next]_vars => (Typed /\ StoreInv)'
  BY TypedStep, StoreStep
<1>2. Typed /\ StoreInv => IndexComplete
  BY DEF StoreInv
<1> QED BY <1>1, <1>2, TypedInit, StoreInit, PTL DEF Spec

\* The rows a build has read are those of the table, unless the feed is dirty again. (A withdrawal that was taken
\* back since is still a withdrawal in the build.)
Agrees(rows) ==
  /\ Published(rows) = Published(pub)
  /\ \A p \in Published(pub) : rows[p].version = pub[p].version
  /\ Withdrawn(pub) \subseteq Withdrawn(rows)

UpToDate(x) == x.at \notin {"idle", "publications"} /\ ~dirty => Agrees(x.pubs)

Signed(x) == x.at \in {"list", "delete", "summary"} => sig = index

\* What is kept for a publication is its own.
OfPub(p) == ({p} \X (1 .. MaxVersion)) \cup MediaOf[p]
Owned(paths) == \A p \in Pubs : paths[p] \subseteq OfPub(p)

\* What a build does not keep is what it has still to delete.
OnlyKept(b) ==
  /\ builder[b].at = "delete" => files \subseteq Keep(b) \cup builder[b].todo
  /\ builder[b].at = "summary" => files \subseteq Keep(b)

TableInv ==
  /\ FeedMatches /\ WithdrawnIsGone
  /\ Owned(live)
  /\ \A b \in Builders :
       UpToDate(builder[b]) /\ Signed(builder[b]) /\ Owned(builder[b].prev) /\ OnlyKept(b)

LEMMA TableInvOf ==
  ASSUME OneBuilder, NEW b \in Builders, FeedMatches', WithdrawnIsGone', Owned(live)', UpToDate(builder[b])',
         Signed(builder[b])', Owned(builder[b].prev)', OnlyKept(b)'
  PROVE  TableInv'
<1>1. \A c \in Builders : c = b
  BY DEF OneBuilder
<1>2. \A c \in Builders :
        UpToDate(builder[c])' /\ Signed(builder[c])' /\ Owned(builder[c].prev)' /\ OnlyKept(c)'
  BY <1>1
<1> QED BY <1>2 DEF TableInv

\* The paths of a generation belong to what was published in it.
LEMMA GenerationOwned ==
  ASSUME Typed, NEW b \in Builders
  PROVE  Owned(PathsById(b))
<1> SUFFICES ASSUME NEW p \in Pubs PROVE PathsById(b)[p] \subseteq OfPub(p)
  BY DEF Owned
<1>1. CASE p \in Published(builder[b].pubs)
  <2>1. <<p, builder[b].pubs[p].version>> \in Records
    BY <1>1, PathTypes
  <2>2. builder[b].pubs[p].version \in 1 .. MaxVersion
    BY <2>1 DEF Records
  <2> QED BY <1>1, <2>2 DEF PathsById, PathsOf, OfPub
<1>2. CASE p \notin Published(builder[b].pubs)
  BY <1>2 DEF PathsById
<1> QED BY <1>1, <1>2

\* Whatever a build keeps belongs to a publication it has not read as withdrawn.
LEMMA KeptOwned ==
  ASSUME Typed, NEW b \in Builders, Owned(builder[b].prev), NEW path \in Keep(b)
  PROVE  \E q \in Pubs \ Withdrawn(builder[b].pubs) : path \in OfPub(q)
<1>1. CASE \E p \in Pubs : path \in PathsById(b)[p]
  <2>1. PICK p \in Pubs : path \in PathsById(b)[p]
    BY <1>1
  <2>2. path \in OfPub(p)
    BY <2>1, GenerationOwned DEF Owned
  <2>3. p \in Published(builder[b].pubs)
    BY <2>1 DEF PathsById
  <2> QED BY <2>2, <2>3 DEF Published, Withdrawn
<1>2. CASE \E p \in Pubs \ Withdrawn(builder[b].pubs) : path \in builder[b].prev[p]
  BY <1>2 DEF Owned
<1> QED BY <1>1, <1>2 DEF Keep

\* A build that ends with the table as it read it leaves nothing of what is withdrawn.
LEMMA SummaryGone ==
  ASSUME Typed, NEW b \in Builders, Owned(builder[b].prev), Agrees(builder[b].pubs), files \subseteq Keep(b),
         NEW p \in Withdrawn(pub)
  PROVE  GoneFor(p)
<1>0. p \in Pubs /\ p \in Withdrawn(builder[b].pubs)
  BY DEF Withdrawn, Agrees
<1>1. ASSUME NEW v \in 1 .. MaxVersion, <<p, v>> \in files PROVE FALSE
  <2>1. PICK q \in Pubs \ Withdrawn(builder[b].pubs) : <<p, v>> \in OfPub(q)
    BY <1>1, KeptOwned
  <2>2. q # p /\ <<p, v>> \notin Media
    BY <1>0, <2>1
  <2>3. MediaOf[q] \subseteq Media
    BY <2>1
  <2> QED BY <2>1, <2>2, <2>3 DEF OfPub
<1>2. ASSUME NEW m \in MediaOf[p] \cap files
      PROVE  \E q \in Pubs \ {p} : pub[q].state # "withdrawn" /\ m \in MediaOf[q]
  <2>1. PICK q \in Pubs \ Withdrawn(builder[b].pubs) : m \in OfPub(q)
    BY <1>2, KeptOwned
  <2>2. m \in Media
    BY <1>0, <1>2
  <2>3. m \notin {q} \X (1 .. MaxVersion)
    BY <2>1, <2>2
  <2>4. q # p /\ pub[q].state # "withdrawn"
    BY <1>0, <2>1 DEF Agrees, Withdrawn
  <2> QED BY <2>1, <2>3, <2>4 DEF OfPub
<1> QED BY <1>1, <1>2 DEF GoneFor

LEMMA TableBuild ==
  ASSUME OneBuilder, Typed, StoreInv, TableInv, NEW b \in Builders, Build(b)
  PROVE  TableInv'
<1> DEFINE B == builder[b]
<1>0. /\ builder \in [Builders -> BuilderStates] /\ B \in BuilderStates
      /\ IndexIsOf(B) /\ Owned(live)
      /\ UpToDate(B) /\ Signed(B) /\ Owned(B.prev) /\ OnlyKept(b)
  BY DEF Typed, TypeOK, StoreInv, TableInv
<1>u. ~Settled' => FeedMatches' /\ WithdrawnIsGone'
  BY DEF FeedMatches, WithdrawnIsGone
<1>v. builder'[b].at # "idle" => FeedMatches' /\ WithdrawnIsGone'
  BY <1>u DEF Settled, Quiet
<1>s. SUFFICES /\ FeedMatches' /\ WithdrawnIsGone' /\ Owned(live)'
               /\ UpToDate(builder[b])' /\ Signed(builder[b])' /\ Owned(builder[b].prev)' /\ OnlyKept(b)'
  BY TableInvOf
<1>1. CASE Take(b)
  <2>1. builder'[b] = [B EXCEPT !.at = "publications"] /\ live' = live
    BY <1>0, <1>1 DEF Take, Go
  <2> QED BY <1>0, <1>v, <2>1 DEF UpToDate, Signed, Owned, OnlyKept, BuilderStates
<1>2. CASE SelectPublications(b)
  <2>1. builder'[b] = [B EXCEPT !.at = "live_paths", !.pubs = pub] /\ live' = live /\ pub' = pub
    BY <1>0, <1>2 DEF SelectPublications
  <2>2. Agrees(builder[b].pubs)'
    BY <1>0, <2>1 DEF Agrees, BuilderStates
  <2> QED BY <1>0, <1>v, <2>1, <2>2 DEF UpToDate, Signed, Owned, OnlyKept, BuilderStates
<1>3. CASE SelectLivePaths(b)
  <2>1. /\ builder'[b] = [B EXCEPT !.at = "records", !.prev = live, !.todo = Published(B.pubs)]
        /\ live' = live /\ pub' = pub /\ dirty' = dirty /\ B.at = "live_paths"
    BY <1>0, <1>3 DEF SelectLivePaths
  <2> QED BY <1>0, <1>v, <2>1 DEF UpToDate, Agrees, Signed, Owned, OnlyKept, BuilderStates
<1>4. ASSUME NEW p \in Pubs, PutRecord(b, p)
      PROVE  /\ FeedMatches' /\ WithdrawnIsGone' /\ Owned(live)'
             /\ UpToDate(builder[b])' /\ Signed(builder[b])' /\ Owned(builder[b].prev)' /\ OnlyKept(b)'
  <2>1. /\ builder'[b] = [B EXCEPT !.todo = @ \ {p}] /\ B.at = "records"
        /\ live' = live /\ pub' = pub /\ dirty' = dirty
    BY <1>0, <1>4 DEF PutRecord
  <2> QED BY <1>0, <1>v, <2>1 DEF UpToDate, Agrees, Signed, Owned, OnlyKept, BuilderStates
<1>5. CASE PutIndex(b)
  <2>1. /\ builder'[b] = [B EXCEPT !.at = "signature", !.doc = NewIndex(b)] /\ B.at = "records"
        /\ live' = live /\ pub' = pub /\ dirty' = dirty
    BY <1>0, <1>5 DEF PutIndex
  <2> QED BY <1>0, <1>v, <2>1 DEF UpToDate, Agrees, Signed, Owned, OnlyKept, BuilderStates
<1>6. CASE PutSignature(b)
  <2>1. /\ builder'[b] = [B EXCEPT !.at = "list"] /\ B.at = "signature" /\ sig' = B.doc /\ index' = index
        /\ live' = live /\ pub' = pub /\ dirty' = dirty
    BY <1>0, <1>6 DEF PutSignature, Go
  <2>2. sig' = index'
    BY <1>0, <2>1 DEF IndexIsOf
  <2> QED BY <1>0, <1>v, <2>1, <2>2 DEF UpToDate, Agrees, Signed, Owned, OnlyKept, BuilderStates
<1>7. CASE ListStale(b)
  <2>1. /\ builder'[b] = [B EXCEPT !.at = "delete", !.todo = files \ Keep(b)] /\ B.at = "list"
        /\ UNCHANGED <<live, pub, dirty, files, sig, index>>
    BY <1>0, <1>7 DEF ListStale, storeVars
  <2>2. Keep(b)' = Keep(b)
    BY <1>0, <2>1, KeepSame DEF BuilderStates
  <2>3. OnlyKept(b)'
    BY <1>0, <2>1, <2>2 DEF OnlyKept, BuilderStates
  <2> QED BY <1>0, <1>v, <2>1, <2>3 DEF UpToDate, Agrees, Signed, Owned, BuilderStates
<1>8. ASSUME NEW path, Delete(b, path)
      PROVE  /\ FeedMatches' /\ WithdrawnIsGone' /\ Owned(live)'
             /\ UpToDate(builder[b])' /\ Signed(builder[b])' /\ Owned(builder[b].prev)' /\ OnlyKept(b)'
  <2>1. /\ builder'[b] = [B EXCEPT !.todo = @ \ {path}] /\ B.at = "delete" /\ files' = files \ {path}
        /\ UNCHANGED <<live, pub, dirty, sig, index>>
    BY <1>0, <1>8 DEF Delete
  <2>2. Keep(b)' = Keep(b)
    BY <1>0, <2>1, KeepSame DEF BuilderStates
  <2>3. OnlyKept(b)'
    BY <1>0, <2>1, <2>2 DEF OnlyKept, BuilderStates
  <2> QED BY <1>0, <1>v, <2>1, <2>3 DEF UpToDate, Agrees, Signed, Owned, BuilderStates
<1>9. CASE SaveLivePaths(b)
  <2>1. /\ builder'[b] = [B EXCEPT !.at = "summary"] /\ B.at = "delete" /\ B.todo = {} /\ live' = PathsById(b)
        /\ UNCHANGED <<pub, dirty, files, sig, index>>
    BY <1>0, <1>9 DEF SaveLivePaths, Go, storeVars
  <2>2. Keep(b)' = Keep(b)
    BY <1>0, <2>1, KeepSame DEF BuilderStates
  <2>3. OnlyKept(b)'
    BY <1>0, <2>1, <2>2 DEF OnlyKept, BuilderStates
  <2>4. Owned(live)'
    BY <2>1, GenerationOwned DEF Owned, OfPub
  <2> QED BY <1>0, <1>v, <2>1, <2>3, <2>4 DEF UpToDate, Agrees, Signed, Owned, BuilderStates
<1>10. CASE Finish(b)
  <2>1. /\ B.at = "summary" /\ builder'[b] = Resting
        /\ UNCHANGED <<pub, dirty, live, files, sig, index>>
    BY <1>0, <1>10 DEF Finish, storeVars
  <2>2. ASSUME ~dirty PROVE FeedMatches' /\ WithdrawnIsGone'
    <3>1. Agrees(B.pubs) /\ files \subseteq Keep(b) /\ sig = index
      BY <1>0, <2>1, <2>2 DEF UpToDate, OnlyKept, Signed
    <3>2. index.records = RecordsOf(B.pubs) /\ index.tombstones = Withdrawn(B.pubs)
      BY <1>0, <2>1 DEF IndexIsOf
    <3>3. RecordsOf(B.pubs) = {<<p, pub[p].version>> : p \in Published(pub)}
      BY <3>1 DEF Agrees, RecordsOf
    <3>4. FeedMatches'
      BY <2>1, <3>1, <3>2, <3>3 DEF FeedMatches, Agrees, Published, Withdrawn
    <3>5. \A p \in Withdrawn(pub) : GoneFor(p)
      BY <1>0, <3>1, SummaryGone
    <3>6. WithdrawnIsGone'
      BY <2>1, <3>5 DEF WithdrawnIsGone, GoneFor, Withdrawn
    <3> QED BY <3>4, <3>6
  <2>3. FeedMatches' /\ WithdrawnIsGone'
    BY <1>u, <2>1, <2>2 DEF Settled, Quiet
  <2> QED BY <1>0, <2>1, <2>3 DEF UpToDate, Signed, Owned, OnlyKept, OfPub, Resting, NoPaths
<1> QED BY <1>1, <1>2, <1>3, <1>4, <1>5, <1>6, <1>7, <1>8, <1>9, <1>10 DEF Build

\* After a build that ended badly nothing is claimed of the feed.
LEMMA TableEnd ==
  ASSUME OneBuilder, Typed, TableInv, NEW b \in Builders, Fail(b) \/ Crash(b)
  PROVE  TableInv'
<1>1. builder'[b] = Resting /\ live' = live /\ (error' \/ torn') /\ Owned(live)
  BY DEF Fail, Crash, Typed, TypeOK, TableInv
<1>2. FeedMatches' /\ WithdrawnIsGone'
  BY <1>1 DEF FeedMatches, WithdrawnIsGone, Settled
<1>3. /\ Owned(live)' /\ UpToDate(builder[b])' /\ Signed(builder[b])' /\ Owned(builder[b].prev)' /\ OnlyKept(b)'
  BY <1>1 DEF Owned, OfPub, UpToDate, Signed, OnlyKept, Resting, NoPaths
<1> QED BY <1>2, <1>3, TableInvOf

\* A change of the table marks the feed dirty, or takes a withdrawal back.
LEMMA TablePublish ==
  ASSUME Typed, TableInv, NEW p \in Pubs, Approve(p) \/ Withdraw(p) \/ Republish(p)
  PROVE  TableInv'
<1>0. /\ pub \in Rows /\ UNCHANGED <<error, live, files, index, sig, builder, torn>>
  BY DEF Typed, TypeOK, Approve, Withdraw, Republish, storeVars
<1>1. Owned(live)' /\ \A b \in Builders : Signed(builder[b])' /\ Owned(builder[b].prev)' /\ OnlyKept(b)'
  BY <1>0 DEF TableInv, Owned, OfPub, Signed, OnlyKept, Keep, PathsById
<1>2. CASE dirty'
  <2>1. FeedMatches' /\ WithdrawnIsGone' /\ \A b \in Builders : UpToDate(builder[b])'
    BY <1>2 DEF FeedMatches, WithdrawnIsGone, Settled, Quiet, UpToDate
  <2> QED BY <1>1, <2>1 DEF TableInv
<1>3. CASE Republish(p)
  <2>1. /\ dirty' = dirty /\ pub[p].state = "withdrawn" /\ pub'[p].state = "draft"
        /\ \A q \in Pubs : pub'[q].version = pub[q].version
        /\ \A q \in Pubs \ {p} : pub'[q].state = pub[q].state
    BY <1>0, <1>3 DEF Republish, Rows
  <2>2. Published(pub)' = Published(pub) /\ Withdrawn(pub') \subseteq Withdrawn(pub)
    BY <2>1 DEF Published, Withdrawn
  <2>3. \A rows : Agrees(rows) => Agrees(rows)'
    <3> SUFFICES ASSUME NEW rows, Agrees(rows)
                 PROVE  /\ Published(rows) = Published(pub')
                        /\ \A q \in Published(pub') : rows[q].version = pub'[q].version
                        /\ Withdrawn(pub') \subseteq Withdrawn(rows)
      BY DEF Agrees
    <3>1. Published(rows) = Published(pub') /\ Withdrawn(pub') \subseteq Withdrawn(rows)
      BY <2>2 DEF Agrees
    <3>2. \A q \in Published(pub) : q \in Pubs
      BY DEF Published
    <3> QED BY <2>1, <2>2, <3>1, <3>2 DEF Agrees
  <2>4. Settled' => Settled
    BY <1>0, <2>1 DEF Settled, Quiet
  <2>5. FeedMatches'
    <3>1. {<<q, pub'[q].version>> : q \in Published(pub')} = {<<q, pub[q].version>> : q \in Published(pub)}
      BY <2>1, <2>2 DEF Published
    <3> QED BY <1>0, <2>2, <2>4, <3>1 DEF TableInv, FeedMatches
  <2>6. WithdrawnIsGone'
    BY <1>0, <2>1, <2>2, <2>4 DEF TableInv, WithdrawnIsGone, GoneFor
  <2>7. \A b \in Builders : UpToDate(builder[b])'
    BY <1>0, <2>1, <2>3 DEF TableInv, UpToDate
  <2> QED BY <1>1, <2>5, <2>6, <2>7 DEF TableInv
<1> QED BY <1>2, <1>3 DEF Approve, Withdraw

\* Nothing else touches what the feed is built from.
LEMMA TableSame ==
  ASSUME TableInv, UNCHANGED <<pub, error, live, files, index, sig, builder, torn>>, dirty' \/ dirty' = dirty
  PROVE  TableInv'
<1>1. Settled' => Settled
  BY DEF Settled, Quiet
<1>2. FeedMatches' /\ WithdrawnIsGone'
  BY <1>1 DEF TableInv, FeedMatches, WithdrawnIsGone, GoneFor, Published, Withdrawn
<1>3. \A b \in Builders : UpToDate(builder[b])'
  BY DEF TableInv, UpToDate, Agrees, Published, Withdrawn
<1>4. Owned(live)' /\ \A b \in Builders : Signed(builder[b])' /\ Owned(builder[b].prev)'
  BY DEF TableInv, Signed, Owned, OfPub
<1>5. \A b \in Builders : Keep(b)' = Keep(b)
  BY KeepSame
<1>6. \A b \in Builders : OnlyKept(b)'
  BY <1>5 DEF TableInv, OnlyKept
<1> QED BY <1>2, <1>3, <1>4, <1>6 DEF TableInv

LEMMA TableStep == OneBuilder /\ Typed /\ StoreInv /\ TableInv /\ [Next]_vars => TableInv'
<1> SUFFICES ASSUME OneBuilder, Typed, StoreInv, TableInv, [Next]_vars PROVE TableInv'
  OBVIOUS
<1>1. CASE UNCHANGED vars
  BY <1>1, TableSame DEF vars, storeVars
<1>2. CASE Rebuild
  BY <1>2, TableSame DEF Rebuild, storeVars
<1>3. ASSUME NEW r \in Readers, Load(r) \/ GiveUp(r) PROVE TableInv'
  BY <1>3, TableSame DEF Load, ReadIndex, ReadSignature, Verify, FetchRecord, Refreshed, GiveUp, storeVars
<1> QED BY <1>1, <1>2, <1>3, TablePublish, TableBuild, TableEnd DEF Next, Publish

LEMMA TableInit == Init => TableInv
<1> SUFFICES ASSUME Init PROVE TableInv
  OBVIOUS
<1>1. Published(pub) = {} /\ Withdrawn(pub) = {}
  BY DEF Init, NoRows, Published, Withdrawn
<1> QED BY <1>1 DEF Init, TableInv, FeedMatches, WithdrawnIsGone, UpToDate, Signed, Owned, OfPub, OnlyKept,
                    NoIndex, NoPaths, Resting

\* When nothing is left to build, the feed is the table: the records of what is published, a tombstone for each
\* withdrawal, and a signature of that index.
THEOREM FeedShowsTable == ASSUME OneBuilder PROVE Spec => []FeedMatches
<1>1. Typed /\ StoreInv /\ TableInv /\ [Next]_vars => (Typed /\ StoreInv /\ TableInv)'
  BY TypedStep, StoreStep, TableStep
<1>2. Typed /\ StoreInv /\ TableInv => FeedMatches
  BY DEF TableInv
<1> QED BY <1>1, <1>2, TypedInit, StoreInit, TableInit, PTL DEF Spec

\* Once a withdrawal is built, no version of the record is in the store, and none of its files but those that
\* something else uses.
THEOREM FeedForgets == ASSUME OneBuilder PROVE Spec => []WithdrawnIsGone
<1>1. Typed /\ StoreInv /\ TableInv /\ [Next]_vars => (Typed /\ StoreInv /\ TableInv)'
  BY TypedStep, StoreStep, TableStep
<1>2. Typed /\ StoreInv /\ TableInv => WithdrawnIsGone
  BY DEF TableInv
<1> QED BY <1>1, <1>2, TypedInit, StoreInit, TableInit, PTL DEF Spec

\* Every build that is begun ends.
BuildsEnd == MaxFailures = 0 /\ MaxCrashes = 0

Writing(x) == x.at \in {"signature", "list", "delete", "summary"}

\* The last index that was written, unless its build is still under way, is the one whose paths were saved.
SavedPaths ==
  /\ (\A b \in Builders : ~Writing(builder[b])) => \A rec \in index.records : rec \in live[rec[1]]
  /\ \A b \in Builders : /\ builder[b].at = "records" => builder[b].prev = live
                         /\ builder[b].at = "summary" => live = PathsById(b)

\* What a site has read is the last index, or the one before it, whose records are kept as long as the last build
\* is under way.
Behind(r) ==
  \A rec \in reader[r].index.records :
    /\ rec \in files \/ rec[1] \in index.tombstones
    /\ \A b \in Builders : builder[b].at \in {"signature", "list", "delete"} => rec \in builder[b].prev[rec[1]]

ReadersInv ==
  \A r \in Readers :
    /\ reader[r].at = "fetch" => reader[r].todo \subseteq reader[r].index.records
    /\ reader[r].index # NoIndex /\ reader[r].age = 0 => reader[r].index = index
    /\ reader[r].index # NoIndex /\ reader[r].age = 1 => Behind(r)

\* With no failure and no crash to come, none happens.
LEMMA NoEnd ==
  ASSUME BuildsEnd, Typed, NEW b \in Builders
  PROVE  ~Fail(b) /\ ~Crash(b)
<1>1. spent["failure"] \in Nat /\ spent["crash"] \in Nat
  BY DEF Typed, TypeOK, Events
<1>2. Bound("failure") = 0 /\ Bound("crash") = 0
  BY DEF Bound, BuildsEnd
<1> QED BY <1>1, <1>2 DEF Fail, Crash, Spend

\* The records of an index are among its paths.
LEMMA IndexedRecord ==
  ASSUME Typed, IndexComplete, NEW rec \in index.records
  PROVE  rec \in files /\ rec[1] \in Pubs
<1>1. rec \in Records
  BY DEF Typed, TypeOK, Indexes
<1>2. rec = <<rec[1], rec[2]>> /\ rec[1] \in Pubs
  BY <1>1 DEF Records
<1> QED BY <1>2 DEF IndexComplete, PathsOf

LEMMA SavedPathsBuild ==
  ASSUME OneBuilder, Typed, StoreInv, SavedPaths, NEW b \in Builders, Build(b)
  PROVE  SavedPaths'
<1> DEFINE B == builder[b]
<1>0. /\ builder \in [Builders -> BuilderStates] /\ B \in BuilderStates /\ IndexIsOf(B)
      /\ ~Writing(B) => \A rec \in index.records : rec \in live[rec[1]]
      /\ B.at = "records" => B.prev = live
      /\ B.at = "summary" => live = PathsById(b)
      /\ \A c \in Builders : c = b
  BY DEF Typed, TypeOK, StoreInv, SavedPaths, OneBuilder
<1>s. SUFFICES /\ ~Writing(builder'[b]) => \A rec \in index'.records : rec \in live'[rec[1]]
               /\ builder'[b].at = "records" => builder'[b].prev = live'
               /\ builder'[b].at = "summary" => live' = PathsById(b)'
  BY <1>0 DEF SavedPaths, Writing
<1>1. CASE Take(b) \/ SelectPublications(b) \/ SelectLivePaths(b)
  <2>1. index' = index /\ live' = live /\ B.at \in {"idle", "publications", "live_paths"}
    BY <1>1 DEF Take, SelectPublications, SelectLivePaths, Go, storeVars
  <2>2. \/ builder'[b].at \in {"publications", "live_paths"}
        \/ builder'[b].at = "records" /\ builder'[b].prev = live
    BY <1>0, <1>1 DEF Take, SelectPublications, SelectLivePaths, Go, BuilderStates
  <2> QED BY <1>0, <2>1, <2>2 DEF Writing
<1>2. ASSUME NEW p \in Pubs, PutRecord(b, p)
      PROVE  /\ ~Writing(builder'[b]) => \A rec \in index'.records : rec \in live'[rec[1]]
             /\ builder'[b].at = "records" => builder'[b].prev = live'
             /\ builder'[b].at = "summary" => live' = PathsById(b)'
  BY <1>0, <1>2 DEF PutRecord, Writing, BuilderStates
<1>3. CASE PutIndex(b) \/ PutSignature(b) \/ ListStale(b) \/ \E path \in B.todo : Delete(b, path)
  <2>1. builder'[b].at \in {"signature", "list", "delete"}
    BY <1>0, <1>3 DEF PutIndex, PutSignature, ListStale, Delete, Go, BuilderStates
  <2> QED BY <2>1 DEF Writing
<1>4. CASE SaveLivePaths(b)
  <2>1. builder'[b] = [B EXCEPT !.at = "summary"] /\ live' = PathsById(b)
    BY <1>0, <1>4 DEF SaveLivePaths, Go
  <2>2. PathsById(b)' = PathsById(b)
    BY <1>0, <2>1, KeepSame DEF BuilderStates
  <2> QED BY <1>0, <2>1, <2>2 DEF Writing, BuilderStates
<1>5. CASE Finish(b)
  <2>1. /\ B.at = "summary" /\ builder'[b] = Resting /\ live' = live /\ index' = index
    BY <1>0, <1>5 DEF Finish, storeVars
  <2>2. index.records = RecordsOf(B.pubs) /\ live = PathsById(b)
    BY <1>0, <2>1 DEF IndexIsOf
  <2>3. ASSUME NEW rec \in RecordsOf(B.pubs) PROVE rec \in PathsById(b)[rec[1]]
    <3>1. rec[1] \in Published(B.pubs) /\ rec = <<rec[1], B.pubs[rec[1]].version>>
      BY <2>3, RecordsOfPaths
    <3> QED BY <3>1 DEF PathsById, PathsOf, Published
  <2> QED BY <2>1, <2>2, <2>3 DEF Resting
<1> QED BY <1>1, <1>2, <1>3, <1>4, <1>5 DEF Build

\* What a site still needs survives every step of a build but the next index, which makes the site's index older
\* still.
LEMMA ReadersBuild ==
  ASSUME OneBuilder, Typed, StoreInv, SavedPaths, ReadersInv, NEW b \in Builders, Build(b)
  PROVE  ReadersInv'
<1> DEFINE B == builder[b]
<1>0. /\ builder \in [Builders -> BuilderStates] /\ B \in BuilderStates /\ IndexIsOf(B) /\ SparesKept(b)
      /\ reader \in [Readers -> ReaderStates] /\ IndexComplete
      /\ \A c \in Builders : c = b
  BY DEF Typed, TypeOK, StoreInv, OneBuilder
<1>r. ASSUME NEW r \in Readers, NEW rec \in reader[r].index.records PROVE rec[1] \in Pubs
  BY <1>0, <1>r DEF ReaderStates, Indexes, Records
<1>1. ASSUME reader' = reader, index' = index, files \subseteq files',
             builder'[b].at \in {"signature", "list", "delete"} =>
               B.at \in {"signature", "list", "delete"} /\ builder'[b].prev = B.prev
      PROVE  ReadersInv'
  <2>1. ASSUME NEW r \in Readers, Behind(r) PROVE Behind(r)'
    BY <1>0, <1>1, <2>1 DEF Behind
  <2> QED BY <1>1, <2>1 DEF ReadersInv
<1>2. CASE Take(b) \/ SelectPublications(b) \/ SelectLivePaths(b) \/ PutSignature(b) \/ ListStale(b)
             \/ SaveLivePaths(b) \/ Finish(b)
  <2>1. reader' = reader /\ index' = index /\ files' = files
    BY <1>2 DEF Take, SelectPublications, SelectLivePaths, PutSignature, ListStale, SaveLivePaths, Finish, Go, storeVars
  <2>2. builder'[b].at \in {"signature", "list", "delete"} =>
          B.at \in {"signature", "list", "delete"} /\ builder'[b].prev = B.prev
    BY <1>0, <1>2 DEF Take, SelectPublications, SelectLivePaths, PutSignature, ListStale, SaveLivePaths, Finish, Go,
                      BuilderStates, Resting
  <2> QED BY <1>1, <2>1, <2>2
<1>3. ASSUME NEW p \in Pubs, PutRecord(b, p) PROVE ReadersInv'
  <2>1. builder'[b].at = "records" /\ reader' = reader /\ index' = index /\ files \subseteq files'
    BY <1>0, <1>3 DEF PutRecord, BuilderStates
  <2> QED BY <1>1, <2>1
<1>4. CASE PutIndex(b)
  <2>1. /\ B.at = "records" /\ builder'[b].prev = B.prev /\ files' = files
        /\ \A r \in Readers : reader'[r] = IF reader[r].index = NoIndex \/ reader[r].age = 2 THEN reader[r]
                                           ELSE [reader[r] EXCEPT !.age = @ + 1]
    BY <1>0, <1>4 DEF PutIndex, BuilderStates
  <2>2. \A rec \in index.records : rec \in B.prev[rec[1]]
    BY <1>0, <2>1 DEF SavedPaths, Writing
  <2>3. ASSUME NEW r \in Readers
        PROVE  /\ reader'[r].at = "fetch" => reader'[r].todo \subseteq reader'[r].index.records
               /\ reader'[r].index # NoIndex => reader'[r].age # 0
               /\ reader'[r].index # NoIndex /\ reader'[r].age = 1 => reader[r].age = 0 /\ reader'[r].index = index
    <3>1. CASE reader[r].index = NoIndex \/ reader[r].age = 2
      <4>1. reader'[r] = reader[r]
        BY <2>1, <3>1
      <4> QED BY <3>1, <4>1 DEF ReadersInv
    <3>2. CASE reader[r].index # NoIndex /\ reader[r].age # 2
      <4>1. reader'[r] = [reader[r] EXCEPT !.age = @ + 1] /\ reader[r] \in ReaderStates
        BY <1>0, <2>1, <3>2
      <4>2. /\ reader'[r].at = reader[r].at /\ reader'[r].todo = reader[r].todo
            /\ reader'[r].index = reader[r].index /\ reader'[r].age = reader[r].age + 1 /\ reader[r].age \in 0 .. 2
        BY <4>1 DEF ReaderStates
      <4> QED BY <3>2, <4>2 DEF ReadersInv
    <3> QED BY <3>1, <3>2
  <2>4. ASSUME NEW r \in Readers, reader'[r].index = index PROVE Behind(r)'
    BY <1>0, <2>1, <2>2, <2>4, IndexedRecord DEF Behind
  <2> QED BY <2>3, <2>4 DEF ReadersInv
<1>5. ASSUME NEW path, Delete(b, path) PROVE ReadersInv'
  <2>1. /\ B.at = "delete" /\ path \in B.todo /\ files' = files \ {path}
        /\ builder'[b] = [B EXCEPT !.todo = @ \ {path}] /\ index' = index /\ reader' = reader
    BY <1>0, <1>5 DEF Delete
  <2>2. path \notin Keep(b) /\ index.tombstones = Withdrawn(B.pubs)
    BY <1>0, <2>1 DEF SparesKept, IndexIsOf
  <2>3. ASSUME NEW r \in Readers, Behind(r), NEW rec \in reader[r].index.records
        PROVE  /\ rec \in files' \/ rec[1] \in index'.tombstones
               /\ rec \in builder'[b].prev[rec[1]]
    <3>1. rec \in B.prev[rec[1]] /\ rec[1] \in Pubs
      BY <1>r, <2>1, <2>3 DEF Behind
    <3>2. rec = path => rec[1] \in Withdrawn(B.pubs)
      BY <2>2, <3>1 DEF Keep
    <3>3. rec \in files \/ rec[1] \in index.tombstones
      BY <2>3 DEF Behind
    <3>4. builder'[b].prev = B.prev
      BY <1>0, <2>1 DEF BuilderStates
    <3> QED BY <2>1, <2>2, <3>1, <3>2, <3>3, <3>4
  <2>4. ASSUME NEW r \in Readers, Behind(r) PROVE Behind(r)'
    BY <1>0, <2>1, <2>3, <2>4 DEF Behind
  <2> QED BY <2>1, <2>4 DEF ReadersInv
<1> QED BY <1>2, <1>3, <1>4, <1>5 DEF Build

\* A site reads the last index, and fetches what it names.
LEMMA ReadersLoad ==
  ASSUME Typed, ReadersInv, NEW r \in Readers, Load(r) \/ GiveUp(r)
  PROVE  ReadersInv'
<1>0. reader \in [Readers -> ReaderStates] /\ reader[r] \in ReaderStates
  BY DEF Typed, TypeOK
<1>1. UNCHANGED <<files, index, builder>>
  BY DEF Load, ReadIndex, ReadSignature, Verify, FetchRecord, Refreshed, GiveUp, storeVars
<1>2. \A s \in Readers \ {r} : reader'[s] = reader[s]
  BY <1>0 DEF Load, ReadIndex, ReadSignature, Verify, FetchRecord, Refreshed, GiveUp
<1>3. \/ reader'[r] = Away
      \/ /\ reader'[r].at # "fetch" /\ reader'[r].index = index /\ reader'[r].age = 0
      \/ /\ reader'[r].at = "fetch" => reader'[r].todo \subseteq reader'[r].index.records
         /\ reader'[r].index = reader[r].index /\ reader'[r].age = reader[r].age
  <2>1. CASE ReadIndex(r)
    BY <1>0, <2>1 DEF ReadIndex, ReaderStates
  <2>2. CASE ReadSignature(r)
    BY <1>0, <2>2 DEF ReadSignature, ReaderStates
  <2>3. CASE Verify(r)
    BY <1>0, <2>3 DEF Verify, ReaderStates
  <2>4. ASSUME NEW rec, FetchRecord(r, rec), rec \in files
        PROVE  /\ reader'[r].todo \subseteq reader'[r].index.records
               /\ reader'[r].index = reader[r].index /\ reader'[r].age = reader[r].age
    BY <1>0, <2>4 DEF FetchRecord, ReaderStates, ReadersInv
  <2>5. ASSUME NEW rec, FetchRecord(r, rec), rec \notin files PROVE reader'[r] = Away
    BY <1>0, <2>5 DEF FetchRecord
  <2>6. CASE Refreshed(r) \/ GiveUp(r)
    BY <1>0, <2>6 DEF Refreshed, GiveUp
  <2> QED BY <2>1, <2>2, <2>3, <2>4, <2>5, <2>6 DEF Load
<1>4. \A s \in Readers : Behind(s) /\ reader'[s].index = reader[s].index => Behind(s)'
  BY <1>1 DEF Behind
<1>5. ASSUME NEW s \in Readers
      PROVE  /\ reader'[s].at = "fetch" => reader'[s].todo \subseteq reader'[s].index.records
             /\ reader'[s].index # NoIndex /\ reader'[s].age = 0 => reader'[s].index = index'
             /\ reader'[s].index # NoIndex /\ reader'[s].age = 1 => Behind(s)'
  <2>1. CASE s # r
    BY <1>1, <1>2, <1>4, <2>1 DEF ReadersInv
  <2>2. CASE s = r
    BY <1>1, <1>3, <1>4, <2>2 DEF ReadersInv, Away
  <2> QED BY <2>1, <2>2
<1> QED BY <1>5 DEF ReadersInv

\* Nothing else touches the sites, the store or a build.
LEMMA ReadersSame ==
  ASSUME SavedPaths, ReadersInv, UNCHANGED <<live, files, index, builder, reader>>
  PROVE  SavedPaths' /\ ReadersInv'
<1>1. \A b \in Builders : PathsById(b)' = PathsById(b)
  BY KeepSame
<1>2. SavedPaths'
  BY <1>1 DEF SavedPaths, Writing
<1>3. ReadersInv'
  BY DEF ReadersInv, Behind
<1> QED BY <1>2, <1>3

LEMMA ReadersStep ==
  OneBuilder /\ BuildsEnd /\ Typed /\ StoreInv /\ SavedPaths /\ ReadersInv /\ [Next]_vars => SavedPaths' /\ ReadersInv'
<1> SUFFICES ASSUME OneBuilder, BuildsEnd, Typed, StoreInv, SavedPaths, ReadersInv, [Next]_vars
             PROVE  SavedPaths' /\ ReadersInv'
  OBVIOUS
<1>1. CASE UNCHANGED vars
  BY <1>1, ReadersSame DEF vars, storeVars
<1>2. CASE Publish \/ Rebuild
  BY <1>2, ReadersSame DEF Publish, Approve, Withdraw, Republish, Rebuild, storeVars
<1>3. ASSUME NEW r \in Readers, Load(r) \/ GiveUp(r) PROVE SavedPaths' /\ ReadersInv'
  <2>1. UNCHANGED <<live, index, builder>>
    BY <1>3 DEF Load, ReadIndex, ReadSignature, Verify, FetchRecord, Refreshed, GiveUp, storeVars
  <2>2. \A b \in Builders : PathsById(b)' = PathsById(b)
    BY <2>1, KeepSame
  <2>3. SavedPaths'
    BY <2>1, <2>2 DEF SavedPaths, Writing
  <2> QED BY <1>3, <2>3, ReadersLoad
<1> QED BY <1>1, <1>2, <1>3, SavedPathsBuild, ReadersBuild, NoEnd DEF Next

LEMMA ReadersInit == Init => SavedPaths /\ ReadersInv
<1> SUFFICES ASSUME Init PROVE SavedPaths /\ ReadersInv
  OBVIOUS
<1>1. /\ \A b \in Builders : builder[b] = Resting
      /\ \A r \in Readers : reader[r].at = "idle" /\ reader[r].index = NoIndex
  BY DEF Init, Away
<1>2. SavedPaths
  BY <1>1 DEF Init, SavedPaths, NoIndex, Resting
<1> QED BY <1>1, <1>2 DEF ReadersInv

\* What a site has read of an index, the last or the one before, it can fetch.
LEMMA SitesCanFetch ==
  ASSUME Typed, StoreInv, ReadersInv
  PROVE  ReaderFinishes
<1> SUFFICES ASSUME NEW r \in Readers, reader[r].at = "fetch", reader[r].age <= 1, NEW rec \in reader[r].todo
             PROVE  rec \in files \/ rec[1] \in index.tombstones
  BY DEF ReaderFinishes
<1>1. rec \in reader[r].index.records /\ reader[r].age \in 0 .. 2
  BY DEF ReadersInv, Typed, TypeOK, ReaderStates
<1>2. reader[r].index # NoIndex
  BY <1>1 DEF NoIndex
<1>3. CASE reader[r].age = 0
  BY <1>1, <1>2, <1>3, IndexedRecord DEF ReadersInv, StoreInv
<1>4. CASE reader[r].age = 1
  BY <1>1, <1>2, <1>4 DEF ReadersInv, Behind
<1> QED BY <1>1, <1>3, <1>4

\* A site that read the index before the last can still fetch what it names and is not withdrawn, as long as each
\* build that was begun ends: a build that fails after its index was written leaves the paths of the generation
\* before it to be kept.
THEOREM FeedReadersFinish == ASSUME OneBuilder, BuildsEnd PROVE Spec => []ReaderFinishes
<1>1. Typed /\ StoreInv /\ SavedPaths /\ ReadersInv /\ [Next]_vars => (Typed /\ StoreInv /\ SavedPaths /\ ReadersInv)'
  BY TypedStep, StoreStep, ReadersStep
<1>2. Typed /\ StoreInv /\ SavedPaths /\ ReadersInv => ReaderFinishes
  BY SitesCanFetch
<1> QED BY <1>1, <1>2, TypedInit, StoreInit, ReadersInit, PTL DEF Spec
=============================================================================

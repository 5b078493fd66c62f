-------------------------------- MODULE Feed --------------------------------
(***************************************************************************)
(* The publication feed: approvals and withdrawals change the table        *)
(* capture.publications and mark the feed dirty (publish.py); the worker   *)
(* processes rebuild the static, signed tree from the table (feed.py); the *)
(* public sites read the tree and keep the last copy they verified         *)
(* (backend/lib/hub-client.js, backend/hub.js).                            *)
(*                                                                         *)
(* A record's path is content-addressed: it is the publication and the     *)
(* version.  A media path is the hash of the cleaned file, which two       *)
(* publications may share.  keys.json does not change between restarts     *)
(* and is left out; a signature is the index it signs.  Records and files  *)
(* have directories of their own.                                          *)
(***************************************************************************)
EXTENDS Naturals, FiniteSets

CONSTANTS
  Pubs,        \* publications
  Media,       \* paths of cleaned files
  MediaOf,     \* MediaOf[p]: the files of publication p
  Builders,    \* worker processes, each with one _feed_loop
  Readers,     \* public sites
  MaxVersion,  \* bound: approvals of one publication
  MaxRepublish,\* bound: withdrawn publications taken back to draft
  MaxRebuilds, \* bound: rebuilds asked for in Admin
  MaxFailures, \* bound: builds ended by an exception (store, database, disk)
  MaxCrashes,  \* bound: builds ended by the death of their process
  MaxTimeouts  \* bound: loads of a site that time out

ASSUME FeedAssumption ==
  /\ MediaOf \in [Pubs -> SUBSET Media]
  /\ Media \cap (Pubs \X (1 .. MaxVersion)) = {}
  /\ {MaxVersion, MaxRepublish, MaxRebuilds, MaxFailures, MaxCrashes, MaxTimeouts} \subseteq Nat

VARIABLES
  pub,      \* capture.publications: state and version
  dirty,    \* feed_state.dirty
  error,    \* feed_state.error is set
  live,     \* feed_state.live_paths: what each published record of the last build uses
  files,    \* records/ and files/ of the feed store
  index,    \* index.json
  sig,      \* index.json.sig: the index it signs
  builder,  \* where each _feed_loop is, and what it has read
  reader,   \* where each site is in feedReader.load
  copy,     \* the last index each site verified and fetched in full (cache, state)
  torn,     \* history: a build died and none was finished since
  built,    \* number of index.json written so far: generated_at
  spent     \* how often each bounded event has happened

storeVars == <<files, index, sig>>
vars == <<pub, dirty, error, live, storeVars, builder, reader, copy, torn, built, spent>>

Records == Pubs \X (1 .. MaxVersion)
Paths == Records \cup Media
PathsOf(p, v) == {<<p, v>>} \cup MediaOf[p]

Events == {"republish", "rebuild", "failure", "crash", "timeout"}
Bound(e) == CASE e = "republish" -> MaxRepublish [] e = "rebuild" -> MaxRebuilds
              [] e = "failure" -> MaxFailures [] e = "crash" -> MaxCrashes
              [] e = "timeout" -> MaxTimeouts
Spend(e) == spent[e] < Bound(e) /\ spent' = [spent EXCEPT ![e] = @ + 1]

NoIndex == [records |-> {}, tombstones |-> {}, generated |-> 0]

NoRows == [p \in Pubs |-> [state |-> "draft", version |-> 0]]
NoPaths == [p \in Pubs |-> {}]
Resting == [at |-> "idle", pubs |-> NoRows, prev |-> NoPaths, todo |-> {}, doc |-> NoIndex]
Away == [at |-> "idle", index |-> NoIndex, sig |-> NoIndex, todo |-> {}, age |-> 0]

Init ==
  /\ pub = NoRows
  /\ dirty = FALSE /\ error = FALSE
  /\ live = NoPaths
  /\ files = {} /\ index = NoIndex /\ sig = NoIndex
  /\ builder = [b \in Builders |-> Resting]
  /\ reader = [r \in Readers |-> Away]
  /\ copy = [r \in Readers |-> NoIndex]
  /\ torn = FALSE
  /\ built = 0
  /\ spent = [e \in Events |-> 0]

-----------------------------------------------------------------------------
(* Publications *)

\* _publish_now, from approve or approve_batch: of a draft, of changes to what is published, or straight from
\* a withdrawal.
Approve(p) ==
  /\ pub[p].version < MaxVersion
  /\ pub' = [pub EXCEPT ![p] = [state |-> "published", version |-> @.version + 1]]
  /\ dirty' = TRUE
  /\ UNCHANGED <<error, live, storeVars, builder, reader, copy, torn, built, spent>>

\* Mutant: the feed is not marked dirty.
WithdrawQuietly(p) ==
  /\ pub[p].state = "published"
  /\ pub' = [pub EXCEPT ![p].state = "withdrawn"]
  /\ UNCHANGED <<dirty, error, live, storeVars, builder, reader, copy, torn, built, spent>>

\* withdraw: the feed is built again, without the record.
Withdraw(p) ==
  /\ pub[p].state = "published"
  /\ pub' = [pub EXCEPT ![p].state = "withdrawn"]
  /\ dirty' = TRUE
  /\ UNCHANGED <<error, live, storeVars, builder, reader, copy, torn, built, spent>>

\* Back to draft after a withdrawal. The feed is not marked dirty.
Republish(p) ==
  /\ pub[p].state = "withdrawn"
  /\ Spend("republish")
  /\ pub' = [pub EXCEPT ![p].state = "draft"]
  /\ UNCHANGED <<dirty, error, live, storeVars, builder, reader, copy, torn, built>>

\* POST /v1/feed/rebuild
Rebuild ==
  /\ Spend("rebuild")
  /\ dirty' = TRUE
  /\ UNCHANGED <<pub, error, live, storeVars, builder, reader, copy, torn, built>>

-----------------------------------------------------------------------------
(* run_if_dirty and build *)

Go(b, here, there) ==
  /\ builder[b].at = here
  /\ builder' = [builder EXCEPT ![b].at = there]

Published(rows) == {p \in Pubs : rows[p].state = "published"}
Withdrawn(rows) == {p \in Pubs : rows[p].state = "withdrawn"}

\* The dirty flag is cleared before anything is read, so a change made during the build is built again.
Take(b) ==
  /\ dirty
  /\ Go(b, "idle", "publications")
  /\ dirty' = FALSE
  /\ UNCHANGED <<pub, error, live, storeVars, reader, copy, torn, built, spent>>

SelectPublications(b) ==
  /\ builder[b].at = "publications"
  /\ builder' = [builder EXCEPT ![b].at = "live_paths", ![b].pubs = pub]
  /\ UNCHANGED <<pub, dirty, error, live, storeVars, reader, copy, torn, built, spent>>

SelectLivePaths(b) ==
  /\ builder[b].at = "live_paths"
  /\ builder' = [builder EXCEPT ![b].at = "records", ![b].prev = live, ![b].todo = Published(builder[b].pubs)]
  /\ UNCHANGED <<pub, dirty, error, live, storeVars, reader, copy, torn, built, spent>>

\* A publication's cleaned files, then its record.
PutRecord(b, p) ==
  /\ builder[b].at = "records" /\ p \in builder[b].todo
  /\ files' = files \cup PathsOf(p, builder[b].pubs[p].version)
  /\ builder' = [builder EXCEPT ![b].todo = @ \ {p}]
  /\ UNCHANGED <<pub, dirty, error, live, index, sig, reader, copy, torn, built, spent>>

\* One record for what is published, a tombstone for what is withdrawn.
NewIndex(b) ==
  [records |-> {<<p, builder[b].pubs[p].version>> : p \in Published(builder[b].pubs)},
   tombstones |-> Withdrawn(builder[b].pubs),
   generated |-> built + 1]

\* Mutant: the index does not wait for the records.
AnyPut(b) == TRUE

\* The loop over the publications is through.
AllPut(b) == builder[b].todo = {}

\* The sites on the way have an older index from now on.
PutIndex(b) ==
  /\ builder[b].at = "records" /\ AllPut(b)
  /\ index' = NewIndex(b)
  /\ built' = built + 1
  /\ builder' = [builder EXCEPT ![b].at = "signature", ![b].doc = NewIndex(b)]
  /\ reader' = [r \in Readers |-> 
       IF reader[r].index = NoIndex \/ reader[r].age = 2 THEN reader[r] ELSE [reader[r] EXCEPT !.age = @ + 1]]
  /\ UNCHANGED <<pub, dirty, error, live, files, sig, copy, torn, spent>>

PutSignature(b) ==
  /\ sig' = builder[b].doc
  /\ Go(b, "signature", "list")
  /\ UNCHANGED <<pub, dirty, error, live, files, index, reader, copy, torn, built, spent>>

\* paths_by_id
PathsById(b) ==
  [p \in Pubs |-> IF p \in Published(builder[b].pubs) THEN PathsOf(p, builder[b].pubs[p].version) ELSE {}]

\* Mutants: the last generation is not kept, or is kept for withdrawn records too.
KeepNew(b) == UNION {PathsById(b)[p] : p \in Pubs}
KeepPrevious(b) == UNION {PathsById(b)[p] \cup builder[b].prev[p] : p \in Pubs}

\* What this build uses, and what the last one used for records that are not withdrawn.
Keep(b) == (UNION {PathsById(b)[p] : p \in Pubs})
             \cup (UNION {builder[b].prev[p] : p \in Pubs \ Withdrawn(builder[b].pubs)})

ListStale(b) ==
  /\ builder[b].at = "list"
  /\ builder' = [builder EXCEPT ![b].at = "delete", ![b].todo = files \ Keep(b)]
  /\ UNCHANGED <<pub, dirty, error, live, storeVars, reader, copy, torn, built, spent>>

Delete(b, path) ==
  /\ builder[b].at = "delete" /\ path \in builder[b].todo
  /\ files' = files \ {path}
  /\ builder' = [builder EXCEPT ![b].todo = @ \ {path}]
  /\ UNCHANGED <<pub, dirty, error, live, index, sig, reader, copy, torn, built, spent>>

SaveLivePaths(b) ==
  /\ builder[b].at = "delete" /\ builder[b].todo = {}
  /\ Go(b, "delete", "summary")
  /\ live' = PathsById(b)
  /\ UNCHANGED <<pub, dirty, error, storeVars, reader, copy, torn, built, spent>>

\* Mutant: the dirty flag is cleared when the build is done.
FinishClearing(b) ==
  /\ builder[b].at = "summary"
  /\ builder' = [builder EXCEPT ![b] = Resting]
  /\ torn' = FALSE
  /\ error' = FALSE /\ dirty' = FALSE
  /\ UNCHANGED <<pub, live, storeVars, reader, copy, built, spent>>

\* built_at, index_sha256 and no error
Finish(b) ==
  /\ builder[b].at = "summary"
  /\ builder' = [builder EXCEPT ![b] = Resting]
  /\ torn' = FALSE
  /\ error' = FALSE
  /\ UNCHANGED <<pub, dirty, live, storeVars, reader, copy, built, spent>>

\* An exception in build: the error is saved and the flag stays cleared.
Fail(b) ==
  /\ builder[b].at \notin {"idle", "summary"}
  /\ Spend("failure")
  /\ builder' = [builder EXCEPT ![b] = Resting]
  /\ error' = TRUE
  /\ UNCHANGED <<pub, dirty, live, storeVars, reader, copy, torn, built>>

\* The worker process dies in the middle of a build, or the UPDATE that ends it fails.
Crash(b) ==
  /\ builder[b].at # "idle"
  /\ Spend("crash")
  /\ builder' = [builder EXCEPT ![b] = Resting]
  /\ torn' = TRUE
  /\ UNCHANGED <<pub, dirty, error, live, storeVars, reader, copy, built>>

-----------------------------------------------------------------------------
(* A public site: feedReader.load and refreshFeed *)

\* index.json and its signature are fetched in parallel. The age counts the indexes written since.
ReadIndex(r) ==
  /\ reader[r].at \in {"idle", "have_sig"}
  /\ index # NoIndex
  /\ reader' = [reader EXCEPT ![r].at = IF @ = "idle" THEN "have_index" ELSE "verify",
                              ![r].index = index, ![r].age = 0]
  /\ UNCHANGED <<pub, dirty, error, live, storeVars, builder, copy, torn, built, spent>>

ReadSignature(r) ==
  /\ reader[r].at \in {"idle", "have_index"}
  /\ sig # NoIndex
  /\ reader' = [reader EXCEPT ![r].at = IF @ = "idle" THEN "have_sig" ELSE "verify", ![r].sig = sig]
  /\ UNCHANGED <<pub, dirty, error, live, storeVars, builder, copy, torn, built, spent>>

\* Records the site has in its cache are not fetched again.
Verify(r) ==
  /\ reader[r].at = "verify"
  /\ reader' = [reader EXCEPT ![r] =
       IF @.sig = @.index THEN [@ EXCEPT !.at = "fetch", !.todo = reader[r].index.records \ copy[r].records]
       ELSE Away]
  /\ UNCHANGED <<pub, dirty, error, live, storeVars, builder, copy, torn, built, spent>>

\* A record that is not there any more makes the whole load fail: the site keeps the copy it has.
FetchRecord(r, rec) ==
  /\ reader[r].at = "fetch" /\ rec \in reader[r].todo
  /\ reader' = [reader EXCEPT ![r] = IF rec \in files THEN [@ EXCEPT !.todo = reader[r].todo \ {rec}] ELSE Away]
  /\ UNCHANGED <<pub, dirty, error, live, storeVars, builder, copy, torn, built, spent>>

Refreshed(r) ==
  /\ reader[r].at = "fetch" /\ reader[r].todo = {}
  /\ copy' = [copy EXCEPT ![r] = reader[r].index]
  /\ reader' = [reader EXCEPT ![r] = Away]
  /\ UNCHANGED <<pub, dirty, error, live, storeVars, builder, torn, built, spent>>

\* A request times out: the load starts again later.
GiveUp(r) ==
  /\ reader[r].at # "idle"
  /\ Spend("timeout")
  /\ reader' = [reader EXCEPT ![r] = Away]
  /\ UNCHANGED <<pub, dirty, error, live, storeVars, builder, copy, torn, built>>

-----------------------------------------------------------------------------
Publish == \E p \in Pubs : Approve(p) \/ Withdraw(p) \/ Republish(p)

Build(b) == \/ Take(b) \/ SelectPublications(b) \/ SelectLivePaths(b)
            \/ (\E p \in Pubs : PutRecord(b, p)) \/ PutIndex(b) \/ PutSignature(b)
            \/ ListStale(b) \/ (\E path \in builder[b].todo : Delete(b, path))
            \/ SaveLivePaths(b) \/ Finish(b)

Load(r) == \/ ReadIndex(r) \/ ReadSignature(r) \/ Verify(r)
           \/ (\E rec \in reader[r].todo : FetchRecord(r, rec)) \/ Refreshed(r)

Next == \/ Publish \/ Rebuild
        \/ \E b \in Builders : Build(b) \/ Fail(b) \/ Crash(b)
        \/ \E r \in Readers : Load(r) \/ GiveUp(r)

Spec == Init /\ [][Next]_vars

\* The feed loop of a running worker and the sites' refresh timers go on; nothing makes people act.
Fairness == /\ \A b \in Builders : WF_vars(Build(b))
            /\ \A r \in Readers : WF_vars(Load(r))

FairSpec == Spec /\ Fairness

-----------------------------------------------------------------------------
(* Properties *)

Indexes == [records : SUBSET Records, tombstones : SUBSET Pubs, generated : Nat]
Rows == [Pubs -> [state : {"draft", "published", "withdrawn"}, version : 0 .. MaxVersion]]
BuilderStates ==
  [at : {"idle", "publications", "live_paths", "records", "signature", "list", "delete", "summary"},
   pubs : Rows, prev : [Pubs -> SUBSET Paths], todo : SUBSET (Pubs \cup Paths), doc : Indexes]
ReaderStates ==
  [at : {"idle", "have_index", "have_sig", "verify", "fetch"}, index : Indexes, sig : Indexes,
   todo : SUBSET Records, age : 0 .. 2]

TypeOK ==
  /\ pub \in Rows
  /\ dirty \in BOOLEAN /\ error \in BOOLEAN
  /\ live \in [Pubs -> SUBSET Paths]
  /\ files \subseteq Paths /\ index \in Indexes /\ sig \in Indexes
  /\ builder \in [Builders -> BuilderStates]
  /\ reader \in [Readers -> ReaderStates]
  /\ copy \in [Readers -> Indexes]
  /\ torn \in BOOLEAN /\ built \in Nat /\ spent \in [Events -> Nat]

\* Nothing is left to build, as far as the worker knows.
Quiet == ~dirty /\ \A b \in Builders : builder[b].at = "idle"

\* ... and the last build went well.
Settled == Quiet /\ ~error /\ ~torn

\* When nothing is left to build, no error is shown in Admin and no build is left half-done, the index names what
\* is published, and only that, has a tombstone for everything withdrawn, and is signed (feed.py:9-11; the flag
\* is cleared before the table is read, so no change made during a build is lost).
FeedMatches ==
  Settled => /\ index.records = {<<p, pub[p].version>> : p \in Published(pub)}
             /\ Withdrawn(pub) \subseteq index.tombstones
             /\ sig = index

\* No version of p is in the store, nor any of its files that nothing else uses.
GoneFor(p) == /\ \A v \in 1 .. MaxVersion : <<p, v>> \notin files
              /\ \A m \in MediaOf[p] \cap files : \E q \in Pubs \ {p} : pub[q].state # "withdrawn" /\ m \in MediaOf[q]

\* A withdrawal removes the media too (feed.py:10, migrations/008): once it is built, nothing of it is left.
WithdrawnIsGone == Settled => \A p \in Withdrawn(pub) : GoneFor(p)

\* The same for whatever was withdrawn and has not been approved again since ("back to draft").
UnpublishedIsGone == Settled => \A p \in Pubs : pub[p].state # "published" => GoneFor(p)

\* At every moment, in the middle of a build too, the store has every record the index names, and its files:
\* records are written before the index that names them and deleted after the one that does not (feed.py:261).
IndexComplete == \A rec \in index.records : PathsOf(rec[1], rec[2]) \subseteq files

\* A site that read an index just before a rebuild can still fetch what it names, except what was withdrawn
\* since (feed.py:279-280, migrations/008).
ReaderFinishes ==
  \A r \in Readers : reader[r].at = "fetch" /\ reader[r].age <= 1 /\ reader[r].sig = reader[r].index
    => \A rec \in reader[r].todo : rec \in files \/ rec[1] \in index.tombstones

\* Every site drops what was withdrawn, unless it is published again first.
SitesForget ==
  \A r \in Readers, p \in Pubs :
    pub[p].state = "withdrawn" ~> \/ pub[p].state # "withdrawn"
                                 \/ \A rec \in copy[r].records : rec[1] # p

\* A build that failed for a passing reason is tried again (feed.py:323: "Stay dirty only for transient errors").
FailureRetried == error ~> ~error
=============================================================================

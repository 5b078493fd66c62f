# A TLA+ model of MemoriesLane

MemoriesLane keeps evidence: people save links to posts and videos, a capture service records them so that they can be
shown to be authentic, curators publish what may be public, and public sites (the community map, *Hồ sơ Nhân quyền*)
show it and pass new submissions on. This directory models the parts of that program whose correctness depends on the
order of events: workers that die, retries, late answers, rebuilds that race with changes. Paths in this file are
relative to the repository; `capture/` stands for `capture/memlane_capture/`.

| module | what it is |
|---|---|
| `CaptureQueue` | the capture queue: API requests that queue captures, worker processes that run them |
| `CaptureLedger` | what the queue promises of a capture, with no workers, retries or crashes in sight |
| `CaptureQueueProofs` | theorems about `CaptureQueue`, the refinement of `CaptureLedger` among them |
| `MCCaptureQueue` | instances of `CaptureQueue` for TLC (`queue_*.cfg`) |
| `Feed` | publications, the worker that builds the public feed, the sites that read it |
| `MCFeed` | instances of `Feed` for TLC (`feed_*.cfg`) |
| `FeedProofs` | theorems about `Feed`, for one builder |
| `Archives`, `MCArchives`, `ArchivesProofs` | the archives of the community map: the older job queue with its worker and sweeps, the decisions about a material (`archives_*.cfg`); theorems about them |
| `Board`, `MCBoard`, `BoardProofs` | the API of the community map while it moves to the hub: rows, photos, forwarding, the feed it merges in (`board_*.cfg`); theorems |
| `MapApp`, `MCMapApp`, `MapAppProofs` | a visit to the community map in the browser (`map_app*.cfg`); theorems |
| `Site`, `MCSite` | *Hồ sơ Nhân quyền*: its server's refresh, a visit, what a visitor sends (`site.cfg`) |
| `Forms`, `Console`, `MCConsole`, `ConsoleProofs` | the capture service's web interface: what is filled in, and the session, pages, timers and windows around it (`console.cfg`); theorems |
| `Team`, `Publishing`, `MCPublishing`, `PublishingProofs` | projects and their members; the public version of an incident with its reviews, triage and batches (`publishing.cfg`); theorems about both |
| `Relay` | the outbox of the community map, the relay loops, and the hub's Intake API as they meet it |
| `Handover` | what the map and the hub promise about a memory, with no loops, requests or leases in sight |
| `MCRelay` | instances of `Relay` for TLC (`relay_*.cfg`) |
| `IntakeProofs` | theorems about the two that send to the hub's Intake API, `Relay` (the refinement of `Handover` among them) and `Site` |

`PROJECT.json` maps each definition to the lines it translates, and lists components, hazards, runs, mutants (plausible
bugs of the code, under each of which TLC finds the property violated; they are the definitions commented "Mutant"),
findings and theorems. The twelve runs it lists all pass. What a text of the code says and the code does not do is stated in
the modules too, under a heading of its own, and listed as a finding; section 11 says how to see its counterexample.

## 1. Inventory

The program is three services and two sites around one PostgreSQL database (the schema `capture`) and object stores.

| component | state it keeps | operations | models |
|---|---|---|---|
| capture queue, `worker.py`, `inbox_core.py`, `api.py` | `captures` (state, verdict, attempts, run_after, started_at), `items` (status, latest_capture_id), what each slot of a worker holds in memory | save_link, recapture, _claim, _finish, _crash, recover_stuck, start, SIGTERM, death | `CaptureQueue` |
| capture pipeline, `pipeline.py`, `gate.py`, `witnesses/` | files of one attempt | run_capture, judge | its outcome in `CaptureQueue` |
| inbox and links, `inbox_core.py`, `urls.py`, `resolve.py` | canonical and resolved address of an item | canonical, resolve, save_link's look-up | one key per link in `CaptureQueue`; later `Links` |
| feed builder, `feed.py` | `feed_state` (dirty, error, live_paths), the public store | mark_feed_dirty, run_if_dirty, build | `Feed` |
| feed readers, `backend/lib/hub-client.js`, `backend/hub.js`, `hosonhanquyen/server.js` | the last index verified and its records | load, refreshFeed | `Feed`, `Board`, `Site` |
| publication workflow, `publish.py` | `publications`, batches, review requests | freeze, edit, approve, batches, review, withdraw, republish, rebuild | `Publishing`; what drives the feed in `Feed` |
| relay of the map, `backend/hub.js`, `routes/memories.js` | `memories`, `hub_outbox`, uploaded files | insertMemory, enqueue, relay, purge | `Relay` |
| intake of the hub, `intake.py` | `intake`, `intake_files`, nonces, staging area | submit, upload_file, triage (assign, attach, create incident, reject, contact) | submit and upload_file in `Relay` and `Site`, triage in `Publishing`, sources in `Team` |
| projects and members, `people.py`, `access.py` | `project_members`, invites, publish grants | add, change, remove, invite, accept, leave; settings, import | `Team` |
| incidents, comments, notifications, `workspace.py`, `notify.py` | `incidents`, comments, custom attributes, subscriptions, notifications | create, edit, complete, archive, comment, subscribe, fan_out | as a page drives them in `Forms`, `Console`; later `Workspace` |
| copies elsewhere, `external.py` | `external_copies` | queue_wayback, request, run_one | what a page polls for in `Console`; later `ExternalCopies` |
| upkeep and canary, `upkeep.py`, `health.py` | `canary_requests`, derived files | hourly jobs, canary | later `Upkeep` |
| community map API, `backend/routes/`, `backend/db.js` | memories, cases, topics, archives | submit, moderate, list, forward; materials: submit, approve, retry | `Board`, `Archives`, `Relay` |
| legacy archive worker, `worker/` | `archives` as a queue | claim, complete, fail, recoverStuck, sweeps | `Archives` |
| evidence formats: `wacz.py`, `seal.py`, `tsa.py`, `signing.py`, `feedkeys.py`, `replay.py` | none of their own | formats, hashes, signatures | not modelled |
| storage, egress, config: `storage.py`, `egress.py`, `db.py` | files | put, delete, list | a set of paths in `Feed` and `Relay` |
| geography, importer: `geo.py`, `importer.py` | none | generalise | later `Geo` |
| map in the browser, `app/` | the view, the memories and cases held, requests in flight | open, list, search, draw, compose, send | `MapApp` |
| *Hồ sơ Nhân quyền*, `hosonhanquyen/` | the feed last verified; forms and receipts of a visit | refresh, pages, report, submit, check | `Site` |
| capture web interface, `capture/web/js/` | session, page, timers, windows, what is typed | sign in, routes, polls, forms | `Console`, `Forms`, `Team`, `Publishing` |
| mirror, backup, `zip_extract/`, `archivebox/` patches | none that others rely on | static serving, scripts | not modelled |

**How they interact.** API requests and workers share rows of the database and nothing else; there are no messages
between them, only what a transaction commits and what the next `SELECT` sees. A capture that is done may write feed
entries and notifications in its transaction. An approval or withdrawal sets `feed_state.dirty` in its transaction, and
the worker's `_feed_loop` polls it. The feed is a directory: builder and readers share it with no lock. The map and the
hub talk over HTTP: the relay sends a submission and then its file, and the hub's answers are what it acts on.

**Which behaviours are hard.** Worker processes die with captures in hand, and are restarted by Docker
(`capture/docker-compose.yml`, `restart: unless-stopped`); a slot writes the row it claimed by id, without asking whether
it is still its own; some requests are one transaction and some are several; a feed build is a dozen statements and
puts with changes in between; a site reads while it is rebuilt; a request of the relay may be handled after the relay
has stopped waiting for it, and two relay loops may hold the same row. In the three browser applications every call is asynchronous and
nothing orders its answer against the next click: a page is drawn from an answer to an earlier question, a timer outlives its
page, a form is drawn anew while it is filled in. Between the people of a project the same happens at a distance: each acts on
a page drawn from what the server held before another acted. `PROJECT.json` lists each of them at its line under "hazards".

**What makes each component correct.**

- *Queue*: two slots never work on one capture; a capture ends once, with a verdict, and a good verdict is never without
  its files; files of earlier attempts never count; an item's status tells what its latest capture does; a link is
  captured once at a time; everything queued ends; what a dead worker leaves is taken up again.
- *Feed*: when nothing is left to build the public tree is what is published, no more and no less; withdrawn records and
  media are gone; the index never names what is not there; a site in the middle of a load can finish; every site drops
  what is withdrawn.
- *Relay*: an accepted memory is complete on the map or complete at the hub; `sent` means the hub has it; the relay gives
  up only what the hub refuses; everything accepted arrives; what has arrived is deleted from the map.
- *Archives*: what a row says is what there is; every job ends; what was added around the queue is found, and once.
- *Board*: what is answered was reviewed; a public row has its file; the site comes to serve what the hub publishes.
- *Map and site in the browser*: no filter, place or receipt without what it belongs to; what spins stops; what is served
  catches up with what is published.
- *Console*: a timer ends with its page; a refused session ends; an open page catches up; a form makes what it shows.
- *Team*: a project always has an owner; an invite never lowers a role and lets in no more than `max_uses`; nobody publishes
  after losing the right to.
- *Publishing*: what is published is what an entitled person approved, in the form they saw; a page that says "nothing to approve" is right;
  a submission is reviewed once.

## 2. The capture queue (`CaptureQueue`)

One transaction of the code is one action. The rows of `capture.captures` are `state`, `verdict`, `attempts`; `recorded`
is the set of attempts whose outcome `_finish` recorded for good (artifact rows, feed entry, Wayback request). Time stamps
are two sets: `due` (`run_after <= now()`) and `old` (`started_at` more than `STUCK_AFTER_MINUTES` ago), which the actions
`Due` and `Overdue` fill at any moment. A worker process has slots (`_loop`); `slot[s]` is the row as it was claimed, in
memory, so that `_finish` and `_crash` use the attempt number they were given, not the one in the table.

| code | actions |
|---|---|
| `save_link` (lock, look-up, `new_capture`, one transaction) | `SaveBegin`, `SaveCommit` |
| `recapture` (check, INSERT, UPDATE on an autocommit connection) | `RecaptureCheck`, `RecaptureInsert`, `RecapturePoint` |
| a request or its connection dies | `RequestDies` |
| `_claim` with `CLAIM_SQL`; its commit unheard | `Claim`, `ClaimAckLost` |
| `run_capture`, `retry_plan`, `_finish`, hold-back of a platform that limits the rate; its commit unheard | `Finish`, `FinishAckLost` |
| an exception, `_crash` | `Crash` |
| `main` with `recover_stuck`; SIGTERM; the loops ending; SIGKILL or a reboot | `Start`, `Stop`, `Exit`, `Die` |

Abstracted: what a capture is of and what it finds. An attempt ends in a verdict of the gate or in "failed" with
`rate_limited` set (`Outcomes`); the gate itself is external to the queue. Back-offs are durations, so `Due` may happen at
any time after the row was written; the only thing kept of them is that a back-off is longer than the 30 seconds for which
`_crash` waits for a connection.

**Runs.** Two slots are enough for every pair of conflicting writers, two captures of one link for every conflict about an
item, and a second link on the same platform for the hold-back; the limits of 3 and 6 attempts are 2 and 3 (`MaxAttempts`,
`RateLimitMaxAttempts`), which keeps first, middle and last attempts apart for both kinds of failure.

- `queue_restarts`: one process with two slots (the deployment: `WORKER_CONCURRENCY` 2, one worker service), killed up to
  twice and restarted, attempts longer than `STUCK_AFTER_MINUTES`, saves and recaptures of one link racing. `TypeOK`,
  `ExclusiveClaim` (a slot's row is still its own), `OnlyFinalAttempt`, `DoneIsFinal`.
- `queue_side_by_side`: two processes, one of them killed, as `worker.py:5-7` says is possible, attempts shorter than
  `STUCK_AFTER_MINUTES`, three captures of two links. `StatusTruthful`, `OneInProgress`, and the
  refinement `ImplementsLedger`.
- `queue_recovers`: a worker is killed or the acknowledgement of a commit is lost, once. `VerdictHasEvidence` survives even
  that; `QueuedIsDone` (without faults every queued capture ends with a verdict) and `RestartsRecover` (with them too, if
  workers are restarted again and again).
- `queue_announced.cfg` (a counterexample, section 11): a capture whose last attempt *raises* is closed by `_crash`, which writes no feed entry,
  so nobody who follows the incident is told, which `worker.py:117-118` says happens for every result.

The cfgs stop where every capture id is used up and done; a process may still be stopped and started there, so deadlock
is checked.

**Assumptions, and what happens without them.** `ExclusiveClaim`, `DoneIsFinal` and the refinement hold with several
processes only when no attempt takes longer than `STUCK_AFTER_MINUTES`: `recover_stuck` of a starting process requeues
what a live slot still works on (set `MayOutlive = TRUE` in `queue_side_by_side` to see it). They do not survive a lost
acknowledgement of `_finish`, after which `_crash` reopens a finished capture (`LostAcks = TRUE` in `queue_restarts`).
`OneInProgress` and `StatusTruthful` do not hold when two recaptures of one item race (`Recapturers = {r1, r2}` in
`queue_side_by_side`): two captures run, and the one that ends last decides what the item shows; the evidence of both is
sound (`queue_restarts` has the recaptures).

**Fairness** (`queue_recovers`). A request goes on or dies; a slot ends what it holds (each witness has a time-out); a
process that is stopped exits and one that is down is started (Docker); time passes. Claiming is strongly fair per
capture: rows are taken in the order of `run_after`, so only finitely many can go before a due one. Nothing makes a worker
crash or be stopped; `RestartsRecover` says it needs that, because `recover_stuck` runs at start only.

## 3. The publication feed (`Feed`)

`pub` is the state and version of each publication. `_publish_now`, `withdraw`, `republish` and `rebuild_feed` are
`Approve`, `Withdraw`, `Republish`, `Rebuild`. A `_feed_loop` runs through the steps of `run_if_dirty` and `build`, each an
action, because each is a statement or a put of its own: `Take` (clears the flag), `SelectPublications`,
`SelectLivePaths`, `PutRecord` for one publication after the other, `PutIndex`, `PutSignature`, `ListStale`, `Delete` one
path at a time, `SaveLivePaths`, `Finish`. `Fail` is an exception anywhere in the build, `Crash` the death of the process.
Records are content-addressed and named by publication and version; a cleaned file may belong to two publications. A
site's `feedReader.load` is `ReadIndex` and `ReadSignature` in either order, `Verify`, `FetchRecord` one at a time,
`Refreshed`; a missing record makes it fail as a whole and the site keeps the copy it has; `GiveUp` is a time-out. `torn`
is a history variable: a build died and none was finished since.

**Runs.**

- `feed_build`: one builder; two publications that share a file and have one of their own, two approvals each, withdrawals
  at any moment, one failed build and one death. `FeedMatches` (settled means equal to what is published: the
  flag is cleared before anything is read, so a change in the middle is built again); `WithdrawnIsGone`; `IndexComplete`
  at every step. Two publications are what sharing needs, two versions what the kept generation needs.
- `feed_readers`: a site loads while one publication is approved twice, withdrawn, taken back and rebuilt on request.
  `ReaderFinishes`: who read the index before the last rebuild can still fetch it, withdrawn records excepted;
  `SitesForget`: a withdrawn record leaves every site. Stated for builds that do not fail, see `feed_failed_build.cfg`.
- `feed_not_retried.cfg` (a counterexample): after one failure of the store nothing tries again until somebody changes a publication
  or asks for a rebuild; a withdrawal stays undone until then. The comment at `feed.py:323` wants that for configuration
  errors only.
- `feed_failed_build.cfg` (a counterexample): what the index uses is saved last (`SaveLivePaths`). A build that fails between the index
  and that statement has published an index whose paths are saved nowhere; the next build deletes them under a site that reads
  that index, which `feed.py:279-280` says can finish.
- `feed_taken_back.cfg` (a counterexample): a withdrawn publication that goes back to draft before it was built is no longer a
  tombstone and not yet published; its record and media are kept as the previous generation of a live one.

`Settled` excludes states after a failed or dead build: there the code waits for the next change (the two hazards say so).
The passing runs have one builder: with `Builders = {w1, w2}` in `feed_build` `IndexComplete` and `FeedMatches` are violated, since each
builder deletes what the other has just put; the theorems about them assume `OneBuilder`. The deployment runs one worker service, and `worker.py:5-7` claims no more
than the queue for several.

**Fairness** (`feed_readers`, `feed_not_retried.cfg`). The loop of a running worker and the refresh timer of a site go on
(weak fairness of `Build` and `Load`); nobody is assumed to approve, withdraw or rebuild.

In the cfgs with `CHECK_DEADLOCK FALSE` the system may really come to rest: all approvals are used up and the feed is built.

## 4. The relay (`Relay`)

A memory is written with its outbox row in one transaction (`InsertMemory`) after its file was stored (`StoreFile`).
Memories published before the hub existed (`Legacy`) are queued by `scripts/export-to-hub.js` (`Enqueue`), whose process has
a relay loop of its own. `relay[p]` is where a loop is: `Claim` leases the first due row for five minutes, `Build` reads
row and file and sends the submission (`FileGone` and `RowGone` are its other ends), `Submitted`, `Uploaded` and `Rejected` take the
hub's answers, `MarkSent`, `Unlink` and `Forget` are the three statements after them, and `Catch` is the catch block, for an
error that is retried or one that is final. `NextTry` is `next_try_at` passing, the back-off or the lease; with
`MayOutlive` a lease can end while its attempt is still running.

The network is the set `net` of requests. A request is handled by the hub whether or not somebody still waits for it
(`by = None`), in any order, or never (`HubDrop`). The hub's side is that of `intake.py`: `HubSubmit` is one transaction under
an advisory lock; an upload locks the row of its file, and answers a stored one from the row (`HubDuplicate`), refuses it
(`HubRefuse`, whose row `rejected` is rolled back by the 422 raised in its transaction), or puts the file into storage
(`HubPut`) before the row says so (`HubStore`). Faults are counted by `MaxFaults`: a request not answered in time, a broken
connection, a 5xx or 429 (`Timeout`), a statement that fails or whose answer is lost (`StatementFails`), a file that cannot be
deleted (`UnlinkFails`: `deleteFile` keeps its errors to itself), a process that dies (`Die`).

**Runs.**

- `relay_delivers`: the backend and the export script on a new memory and a legacy one, both with a file, the legacy one's
  refused; any two faults; leases that end early. `NothingLost`, `SentIsThere`, `FailedIsRefused`, the liveness
  property `Delivered`, and the refinement `ImplementsHandover`. Two loops and two faults are what it takes for one loop to delete what the other is forwarding, and
  for a late request to arrive after a retry; two memories make the loops interleave in the order of the outbox.
- `relay_purges.cfg` (a counterexample): `hub.js:7-9` says that the local copy is deleted once the hub has confirmed the file. The row is
  marked sent first, and nobody looks at a sent row again: a process that dies in between leaves copy and file for good.

`Handover` is the contract: a memory is complete nowhere yet, on the map, on both sides or at the hub; it is accepted, arrives, and only
then leaves, unless it was there before the hub (`Kept`); the outbox may call it pending, sent or failed as often as it likes, but
"sent" only of what has arrived and "failed" only of that or of what is refused. `Relay` implements it with `place <- Shown` and
`word <- outbox`, where `Place(m)` is computed from the rows, the files, the submissions and both sides of the hub's storage: no variable
of `Relay` says where a memory is, so that losing, overtaking or repeating any step between them shows as a step the contract does not have.

**Fairness** (`relay_delivers`). Loops go on (a timer ticks every ten seconds), time passes, the hub handles what it
receives. `Claim` is strongly fair per memory, and that is needed: when a file was deleted and the DELETE of its row failed,
`Catch` makes the row pending again and each retry fails on the missing file, for ever. Because its back-off grows to six hours
while others are due in minutes, it does not keep the others from their turn. The memory itself is at the hub by then,
which is what `Delivered` asks for.

## 5. The archives of the community map (`Archives`)

`rows` is the table `archives`: a job queue for the worker (`status`, `attempts`) and the materials page of the site (`approved`, the
copies, the fingerprint). A copy is the number of the capture that made it, so that a row that names an old copy, or the hash
of another one, can be told apart. `box` is ArchiveBox's own index, which people also fill directly (`AddDirectly`).

| code | actions |
|---|---|
| Archive API: submit, approve, reject, retry, delete | `Submit`, `Approve`, `Reject`, `Retry`, `Delete` |
| `main`, `recoverStuck`; `drainQueue` | `Boot`; `Claim` |
| `processJob`: each archiver, its result, the hash, `complete` or `fail` | `AutoArchive`, `SaveToWayback`, `BoxAdd`, `BoxRead`, `Store`, `Fail` |
| `reconcileLoop`: `reconcileWayback`, `socialSweep` with its screenshot, `botWallSweep` | `Listed`, `Reconcile`, `Record`; `SocialListed`, `SocialCheck`, `SocialArchive`, `SocialInsert`, `Inject`; `BotWall` |
| the process dies | `Die` |

`archives_worker`: one worker, one link of a social platform (the most demanding kind: both tools and both sweeps), one job and two
rows of the sweeps, one death or failure at any step, two captures, and every decision of the API in between. `StatusTruthful`,
`RecordedOnce`, `Settles` and `DirectlyAddedIsFound`. Two claims and two captures are what it takes to retry what was half done.
`MayStrand = FALSE` leaves out one case: when `fail` itself fails the row stays `running` until the worker restarts. With
`Workers = {w1, w2}`, `recoverStuck` of the one takes the rows of the other, which the comment on the claim (`worker/db.js:21-22`) does not expect;
the deployment has one. `archives_fingerprint.cfg`: a partial capture is retried, the new copy cannot be hashed, and the row shows the
fingerprint of the old one.

**Fairness**: the container is restarted, and both loops of the process go on whatever fails (their `catch` clauses). Nobody is
assumed to decide anything.

## 6. The API of the community map (`Board`)

A memory is submitted (`StoreFile`, `SubmitText`, `Insert`: the file first, then the row), moderated here (`Approve`, `Reject`) as long as the hub
is not connected, forwarded and purged once it is (`Connect`, `Export`, `Forward`, `PurgeFile`, `PurgeRow`; `Relay` has that path in
detail). `site` is the last verified copy of the feed: `StartLoad`, `ReadFeed`, `LoadDone`, `LoadFails`, between which the hub
publishes and withdraws; `ReadFeed` takes the state of the hub in one step, because the index that was read fixes the records by their hashes
(index, signature and records as separate fetches are in `Feed`). Nudges and the timer share the load in flight. A public request is several steps: `List` queries the
rows, `Merge` takes the feed as it is by then; `Show`, `Photo`, `FetchPhoto`, `LocalPhoto` likewise.

`board_both` is the migration (`PUBLIC_SOURCE=both`, the widest of the three modes): a memory of the old map and a new one, two edits of the
hub, one failure or restart, the hub connected at any moment. `ReviewedOnly`, `PublicFileIsThere`, `EventuallyServed`. One memory of each kind is
what the merge, the purge and the moderation differ in. `board_replaced.cfg`: the old row of a memory that the hub publishes
without its place stays on the list with its exact point.

**Fairness**: the timer goes on, and a load ends because each of its fetches has a time-out.

## 7. The community map in the browser (`MapApp`)

One action is one event handler with the renders and effects that follow it; a control can be used only where it is rendered, which
is its guard. Requests in flight are counted by what they ask (`listCalls`, `caseCalls`, `posts`) and answered, or not, in any order. What the
server answers is constant (`Board` has the server). A session uses one group of controls out of `Visits`: each group is two or three
of map and city, list, case, reading, search and composing which act on each other, so that each pair of handlers that share state meets in
some session; all of them at once would only multiply the states.

`map_app`: `QueryHasItsPanel`, `PlaceOfTheSheet`, and the liveness property `ListAnswers`. `map_app_own.cfg`: a memory sent before the
first load is answered vanishes. Also violated: `PanelOfOpenCase`, `ExportsPublished`, `CasesOfThisCity`.

**Fairness**: the browser ends each request with an answer or an error. Nothing makes the visitor act.

## 8. *Hồ sơ Nhân quyền* (`Site`)

The server has no database: `site` is the generation of the feed it verified last, `loads` the refreshes in flight, which nothing keeps from
overlapping. The visitor's page is `shown`; pages are functions that await the feed, then draw into the one `#main`, so an earlier one
can draw last (`Go`, `Arrives`, `DetailsArrive`). A form goes through `Fill`, `Send`, and on the server through `Received` (the rate limit), `Submit`,
`Upload`, `Done` or `NotDone`, to `Answered` or `Disconnected`; `hub` is what the hub then holds, and the answer may be lost at every call.
`Check` and `Checked` are the receipt page. Its `SiteInit`, `SiteNext`, `SiteSpec` and `SiteTypeOK` carry the module's name
because `IntakeProofs` has them beside those of `Relay`.

`site`: three generations of the feed with different cases, one load of each in flight, or two forms under a limit of one.
`ReceiptIsGood` (a receipt is of something the hub holds whole), `SiteCatchesUp`, `SendEnds`. A limit of one is what it takes to be refused
with two forms. Violated: `NotSavedIsTrue`, `UnknownIsUnknown`, `FormStays`.

**Fairness**: the timer of the server goes on and its loads end; a load that is tried for ever succeeds once (strong fairness of
`Refreshed`; otherwise a hub that never answers would refute `SiteCatchesUp`). A request has a time-out.

## 9. The console (`Forms`, `Console`)

`Console` is one tab: the session (`connect`, `logout`, a 401 at any call), the hash router (`Route`, `Arrives`, `Fails`), timers of pages (`Tick`,
`WatchEnds`), windows with their key listeners, and the two pages that are left open: an incident (`Ask`, `Heard`, `Details`, `Follow`, the comment box)
and a link whose capture and copy are under way (`AskItem`, `HeardItem`, `Mounted`, `Recapture`, `SendCopy`). `Forms`, which it extends, has what is filled in: adding
material, the project-and-incident picker, a new incident, the save sheet, notifications, corrections, the introduction, the map library. What is drawn
is the version it was drawn from: `page.inc` against `page.shown`, `item.held` against `item.shown`.

`console`: a session is one of the lists in `MCConsole`, three pages, three versions, two answers in flight, one lost. `PollsAreCurrent`,
`ShownIsHeld` (with nothing left to load, the incident page shows the version it holds), `RefusedSignsOut`, `IncidentCatchesUp`. Two answers are what it takes for one to overtake the other; three visits for a page that
finishes late to meet a third one.

What holds is less than the comments say: `OnlyShownPolls` (a page that finishes late polls until the next navigation), `WindowOfThePage` and
`KeysOfOpenWindows` (a window being prepared opens over the next page), `SignedInHasToken`, `DetailsShown`, `FollowIsTrue`, `CommentIsKept`,
`ItemSettles`, `CopyFollowed`, and in `Forms` `AddingEnds`, `OffersOfTheProject`, `FormOfTheProject`, `CreatedOnce`, `TypedIsKept`, `ListedIsMarked`,
`MapFailureIsItsOwn`, `OneTour`, `OnlyOwnCorrections` are stated and violated.

**Fairness**: timers fire and what is in flight is answered; whoever adds material presses "Save" again. A page left open is the premise of
`IncidentCatchesUp`; `RefusedSignsOut` needs the bell, which asks every 30 seconds on every page.

## 10. Members and publication (`Team`, `Publishing`)

`Team`: roles are ranks, a request that reads, decides and writes is two or three steps, and the row locks it takes are guards of the others:
`Change` is clicked, `Admit` asks for the caller's role, `CountOwners` locks the member's row and counts, `CommitChange` writes; `AddMember` asks for the
caller's role, `CommitAdd` writes; `Join` and `Joined` hold the invite's row. `Admins` act as owner of every project without being in it
(`Rank`, `access.py:30-32`). `AddMember` names anybody, members, owners and the caller included: the form offers who was no member when its
panel was drawn, and a request need not come from the form. Each person acts from a panel as drawn earlier. Settings, import and sources are the forms
of the same pages.

`Publishing` extends it with one incident's public version, which `Start` makes: the check and the insert are one step there, because the unique
index `publications_incident` refuses a second insert and the error changes nothing. A draft is its text, the parts it lists and those left out;
`pages[p]` is what a person's page was drawn from, `calls[p]` what they asked for and how far the server is: `Click`, `Read`, then `Write` (an edit), `Approve`, `Written`
(review requests, withdraw, republish), and, in a transaction of its own, `Out`: `_out` runs `live` on the row that was read (`OpenPublication`) or
RETURNed, and may write that older draft over a newer one. A submission is filed by `CheckNew`, `File` (which reads the publication, or that there is none)
and `Attach`, which brings the draft up to date (`Live`); a batch is `MakeBatch`, `ReadBatch`, `PublishBatch`. Nothing but `approve` locks the
row of the publication before it reads it.

`publishing`: two owners, an editor and an admin of the instance who is no member, a newcomer with a link of one use; one or two of them are at work in a
session. Three acts (what is typed, ticked or clicked) in the sessions about members: two changes that meet and a join or an addition. Five in the others: a text, a
save and an approval of one person beside a filing of another. One and a half million states, about two minutes.

- `OwnersKept`: a project has an owner, or a write that no count guards has taken away what a count relied on, or the last owner
  (`unguarded`). The three such writes are the other one of two changes that have counted each other's owner, an addition that names an owner, and a join that
  has read an older role. What is left is what the lock of the member's row and the count are for: a change whose count is still good
  when it writes leaves an owner, however many changes, panels and locks there are. That a project always has an owner (`AlwaysAnOwner`) is violated, by an addition alone.
- `InviteHolds`: the link lets in no more people than it says, and nobody once it is revoked.
- `CleanIsPublic`: a published version that says it has no unpublished changes is its draft, with everything that was filed but what is in `excused`: what a
  filing kept out that had read "no publication" or "withdrawn" while that changed before its commit, or a draft that listed it then and does
  not any more; and what was rejected while the draft did not list it, since reopening files it again without `live`. `NothingFiledIsMissing`, without
  the exceptions, is violated. What is left is for every order of edits, filings, late `_out`s, approvals and withdrawals.

No fairness: people do what they like.

Violated, each by two requests that overlap, by a page that is out of date, or by one request that a form would not send: `AlwaysAnOwner`, `NeverLowers`, `GrantedToEditors`, `RoleShown`,
`SettingsKept`, `ImportIsPreviewed`, `ImportedOnce`, `RoutingShown`, `KeyShownWorks`; `WithdrawnStaysOut`, `PublishedTillWithdrawn`, `ApprovedAsSeen`,
`LeftOutStaysOut`, `FilingKeepsEdits`, `RejectedIsNotPublished`, `ReviewedOnce`, `CleanBatchIsPublic`, `BatchedCanBePublished`, `NothingFiledIsMissing`.

## 11. Counterexamples

The properties named as violated above are no part of the runs in `PROJECT.json`, which all pass. The configurations `queue_announced.cfg`, `feed_not_retried.cfg`,
`feed_taken_back.cfg`, `feed_failed_build.cfg`, `relay_purges.cfg`, `archives_fingerprint.cfg`, `board_replaced.cfg` and `map_app_own.cfg` show one each. Each of the others is seen by
giving it as the only `INVARIANT` (a state predicate) or `PROPERTY` (a formula with `[][...]` or `<>`) of the configuration of its
section. TLC reports it within two minutes. `TypeOK` of a module that no run names (`SiteTypeOK` in `Site`) is a theorem.

## 12. What is proved

`tlapm` proves, for every value of the constants:

| theorem | statement | assumption |
|---|---|---|
| `TypeCorrect` | `Spec => []TypeOK` of the queue | none |
| `ClaimsAreExclusive` | `Spec => []ExclusiveClaim` | `Careful` |
| `FilesOfFinalAttempt` | `Spec => []OnlyFinalAttempt` | `Careful` |
| `VerdictsHaveEvidence` | `Spec => []VerdictHasEvidence` | `Careful` |
| `DoneStaysDone` | `Spec => DoneIsFinal` | `Careful` |
| `QueueImplementsLedger` | `Spec => ImplementsLedger` | `Careful` |
| `StatusIsTrue` | `Spec => []StatusTruthful` of the queue | `Careful`, `SavesOnly` |
| `OneCapture` | `Spec => []OneInProgress` | `Careful`, `SavesOnly` |
| `FeedTypeCorrect` | `Spec => []TypeOK` of the feed | none |
| `FeedIndexComplete` | `Spec => []IndexComplete` | `OneBuilder` |
| `FeedShowsTable` | `Spec => []FeedMatches` | `OneBuilder` |
| `FeedForgets` | `Spec => []WithdrawnIsGone` | `OneBuilder` |
| `FeedReadersFinish` | `Spec => []ReaderFinishes` | `OneBuilder`, `BuildsEnd` |
| `RelayTypeCorrect` | `Spec => []TypeOK` of the relay | none |
| `NothingIsLost` | `Spec => []NothingLost` | none |
| `SentMemoriesAreThere` | `Spec => []SentIsThere` | none |
| `FailedMemoriesWereRefused` | `Spec => []FailedIsRefused` | none |
| `HubKeepsWhatItHas` | `Spec => [][Grows]_vars` | none |
| `RelayImplementsHandover` | `Spec => ImplementsHandover` | none |
| `ArchivesTypeCorrect` | `Spec => []Typed` of the archives | none |
| `StatusIsTruthful` | `Spec => []StatusTruthful` of the archives | none |
| `SweepsRecordOnce` | `Spec => []RecordedOnce` | `OneWorker` |
| `BoardTypeCorrect` | `Spec => []Typed` of the board | none |
| `OnlyReviewedIsServed` | `Spec => []ReviewedOnly` | none |
| `PublicFilesAreThere` | `Spec => []PublicFileIsThere` | none |
| `MapTypeCorrect` | `Spec => []Typed` of the map in the browser | none |
| `FilterHasItsPanel` | `Spec => []QueryHasItsPanel` | none |
| `PlaceIsOfTheSheet` | `Spec => []PlaceOfTheSheet` | none |
| `SpinnersAreAnswered` | `Spec => []SpinnerIsAnswered` | none |
| `SiteTypeCorrect` | `SiteSpec => []SiteTypeOK` | none |
| `ReceiptsAreGood` | `SiteSpec => []ReceiptIsGood` | none |
| `TimersAreCurrent` | `Spec => []PollsAreCurrent` | none |
| `IncidentShowsWhatItHolds` | `Spec => []ShownIsHeld` | none |
| `ConsoleTypeCorrect` | `Spec => []TypeOK` of console and forms | none |
| `PublishingTypeCorrect` | `Spec => []TypeOK` of team and desk | none |
| `OwnersAreKept` | `Spec => []OwnersKept` | `Founded` |
| `LinkHolds` | `Spec => InviteHolds` | none |
| `CleanIsWhatIsPublic` | `Spec => []CleanIsPublic` | none |

Each inductive invariant was checked by TLC on an instance before it was proved.

*Queue.* `Careful` is `~LostAcks /\ (MayOutlive => OneWorker)`: commits are acknowledged, and there is one worker process or no
attempt outlives `STUCK_AFTER_MINUTES`. It is exactly what the runs showed to be needed. The inductive invariant is
`TypeOK /\ Holding /\ Apart /\ OnlyFinalAttempt /\ VerdictHasEvidence`. `ExclusiveClaim` alone is not inductive: that a
starting process takes no row from a slot (`StuckIsFree`) rests on what a slot holds not being overdue, or on its
process not being down, and `Holding` adds both. `Apart` keeps the slots' captures different, which is what lets a slot write its
row without disturbing another's claim. Then each action writes the row of one slot, and that row is running: so what is
done is never written (`DoneStep`), and each step is a step of the ledger or invisible in it (`QueueStepIsLedgerStep`).

`StatusTruthful` and `OneInProgress` need more: `LinkInv` adds that the capture in progress of a link is the one its item points
at (`PointedAt`) and that two requests that hold the lock of a link are one (`SavesAlone`). `SavesOnly` (nobody recaptures) is
needed, because two recaptures break both (section 2).

*Feed.* The index is complete (`StoreInv`) because of what a build has done by each of its stages: before the index all records put so
far are in the store (`PutSoFar`), from the index on the index is what it put (`IndexIsOf`), and it deletes nothing that it keeps
(`SparesKept`). That the feed is the table (`TableInv`) rests on the flag: as long as the builder's snapshot is not the table, the flag is
set (`UpToDate`), whatever is approved or withdrawn in between; what is not in the snapshot is deleted or kept for the readers
(`OnlyKept`), and what is kept for a publication is its own (`Owned`). `OneBuilder` is needed (section 3). A reader
is at the index or one behind it (`ReadersInv`), and what it lacks of the one behind is what the saved paths keep (`Behind`).
`BuildsEnd` (no failure, no crash) was put there by the proof: the lemma about `SaveLivePaths` failed after a failed
build, and TLC then found `feed_failed_build.cfg`.

*Relay.* The inductive invariant is `TypeOK /\ NetInv /\ LoopInv /\ RowInv`. `NetInv` says what each request means:
an answer is only there if the hub keeps what it answers for, an upload only after the submission was taken, and a
loop waits for at most one request, the one for its memory and stage. `LoopInv` carries that over to the loops: at `mark`, `unlink`
and `forget` the hub has everything. `RowInv` carries it over to the rows. What makes it go through for any number of loops on one
row, of late requests and deaths, is that the hub never forgets (`Grows`): knowledge a loop has of the hub stays true however late it
acts on it. No lease, lock or clock is used, so the five-minute lease is an optimisation as far as safety goes. That the hub never forgets is a
theorem of its own, `HubKeepsWhatItHas`, an action property.

The refinement of `Handover` needs more than safety did (`HandInv`). `NothingLost` allows a memory to be at the hub before its row is there, or
a refused one to arrive; the contract has no such step. So every request under way, and everything in `intake`, is of a memory that has a row; the
hub has nothing that it refuses, and no request it has begun to store is for such a file; what was on the map before the hub is
complete there at every moment, because no loop is ever at `unlink` or `forget` with it; and a loop is only at a memory the outbox has a word of. Each of
these depends on the others through a request that is answered late, which is why it is one invariant with one lemma for each part
(`HandNet`, `HandHub`, `HandLoops`, `HandKept`). Then each action is one of five kinds as far as the contract can see: it leaves place and word alone
(`HandoverRests`), it moves one memory by one place (`HandoverArrives`, `HandoverLeaves`, and `Accept`, `List`), or it says something of it
(`HandoverSays`); `RelayStepIsHandoverStep` goes through them. The last of an upload's three steps (`HubStore`) is the one at which a memory arrives,
and of the two deletions on the map the first to happen is the one at which it leaves.

*Archives.* `ArchivesInv` follows a copy from the archiver to the row: what `processJob` has in hand is real (`Results`), the
job a worker holds is one of the table's jobs with the tool of its row (`JobsHeld`), what a sweep is about to insert has a copy behind it
(`SweepsBacked`), so every row is true (`RowsTrue`). Nothing in it says that a worker holds its row alone: `recoverStuck` may take it away
and another worker may run it again, and the status stays truthful. That is why `StatusIsTruthful` has no assumption, while `SweepsRecordOnce`
does: between the look-up and the insert of a sweep (`Fresh`) nobody else may insert for that link, and with two workers TLC shows that
somebody does.

*Board.* `ServedInv` has every way into an answer: the approved rows, the hub's feed, the load under way, the verified copy, and what a
request holds between its steps. `FilesInv` relates the outbox to the store: what is being forwarded or purged is not approved here, and a
row that is not in the outbox, or is approved, still has its file.

*Map in the browser.* The two properties are inductive together with the types; the work is in the actions, which are several handlers and
effects each. `SpinnerIsAnswered` (a list that says it is loading has a request in flight) is the safety half of `ListAnswers`.

*Site.* `SiteInv` says what a request's stage means at the hub: at `upload` the envelope is there, at `ok` all of it; a receipt on the
screen is of a request that is over, after which nothing at the hub touches it. Calls that were done and not answered only make the hub
have more than the site knows. For the types: a load has read a generation that was published, so `site` never exceeds `feed`.

*Console.* `PollsAreCurrent` is not inductive until the history of navigations is a sequence of pages (`RouterInv`): that a timer's number is the
last one rests on `Arrives` taking the number of the navigation that is current by then, and on `Route` being the only way to a higher one,
with every timer dropped. Of the thirty-odd actions of `Next` three touch navigations and three timers; `TimersStay` has all the others. It is
`SignOut` that had to be looked at: with an invitation on the screen it is a navigation, too. `ShownIsHeld` needs that the key is always that of what is
shown (`HeldInv`): an answer whose key is that of the screen is not drawn, and this is only right because nothing else sets the key, and an
answer with another one, older ones included, leaves details to fetch that end in drawing what is held by then. For the types, an
incident page draws what it holds, which an answer gave it, and an answer says what the server held (`IncidentTyped`); so no version
it shows is one that was never there.

*Members and publication.* `OwnersInv`: of one member there is at most one change that has counted, since it holds the row (`OneEach`), and until an
unguarded write every count still holds (`Covered`): there is an owner, and for each change that takes one away there is another one. Each
step then either keeps all counts, or is such a write and says so; a change that counts now finds a second owner (`OwnersWritten` has the
arithmetic). `Founded` says the project starts with an owner; nothing is assumed of `Admins`. `InviteInv`: one join at a time holds the row of the
invite (`OneJoin`), has found it active, and is counted there. `DeskInv`: a published version that is not marked is its draft (`Clean`); what
names its incident is listed in its draft or excused (`FiledKept`); of what is rejected this holds of every draft (`RejectedKept`), without which
reopening would break `FiledKept`; a batch publishes its own publication only (`BatchedOnly`). That a late `Out` or `Attach` writes a draft it read
earlier does no harm to `Clean`, because it marks what it writes, and none to `FiledKept`, because `live` adds all that is filed by then.

**Only model-checked**: liveness (`QueuedIsDone`, `RestartsRecover`, `SitesForget`, `Delivered`, `Settles`, `DirectlyAddedIsFound`,
`EventuallyServed`, `ListAnswers`, `SiteCatchesUp`, `SendEnds`, `RefusedSignsOut`, `IncidentCatchesUp`), which is beyond the
prover (it has neither fairness nor `ENABLED`). Every safety property, action property and refinement that a run checks is a theorem.

## 13. Not modelled

Captures, formats, signatures and rendering are I/O or pure conversions and have no order of events of their own. Whole components
that are left out are listed in `PROJECT.json` with the reason: upkeep and health, evidence formats, geography and importer,
the patches to ArchiveBox, mirror and proxy, deployment, the prototype in `zip_extract/`. Within the modelled components: the
content of an item (title, tags), of a record (places are made coarser, media cleaned; `Board` has the city a generalised point is nearest
to) and of a submission; cases and archives in the outbox, which take the path of a memory without a file; topics and cases of the
map; paging of materials; the in-memory rate limiters but for the one limit of `Site`; the upload of one `.part` file by two
writers in the local store; `feedkeys.py` (keys change only by hand); the server's rules for completed and archived incidents;
`run_one` of external copies; nonces and signatures of the intake; pages of the console that only read.

## 14. Plan

In the order in which they matter:

1. *Done*: `CaptureQueue` with `CaptureLedger`, `Feed`, `Relay`, and the proofs about queue and relay.
2. *Done*: `Archives`, `Board`, `MapApp`, `Site`, `Forms` and `Console`, `Team` and `Publishing`, checked.
3. *Done*: every safety property that a run checks, for all the modules, with the refinements of `CaptureLedger` and `Handover`.
4. `Workspace` (`workspace.py`, `notify.py`): completed and archived incidents, custom attributes merged and written whole, who hears of
   what; with it the liveness of a notification.
5. `ExternalCopies` and `Upkeep`: jobs that a crash leaves open.
6. `Links` (`urls.py`, `resolve.py`), `Gate` (`gate.py`) and `Geo` (`geo.py`): pure operators against a reference definition over bounded
   inputs; `Links` also refines the one key per link of `CaptureQueue`.

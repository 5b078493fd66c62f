----------------------------- MODULE Publishing -----------------------------
(***************************************************************************)
(* The public version of an incident: its page (publish.js against         *)
(* publish.py), the triage page of a community submission that is filed    *)
(* under it (intake.js against intake.py), and the batch of memories that  *)
(* were public before (publicationsPanel).  The people are those of Team,  *)
(* whose role changes go on meanwhile.                                     *)
(*                                                                         *)
(* A draft is its text, as the number of the edit that wrote it, the parts *)
(* it lists (submissions filed under the incident) and those of them that  *)
(* are left out on purpose.  A PATCH sends all three from the form.        *)
(***************************************************************************)
EXTENDS Team

CONSTANT Parts   \* community submissions

VARIABLES
  pub,      \* the publication: state, draft, dirty, the published snapshot, version, request, batched
  batch,    \* the legacy batch: is it made, is it published
  sub,      \* submissions: state, and whether incident_id names this incident
  excused,  \* history: submissions that a filing on an older reading, or a rejection, has kept out of the draft
  pages,    \* the page each person has open: of the publication, as received and as typed
  triage,   \* the page each person has open of a submission: its state as received
  calls     \* what each person has asked of the server: at "sent", "read", "filing" or "out" (seen: the row it was given)

deskVars == <<pub, batch, sub, excused, pages, triage, calls>>
vars == <<teamVars, deskVars>>

Nobody == "nobody"
Idle == [op |-> "none", at |-> "none"]
NoDraft == [text |-> 0, listed |-> {}, left |-> {}]
ShownOf(d) == [text |-> d.text, parts |-> d.listed \ d.left]
Unpublished == [text |-> 0, parts |-> {}]

Init ==
  /\ TeamInit
  /\ pub = [state |-> "none", draft |-> NoDraft, dirty |-> TRUE,
            public |-> Unpublished, version |-> 0, request |-> Nobody, batched |-> FALSE]
  /\ batch = [made |-> FALSE, published |-> FALSE]
  /\ sub = [s \in Parts |-> [state |-> "new", here |-> FALSE]] /\ excused = {}
  /\ pages = [p \in People |-> NotDrawn] /\ triage = [p \in People |-> NotDrawn]
  /\ calls = [p \in People |-> Idle]

-----------------------------------------------------------------------------
(* The draft in step with what is filed *)

\* sync_notes: what is filed here and not rejected joins the draft; what is in it stays.
FiledIn(subs) == {s \in Parts : subs[s].here /\ subs[s].state # "rejected"}
Synced(d, subs) == [d EXCEPT !.listed = @ \cup FiledIn(subs)]

\* Mutant: the draft is brought up to date, the published version is not marked as changed.
LiveUnmarked(b, d, subs) == IF Synced(d, subs) = d THEN b ELSE [b EXCEPT !.draft = Synced(d, subs)]

\* live: the draft d that was read, brought up to date; if that changes it, it is written over the draft that is there.
Live(b, d, subs) ==
  IF Synced(d, subs) = d THEN b
  ELSE [b EXCEPT !.draft = Synced(d, subs), !.dirty = @ \/ b.state = "published"]

\* A submission filed here that was rejected while the draft did not list it: when it is reopened, it is filed here
\* again, and nobody brings the draft up to date.
Passed == {s \in Parts : sub[s].here /\ sub[s].state = "rejected" /\ s \notin pub.draft.listed}
Excuses(more) == excused' = excused \cup more \cup Passed'

-----------------------------------------------------------------------------
(* The page of the publication *)

\* start_incident_publication: a draft that lists no submission yet.  The page goes on to the publication's.
Start(p) ==
  /\ "publication" \in uses /\ pub.state = "none" /\ Rank(p) >= 3
  /\ ~pages[p].drawn /\ ~triage[p].drawn /\ calls[p] = Idle
  /\ pub' = [pub EXCEPT !.state = "draft"]
  /\ calls' = [calls EXCEPT ![p] = [op |-> "start", at |-> "out", role |-> Rank(p), seen |-> pub']]
  /\ UNCHANGED <<batch, sub, excused, pages, triage>>

\* _load: the row is read ...
OpenPublication(p) ==
  /\ "publication" \in uses \/ "batch" \in uses
  /\ pub.state # "none" /\ ~pages[p].drawn /\ ~triage[p].drawn /\ calls[p] = Idle /\ Rank(p) >= 2
  /\ calls' = [calls EXCEPT ![p] = [op |-> "open", at |-> "out", role |-> Rank(p), seen |-> pub]]
  /\ UNCHANGED <<pub, batch, sub, excused, pages, triage>>

\* ... and, as after every other request, _out runs live on the row that was read or RETURNed, in a transaction of its
\* own: it may write an older draft back.  The page shows that row, with the draft brought up to date; render() builds
\* the form anew.
Page(p, b, role) == [drawn |-> TRUE, pub |-> b, form |-> b.draft, editor |-> role >= 3, can |-> Entitled(p)]
Out(p) ==
  /\ calls[p].at = "out"
  /\ LET c == calls[p]
     IN  /\ pub' = Live(pub, c.seen.draft, sub)
         /\ pages' = IF c.op = "start" THEN pages
                     ELSE [pages EXCEPT ![p] = Page(p, [c.seen EXCEPT !.draft = Synced(c.seen.draft, sub)], c.role)]
  /\ calls' = [calls EXCEPT ![p] = Idle]
  /\ UNCHANGED <<batch, sub, triage>> /\ Excuses({})

Editable(p) == pages[p].drawn /\ pages[p].editor /\ pages[p].pub.state # "withdrawn"

TypeText(p) ==
  /\ Editable(p) /\ Act
  /\ pages' = [pages EXCEPT ![p].form.text = acts + 1]
  /\ UNCHANGED <<pub, batch, sub, excused, triage, calls>>

Tick(p, s) ==
  /\ Editable(p) /\ s \in pages[p].form.listed /\ Act
  /\ pages' = [pages EXCEPT ![p].form.left = IF s \in @ THEN @ \ {s} ELSE @ \cup {s}]
  /\ UNCHANGED <<pub, batch, sub, excused, triage, calls>>

\* Which buttons the page draws, from what it received: a member of a batch has none that publishes.
Pending(b) == b.state # "withdrawn" /\ (b.dirty \/ b.state = "draft") /\ ~b.batched
Offers(p, op) ==
  LET g == pages[p]
      b == g.pub
  IN  CASE op = "save" -> Editable(p)
        [] op = "approve" -> Pending(b) /\ g.can /\ b.request # p
        [] op = "request" -> Pending(b) /\ g.editor /\ b.request = Nobody
        [] op = "cancel" -> b.request = p \/ (b.request # Nobody /\ g.can)
        [] op = "withdraw" -> b.state = "published" /\ g.can
        [] op = "republish" -> b.state = "withdrawn" /\ g.editor

Click(p, op) ==
  /\ pages[p].drawn /\ calls[p] = Idle /\ Act /\ Offers(p, op)
  /\ calls' = [calls EXCEPT ![p] = [op |-> op, form |-> pages[p].form, at |-> "sent"]]
  /\ UNCHANGED <<pub, batch, sub, excused, pages, triage>>

\* askReview: its window asks whom and why, then sends the request.
AskReview(p) == Click(p, "request")

\* What the server asks for.
Permits(p, op, b) ==
  CASE op = "save" -> Rank(p) >= 3 /\ b.state # "withdrawn"
    [] op = "request" -> Rank(p) >= 3 /\ b.state # "withdrawn"
    [] op = "cancel" -> Rank(p) >= 3 /\ (b.request \in {p, Nobody} \/ Entitled(p))
    [] op = "withdraw" -> Rank(p) >= 2 /\ Entitled(p) /\ b.state = "published"
    [] op = "republish" -> Rank(p) >= 3 /\ b.state = "withdrawn"
    [] op = "approve" -> /\ Rank(p) >= 2 /\ Entitled(p) /\ b.request # p
                         /\ b.dirty \/ b.state # "published"
                         /\ ~(b.batched /\ b.state = "draft")

\* An error is a toast: the page stays as it is.
Refused(p) == calls' = [calls EXCEPT ![p] = Idle] /\ UNCHANGED <<pub, batch, sub, excused, pages, triage>>

Unlocked == {"save", "request", "cancel", "withdraw", "republish"}
OnPage == Unlocked \cup {"approve"}

\* _load and the checks, without a lock.
Read(p) ==
  /\ calls[p].op \in Unlocked /\ calls[p].at = "sent"
  /\ IF Permits(p, calls[p].op, pub)
       THEN /\ calls' = [calls EXCEPT ![p] = [op |-> calls[p].op, form |-> calls[p].form, at |-> "read", role |-> Rank(p)]]
            /\ UNCHANGED <<pub, batch, sub, excused, pages, triage>>
       ELSE Refused(p)

\* edit_publication, request_review, cancel_review, withdraw, republish: the UPDATE, on whatever the row is by then.
Written(p, c, b) ==
  CASE c.op = "save" -> [b EXCEPT !.draft = c.form, !.dirty = TRUE]
    [] c.op = "request" -> [b EXCEPT !.request = p]
    [] c.op = "cancel" -> [b EXCEPT !.request = Nobody]
    [] c.op = "withdraw" -> [b EXCEPT !.state = "withdrawn"]
    [] c.op = "republish" -> [b EXCEPT !.state = "draft", !.dirty = TRUE]

\* The commit; what the UPDATE has RETURNed goes to _out.
Answered(p, role) == calls' = [calls EXCEPT ![p] = [op |-> calls[p].op, at |-> "out", role |-> role, seen |-> pub']]
Write(p) ==
  /\ calls[p].op \in Unlocked /\ calls[p].at = "read"
  /\ pub' = Written(p, calls[p], pub)
  /\ Answered(p, calls[p].role)
  /\ UNCHANGED <<batch, sub, pages, triage>> /\ Excuses({})

\* _publish_now: what it was given, brought up to date, becomes public.
Published(b, d) ==
  [Live(b, d, sub) EXCEPT !.public = ShownOf(Synced(d, sub)), !.version = @ + 1, !.state = "published",
                          !.dirty = FALSE, !.request = Nobody]

\* approve: the row is locked from the checks to the end.
Approve(p) ==
  /\ calls[p].op = "approve" /\ calls[p].at = "sent"
  /\ IF Permits(p, "approve", pub)
       THEN /\ pub' = Published(pub, pub.draft)
            /\ Answered(p, Rank(p))
            /\ UNCHANGED <<batch, sub, excused, pages, triage>>
       ELSE Refused(p)

-----------------------------------------------------------------------------
(* The page of a submission *)

OpenSubmission(p, s) ==
  /\ "triage" \in uses /\ ~pages[p].drawn /\ ~triage[p].drawn /\ calls[p] = Idle /\ Rank(p) >= 2
  /\ triage' = [triage EXCEPT ![p] = [drawn |-> TRUE, s |-> s, state |-> sub[s].state, role |-> Rank(p)]]
  /\ UNCHANGED <<pub, batch, sub, excused, pages, calls>>

Reviews == {"attach", "create", "reject"}
ClickReview(p, op) ==
  /\ triage[p].drawn /\ calls[p] = Idle /\ Act
  /\ IF op \in Reviews THEN triage[p].state = "new" /\ triage[p].role >= 3
                       ELSE triage[p].state # "new" /\ triage[p].role >= 4
  /\ calls' = [calls EXCEPT ![p] = [op |-> op, s |-> triage[p].s, at |-> "sent"]]
  /\ UNCHANGED <<pub, batch, sub, excused, pages, triage>>

\* The state is read without a lock.
CheckNew(p) ==
  /\ calls[p].op \in Reviews /\ calls[p].at = "sent"
  /\ IF Rank(p) >= 3 /\ sub[calls[p].s].state = "new"
       THEN calls' = [calls EXCEPT ![p].at = "read"] /\ UNCHANGED <<pub, batch, sub, excused, pages, triage>>
       ELSE Refused(p)

Filing == {p \in People : calls[p].op = "attach" /\ calls[p].at = "filing"}
Free(s) == \A q \in Filing : calls[q].s # s

\* _attach up to refresh_for_incidents: it holds the incident's row and the submission's, and has read the publication.
File(p) ==
  /\ calls[p].op = "attach" /\ calls[p].at = "read" /\ Filing = {}
  /\ calls' = [calls EXCEPT ![p] = [op |-> "attach", s |-> calls[p].s, at |-> "filing", seen |-> pub]]
  /\ UNCHANGED <<pub, batch, sub, excused, pages, triage>>

Reviewed(p, s, state, here) ==
  /\ sub' = [sub EXCEPT ![s] = [state |-> state, here |-> here]]
  /\ triage' = [triage EXCEPT ![p].state = state]
  /\ calls' = [calls EXCEPT ![p] = Idle]
  /\ UNCHANGED <<batch, pages>>

\* refresh_for_incidents has found a publication to bring up to date.
Found(b) == b.state \notin {"none", "withdrawn"}
\* The commit: the submission is filed, the draft that was read is written with it.  It is kept out if there was nothing
\* to write to by then and now there is, or if what was read listed it already and the draft does not any more.
Attach(p) ==
  /\ p \in Filing
  /\ LET c == calls[p]
     IN  /\ Reviewed(p, c.s, "attached", TRUE)
         /\ pub' = IF Found(c.seen) THEN Live(pub, c.seen.draft, sub') ELSE pub
         /\ Excuses(IF Found(c.seen) \/ pub.state # c.seen.state THEN {c.s} \ pub'.draft.listed ELSE {})

\* create_from files it under an incident of its own, reject leaves the incident it had.
CreateOrReject(p) ==
  /\ calls[p].op \in {"create", "reject"} /\ calls[p].at = "read" /\ Free(calls[p].s)
  /\ LET s == calls[p].s
     IN  IF calls[p].op = "create" THEN Reviewed(p, s, "created", FALSE) ELSE Reviewed(p, s, "rejected", sub[s].here)
  /\ UNCHANGED pub /\ Excuses({})

\* One statement: back to new, the incident stays.
Reopen(p) ==
  /\ calls[p].op = "reopen" /\ Free(calls[p].s)
  /\ IF Rank(p) >= 4 THEN Reviewed(p, calls[p].s, "new", sub[calls[p].s].here) /\ UNCHANGED <<pub, excused>> ELSE Refused(p)

Leave(p) ==
  /\ calls[p] = Idle /\ (pages[p].drawn \/ triage[p].drawn)
  /\ pages' = [pages EXCEPT ![p] = NotDrawn] /\ triage' = [triage EXCEPT ![p] = NotDrawn]
  /\ UNCHANGED <<pub, batch, sub, excused, calls>>

-----------------------------------------------------------------------------
(* The batch of memories that were public before; one of them is followed *)

MakeBatch(p) ==
  /\ "batch" \in uses /\ pub.state = "none" /\ Rank(p) >= 3
  /\ pub' = [pub EXCEPT !.state = "draft", !.batched = TRUE]
  /\ batch' = [batch EXCEPT !.made = TRUE]
  /\ UNCHANGED <<sub, excused, pages, triage, calls>>

\* approve_batch: the batch's row is locked, the drafts are read without a lock ...
ReadBatch(p) ==
  /\ batch.made /\ ~batch.published /\ calls[p] = Idle /\ Act /\ Rank(p) >= 2 /\ Entitled(p)
  /\ \A q \in People : calls[q].op # "batch"
  /\ calls' = [calls EXCEPT ![p] = [op |-> "batch", at |-> "read", seen |-> pub]]
  /\ UNCHANGED <<pub, batch, sub, excused, pages, triage>>

\* ... and published one by one as they were read.
PublishBatch(p) ==
  /\ calls[p].op = "batch" /\ calls[p].at = "read"
  /\ pub' = IF calls[p].seen.state = "draft" THEN Published(pub, calls[p].seen.draft) ELSE pub
  /\ batch' = [batch EXCEPT !.published = TRUE]
  /\ calls' = [calls EXCEPT ![p] = Idle]
  /\ UNCHANGED <<sub, pages, triage>> /\ Excuses({})

-----------------------------------------------------------------------------

Clicks(p) ==
  \/ TypeText(p) \/ AskReview(p) \/ ReadBatch(p)
  \/ \E s \in Parts : Tick(p, s)
  \/ \E op \in OnPage \ {"request"} : Click(p, op)
  \/ \E op \in Reviews \cup {"reopen"} : ClickReview(p, op)

Works(p) ==
  \/ Start(p) \/ OpenPublication(p) \/ Out(p) \/ Leave(p)
  \/ \E s \in Parts : OpenSubmission(p, s)
  \/ Read(p) \/ Write(p) \/ Approve(p)
  \/ CheckNew(p) \/ File(p) \/ Attach(p) \/ CreateOrReject(p) \/ Reopen(p)
  \/ MakeBatch(p) \/ PublishBatch(p)

DeskNext ==
  /\ \E p \in Working : Clicks(p) \/ (Works(p) /\ UNCHANGED acts)
  /\ UNCHANGED <<uses, accessVars, settings, manage, csv, sources>>

Next == (TeamNext /\ UNCHANGED deskVars) \/ DeskNext

Spec == Init /\ [][Next]_vars

-----------------------------------------------------------------------------
(* What holds *)

Drafts == [text : Nat, listed : SUBSET Parts, left : SUBSET Parts]
Publications ==
  [state : {"none", "draft", "published", "withdrawn"}, draft : Drafts, dirty : BOOLEAN,
   public : [text : Nat, parts : SUBSET Parts], version : Nat, request : People \cup {Nobody}, batched : BOOLEAN]
Submissions == [state : {"new", "attached", "created", "rejected"}, here : BOOLEAN]
Pages == {NotDrawn} \cup [drawn : {TRUE}, pub : Publications, form : Drafts, editor : BOOLEAN, can : BOOLEAN]
Triages == {NotDrawn} \cup [drawn : {TRUE}, s : Parts, state : {"new", "attached", "created", "rejected"}, role : 0 .. 5]
Calls ==
  {Idle} \cup [op : OnPage, form : Drafts, at : {"sent"}]
         \cup [op : Unlocked, form : Drafts, at : {"read"}, role : 0 .. 5]
         \cup [op : OnPage \cup {"open", "start"}, at : {"out"}, role : 0 .. 5, seen : Publications]
         \cup [op : Reviews \cup {"reopen"}, s : Parts, at : {"sent", "read"}]
         \cup [op : {"attach"}, s : Parts, at : {"filing"}, seen : Publications]
         \cup [op : {"batch"}, at : {"read"}, seen : Publications]

TypeOK ==
  /\ TeamTypeOK
  /\ pub \in Publications /\ batch \in [made : BOOLEAN, published : BOOLEAN]
  /\ sub \in [Parts -> Submissions] /\ excused \subseteq Parts
  /\ pages \in [People -> Pages] /\ triage \in [People -> Triages]
  /\ calls \in [People -> Calls]

\* A published version without the mark "unpublished changes" is its draft, and nothing that is filed under the
\* incident is missing from that draft, but what a filing has kept out that had read the publication as it was no more,
\* and what was rejected while the draft did not list it: whatever edits, filings, approvals, withdrawals and late
\* writes of an older draft overlap. (live, _publish_now)
CleanIsPublic ==
  pub.state = "published" /\ ~pub.dirty /\ ~pub.batched =>
    pub.public = ShownOf(pub.draft) /\ FiledIn(sub) \ excused \subseteq pub.draft.listed

-----------------------------------------------------------------------------
(* What a text of the code says and the code does not do *)

\* live: "a submission added later joins the public version", and a published version is marked then.
NothingFiledIsMissing == pub.state = "published" /\ ~pub.dirty => FiledIn(sub) \subseteq pub.draft.listed

\* "Back to draft after a withdrawal; it needs an approval again": not before it is back to draft.
WithdrawnStaysOut == [][pub.state = "withdrawn" => pub'.state # "published"]_vars

\* What is published stays so until it is withdrawn.
PublishedTillWithdrawn == [][pub.state = "published" => pub'.state # "draft"]_vars

\* The preview is "exactly what will be published": what is approved is what the approver's page shows.
ApprovedAsSeen ==
  [][\A p \in People : pub'.version # pub.version /\ calls[p].op = "approve" /\ calls'[p].at = "out" =>
       pub'.public = ShownOf(pages[p].pub.draft)]_vars

\* "Unless someone left it out on purpose": a part comes back only by somebody whose page showed it as left out.
LeftOutStaysOut ==
  [][\A s \in pub.draft.left \ pub'.draft.left :
       \E p \in People : calls[p].op = "save" /\ s \in pages[p].pub.draft.left]_vars

\* Filing a submission does not undo a saved edit.
FilingKeepsEdits == [][sub' # sub => pub'.draft.text = pub.draft.text]_vars

\* A rejected submission is not in the next version.
RejectedIsNotPublished ==
  [][\A s \in Parts : pub'.version # pub.version /\ sub[s].state = "rejected" => s \notin pub'.public.parts]_vars

\* "This submission was already reviewed": one review until it is reopened.
ReviewedOnce ==
  [][\A s \in Parts : sub'[s] # sub[s] => sub[s].state = "new" \/ sub'[s].state = "new"]_vars

\* "Nothing new to approve: the current draft is what is published", in a batch too.
CleanBatchIsPublic == pub.state = "published" /\ ~pub.dirty => pub.public = ShownOf(pub.draft)

\* The draft of a member of a batch can still be published.
BatchedCanBePublished == pub.batched /\ pub.state # "withdrawn" /\ pub.dirty => Pending(pub) \/ ~batch.published
=============================================================================

------------------------------ MODULE Console ------------------------------
(***************************************************************************)
(* The team's web interface (capture/memlane_capture/web/js): signing in,  *)
(* the hash router with its timers and windows (main.js, core.js), the     *)
(* incident page (incidents.js) and the page of a saved link (item.js),    *)
(* each against the server it polls.  The forms on them are in Forms.tla.  *)
(*                                                                         *)
(* One tab.  Every call is asynchronous: while it is under way the person  *)
(* goes on, and answers come in any order.  What is drawn is abstracted to *)
(* the version of the data that it was drawn from.                         *)
(***************************************************************************)
EXTENDS Forms

CONSTANTS
  MaxVisits,    \* bound: pages visited
  MaxRefused,   \* bound: refused calls in flight
  MaxChanges    \* bound: versions of the incident

ASSUME ConsoleAssumption == {MaxRefused, MaxChanges} \subseteq Nat \ {0} /\ MaxVisits \in Nat

VARIABLES
  session,   \* state.token, state.me, the bell's timer; connecting: /v1/me is asked; valid: the server takes the token
  refused,   \* calls in flight that the server answers with 401
  visits,    \* the navigations so far; its length is state.routeSeq
  view,      \* the navigation whose container is in #view; 0: empty
  polls,     \* timers: of: the page that started it, seq: the routeSeq at that moment
  opening,   \* windows being prepared, by the page they belong to
  windows,   \* windows over the page
  keys,      \* windows whose key listener is on the document
  incident,  \* the incident on the server: version, and whether this person follows it
  page,      \* the incident page: inc as held, key, what is shown of it
  answers,   \* its GETs in flight: what they have read, and whether it is drawn in any case
  fetching,  \* its loadDetails in flight
  toggle,    \* the follow button: what was asked for and how far that is
  comment,   \* the comment box: what is in it, who is offered after "@"
  job,       \* on the server: the last capture of a link, its state, and that of its copy at the Internet Archive
  item,      \* the page of the link: item as held, key, what is shown
  asked,     \* its GETs in flight
  renders,   \* its render() calls that wait for a picker or suggestions
  sending    \* "Send to the Internet Archive": how far, and whether item is still the object it was clicked on

screen == <<visits, view, polls, opening, windows, keys>>
router == <<session, refused, screen>>
incidentSide == <<incident, page, answers, fetching, toggle, comment>>
itemSide == <<job, item, asked, renders, sending>>
others == <<formVars, incidentSide, itemSide>>
vars == <<uses, lost, formVars, router, incidentSide, itemSide>>

\* Pages that ask once, pages with a poll, and the admin page, which watches a canary run.
Fetched == {"incidents", "new", "projects", "notifications", "intake", "publication", "invite"}
Polled == {"inbox", "incident", "item"}
Watched == {"admin"}
Pages == Fetched \cup Polled \cup Watched

seq == Len(visits)
Accepted == session.token = "held" /\ session.valid
\* An invite is read without a token; any other page is refused without a good one.
Visit(p) == [page |-> p, at |-> "waiting", may |-> Accepted \/ p = "invite"]

\* The comment box as render makes it.
EmptyBox == [text |-> "none", people |-> "unasked"]

Init ==
  /\ FormsInit
  /\ session = [token |-> "none", me |-> FALSE, bell |-> FALSE, connecting |-> FALSE, valid |-> TRUE]
  /\ refused = 0 /\ visits = <<>> /\ view = 0 /\ polls = {}
  /\ opening = {} /\ windows = {} /\ keys = {}
  /\ incident = [v |-> 1, follows |-> FALSE]
  /\ page = [inc |-> incident, key |-> 1, details |-> 1, shown |-> [v |-> 1, follows |-> FALSE, details |-> 1]]
  /\ answers = {} /\ fetching = 0 /\ toggle = [to |-> FALSE, at |-> "no"]
  /\ comment = EmptyBox
  /\ job = [n |-> 1, st |-> "queued", copy |-> "none"]
  /\ item = [held |-> job, key |-> job, shown |-> job]
  /\ asked = {} /\ renders = {} /\ sending = [at |-> "no", same |-> TRUE]

-----------------------------------------------------------------------------
(* Signing in and out *)

\* api: only the answers that matter here are counted, the 401s; which token they were sent with is forgotten.
Call == refused' = IF Accepted \/ refused = MaxRefused THEN refused ELSE refused + 1

\* Mutant: the cleanups of the page that is left are not run.
RouteKeepsTimers(p) ==
  /\ seq < MaxVisits
  /\ visits' = Append(visits, Visit(p)) /\ view' = seq + 1
  /\ windows' = {} /\ UNCHANGED polls

\* route: the timers and windows of the page that is left go, the next page gets a container of its own.
Route(p) ==
  /\ seq < MaxVisits
  /\ visits' = Append(visits, Visit(p)) /\ view' = seq + 1
  /\ polls' = {} /\ windows' = {}

\* The page the address names.
Here == IF seq = 0 THEN CHOOSE p \in uses : p \in Pages ELSE visits[seq].page

\* logout: by its button or by any 401. The timers of the page stay; an invite is drawn again for a guest.
SignOut ==
  /\ session' = [session EXCEPT !.token = "none", !.me = FALSE, !.bell = FALSE]
  /\ IF Here = "invite" /\ seq < MaxVisits
       THEN Route("invite")
       ELSE view' = 0 /\ UNCHANGED <<visits, polls, windows>>
  /\ UNCHANGED <<opening, keys>>

LogOut ==
  /\ session.me
  /\ SignOut
  /\ UNCHANGED <<uses, refused, others, lost>>

\* connect, from the form or with the stored token: the token counts before the server was asked about it.
Connect ==
  /\ "sign_in" \in uses /\ ~session.me /\ ~session.connecting
  /\ \E ok \in BOOLEAN :
       session' = [session EXCEPT !.token = "held", !.connecting = TRUE, !.valid = ok]
  /\ UNCHANGED <<uses, lost, refused, screen, others>>

\* Mutant: the bell's timer is not started.
ConnectedSilently ==
  /\ session.connecting /\ session.valid
  /\ session' = [session EXCEPT !.connecting = FALSE, !.me = TRUE]
  /\ Route(Here) /\ Call
  /\ UNCHANGED <<uses, opening, keys, others, lost>>

\* /v1/me is answered: the page the address names is drawn and the bell rings from now on.
Connected ==
  /\ session.connecting /\ session.valid
  /\ session' = [session EXCEPT !.connecting = FALSE, !.me = TRUE, !.bell = TRUE]
  /\ Route(Here) /\ Call
  /\ UNCHANGED <<uses, opening, keys, others, lost>>

\* Refused, or no answer.
NotConnected ==
  /\ session.connecting
  /\ session' = [session EXCEPT !.connecting = FALSE, !.token = "none"]
  /\ UNCHANGED <<uses, lost, refused, screen, others>>

\* An admin revokes the token.
Revoke ==
  /\ "sign_in" \in uses /\ session.me /\ session.valid
  /\ session' = [session EXCEPT !.valid = FALSE]
  /\ UNCHANGED <<uses, lost, refused, screen, others>>

Refused ==
  /\ refused > 0
  /\ refused' = refused - 1
  /\ SignOut
  /\ UNCHANGED <<uses, others, lost>>

\* refreshBell, every 30 seconds.
Bell ==
  /\ session.bell /\ Call
  /\ UNCHANGED <<uses, session, screen, others, lost>>

-----------------------------------------------------------------------------
(* Pages, timers and windows *)

\* A link, a filter or the back button. Without an account only an invite is drawn.
Go(p) ==
  /\ p \in uses \cap Pages
  /\ session.me \/ p = "invite"
  /\ Route(p) /\ Call
  /\ UNCHANGED <<uses, session, opening, keys, others, lost>>

\* What the page waited for came. Its timer belongs to the page that is current by now, and so does its cleanup.
Arrives(n) ==
  /\ visits[n].at = "waiting" /\ visits[n].may
  /\ visits' = [visits EXCEPT ![n].at = "drawn"]
  /\ polls' = polls \cup IF visits[n].page \in Polled \cup Watched THEN {[of |-> n, seq |-> seq]} ELSE {}
  /\ UNCHANGED <<uses, session, refused, view, opening, windows, keys, others, lost>>

\* An error is drawn in the page's own container, and only while that is shown.
Fails(n) ==
  /\ visits[n].at = "waiting"
  /\ IF visits[n].may THEN Lose ELSE UNCHANGED lost
  /\ visits' = [visits EXCEPT ![n].at = IF n = seq THEN "error" ELSE "left"]
  /\ UNCHANGED <<uses, session, refused, view, polls, opening, windows, keys, others>>

\* poll: the timer of a page that was left clears itself (the cleanups have done that before), every other one asks.
Tick(t) ==
  /\ t \in polls
  /\ IF t.seq # seq THEN polls' = polls \ {t} /\ UNCHANGED refused ELSE Call /\ UNCHANGED polls
  /\ UNCHANGED <<uses, session, visits, view, opening, windows, keys, others, lost>>

\* watch: the run is over, or one answer failed.
WatchEnds(t) ==
  /\ t \in polls /\ visits[t.of].page \in Watched
  /\ polls' = polls \ {t}
  /\ UNCHANGED <<uses, session, refused, visits, view, opening, windows, keys, others, lost>>

\* openUpdate, addMaterial, the save sheet: a window that is filled before it is shown.
Prepare ==
  /\ "window" \in uses /\ view > 0 /\ visits[view].at = "drawn"
  /\ opening' = opening \cup {view}
  /\ UNCHANGED <<uses, session, refused, visits, view, polls, windows, keys, others, lost>>

\* modal: over whatever page is shown by then.
Opens(n) ==
  /\ n \in opening
  /\ opening' = opening \ {n} /\ windows' = windows \cup {n} /\ keys' = keys \cup {n}
  /\ UNCHANGED <<uses, session, refused, visits, view, polls, others, lost>>

\* openViewer, the tour: at once.
OpenViewer ==
  /\ "window" \in uses /\ view > 0 /\ visits[view].at = "drawn"
  /\ windows' = windows \cup {view} /\ keys' = keys \cup {view}
  /\ UNCHANGED <<uses, session, refused, visits, view, polls, opening, others, lost>>

\* close: the button, a click beside it or Escape.
Close(n) ==
  /\ n \in keys
  /\ windows' = windows \ {n} /\ keys' = keys \ {n}
  /\ UNCHANGED <<uses, session, refused, visits, view, polls, opening, others, lost>>

-----------------------------------------------------------------------------
(* An incident page that is left open *)

\* Somebody changes the incident, files material in it, or a capture of its material ends.
Change ==
  /\ "incident_open" \in uses /\ incident.v < MaxChanges
  /\ incident' = [incident EXCEPT !.v = @ + 1]
  /\ UNCHANGED <<uses, router, page, answers, fetching, toggle, comment, itemSide, formVars, lost>>

\* reload, by the timer of the page.
Ask ==
  /\ "incident_open" \in uses /\ Cardinality(answers) < MaxAnswers
  /\ answers' = answers \cup {[inc |-> incident, force |-> FALSE]}
  /\ UNCHANGED <<uses, router, incident, page, fetching, toggle, comment, itemSide, formVars, lost>>

\* Mutant: an answer that is older than what is drawn is held all the same, but not drawn.
HeardNewer(a) ==
  /\ a \in answers
  /\ fetching < MaxAnswers
  /\ answers' = answers \ {a}
  /\ page' = [page EXCEPT !.inc = a.inc]
  /\ fetching' = IF a.force \/ a.inc.v > page.key THEN fetching + 1 ELSE fetching
  /\ UNCHANGED <<uses, router, incident, toggle, comment, itemSide, formVars, lost>>

\* The answer is held at once, and drawn, after loadDetails, if its key is another one or the person did something.
Heard(a) ==
  /\ a \in answers
  /\ fetching < MaxAnswers
  /\ answers' = answers \ {a}
  /\ page' = [page EXCEPT !.inc = a.inc]
  /\ fetching' = IF a.force \/ a.inc.v # page.key THEN fetching + 1 ELSE fetching
  /\ UNCHANGED <<uses, router, incident, toggle, comment, itemSide, formVars, lost>>

NotHeard(a) ==
  /\ a \in answers /\ Lose
  /\ answers' = answers \ {a}
  /\ UNCHANGED <<uses, router, incident, page, fetching, toggle, comment, itemSide, formVars>>

\* Mutant: the key is the one of the answer that was not drawn yet.
DrawnLate(p, d) == [p EXCEPT !.key = p.inc.v, !.details = d]

\* render: from inc as it is by now; the key is that of what was drawn.
Drawn(p, d) == [p EXCEPT !.key = p.inc.v, !.details = d,
                         !.shown = [v |-> p.inc.v, follows |-> p.inc.follows, details |-> d]]

\* loadDetails, then render with a new comment box. A detail that fails is left out until the next change.
Details ==
  /\ fetching > 0
  /\ fetching' = fetching - 1 /\ comment' = EmptyBox
  /\ \/ page' = Drawn(page, page.inc.v) /\ UNCHANGED lost
     \/ page' = Drawn(page, page.details) /\ Lose
  /\ UNCHANGED <<uses, router, incident, answers, toggle, itemSide, formVars>>

\* The follow button: what it asks for is the opposite of what is held.
Follow ==
  /\ "follow" \in uses /\ toggle.at = "no"
  /\ toggle' = [to |-> ~page.inc.follows, at |-> "asked"]
  /\ UNCHANGED <<uses, router, incident, page, answers, fetching, comment, itemSide, formVars, lost>>

Followed ==
  /\ toggle.at = "asked"
  /\ incident' = [incident EXCEPT !.follows = toggle.to]
  /\ toggle' = [toggle EXCEPT !.at = "answered"]
  /\ UNCHANGED <<uses, router, page, answers, fetching, comment, itemSide, formVars, lost>>

\* What is held by then is turned around, and drawn.
FollowShown ==
  /\ toggle.at = "answered"
  /\ toggle' = [toggle EXCEPT !.at = "done"]
  /\ LET p == [page EXCEPT !.inc.follows = ~@] IN page' = Drawn(p, p.details)
  /\ comment' = EmptyBox
  /\ UNCHANGED <<uses, router, incident, answers, fetching, itemSide, formVars, lost>>

Write ==
  /\ "comment" \in uses /\ comment.text = "none"
  /\ comment' = [comment EXCEPT !.text = "typed"]
  /\ UNCHANGED <<uses, router, incident, page, answers, fetching, toggle, itemSide, formVars, lost>>

\* mentionAssist: the people of the project are asked for once; after an error this box offers nobody.
Mention ==
  /\ comment.text = "typed" /\ comment.people = "unasked"
  /\ \/ comment' = [comment EXCEPT !.people = "offered"] /\ UNCHANGED lost
     \/ comment' = [comment EXCEPT !.people = "nobody"] /\ Lose
  /\ UNCHANGED <<uses, router, incident, page, answers, fetching, toggle, itemSide, formVars>>

\* The comment is posted and the page asked for; what is in the box stays there, to be posted again, until it is drawn.
Comment ==
  /\ comment.text # "none" /\ incident.v < MaxChanges /\ Cardinality(answers) < MaxAnswers
  /\ comment' = [comment EXCEPT !.text = "sent"]
  /\ incident' = [incident EXCEPT !.v = @ + 1]
  /\ answers' = answers \cup {[inc |-> incident', force |-> TRUE]}
  /\ UNCHANGED <<uses, router, page, fetching, toggle, itemSide, formVars, lost>>

-----------------------------------------------------------------------------
(* The page of a link while it is captured and copied *)

Busy(i) == i.st \in {"queued", "capturing"} \/ i.copy = "queued"

\* The worker takes the capture and ends it; the copy is made after it was asked for.
Works ==
  /\ "item_open" \in uses
  /\ \/ job.st = "queued" /\ job' = [job EXCEPT !.st = "capturing"]
     \/ job.st = "capturing" /\ job' = [job EXCEPT !.st = "done"]
     \/ job.copy = "queued" /\ job' = [job EXCEPT !.copy = "done"]
  /\ UNCHANGED <<uses, router, incidentSide, item, asked, renders, sending, formVars, lost>>

AskItem ==
  /\ "item_open" \in uses /\ Busy(item.held) /\ Cardinality(asked) < MaxAnswers
  /\ asked' = asked \cup {[held |-> job, force |-> FALSE]}
  /\ UNCHANGED <<uses, router, incidentSide, job, item, renders, sending, formVars, lost>>

\* Held at once, as a new object; render takes the captures as they are and then waits for a picker and suggestions.
HeardItem(a) ==
  /\ a \in asked /\ Cardinality(renders) < MaxAnswers
  /\ asked' = asked \ {a}
  /\ item' = [item EXCEPT !.held = a.held] /\ sending' = [sending EXCEPT !.same = FALSE]
  /\ renders' = IF a.force \/ a.held # item.key THEN renders \cup {a.held} ELSE renders
  /\ UNCHANGED <<uses, router, incidentSide, job, formVars, lost>>

NotHeardItem(a) ==
  /\ a \in asked /\ Lose
  /\ asked' = asked \ {a}
  /\ UNCHANGED <<uses, router, incidentSide, job, item, renders, sending, formVars>>

\* The rest of render: the captures it took are mounted, with the copy and the key of what is held by now.
Mounted(r) ==
  /\ r \in renders
  /\ renders' = renders \ {r}
  /\ item' = [item EXCEPT !.shown = [r EXCEPT !.copy = item.held.copy], !.key = item.held]
  /\ UNCHANGED <<uses, router, incidentSide, job, asked, sending, formVars, lost>>

\* Capture again: the button of a page that shows no capture under way.
Recapture ==
  /\ "recapture" \in uses /\ item.shown.st = "done" /\ job.n = 1 /\ job.st = "done"
  /\ job' = [job EXCEPT !.n = 2, !.st = "queued"]
  /\ asked' = asked \cup {[held |-> job', force |-> TRUE]}
  /\ UNCHANGED <<uses, router, incidentSide, item, renders, sending, formVars, lost>>

\* waybackBlock: the button of a page that shows no copy under way; the item it will write on is the one of now.
SendCopy ==
  /\ "copy" \in uses /\ sending.at = "no" /\ item.shown.copy # "queued"
  /\ sending' = [at |-> "asked", same |-> TRUE]
  /\ UNCHANGED <<uses, router, incidentSide, job, item, asked, renders, formVars, lost>>

CopyQueued ==
  /\ sending.at = "asked"
  /\ job' = [job EXCEPT !.copy = "queued"] /\ sending' = [sending EXCEPT !.at = "answered"]
  /\ UNCHANGED <<uses, router, incidentSide, item, asked, renders, formVars, lost>>

\* The answer is written on that item, even if another one is held by now; what is held is drawn.
CopyHeard ==
  /\ sending.at = "answered"
  /\ sending' = [sending EXCEPT !.at = "done"]
  /\ item' = IF sending.same THEN [item EXCEPT !.held.copy = "queued"] ELSE item
  /\ renders' = renders \cup {item'.held}
  /\ UNCHANGED <<uses, router, incidentSide, job, asked, formVars, lost>>

-----------------------------------------------------------------------------
Next ==
  \/ Connect \/ Connected \/ NotConnected \/ LogOut \/ Revoke \/ Refused \/ Bell
  \/ \E p \in Pages : Go(p)
  \/ \E n \in 1 .. seq : Arrives(n) \/ Fails(n) \/ Opens(n) \/ Close(n)
  \/ \E t \in polls : Tick(t) \/ WatchEnds(t)
  \/ Prepare \/ OpenViewer
  \/ Change \/ Ask \/ Details \/ Follow \/ Followed \/ FollowShown \/ Write \/ Mention \/ Comment
  \/ \E a \in answers : Heard(a) \/ NotHeard(a)
  \/ Works \/ AskItem \/ Recapture \/ SendCopy \/ CopyQueued \/ CopyHeard
  \/ \E a \in asked : HeardItem(a) \/ NotHeardItem(a)
  \/ \E r \in renders : Mounted(r)
  \/ FormsNext /\ UNCHANGED <<router, incidentSide, itemSide>>

Spec == Init /\ [][Next]_vars

\* Timers fire, what is in flight is answered in the end, and whoever adds material presses "Save" again.
FairSpec ==
  /\ Spec /\ WF_vars(Bell) /\ WF_vars(Refused)
  /\ WF_vars(Ask) /\ WF_vars(Details) /\ WF_vars(\E a \in answers : Heard(a))
  /\ WF_vars(Works) /\ WF_vars(AskItem)
  /\ WF_vars(\E a \in asked : HeardItem(a)) /\ WF_vars(\E r \in renders : Mounted(r))
  /\ WF_vars(Followed) /\ WF_vars(FollowShown) /\ WF_vars(CopyQueued) /\ WF_vars(CopyHeard)
  /\ WF_vars(AddNext /\ UNCHANGED <<router, incidentSide, itemSide>>)

-----------------------------------------------------------------------------
(* What holds *)

TypeOK ==
  /\ FormsTypeOK
  /\ refused \in 0 .. MaxRefused
  /\ view \in 0 .. seq /\ seq <= MaxVisits
  /\ \A t \in polls : t.of <= t.seq /\ t.seq <= seq
  /\ windows \subseteq keys /\ keys \cup opening \subseteq 1 .. seq
  /\ page.key <= MaxChanges /\ fetching \in 0 .. MaxAnswers

\* However late a page ends loading, its timer ends with the next navigation: none runs on behind the pages of
\* later visits (core.js onLeave, poll; main.js route).
PollsAreCurrent == \A t \in polls : t.seq = seq

\* Once nothing is being loaded for it, an incident page shows the version it holds: what it holds is what its
\* buttons change and send, whichever of its answers overtook another and whatever was drawn while the details of
\* one of them were still being fetched (incidents.js key, reload, loadDetails, render).
ShownIsHeld == fetching = 0 => page.shown.v = page.inc.v

\* Whoever is shown as signed in while the server refuses their calls is signed out without doing anything, on
\* pages that poll and on pages that do not (core.js api, main.js connect, logout).
RefusedSignsOut == session.me /\ ~Accepted ~> ~session.me \/ Accepted

\* An incident page that is left open comes to show the last version, although polls overlap, fail and are
\* answered late, and this person's own changes are drawn in between (incidents.js reload, render).
IncidentCatchesUp == <>[](page.shown.v = incident.v)

-----------------------------------------------------------------------------
(* What the code does not keep *)

\* core.js:700-701: a poll of a page that finishes late "stops itself instead of running forever".
OnlyShownPolls == \A t \in polls : t.of = seq

\* Signed in: there is a token to send.
SignedInHasToken == session.me => session.token = "held"

\* A window belongs to the page under it; its keys end with it.
WindowOfThePage == windows \subseteq {seq}
KeysOfOpenWindows == keys \subseteq windows

\* The files of the material come to be shown.
DetailsShown == <>[](page.shown.details = incident.v)

\* The follow button comes to say what the server holds.
FollowIsTrue == <>[](page.shown.follows = incident.follows)

\* A comment that is being typed stays in its box.
CommentIsKept == [][comment.text = "typed" => comment'.text # "none"]_comment

\* item.js:52, 127, 148: the page of a link comes to show the end of its capture.
ItemSettles == uses = {"item_open"} => <>[](item.shown = job)

\* item.js:141, 151: a copy that was asked for is polled for.
CopyFollowed == "copy" \in uses => <>[](item.held.copy = job.copy)
=============================================================================

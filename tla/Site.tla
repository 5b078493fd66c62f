-------------------------------- MODULE Site --------------------------------
(***************************************************************************)
(* Ho so Nhan quyen (hosonhanquyen/): a public site without a database.    *)
(* Its server keeps the last copy of the hub's feed it verified and        *)
(* forwards what visitors send (server.js, lib/hub-client.js); its pages   *)
(* are drawn in the browser (public/app.js).  One visitor, one browser     *)
(* tab; the hub is what its Intake API and its feed let the site see.      *)
(*                                                                         *)
(* A generation of the feed is a number; how it is built, signed and read  *)
(* record by record is Feed's.  What a page looks like is left out.        *)
(***************************************************************************)
EXTENDS Naturals, FiniteSets

CONSTANTS
  Cases,       \* published cases
  CasesOf,     \* CasesOf[g]: the cases in generation g of the feed; 0: before the first
  Subs,        \* submissions this visitor makes; each has its external id and its receipt
  Limit,       \* POSTs of one visitor that are let through in an hour (10)
  Sessions,    \* bound: what happens in one session
  MaxGen,      \* bound: generations of the feed
  MaxLoads,    \* bound: equal requests in flight
  NoSub

ASSUME SiteAssumption ==
  /\ CasesOf \in [0 .. MaxGen -> SUBSET Cases] /\ CasesOf[0] = {}
  /\ {Limit, MaxGen, MaxLoads} \subseteq Nat /\ MaxLoads > 0
  /\ NoSub \notin Subs

VARIABLES
  uses,      \* what this session is made of
  feed,      \* generation of the hub's feed
  site,      \* state: the generation served
  loads,     \* loads[g]: refreshes in flight, which have read generation g
  hits,      \* hits[k] of this visitor and the path of the form, in this hour
  hub,       \* hub[s]: what the hub holds of a submission
  request,   \* request[s]: where its POST is
  shown,     \* what #main shows
  form,      \* the form in it, or NoForm
  first,     \* first[p]: pages of that kind waiting for their first answer
  details,   \* details[p][g]: pages that have the list of generation g and ask for each case
  checks,    \* checks[s]: receipts being checked by the receipt page that is shown
  answer     \* what it says

server == <<site, loads, hits>>
browser == <<shown, form, first, details, checks, answer>>
siteVars == <<uses, feed, server, hub, request, browser>>

\* Pages drawn at once (a report's form, the receipts), after one answer (a case, the evidence, the form for
\* documents, how it works), and in two steps: the list of cases, then each of them (home, the map).
Plain == {"report", "receipts"}
Fetched == {"case", "evidence", "submit", "how"}
Listed == {"home", "map"}
Pages == Plain \cup Fetched \cup Listed
Forms == {"report", "submit"}

\* at: also what is written under the form after an error; of: what was sent last.
NoForm == [at |-> "empty", file |-> FALSE, of |-> NoSub]
Page(p) == [page |-> p, of |-> NoSub]
NoAnswer == [said |-> "nothing", of |-> NoSub]
NotSent == [at |-> "none", file |-> FALSE, lost |-> FALSE]

SiteInit ==
  /\ uses \in Sessions
  /\ feed = 0 /\ site = 0
  /\ loads = [g \in 0 .. MaxGen |-> IF g = 0 /\ "feed" \in uses THEN 1 ELSE 0]
  /\ hits = 0
  /\ hub = [s \in Subs |-> [held |-> FALSE, file |-> "none"]]
  /\ request = [s \in Subs |-> NotSent]
  /\ shown = Page("loading") /\ form = NoForm
  /\ \E entered \in uses \cap (Fetched \cup Listed) :
       first = [p \in Fetched \cup Listed |-> IF p = entered THEN 1 ELSE 0]
  /\ details = [p \in Listed |-> [g \in 0 .. MaxGen |-> 0]]
  /\ checks = [s \in Subs |-> 0] /\ answer = NoAnswer

-----------------------------------------------------------------------------
(* The copy of the feed *)

\* The hub builds its feed again.
Publish ==
  /\ "feed" \in uses /\ feed < MaxGen
  /\ feed' = feed + 1
  /\ UNCHANGED <<uses, server, hub, request, browser>>

\* refresh: by the timer, or by the hub's nudge. Nothing keeps two of them from overlapping.
Refresh ==
  /\ "feed" \in uses /\ loads[feed] < MaxLoads
  /\ loads' = [loads EXCEPT ![feed] = @ + 1]
  /\ UNCHANGED <<uses, feed, site, hits, hub, request, browser>>

\* Verified: what this load has read replaces what is served, whichever is the newer one.
Refreshed(g) ==
  /\ loads[g] > 0 /\ g > 0
  /\ loads' = [loads EXCEPT ![g] = @ - 1]
  /\ site' = g
  /\ UNCHANGED <<uses, feed, hits, hub, request, browser>>

\* Mutant: after an error nothing is served.
RefreshForgets(g) ==
  /\ loads[g] > 0
  /\ loads' = [loads EXCEPT ![g] = @ - 1]
  /\ site' = 0
  /\ UNCHANGED <<uses, feed, hits, hub, request, browser>>

\* Unreachable or not to be trusted: the last verified copy stays.
RefreshFails(g) ==
  /\ loads[g] > 0
  /\ loads' = [loads EXCEPT ![g] = @ - 1]
  /\ UNCHANGED <<uses, feed, site, hits, hub, request, browser>>

\* What the read API answers from: a case that is not in it is a 404.
Served == CasesOf[site]

-----------------------------------------------------------------------------
(* Pages *)

\* main.replaceChildren: a form that is drawn is a new one.
Show(p) ==
  /\ shown' = Page(p) /\ form' = NoForm
  /\ answer' = NoAnswer /\ checks' = [s \in Subs |-> 0]

\* receiptBox: the code, shown this once.
ShowReceipt(s) ==
  /\ shown' = [page |-> "receipt", of |-> s] /\ form' = NoForm
  /\ answer' = NoAnswer /\ checks' = [x \in Subs |-> 0]

\* A link, the back button or a search: route.
Go(p) ==
  /\ p \in uses
  /\ IF p \in Plain
       THEN Show(p) /\ UNCHANGED first
       ELSE /\ Show("loading")
            /\ first[p] < MaxLoads
            /\ p \in Listed => \A g \in 0 .. MaxGen : details[p][g] = 0
            /\ first' = [first EXCEPT ![p] = @ + 1]
  /\ UNCHANGED <<uses, feed, server, hub, request, details>>

\* The answer a page waits for draws it, or an error, over whatever is shown by then. The list of cases is the
\* one served at that moment; of the home page all but the map is drawn with it.
Arrives(p) ==
  /\ first[p] > 0
  /\ first' = [first EXCEPT ![p] = @ - 1]
  /\ \/ /\ IF p = "map" THEN UNCHANGED <<shown, form, answer, checks>> ELSE Show(p)
        /\ IF p \in Listed THEN details' = [details EXCEPT ![p][site] = @ + 1] ELSE UNCHANGED details
     \/ Show("error") /\ UNCHANGED details
  /\ UNCHANGED <<uses, feed, server, hub, request>>

\* Each case of the list is asked for: one that is not served any more, or not answered, is an error page.
DetailsArrive(p, g) ==
  /\ details[p][g] > 0
  /\ details' = [details EXCEPT ![p][g] = @ - 1]
  /\ \/ /\ CasesOf[g] \subseteq Served
        /\ IF p = "map" THEN Show("map") ELSE UNCHANGED <<shown, form, answer, checks>>
     \/ Show("error")
  /\ UNCHANGED <<uses, feed, server, hub, request, first>>

-----------------------------------------------------------------------------
(* Sending a form *)

Fill(file) ==
  /\ shown.page \in Forms /\ form.at = "empty"
  /\ form' = [form EXCEPT !.at = "filled", !.file = file]
  /\ UNCHANGED <<uses, feed, server, hub, request, shown, first, details, checks, answer>>

\* onsubmit: the button is disabled, the contact is sealed and the file is read.
Send(s) ==
  /\ form.at \in {"filled", "error", "not_saved"} /\ request[s].at = "none"
  /\ form' = [form EXCEPT !.at = "sending", !.of = s]
  /\ request' = [request EXCEPT ![s] = [at |-> "preparing", file |-> form.file, lost |-> FALSE]]
  /\ UNCHANGED <<uses, feed, server, hub, shown, first, details, checks, answer>>

\* The error is written in the form that sent s, if it is still there.
Tell(s, words) ==
  form' = IF form.at = "sending" /\ form.of = s THEN [form EXCEPT !.at = words] ELSE form

\* Every step of a request: s goes from where it is to one of there.
Step(s, here, there) ==
  /\ request[s].at = here
  /\ \E at \in there : request' = [request EXCEPT ![s].at = at]

\* No key to seal the contact with, or a file that is too big or cannot be read: nothing is sent.
PrepareFails(s) ==
  /\ Step(s, "preparing", {"over"})
  /\ Tell(s, "error")
  /\ UNCHANGED <<uses, feed, server, hub, shown, first, details, checks, answer>>

\* limit, the fields and the file.
Received(s) ==
  /\ hits' = hits + 1
  /\ Step(s, "preparing", IF hits + 1 > Limit THEN {"refused"} ELSE {"refused", "submit"})
  /\ UNCHANGED <<uses, feed, site, loads, hub, browser>>

\* The counters are dropped when the hour changes.
NextHour ==
  /\ hits > 0
  /\ hits' = 0
  /\ UNCHANGED <<uses, feed, site, loads, hub, request, browser>>

\* A call to the hub that is done there: answered, or given up (a timeout); and one that is not done: 422 or failed.
Done(s, here, next) == Step(s, here, {next, "failed"})
NotDone(s, here) == Step(s, here, {"refused", "failed"}) /\ UNCHANGED hub

\* forward: the envelope.
Submit(s) ==
  /\ \/ /\ Done(s, "submit", IF request[s].file THEN "upload" ELSE "ok")
        /\ hub' = [hub EXCEPT ![s] = [held |-> TRUE, file |-> IF request[s].file THEN "missing" ELSE "none"]]
     \/ NotDone(s, "submit")
  /\ UNCHANGED <<uses, feed, server, browser>>

\* Mutants: the answer to the upload is not looked at; an upload that fails is not answered.
UploadUnchecked(s) ==
  /\ \/ Done(s, "upload", "ok") /\ hub' = [hub EXCEPT ![s].file = "stored"]
     \/ Step(s, "upload", {"ok"}) /\ UNCHANGED hub
  /\ UNCHANGED <<uses, feed, server, browser>>
UploadUnanswered(s) ==
  /\ \/ Done(s, "upload", "ok") /\ hub' = [hub EXCEPT ![s].file = "stored"]
     \/ Step(s, "upload", {"dropped"}) /\ UNCHANGED hub
  /\ UNCHANGED <<uses, feed, server, browser>>

\* forward: the file, whose hash the hub sends back.
Upload(s) ==
  /\ \/ Done(s, "upload", "ok") /\ hub' = [hub EXCEPT ![s].file = "stored"]
     \/ NotDone(s, "upload")
  /\ UNCHANGED <<uses, feed, server, browser>>

\* The receipt is drawn over whatever is shown. Errors: 400, 413 and 429 are the visitor's, sendError makes every
\* other one "the content was not saved".
Answered(s) ==
  /\ request[s].at \in {"ok", "refused", "failed"}
  /\ request' = [request EXCEPT ![s].at = "over"]
  /\ IF request[s].lost THEN UNCHANGED <<shown, form, answer, checks>>
     ELSE IF request[s].at = "ok"
       THEN ShowReceipt(s)
       ELSE Tell(s, IF request[s].at = "failed" THEN "not_saved" ELSE "error") /\ UNCHANGED <<shown, answer, checks>>
  /\ UNCHANGED <<uses, feed, server, hub, first, details>>

\* The connection to the site breaks: the browser has an error, the server goes on.
Disconnected(s) ==
  /\ request[s].at \in {"submit", "upload", "ok", "failed", "refused"} /\ ~request[s].lost
  /\ request' = [request EXCEPT ![s].lost = TRUE]
  /\ Tell(s, "error")
  /\ UNCHANGED <<uses, feed, server, hub, shown, first, details, checks, answer>>

-----------------------------------------------------------------------------
(* The receipt page *)

\* A code is typed, or comes with the address.
Check(s) ==
  /\ shown.page = "receipts" /\ "check" \in uses
  /\ checks[s] < MaxLoads /\ checks' = [checks EXCEPT ![s] = @ + 1]
  /\ answer' = [said |-> "checking", of |-> s]
  /\ UNCHANGED <<uses, feed, server, hub, request, shown, form, first, details>>

\* The status the hub gives, or "unknown", which is also what every error is made into.
Checked(s) ==
  /\ checks[s] > 0 /\ checks' = [checks EXCEPT ![s] = @ - 1]
  /\ \E said \in {IF hub[s].held THEN "status" ELSE "unknown", "unknown"} : answer' = [answer EXCEPT !.said = said]
  /\ UNCHANGED <<uses, feed, server, hub, request, shown, form, first, details>>

-----------------------------------------------------------------------------
Load == \E g \in 0 .. MaxGen : Refreshed(g) \/ RefreshFails(g)
Draw == \/ \E p \in Fetched \cup Listed : Arrives(p)
        \/ \E p \in Listed, g \in 0 .. MaxGen : DetailsArrive(p, g)
Forward(s) == PrepareFails(s) \/ Received(s) \/ Submit(s) \/ Upload(s) \/ Answered(s)
Visit == \/ \E p \in Pages : Go(p)
         \/ \E file \in BOOLEAN : Fill(file)
         \/ \E s \in Subs : Send(s) \/ Check(s)

SiteNext == \/ Publish \/ Refresh \/ Load \/ NextHour \/ Draw \/ Visit
            \/ \E s \in Subs : Forward(s) \/ Disconnected(s) \/ Checked(s)

SiteSpec == SiteInit /\ [][SiteNext]_siteVars

\* The timer of the server goes on and its loads end; a load that is tried again and again is once answered by
\* the hub. A request of the server or of the browser has a timeout. Nothing makes the visitor act.
Fairness ==
  /\ WF_siteVars(Refresh)
  /\ \A g \in 0 .. MaxGen : WF_siteVars(Refreshed(g) \/ RefreshFails(g)) /\ SF_siteVars(Refreshed(g))
  /\ WF_siteVars(Draw)
  /\ \A s \in Subs : WF_siteVars(Forward(s))

SiteFairSpec == SiteSpec /\ Fairness

-----------------------------------------------------------------------------
(* Properties *)

SiteTypeOK ==
  /\ uses \in Sessions /\ feed \in 0 .. MaxGen /\ site \in 0 .. feed
  /\ loads \in [0 .. MaxGen -> 0 .. MaxLoads] /\ hits \in Nat
  /\ hub \in [Subs -> [held : BOOLEAN, file : {"none", "missing", "stored"}]]
  /\ request \in [Subs -> [at : {"none", "preparing", "submit", "upload", "ok", "failed", "refused", "over"},
                           file : BOOLEAN, lost : BOOLEAN]]
  /\ shown \in [page : Pages \cup {"loading", "error", "receipt"}, of : Subs \cup {NoSub}]
  /\ form \in [at : {"empty", "filled", "sending", "error", "not_saved"}, file : BOOLEAN, of : Subs \cup {NoSub}]

\* A receipt a visitor is shown is of a submission the hub holds, with the file that was sent with it
\* (app.js receiptBox: "has been transferred to the archive"), however many calls failed before.
ReceiptIsGood ==
  shown.page = "receipt" => /\ hub[shown.of].held
                            /\ request[shown.of].file => hub[shown.of].file = "stored"

\* When the hub publishes nothing more the site ends up with its last generation, and so without what was
\* withdrawn, although loads fail and overlap and the older of two may be the last to end (server.js refresh).
SiteCatchesUp == <>[](site = feed)

\* A form that was sent gets its answer: a receipt, or an error and the button back.
SendEnds == form.at = "sending" ~> form.at # "sending"

\* A receipt, the only way to ask for the status (app.js receiptBox), goes away only because the visitor goes on.
ReceiptStays == [][shown.page = "receipt" /\ shown' # shown => \E p \in Pages : Go(p)]_siteVars

\* sendError, server.js:211: "The content was not saved; try again in a few minutes".
NotSavedIsTrue == form.at = "not_saved" => ~hub[form.of].held

\* "Code not found" is said of codes the hub does not have (app.js:386-387).
UnknownIsUnknown == answer.said = "unknown" => ~hub[answer.of].held

\* Nothing is drawn over a form that is being filled in.
FormStays == [][form.at # "empty" /\ form'.at = "empty" => (\E p \in Pages : Go(p)) \/ \E s \in Subs : Answered(s)]_siteVars
=============================================================================

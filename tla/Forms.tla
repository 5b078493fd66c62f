------------------------------- MODULE Forms -------------------------------
(***************************************************************************)
(* What a person fills in at the team's web interface                      *)
(* (capture/memlane_capture/web/js): the window "Add material", the        *)
(* project-and-incident picker, the form of a new incident, the save       *)
(* sheet, the list of notifications, the maps, and the correction of what  *)
(* the machine read.  Console.tla extends it with the pages around them.   *)
(*                                                                         *)
(* Every call is asynchronous: while it is under way the person goes on,   *)
(* and answers come in any order.                                          *)
(***************************************************************************)
EXTENDS Integers, Sequences, FiniteSets

CONSTANTS
  Picked,       \* what is ticked or pasted in "Add material", in the order it is sent
  Submissions,  \* the community submissions among it
  Lines,        \* the pasted links among it
  Known,        \* those of them that are in the incident already
  Projects,     \* projects that a picker and the form of a new incident offer
  Links,        \* links typed into the save sheet
  Notices,      \* notifications of this person
  Fields,       \* what a correction is about: the title, the author...
  Sessions,     \* bound: what happens in one session: pages visited and things done there
  Steps,        \* steps of the introduction
  MaxAnswers,   \* bound: answers of one page in flight
  MaxLost       \* bound: calls that fail

ASSUME FormsAssumption ==
  /\ MaxAnswers \in Nat \ {0} /\ MaxLost \in Nat /\ Steps \in Nat \ {0}
  /\ Known \subseteq Lines /\ Submissions \cap Lines = {} /\ Len(Picked) \in Nat

VARIABLES
  uses,       \* what this session is made of
  lost,       \* calls that failed
  adding,     \* "Add material": at, the next thing to send, what was there already
  filed,      \* what the incident has
  picker,     \* the picker: project chosen, projects whose incidents it offers, its calls in flight
  form,       \* the form of a new incident: project chosen, editors of its attributes, at
  filling,    \* renderProjectFields calls in flight
  created,    \* the incidents that the form has made: project, attributes with a value
  sheet,      \* the save sheet: what is typed, what was sent and is not answered, what it says
  saved,      \* links the archive holds
  unread,     \* unread notifications on the server
  notices,    \* the notifications page: what it lists as unread, its GETs and those of the bell, the bell's number
  library,    \* the map library: "none", "loading", "failed" or "there"
  map,        \* the map of the page: "no", "waiting", "drawn" or "gone"
  corrected,  \* the corrections on the server, by field
  tour,       \* the introduction: what listens to the keys, each at its step; shown: the one on the screen; seen before
  correction  \* its window: at; the fields on the page, as the window opened with them, as they are in it

addVars == <<adding, filed>>
newVars == <<form, filling, created>>
saveVars == <<sheet, saved>>
noticeVars == <<unread, notices>>
mapVars == <<library, map>>
correctionVars == <<corrected, correction>>
restVars == <<noticeVars, mapVars, correctionVars, tour>>
formVars == <<addVars, picker, newVars, saveVars, restVars>>

Lose == lost < MaxLost /\ lost' = lost + 1

FormsInit ==
  /\ uses \in Sessions /\ lost = 0
  /\ adding = [at |-> "open", next |-> 1, known |-> {}] /\ filed = Known
  /\ picker = [project |-> "none", offers |-> {}, calls |-> {}]
  /\ form = [project |-> "none", editors |-> {}, at |-> "open"] /\ filling = {} /\ created = {}
  /\ sheet = [typed |-> "none", sent |-> {}, says |-> "nothing"] /\ saved = {}
  /\ unread = {} /\ notices = [listed |-> {}, draws |-> {}, counts |-> {}, bell |-> {}]
  /\ library = "none" /\ map = "no"
  /\ tour = [listeners |-> <<>>, shown |-> 0, seen |-> FALSE]
  /\ corrected = [f \in Fields |-> "machine"]
  /\ correction = [at |-> "no", page |-> corrected, opened |-> corrected, fields |-> corrected]

-----------------------------------------------------------------------------
(* "Add material" *)

\* Sent from the first one, also when part of it was sent before: the boxes stay ticked.
Submit ==
  /\ adding.at = "open" /\ UNCHANGED <<filed, lost>>
  /\ adding' = [at |-> "sending", next |-> 1, known |-> {}]

Now == Picked[adding.next]

\* A submission can be attached once; a pasted link that is there already is only noted. The answer may be lost.
Posted ==
  /\ adding.at = "sending" /\ adding.next <= Len(Picked)
  /\ ~(Now \in Submissions /\ Now \in filed)
  /\ filed' = filed \cup {Now}
  /\ \/ adding' = [adding EXCEPT !.next = @ + 1, !.known = @ \cup ({Now} \cap filed \cap Lines)] /\ UNCHANGED lost
     \/ adding' = [adding EXCEPT !.at = "open"] /\ Lose

\* The first error ends it: refused, or nothing arrived.
NotPosted ==
  /\ adding.at = "sending" /\ adding.next <= Len(Picked) /\ UNCHANGED filed
  /\ \/ Now \in Submissions /\ Now \in filed /\ UNCHANGED lost
     \/ Lose
  /\ adding' = [adding EXCEPT !.at = "open"]

\* All sent and the page drawn again: the window closes unless there is something to note.
AllPosted ==
  /\ adding.at = "sending" /\ adding.next > Len(Picked) /\ UNCHANGED filed
  /\ \/ adding' = [adding EXCEPT !.at = IF adding.known = {} THEN "closed" ELSE "noted"] /\ UNCHANGED lost
     \/ adding' = [adding EXCEPT !.at = "open"] /\ Lose

AddNext ==
  /\ "adding" \in uses
  /\ Submit \/ Posted \/ NotPosted \/ AllPosted
  /\ UNCHANGED <<uses, picker, newVars, saveVars, restVars>>

-----------------------------------------------------------------------------
(* The picker of a project and then an incident *)

\* fill: the incidents offered so far go at once, those of the project are asked for.
Pick(p) ==
  /\ p # picker.project /\ Cardinality(picker.calls) < MaxAnswers /\ UNCHANGED lost
  /\ picker' = [project |-> p, offers |-> {}, calls |-> picker.calls \cup {p}]

\* The answer is appended, whatever is chosen by then; an error leaves the picker empty.
Offered(p) ==
  /\ p \in picker.calls
  /\ \/ picker' = [picker EXCEPT !.calls = @ \ {p}, !.offers = @ \cup {p}] /\ UNCHANGED lost
     \/ picker' = [picker EXCEPT !.calls = @ \ {p}] /\ Lose

PickNext ==
  /\ "picking" \in uses
  /\ \E p \in Projects : Pick(p) \/ Offered(p)
  /\ UNCHANGED <<uses, addVars, newVars, saveVars, restVars>>

-----------------------------------------------------------------------------
(* The form of a new incident *)

\* renderProjectFields, whenever a project is chosen: first the suggestions are asked for.
Choose(p) ==
  /\ form.at = "open" /\ p # form.project /\ \A r \in filling : r.project # p
  /\ form' = [form EXCEPT !.project = p]
  /\ filling' = filling \cup {[project |-> p, at |-> "asked"]}
  /\ UNCHANGED <<created, lost>>

\* Then the editors are emptied, and those of the attributes come one by one.
Filled(r) ==
  /\ r \in filling
  /\ IF r.at = "asked"
       THEN /\ form' = [form EXCEPT !.editors = {}]
            /\ filling' = (filling \ {r}) \cup {[r EXCEPT !.at = "editors"]}
       ELSE /\ form' = [form EXCEPT !.editors = @ \cup {r.project}]
            /\ filling' = filling \ {r}
  /\ UNCHANGED <<created, lost>>

\* Create: the project as it is chosen by now, with a value for every editor there is.
Send ==
  /\ form.at = "open" /\ form.project # "none"
  /\ form' = [form EXCEPT !.at = "sent"]
  /\ UNCHANGED <<filling, created, lost>>

\* _validate_custom: an attribute of another project is refused.
Accepts(p, values) == values \subseteq {p}

\* create_incident. The button comes back with an error, which may be that of a lost answer.
Create ==
  /\ form.at = "sent"
  /\ IF Accepts(form.project, form.editors)
       THEN created' = created \cup {[project |-> form.project, values |-> form.editors]}
       ELSE UNCHANGED created
  /\ \/ Lose /\ form' = [form EXCEPT !.at = "open"]
     \/ /\ form' = [form EXCEPT !.at = IF Accepts(form.project, form.editors) THEN "left" ELSE "open"]
        /\ UNCHANGED lost
  /\ UNCHANGED filling

NewNext ==
  /\ "new_open" \in uses
  /\ Send \/ Create \/ (\E p \in Projects : Choose(p)) \/ (\E r \in filling : Filled(r))
  /\ UNCHANGED <<uses, addVars, picker, saveVars, restVars>>

-----------------------------------------------------------------------------
(* The save sheet *)

Type(l) ==
  /\ sheet.typed # l
  /\ sheet' = [sheet EXCEPT !.typed = l]
  /\ UNCHANGED <<saved, lost>>

\* Save, or Ctrl+Enter, which does not ask whether a save is under way.
Save ==
  /\ sheet.typed # "none"
  /\ sheet' = [sheet EXCEPT !.sent = @ \cup {sheet.typed}]
  /\ UNCHANGED <<saved, lost>>

\* A link that is new is sent, and the sheet is emptied; any other one is there already, with its own version.
Saved(l) ==
  /\ l \in sheet.sent /\ UNCHANGED lost
  /\ saved' = saved \cup {l}
  /\ sheet' = [sheet EXCEPT !.sent = @ \ {l},
                            !.typed = IF l \in saved THEN @ ELSE "none",
                            !.says = IF l \in saved THEN "there_already" ELSE "sent"]

\* An error, which may be that of an answer that was lost.
NotSaved(l) ==
  /\ l \in sheet.sent /\ Lose
  /\ saved' \in {saved, saved \cup {l}}
  /\ sheet' = [sheet EXCEPT !.sent = @ \ {l}, !.says = "error"]

SaveNext ==
  /\ "saving" \in uses
  /\ Save \/ \E l \in Links : Type(l) \/ Saved(l) \/ NotSaved(l)
  /\ UNCHANGED <<uses, addVars, picker, newVars, restVars>>

-----------------------------------------------------------------------------
(* Notifications *)

\* Something happens that this person is told about. (The bound on failures bounds this, too.)
Notify(n) ==
  /\ n \notin unread /\ n \notin notices.listed
  /\ Lose
  /\ unread' = unread \cup {n}
  /\ UNCHANGED notices

\* The dot of a notification: read, or unread again, as it is listed; then the list and the bell are asked for.
Mark(n) ==
  /\ Cardinality(notices.draws) < MaxAnswers /\ Cardinality(notices.counts) < MaxAnswers
  /\ unread' = IF n \in notices.listed THEN unread \ {n} ELSE unread \cup {n}
  /\ notices' = [notices EXCEPT !.draws = @ \cup {unread'}, !.counts = @ \cup {unread'}]
  /\ UNCHANGED lost

\* refreshBell, by its timer.
Ring ==
  /\ Cardinality(notices.counts) < MaxAnswers
  /\ notices' = [notices EXCEPT !.counts = @ \cup {unread}]
  /\ UNCHANGED <<unread, lost>>

Counted(c) ==
  /\ c \in notices.counts
  /\ notices' = [notices EXCEPT !.counts = @ \ {c}, !.bell = c]
  /\ UNCHANGED <<unread, lost>>

Listed(d) ==
  /\ d \in notices.draws
  /\ notices' = [notices EXCEPT !.draws = @ \ {d}, !.listed = d]
  /\ UNCHANGED <<unread, lost>>

NoticeNext ==
  /\ "notices" \in uses
  /\ Ring \/ (\E n \in Notices : Notify(n) \/ Mark(n)) \/ (\E c \in SUBSET Notices : Counted(c) \/ Listed(c))
  /\ UNCHANGED <<uses, addVars, picker, newVars, saveVars, mapVars, correctionVars, tour>>

-----------------------------------------------------------------------------
(* Maps: of the incidents, of one of them, and to place one *)

\* loadLeaflet: the first map asks for the library, later ones wait for the same promise, or find it failed.
OpenMap ==
  /\ map = "no" /\ UNCHANGED lost
  /\ library' = IF library = "none" THEN "loading" ELSE library
  /\ map' = IF library = "failed" THEN "gone" ELSE "waiting"

Loaded ==
  /\ library = "loading" /\ UNCHANGED <<map, lost>>
  /\ library' = "there"

NotLoaded ==
  /\ library = "loading" /\ Lose
  /\ library' = "failed"
  /\ map' = IF map = "waiting" THEN "gone" ELSE map

\* baseMap: with the configuration, which is held after the first time.
DrawMap ==
  /\ library = "there" /\ map = "waiting" /\ UNCHANGED <<library, lost>>
  /\ map' = "drawn"

\* Without the configuration the node of the map is removed, or the page is an error.
NotDrawn ==
  /\ library = "there" /\ map = "waiting" /\ Lose /\ UNCHANGED library
  /\ map' = "gone"

\* Another page, or the same one again.
LeaveMap ==
  /\ map # "no" /\ UNCHANGED <<library, lost>>
  /\ map' = "no"

MapNext ==
  /\ "maps" \in uses
  /\ OpenMap \/ Loaded \/ NotLoaded \/ DrawMap \/ NotDrawn \/ LeaveMap
  /\ UNCHANGED <<uses, addVars, picker, newVars, saveVars, noticeVars, correctionVars, tour>>

-----------------------------------------------------------------------------
(* Corrections *)

\* The window takes every field from the page.
OpenCorrection ==
  /\ correction.at = "no" /\ UNCHANGED <<corrected, lost>>
  /\ correction' = [correction EXCEPT !.at = "open", !.opened = correction.page, !.fields = correction.page]

Correct(f) ==
  /\ correction.at = "open" /\ UNCHANGED <<corrected, lost>>
  /\ correction' = [correction EXCEPT !.fields[f] = "mine"]

\* Somebody else corrects a field, in a window of their own.
CorrectedByAnother(f) ==
  /\ corrected[f] = "machine" /\ UNCHANGED <<correction, lost>>
  /\ corrected' = [corrected EXCEPT ![f] = "theirs"]

\* The page is loaded again, under the window as well.
PageReloaded ==
  /\ correction.page # corrected /\ UNCHANGED <<corrected, lost>>
  /\ correction' = [correction EXCEPT !.page = corrected]

\* All fields are sent; correct_item writes each that differs. The page takes the answer.
Corrected ==
  /\ correction.at = "open" /\ UNCHANGED lost
  /\ corrected' = correction.fields
  /\ correction' = [correction EXCEPT !.at = "no", !.page = correction.fields]

CorrectionNext ==
  /\ "correcting" \in uses
  /\ OpenCorrection \/ PageReloaded \/ Corrected \/ \E f \in Fields : Correct(f) \/ CorrectedByAnother(f)
  /\ UNCHANGED <<uses, addVars, picker, newVars, saveVars, noticeVars, mapVars, tour>>

-----------------------------------------------------------------------------
(* The introduction *)

\* startTour: after the first sign-in in this browser, or by its button. One that is on the screen is taken off it.
StartTour ==
  /\ Len(tour.listeners) < MaxAnswers
  /\ tour' = [tour EXCEPT !.listeners = Append(@, 1), !.shown = Len(tour.listeners) + 1]

\* go and close, of one tour: a step on or back, or 0 to close it. A closed one is at 0 and hears nothing.
Turned(at, d) ==
  IF at = 0 \/ d = 0 \/ at + d > Steps THEN 0 ELSE IF at + d = 0 THEN at ELSE at + d

\* Next, Back and Skip are buttons of the one on the screen.
TourClick(d) ==
  /\ tour.shown # 0 /\ tour.listeners[tour.shown] # 0
  /\ LET to == Turned(tour.listeners[tour.shown], d)
     IN  tour' = [tour EXCEPT !.listeners[tour.shown] = to, !.seen = @ \/ to = 0]

\* An arrow goes to every tour that listens, on the screen or not; Escape closes them all.
TourKey(d) ==
  /\ \E k \in DOMAIN tour.listeners : tour.listeners[k] # 0
  /\ LET after == [k \in DOMAIN tour.listeners |-> Turned(tour.listeners[k], d)]
     IN  tour' = [tour EXCEPT !.listeners = after, !.seen = @ \/ \E k \in DOMAIN after : after[k] = 0]

TourNext ==
  /\ "tour" \in uses
  /\ StartTour \/ \E d \in -1 .. 1 : TourClick(d) \/ TourKey(d)
  /\ UNCHANGED <<uses, lost, addVars, picker, newVars, saveVars, noticeVars, mapVars, correctionVars>>

FormsNext ==
  TourNext \/ AddNext \/ PickNext \/ NewNext \/ SaveNext \/ NoticeNext \/ MapNext \/ CorrectionNext

-----------------------------------------------------------------------------
(* What holds *)

FormsTypeOK ==
  /\ lost \in 0 .. MaxLost /\ adding.next \in 1 .. Len(Picked) + 1
  /\ picker.offers \cup picker.calls \subseteq Projects
  /\ saved \cup sheet.sent \subseteq Links /\ notices.listed \cup unread \subseteq Notices

-----------------------------------------------------------------------------
(* What the code does not keep *)

\* Somebody who keeps pressing "Save" gets everything filed.
AddingEnds == "adding" \in uses => <>(adding.at \in {"closed", "noted"})

\* The incidents that are offered are those of the project that is chosen.
OffersOfTheProject == picker.offers \subseteq {picker.project}

\* The editors in the form are those of the project that is chosen.
FormOfTheProject == filling = {} /\ form.project # "none" => form.editors = {form.project}

\* One form makes one incident.
CreatedOnce == [][created' # created => form.at = "sent" /\ created = {}]_created

\* What is typed into the save sheet is not taken away by the answer to an earlier link.
TypedIsKept ==
  [][sheet.typed # "none" /\ sheet'.typed = "none" => sheet.typed \notin saved /\ sheet.typed \in saved']_<<sheet, saved>>

\* The list of notifications says what was marked.
ListedIsMarked == notices.draws = {} /\ lost = 0 => notices.listed = unread

\* A map is missing only where something failed when it was opened.
MapFailureIsItsOwn == [][map' = "gone" => lost' > lost]_map

\* Only the introduction that is on the screen listens to the keys.
OneTour == \A k \in DOMAIN tour.listeners : tour.listeners[k] # 0 => k = tour.shown

\* A correction changes only what was changed in its window.
OnlyOwnCorrections ==
  [][\A f \in Fields : correction.fields[f] = correction.opened[f] /\ correction.at = "open" /\ correction'.at = "no" =>
       corrected'[f] = corrected[f]]_correctionVars
=============================================================================

------------------------------- MODULE MapApp -------------------------------
(***************************************************************************)
(* The community map in the browser (app/app.jsx with compose.jsx,         *)
(* feed.jsx, case-profile.jsx, memory.jsx, map.jsx and research.jsx): what *)
(* is open on the screen, the memories and cases it holds, and the         *)
(* requests it has sent, whose answers come in any order.                  *)
(*                                                                         *)
(* One action is one event handler with the renders and effects that       *)
(* follow it.  A control is a guard: a button is pressed only where it is  *)
(* rendered.  What the server answers is constant here (Board models it);  *)
(* language, colours, layers and map position are left out.                *)
(***************************************************************************)
EXTENDS Naturals, Sequences, FiniteSets

CONSTANTS
  Cities, Home,     \* cities; the one shown first
  Seed, Served,     \* memories in the page itself; memories the server answers with
  Own,              \* memories this visitor writes
  CityOf, CaseOf,   \* of every memory: its city, its case or None
  Cases, CaseCity,  \* cases the server has
  Topical,          \* memories and local cases that carry the one topic of the filter
  Areas,            \* the sets of memories a drawn shape can enclose
  Sessions,         \* bound: the groups of controls a visitor uses in one session
  MaxCalls,         \* bound: equal requests in flight
  MaxHist,          \* the length of wanderHist (100)
  None

Mems == Seed \cup Served \cup Own

ASSUME MapAssumption ==
  /\ Home \in Cities /\ "all" \notin Cities
  /\ CityOf \in [Mems -> Cities] /\ CaseOf \in [Mems -> Cases \cup {None}]
  /\ CaseCity \in [Cases -> Cities] /\ Topical \subseteq Mems \cup Cases
  /\ Areas \subseteq SUBSET Mems
  /\ None \notin Mems \cup Cases \cup Cities
  /\ Own \cap (Seed \cup Served) = {} /\ MaxCalls \in Nat \ {0} /\ MaxHist \in Nat

VARIABLES
  uses,                    \* the controls used in this session
  city, list, back,        \* city, listView, backToList
  composing, point, form,  \* composing, placePoint, the state of ComposeSheet
  selected, hist,          \* selected, wanderHist
  openCase, profile,       \* openCaseId, caseProfile
  cases, loading,          \* feedCases, feedLoading
  research, mode, shape,   \* research, queryMode, queryShape
  draft,                   \* vertices of the polygon being drawn, and how many are distinct
  topics,                  \* adv.topics holds the topic
  memories,                \* memories: what the map and the list are filtered from
  loaded,                  \* history: the first GET /api/memories has ended
  sent,                    \* history: memories submitted
  listCalls, caseCalls, posts   \* requests in flight

screen   == <<city, list, back>>
compose  == <<composing, point, form>>
reading  == <<selected, hist>>
case     == <<openCase, profile>>
feed     == <<cases, loading, listCalls>>
search   == <<research, mode, shape, draft, topics>>
data     == <<memories, loaded, sent, posts>>
vars == <<uses, screen, compose, reading, case, feed, search, data, caseCalls>>

\* The date of the form: parts that are chosen; a month may also be "circa" or "unknown".
NoDate == [year |-> FALSE, month |-> "any", day |-> FALSE, hour |-> FALSE]
Blank == [step |-> "write", text |-> FALSE, date |-> NoDate, file |-> "none"]
NoDraft == [points |-> 0, distinct |-> 0]
ListQueries == Cities \X BOOLEAN

Init ==
  /\ uses \in Sessions
  /\ city = Home /\ list = FALSE /\ back = FALSE
  /\ composing = FALSE /\ point = None /\ form = Blank
  /\ selected = None /\ hist = <<>>
  /\ openCase = None /\ profile = None
  /\ cases = {} /\ loading = FALSE /\ listCalls = [q \in ListQueries |-> 0]
  /\ research = FALSE /\ mode = "off" /\ shape = None /\ draft = NoDraft /\ topics = FALSE
  /\ memories = Seed /\ loaded = FALSE /\ sent = {} /\ posts = {}
  /\ caseCalls = [k \in Cases |-> 0]

(* What is shown *)

\* The result set of every view: this city, the shape and the topic.
results == {m \in memories :
  /\ city # "all" => CityOf[m] = city
  /\ shape # None => m \in shape
  /\ topics => m \in Topical}

\* The dots: none in the national overview.
mapMarkers == IF city = "all" THEN {} ELSE results

listShown == list /\ city # "all"
\* A list that is being fetched shows a spinner and no entry.
listEntries == IF listShown /\ ~loading THEN results ELSE {}
listCases == IF listShown /\ ~loading THEN cases ELSE {}

(* Requests *)

\* The effect on [listView, city, adv.topics]; again: the array of topics is a new one.
FetchList(listNow, cityNow, topicsNow, again) ==
  IF listNow /\ cityNow # "all" /\ (again \/ listNow # list \/ cityNow # city)
    THEN /\ listCalls[<<cityNow, topicsNow>>] < MaxCalls
         /\ listCalls' = [listCalls EXCEPT ![<<cityNow, topicsNow>>] = @ + 1]
         /\ loading' = TRUE
    ELSE UNCHANGED <<listCalls, loading>>

\* The effect on [openCaseId], when it becomes k.
FetchCase(k) ==
  IF openCase = k THEN UNCHANGED caseCalls
  ELSE caseCalls[k] < MaxCalls /\ caseCalls' = [caseCalls EXCEPT ![k] = @ + 1]

\* GET /api/feed: the cases of a city; those of the hub carry no topic.
FeedAnswer(q) == {k \in Cases : CaseCity[k] = q[1] /\ (q[2] => k \in Topical)}

\* Mutant: the spinner ends only with an answer that is usable.
ListAnswersOk(q) ==
  /\ listCalls[q] > 0
  /\ listCalls' = [listCalls EXCEPT ![q] = @ - 1]
  /\ \/ cases' = FeedAnswer(q) /\ loading' = FALSE
     \/ UNCHANGED <<cases, loading>>
  /\ UNCHANGED <<uses, screen, compose, reading, case, search, data, caseCalls>>

\* The list is answered or the request fails; the last request to end is the one that counts.
ListArrives(q) ==
  /\ listCalls[q] > 0
  /\ listCalls' = [listCalls EXCEPT ![q] = @ - 1]
  /\ cases' \in {FeedAnswer(q), cases}
  /\ loading' = FALSE
  /\ UNCHANGED <<uses, screen, compose, reading, case, search, data, caseCalls>>

\* The panel opens with the case that was answered; a failure or a 404 closes whatever is open.
CaseArrives(k) ==
  /\ caseCalls[k] > 0
  /\ caseCalls' = [caseCalls EXCEPT ![k] = @ - 1]
  /\ \/ profile' = k /\ UNCHANGED openCase
     \/ openCase' = None /\ profile' = IF openCase # None THEN None ELSE profile
  /\ UNCHANGED <<uses, screen, compose, reading, feed, search, data>>

\* GET /api/memories replaces everything; an empty answer or a failure keeps the seed.
MemoriesArrive ==
  /\ ~loaded
  /\ loaded' = TRUE
  /\ memories' \in {IF Served # {} THEN Served ELSE memories, memories}
  /\ UNCHANGED <<uses, screen, compose, reading, case, feed, search, sent, posts, caseCalls>>

\* POST /api/memories is answered, with a receipt or not, or fails: the page keeps what it shows.
PostArrives(m) ==
  /\ m \in posts
  /\ posts' = posts \ {m} /\ UNCHANGED memories
  /\ UNCHANGED <<uses, screen, compose, reading, case, feed, search, loaded, sent, caseCalls>>

(* The city *)

\* Mutant: the place chosen in another city is kept.
PickKeepsPlace(k) ==
  /\ "city" \in uses
  /\ city' = k /\ list' = (list /\ k # "all") /\ UNCHANGED back
  /\ composing' = FALSE /\ form' = Blank /\ UNCHANGED point
  /\ selected' = None /\ UNCHANGED hist
  /\ shape' = None /\ mode' = "off" /\ draft' = NoDraft /\ UNCHANGED <<research, topics>>
  /\ FetchList(list', k, topics, FALSE)
  /\ UNCHANGED <<uses, case, cases, data, caseCalls>>

\* From the switcher or from a bubble of the national overview.
pickCity(k) ==
  /\ "city" \in uses
  /\ city' = k /\ list' = (list /\ k # "all") /\ UNCHANGED back
  /\ composing' = FALSE /\ point' = None /\ form' = Blank
  /\ selected' = None /\ UNCHANGED hist
  /\ shape' = None /\ mode' = "off" /\ draft' = NoDraft /\ UNCHANGED <<research, topics>>
  /\ FetchList(list', k, topics, FALSE)
  /\ UNCHANGED <<uses, case, cases, data, caseCalls>>

(* Writing a memory *)

\* The button is there in a city, the sheet open or not; a sheet that is open keeps its step.
openCompose ==
  /\ "compose" \in uses /\ city # "all"
  /\ composing' = TRUE /\ point' = None /\ form' = IF composing THEN form ELSE Blank
  /\ selected' = None
  /\ UNCHANGED <<uses, screen, hist, case, feed, search, data, caseCalls>>

\* The click handler of the map: not while a shape is drawn, and only for the sheet.
mapClick ==
  /\ "compose" \in uses /\ ~listShown
  /\ mode = "off" /\ city # "all" /\ composing
  /\ point' = "here" /\ selected' = None
  /\ UNCHANGED <<uses, screen, composing, form, hist, case, feed, search, data, caseCalls>>

closeCompose ==
  /\ composing
  /\ composing' = FALSE /\ point' = None /\ form' = Blank
  /\ UNCHANGED <<uses, screen, reading, case, feed, search, data, caseCalls>>

Fill(f) ==
  /\ composing /\ form.step = "write"
  /\ form' = f
  /\ UNCHANGED <<uses, screen, composing, point, reading, case, feed, search, data, caseCalls>>

Write == Fill([form EXCEPT !.text = ~@])

\* Taking a part of the date back takes the finer ones with it; a part is offered once the coarser one is known.
ChooseYear(v) == Fill([form EXCEPT !.date = IF v THEN [@ EXCEPT !.year = TRUE] ELSE NoDate])
ChooseMonth(v) ==
  /\ form.date.year
  /\ Fill([form EXCEPT !.date = IF v = "known" THEN [@ EXCEPT !.month = v]
                              ELSE [NoDate EXCEPT !.year = TRUE, !.month = v]])
ChooseDay(v) ==
  /\ form.date.month = "known"
  /\ Fill([form EXCEPT !.date.day = v, !.date.hour = @ /\ v])
ChooseHour(v) == form.date.day /\ form.date.month = "known" /\ Fill([form EXCEPT !.date.hour = v])
ChooseDate ==
  \/ \E v \in BOOLEAN : ChooseYear(v) \/ ChooseDay(v) \/ ChooseHour(v)
  \/ \E v \in {"any", "vague", "known"} : ChooseMonth(v)

\* The file is read and compressed while the form stays usable.
pickFile == form.file = "none" /\ Fill([form EXCEPT !.file = "reading"])
FileRead == form.file = "reading" /\ \E f \in {"ready", "none"} : form' = [form EXCEPT !.file = f]
            /\ UNCHANGED <<uses, screen, composing, point, reading, case, feed, search, data, caseCalls>>
RemoveFile == form.file = "ready" /\ Fill([form EXCEPT !.file = "none"])

canSend == point # None /\ form.text /\ form.date.year

\* send and submit: shown at once, then posted; a file still being read is not in it.
Send(m) ==
  /\ composing /\ form.step = "write" /\ canSend /\ m \notin sent /\ CityOf[m] = city
  /\ memories' = memories \cup {m} /\ sent' = sent \cup {m} /\ posts' = posts \cup {m}
  /\ form' = [form EXCEPT !.step = "received"]
  /\ UNCHANGED <<uses, screen, composing, point, reading, case, feed, search, loaded, caseCalls>>

(* Reading *)

\* openMemory closes the sheet, whatever was written in it.
Open(m) ==
  /\ composing' = FALSE /\ point' = None /\ form' = Blank
  /\ hist' = <<>> /\ selected' = m

\* A dot of the map, a card of the list, or a memory near the one just sent.
openMemory(m) ==
  /\ "read" \in uses
  /\ m \in IF listShown THEN listEntries ELSE mapMarkers
  /\ Open(m)
  /\ UNCHANGED <<uses, screen, case, feed, search, data, caseCalls>>

closeMemory ==
  /\ selected # None
  /\ selected' = None
  /\ UNCHANGED <<uses, screen, compose, hist, case, feed, search, data, caseCalls>>

\* One of the nearest dots; where there is no other the memory stays.
Wander ==
  LET others == mapMarkers \ {selected} IN
  IF others = {} THEN UNCHANGED reading
  ELSE /\ selected' \in others
       /\ hist' = IF Len(hist) < MaxHist THEN Append(hist, selected) ELSE hist

wanderNext ==
  /\ "read" \in uses /\ selected # None
  /\ Wander
  /\ UNCHANGED <<uses, screen, compose, case, feed, search, data, caseCalls>>

wanderPrev ==
  /\ "read" \in uses /\ selected # None
  /\ IF hist = <<>> THEN Wander
     ELSE selected' = hist[Len(hist)] /\ hist' = SubSeq(hist, 1, Len(hist) - 1)
  /\ UNCHANGED <<uses, screen, compose, case, feed, search, data, caseCalls>>

\* The panel about the project takes the place of both docks.
OpenAbout ==
  /\ composing' = FALSE /\ point' = None /\ form' = Blank
  /\ selected' = None
  /\ UNCHANGED <<uses, screen, hist, case, feed, search, data, caseCalls>>

(* The list *)

ToggleList ==
  /\ "list" \in uses /\ city # "all"
  /\ list' = ~list /\ back' = FALSE /\ UNCHANGED city
  /\ FetchList(~list, city, topics, FALSE)
  /\ UNCHANGED <<uses, compose, reading, case, cases, search, data, caseCalls>>

\* showOnMap of a case: the map goes there, nothing is selected.
ShowCaseOnMap ==
  /\ listCases # {}
  /\ list' = FALSE /\ back' = TRUE /\ UNCHANGED city
  /\ selected' = None
  /\ UNCHANGED <<uses, compose, hist, case, feed, search, data, caseCalls>>

ShowMemoryOnMap(m) ==
  /\ m \in listEntries
  /\ list' = FALSE /\ back' = TRUE /\ UNCHANGED city
  /\ Open(m)
  /\ UNCHANGED <<uses, case, feed, search, data, caseCalls>>

returnToList ==
  /\ back /\ ~list
  /\ list' = TRUE /\ back' = FALSE /\ UNCHANGED city
  /\ selected' = None
  /\ FetchList(TRUE, city, topics, FALSE)
  /\ UNCHANGED <<uses, compose, hist, case, cases, search, data, caseCalls>>

(* Cases *)

\* "View full case" of the memory being read, or a card of the list.
openCaseOf(k) ==
  /\ "case" \in uses /\ profile = None
  /\ \/ selected # None /\ CaseOf[selected] = k
     \/ k \in listCases
  /\ openCase' = k /\ FetchCase(k)
  /\ UNCHANGED <<uses, screen, compose, reading, profile, feed, search, data>>

CloseProfile ==
  /\ profile # None
  /\ openCase' = None /\ profile' = None
  /\ UNCHANGED <<uses, screen, compose, reading, feed, search, data, caseCalls>>

\* GET /api/cases/:id: the memories of the case.
voices(k) == {m \in Served : CaseOf[m] = k}

\* A voice of the case; neither the sheet nor wanderHist is touched.
SelectVoice(m) ==
  /\ profile # None /\ m \in voices(profile)
  /\ openCase' = None /\ profile' = None /\ selected' = m
  /\ UNCHANGED <<uses, screen, compose, hist, feed, search, data, caseCalls>>

\* Every listener that is there hears the key: the draft, the memory and the case close together.
Escape ==
  /\ mode # "off" \/ selected # None \/ profile # None
  /\ mode' = "off" /\ draft' = NoDraft /\ selected' = None
  /\ openCase' = IF profile # None THEN None ELSE openCase
  /\ profile' = None
  /\ UNCHANGED <<uses, screen, compose, hist, feed, research, shape, topics, data, caseCalls>>

(* Searching *)

OpenResearch ==
  /\ "search" \in uses /\ ~research
  /\ research' = TRUE
  /\ UNCHANGED <<uses, screen, compose, reading, case, feed, mode, shape, draft, topics, data, caseCalls>>

\* Mutant: closing the panel leaves the shape.
CloseKeepsShape ==
  /\ research
  /\ research' = FALSE /\ UNCHANGED <<mode, shape, draft, topics>>
  /\ UNCHANGED <<uses, screen, compose, reading, case, feed, data, caseCalls>>

\* The cross, the toggle of the top bar and "View results".
closeResearch ==
  /\ research
  /\ research' = FALSE /\ mode' = "off" /\ shape' = None /\ draft' = NoDraft /\ UNCHANGED topics
  /\ UNCHANGED <<uses, screen, compose, reading, case, feed, data, caseCalls>>

\* The array of topics is a new one each time, so an open list asks again.
toggleTopic ==
  /\ research
  /\ topics' = ~topics /\ FetchList(list, city, ~topics, TRUE)
  /\ UNCHANGED <<uses, screen, compose, reading, case, cases, research, mode, shape, draft, data, caseCalls>>

resetResearch ==
  /\ research
  /\ topics' = FALSE /\ mode' = "off" /\ shape' = None /\ draft' = NoDraft
  /\ FetchList(list, city, FALSE, TRUE)
  /\ UNCHANGED <<uses, screen, compose, reading, case, cases, research, data, caseCalls>>

startDraw(how) ==
  /\ research
  /\ mode' = how /\ shape' = None /\ draft' = IF mode = how THEN draft ELSE NoDraft
  /\ UNCHANGED <<uses, screen, compose, reading, case, feed, research, topics, data, caseCalls>>

\* The buttons under the drawing: one ends it without a shape, one takes the shape away.
cancelDraw ==
  /\ research /\ mode = "polygon"
  /\ mode' = "off" /\ draft' = NoDraft
  /\ UNCHANGED <<uses, screen, compose, reading, case, feed, research, shape, topics, data, caseCalls>>

clearShape ==
  /\ research /\ mode = "off" /\ shape # None
  /\ shape' = None
  /\ UNCHANGED <<uses, screen, compose, reading, case, feed, research, mode, draft, topics, data, caseCalls>>

\* onShape: the shape is committed and drawing ends.
Commit(areas) ==
  /\ shape' \in areas /\ mode' = "off" /\ draft' = NoDraft
  /\ UNCHANGED <<uses, screen, compose, reading, case, feed, research, topics, data, caseCalls>>

DrawCircle == mode = "circle" /\ ~listShown /\ Commit(Areas)

\* Vertices of a polygon; two at one place enclose nothing more than one.
Vertices(points, distinct) == [points |-> points, distinct |-> distinct]
AddPoint ==
  /\ mode = "polygon" /\ ~listShown /\ draft.points < 4
  /\ draft' = Vertices(draft.points + 1, draft.distinct + 1)
  /\ UNCHANGED <<uses, screen, compose, reading, case, feed, research, mode, shape, topics, data, caseCalls>>

Enclosed(distinct) == IF distinct >= 3 THEN Areas ELSE {{}}

\* The button, or a click on the first vertex.
Finish == mode = "polygon" /\ draft.points >= 3 /\ Commit(Enclosed(draft.distinct))

\* A double click is two clicks at one place, and then the end if there are three vertices.
DoubleClick ==
  /\ mode = "polygon" /\ ~listShown /\ draft.points < 4
  /\ IF draft.points + 2 >= 3 THEN Commit(Enclosed(draft.distinct + 1))
     ELSE /\ draft' = Vertices(2, 1)
          /\ UNCHANGED <<uses, screen, compose, reading, case, feed, research, mode, shape, topics, data, caseCalls>>

AnswerLists == \E q \in ListQueries : ListArrives(q)

Next ==
  \/ AnswerLists
  \/ \E k \in Cases : CaseArrives(k) \/ openCaseOf(k)
  \/ MemoriesArrive
  \/ \E m \in Own : PostArrives(m) \/ Send(m)
  \/ \E k \in Cities \cup {"all"} : pickCity(k)
  \/ openCompose \/ mapClick \/ closeCompose \/ Write \/ ChooseDate \/ pickFile \/ FileRead \/ RemoveFile
  \/ \E m \in memories : openMemory(m) \/ ShowMemoryOnMap(m)
  \/ closeMemory \/ wanderNext \/ wanderPrev \/ OpenAbout
  \/ ToggleList \/ ShowCaseOnMap \/ returnToList
  \/ CloseProfile \/ \E m \in Mems : SelectVoice(m)
  \/ Escape
  \/ OpenResearch \/ closeResearch \/ toggleTopic \/ resetResearch
  \/ (\E how \in {"circle", "polygon"} : startDraw(how)) \/ cancelDraw \/ clearShape
  \/ DrawCircle \/ AddPoint \/ Finish \/ DoubleClick

\* The browser ends every request with an answer or an error.
Fairness == WF_vars(AnswerLists) /\ WF_vars(MemoriesArrive)

Spec == Init /\ [][Next]_vars
FairSpec == Spec /\ Fairness

(* Properties *)

\* A spatial filter is in force only while the panel that shows and clears it is open (app.jsx:413): whatever is
\* clicked, drawn, escaped or switched in between, no city is left filtered by a shape nobody can see or remove.
QueryHasItsPanel == (mode # "off" \/ shape # None) => research

\* Choosing a place belongs to a sheet in a city: after every sequence of opening, closing, switching, reading and
\* drawing, a place is held only for the sheet that is open, so the next memory is never sent with an old place.
PlaceOfTheSheet == point # None => composing /\ city # "all"

\* A list that spins stops spinning, however its requests overlap or fail and whatever the visitor asks for
\* meanwhile (feed.jsx:96, the finally of app.jsx:355).
ListAnswers == (loading /\ list) ~> ~(loading /\ list)

\* "memory stays visible locally regardless" (app.jsx:462), the first load that ends after the submission included.
SubmittedStays == sent \subseteq memories

\* The panel shows the case the visitor opened last.
PanelOfOpenCase == openCase # None /\ profile # None => profile = openCase

\* "only public, already-published data is serialised" (export.jsx:7): the panel exports the results.
ExportsPublished == research => results \subseteq Seed \cup Served

\* What a shown list names under "Documented Cases" belongs to the city that is chosen (app.jsx:346).
CasesOfThisCity == listShown /\ ~loading => \A k \in cases : CaseCity[k] = city
=============================================================================

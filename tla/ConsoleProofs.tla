---------------------------- MODULE ConsoleProofs ----------------------------
(***************************************************************************)
(* Theorems about Console and its forms, for any navigations, answers that *)
(* come in any order, timers, people, projects and incidents.              *)
(***************************************************************************)
EXTENDS Console, TLAPS

USE FormsAssumption, ConsoleAssumption

-----------------------------------------------------------------------------
(* The navigations of a tab and its timers *)

\* The pages a navigation can be to; the first one is the page the session was opened on.
AnyPage == Pages \cup {CHOOSE p \in uses : p \in Pages}
Visits == [page : AnyPage, at : {"waiting", "drawn", "error", "left"}, may : BOOLEAN]

\* The inductive invariant: every navigation is of a page, and the timers are of the last one.
RouterInv == visits \in Seq(Visits) /\ PollsAreCurrent

\* A step that only adds timers of the page that is current, or takes some away.
LEMMA TimersStay ==
  ASSUME RouterInv, UNCHANGED <<uses, visits>>, \A t \in polls' : t \in polls \/ t.seq = seq
  PROVE  RouterInv'
BY DEF RouterInv, PollsAreCurrent, seq, Visits, AnyPage

\* The next navigation leaves no timer behind.
LEMMA RouteIs ==
  ASSUME RouterInv, UNCHANGED uses, NEW p \in AnyPage, Route(p)
  PROVE  RouterInv'
<1>1. (Accepted \/ p = "invite") \in BOOLEAN
  OBVIOUS
<1>2. Visit(p) \in Visits
  BY <1>1 DEF Visit, Visits
<1>3. visits' \in Seq(Visits)
  BY <1>2 DEF RouterInv, Route
<1> QED BY <1>3 DEF RouterInv, Route, PollsAreCurrent, Visits, AnyPage

\* A page that is drawn, or not, is the same navigation.
LEMMA ArrivalIs ==
  ASSUME RouterInv, UNCHANGED uses, NEW n \in 1 .. seq, NEW at \in {"drawn", "error", "left"},
         visits' = [visits EXCEPT ![n].at = at],
         \A t \in polls' : t \in polls \/ t.seq = seq
  PROVE  RouterInv'
<1>1. n \in DOMAIN visits /\ visits[n] \in Visits
  BY DEF RouterInv, seq
<1>2. [visits[n] EXCEPT !.at = at] \in Visits
  BY <1>1 DEF Visits
<1>3. visits' \in Seq(Visits) /\ Len(visits') = Len(visits)
  BY <1>1, <1>2 DEF RouterInv
<1> QED BY <1>3 DEF RouterInv, PollsAreCurrent, seq, Visits, AnyPage

\* The page the address names is a page.
LEMMA HereIs ==
  ASSUME RouterInv
  PROVE  Here \in AnyPage
<1>1. CASE seq = 0
  BY <1>1 DEF Here, AnyPage
<1>2. CASE seq # 0
  <2>1. seq \in Nat /\ seq \in 1 .. Len(visits)
    BY <1>2 DEF RouterInv, seq
  <2>2. visits[seq] \in Visits
    BY <2>1 DEF RouterInv
  <2> QED BY <1>2, <2>2 DEF Here, Visits
<1> QED BY <1>1, <1>2

\* What signing out does to the page of an invitation is one more navigation.
LEMMA SignOutIs ==
  ASSUME RouterInv, UNCHANGED uses, SignOut
  PROVE  RouterInv'
<1>1. CASE Here = "invite" /\ Route("invite")
  BY <1>1, HereIs, RouteIs
<1>2. CASE UNCHANGED <<visits, polls>>
  BY <1>2, TimersStay
<1> QED BY <1>1, <1>2 DEF SignOut

\* Timers of pages that were left do not outlive the next navigation, for any number of visits.
LEMMA RouterStep ==
  ASSUME RouterInv, [Next]_vars
  PROVE  RouterInv'
<1> USE DEF screen, router
<1>1. CASE LogOut \/ Refused
  BY <1>1, SignOutIs DEF LogOut, Refused
<1>2. CASE Connected
  BY <1>2, HereIs, RouteIs DEF Connected
<1>3. CASE Connect \/ NotConnected \/ Revoke \/ Bell
  BY <1>3, TimersStay DEF Connect, NotConnected, Revoke, Bell
<1>4. ASSUME NEW p \in Pages, Go(p) PROVE RouterInv'
  BY <1>4, RouteIs DEF Go, AnyPage
<1>5. ASSUME NEW n \in 1 .. seq, Arrives(n) PROVE RouterInv'
  <2>1. \A t \in polls' : t \in polls \/ t.seq = seq
    BY <1>5 DEF Arrives
  <2> QED BY <1>5, <2>1, ArrivalIs DEF Arrives
<1>6. ASSUME NEW n \in 1 .. seq, Fails(n) PROVE RouterInv'
  <2>1. PICK at \in {"error", "left"} : visits' = [visits EXCEPT ![n].at = at]
    BY <1>6 DEF Fails
  <2>2. UNCHANGED <<uses, polls>>
    BY <1>6 DEF Fails
  <2> QED BY <2>1, <2>2, ArrivalIs
<1>7. ASSUME NEW n \in 1 .. seq, Opens(n) \/ Close(n) PROVE RouterInv'
  BY <1>7, TimersStay DEF Opens, Close
<1>8. ASSUME NEW t \in polls, Tick(t) \/ WatchEnds(t) PROVE RouterInv'
  BY <1>8, TimersStay DEF Tick, WatchEnds
<1>9. CASE Prepare \/ OpenViewer
  BY <1>9, TimersStay DEF Prepare, OpenViewer
<1>10. CASE Change \/ Ask \/ Details \/ Follow \/ Followed \/ FollowShown \/ Write \/ Mention \/ Comment
  BY <1>10, TimersStay DEF Change, Ask, Details, Follow, Followed, FollowShown, Write, Mention, Comment
<1>11. ASSUME NEW a \in answers, Heard(a) \/ NotHeard(a) PROVE RouterInv'
  BY <1>11, TimersStay DEF Heard, NotHeard
<1>12. CASE Works \/ AskItem \/ Recapture \/ SendCopy \/ CopyQueued \/ CopyHeard
  BY <1>12, TimersStay DEF Works, AskItem, Recapture, SendCopy, CopyQueued, CopyHeard
<1>13. ASSUME NEW a \in asked, HeardItem(a) \/ NotHeardItem(a) PROVE RouterInv'
  BY <1>13, TimersStay DEF HeardItem, NotHeardItem
<1>14. ASSUME NEW r \in renders, Mounted(r) PROVE RouterInv'
  BY <1>14, TimersStay DEF Mounted
<1>15. CASE FormsNext /\ UNCHANGED <<router, incidentSide, itemSide>>
  <2>1. UNCHANGED uses
    BY <1>15 DEF FormsNext, TourNext, AddNext, PickNext, NewNext, SaveNext, NoticeNext, MapNext, CorrectionNext
  <2> QED BY <1>15, <2>1, TimersStay
<1>16. CASE UNCHANGED vars
  BY <1>16, TimersStay DEF vars
<1> QED
  BY <1>1, <1>2, <1>3, <1>4, <1>5, <1>6, <1>7, <1>8, <1>9, <1>10, <1>11, <1>12, <1>13, <1>14, <1>15, <1>16 DEF Next

\* A timer that runs is one the next navigation stops (core.js onLeave and poll, main.js route): a page that is drawn
\* after it was left may start its timer, but none outlives the page shown by then, for any number of visits.
THEOREM TimersAreCurrent == Spec => []PollsAreCurrent
<1>1. Init => RouterInv
  BY DEF Init, RouterInv, PollsAreCurrent
<1>2. RouterInv /\ [Next]_vars => RouterInv'
  BY RouterStep
<1>3. RouterInv => PollsAreCurrent
  BY DEF RouterInv
<1> QED BY <1>1, <1>2, <1>3, PTL DEF Spec

-----------------------------------------------------------------------------
(* Types *)

\* The page on the screen, the timers and the windows are of navigations there have been.
ScreenTyped ==
  /\ view \in 0 .. seq /\ seq <= MaxVisits
  /\ \A t \in polls : t.of <= t.seq /\ t.seq <= seq
  /\ windows \subseteq keys /\ keys \cup opening \subseteq 1 .. seq

RefusedTyped == refused \in 0 .. MaxRefused

\* What the incident page holds, draws and waits for are versions the server has had.
Versions == 1 .. MaxChanges
Incidents == [v : Versions, follows : BOOLEAN]
PageStates == [inc : Incidents, key : Versions, details : Versions,
               shown : [v : Versions, follows : BOOLEAN, details : Versions]]
Answered == [inc : Incidents, force : BOOLEAN]
Toggles == [to : BOOLEAN, at : {"no", "asked", "answered", "done"}]

IncidentTyped ==
  incident \in Incidents /\ page \in PageStates /\ answers \subseteq Answered /\ fetching \in 0 .. MaxAnswers
  /\ toggle \in Toggles

AddStates == [at : {"open", "sending", "closed", "noted"}, next : 1 .. Len(Picked) + 1, known : SUBSET Lines]
PickStates == [project : Projects \cup {"none"}, offers : SUBSET Projects, calls : SUBSET Projects]
SheetStates == [typed : Links \cup {"none"}, sent : SUBSET Links,
                says : {"nothing", "there_already", "sent", "error"}]
NoticeStates == [listed : SUBSET Notices, draws : SUBSET SUBSET Notices, counts : SUBSET SUBSET Notices,
                 bell : SUBSET Notices]

FormsTyped ==
  lost \in 0 .. MaxLost /\ adding \in AddStates /\ picker \in PickStates /\ sheet \in SheetStates
  /\ saved \subseteq Links /\ unread \subseteq Notices /\ notices \in NoticeStates

\* A call is counted up to its bound.
LEMMA CallIs ==
  ASSUME RefusedTyped, Call
  PROVE  RefusedTyped'
BY DEF RefusedTyped, Call

LEMMA RefusedStep ==
  ASSUME RefusedTyped, [Next]_vars
  PROVE  RefusedTyped'
<1>1. CASE Refused
  BY <1>1 DEF Refused, RefusedTyped
<1>2. CASE Call
  BY <1>2, CallIs
<1>3. CASE UNCHANGED refused
  BY <1>3 DEF RefusedTyped
<1>4. refused' = refused \/ Call \/ Refused
  BY DEF Next, Connect, Connected, NotConnected, LogOut, Revoke, Bell, Go, Arrives, Fails, Opens, Close, Tick,
         WatchEnds, Prepare, OpenViewer, Change, Ask, Details, Follow, Followed, FollowShown, Write, Mention, Comment,
         Heard, NotHeard, Works, AskItem, Recapture, SendCopy, CopyQueued, CopyHeard, HeardItem, NotHeardItem,
         Mounted, router, vars
<1> QED BY <1>1, <1>2, <1>3, <1>4

\* One more navigation is shown; what listens to the keys goes on doing so.
LEMMA RouteOnScreen ==
  ASSUME RouterInv, ScreenTyped, NEW p, Route(p), UNCHANGED <<opening, keys>>
  PROVE  ScreenTyped'
<1>1. seq' = seq + 1 /\ seq \in Nat
  BY DEF Route, seq, RouterInv
<1> QED BY <1>1 DEF ScreenTyped, Route

LEMMA SignOutOnScreen ==
  ASSUME RouterInv, ScreenTyped, SignOut
  PROVE  ScreenTyped'
<1>1. CASE Route("invite")
  BY <1>1, RouteOnScreen DEF SignOut
<1>2. CASE view' = 0 /\ UNCHANGED <<visits, polls, windows>>
  BY <1>2 DEF SignOut, ScreenTyped, seq, RouterInv
<1> QED BY <1>1, <1>2 DEF SignOut

\* A step that leaves the navigations keeps what is on the screen if it only adds timers and windows of theirs.
LEMMA ScreenStays ==
  ASSUME RouterInv, ScreenTyped, UNCHANGED view, Len(visits') = Len(visits),
         \A t \in polls' : t \in polls \/ (t.of <= t.seq /\ t.seq <= seq),
         windows' \subseteq keys', keys' \cup opening' \subseteq 1 .. seq
  PROVE  ScreenTyped'
BY DEF ScreenTyped, seq

LEMMA ScreenStep ==
  ASSUME RouterInv, ScreenTyped, [Next]_vars
  PROVE  ScreenTyped'
<1>0. /\ seq \in Nat /\ DOMAIN visits = 1 .. seq
  BY DEF seq, RouterInv
<1>1. CASE LogOut \/ Refused
  BY <1>1, SignOutOnScreen DEF LogOut, Refused
<1>2. CASE Connected
  BY <1>2, RouteOnScreen DEF Connected
<1>3. ASSUME NEW p \in Pages, Go(p) PROVE ScreenTyped'
  BY <1>3, RouteOnScreen DEF Go
<1>4. ASSUME NEW n \in 1 .. seq, Arrives(n) PROVE ScreenTyped'
  <2>1. Len(visits') = Len(visits)
    BY <1>4 DEF Arrives, RouterInv
  <2>2. \A t \in polls' : t \in polls \/ (t.of = n /\ t.seq = seq)
    BY <1>4 DEF Arrives
  <2> QED BY <1>0, <1>4, <2>1, <2>2, ScreenStays DEF Arrives, ScreenTyped
<1>5. ASSUME NEW n \in 1 .. seq, Fails(n) PROVE ScreenTyped'
  <2>1. Len(visits') = Len(visits)
    BY <1>5 DEF Fails, RouterInv
  <2> QED BY <1>5, <2>1, ScreenStays DEF Fails, ScreenTyped
<1>6. ASSUME NEW n \in 1 .. seq, Opens(n) \/ Close(n) PROVE ScreenTyped'
  BY <1>6, ScreenStays DEF Opens, Close, ScreenTyped
<1>7. ASSUME NEW t \in polls, Tick(t) \/ WatchEnds(t) PROVE ScreenTyped'
  BY <1>7, ScreenStays DEF Tick, WatchEnds, ScreenTyped
<1>8. CASE Prepare \/ OpenViewer
  BY <1>0, <1>8, ScreenStays DEF Prepare, OpenViewer, ScreenTyped
<1>9. CASE UNCHANGED screen
  BY <1>9, ScreenStays DEF screen, ScreenTyped
<1>10. \/ UNCHANGED screen \/ LogOut \/ Refused \/ Connected \/ Prepare \/ OpenViewer
       \/ \E p \in Pages : Go(p)
       \/ \E n \in 1 .. seq : Arrives(n) \/ Fails(n) \/ Opens(n) \/ Close(n)
       \/ \E t \in polls : Tick(t) \/ WatchEnds(t)
  BY DEF Next, Connect, NotConnected, Revoke, Bell, Change, Ask, Details, Follow, Followed, FollowShown, Write,
         Mention, Comment, Heard, NotHeard, Works, AskItem, Recapture, SendCopy, CopyQueued, CopyHeard, HeardItem,
         NotHeardItem, Mounted, router, vars
<1> QED BY <1>1, <1>2, <1>3, <1>4, <1>5, <1>6, <1>7, <1>8, <1>9, <1>10

\* What is drawn was held.
LEMMA DrawnIs ==
  ASSUME NEW P \in PageStates, NEW d \in Versions
  PROVE  Drawn(P, d) \in PageStates
BY DEF Drawn, PageStates, Incidents

LEMMA PageParts ==
  ASSUME IncidentTyped
  PROVE  page.inc \in Incidents /\ page.inc.v \in Versions /\ page.details \in Versions
BY DEF IncidentTyped, PageStates, Incidents

LEMMA IncidentStep ==
  ASSUME IncidentTyped, [Next]_vars
  PROVE  IncidentTyped'
<1>0. incident.v < MaxChanges => [incident EXCEPT !.v = @ + 1] \in Incidents
  BY DEF IncidentTyped, Incidents, Versions
<1>1. CASE Change
  BY <1>0, <1>1 DEF Change, IncidentTyped
<1>2. CASE Ask
  <2>1. [inc |-> incident, force |-> FALSE] \in Answered
    BY DEF IncidentTyped, Answered
  <2> QED BY <1>2, <2>1 DEF Ask, IncidentTyped
<1>3. ASSUME NEW a \in answers, Heard(a) PROVE IncidentTyped'
  <2>1. a.inc \in Incidents
    BY DEF IncidentTyped, Answered
  <2>2. page' \in PageStates
    BY <1>3, <2>1 DEF Heard, IncidentTyped, PageStates
  <2>3. fetching' \in 0 .. MaxAnswers
    BY <1>3 DEF Heard, IncidentTyped
  <2> QED BY <1>3, <2>2, <2>3 DEF Heard, IncidentTyped
<1>4. ASSUME NEW a \in answers, NotHeard(a) PROVE IncidentTyped'
  BY <1>4 DEF NotHeard, IncidentTyped
<1>5. CASE Details
  <2>1. page' \in PageStates
    BY <1>5, PageParts, DrawnIs DEF Details, IncidentTyped
  <2>2. fetching' \in 0 .. MaxAnswers
    BY <1>5 DEF Details, IncidentTyped
  <2> QED BY <1>5, <2>1, <2>2 DEF Details, IncidentTyped
<1>6. CASE Follow
  <2>1. toggle' \in Toggles
    BY <1>6 DEF Follow, Toggles
  <2> QED BY <1>6, <2>1 DEF Follow, IncidentTyped
<1>7. CASE Followed
  <2>1. toggle.to \in BOOLEAN /\ toggle' \in Toggles
    BY <1>7 DEF Followed, IncidentTyped, Toggles
  <2>2. incident' \in Incidents
    BY <1>7, <2>1 DEF Followed, IncidentTyped, Incidents
  <2> QED BY <1>7, <2>1, <2>2 DEF Followed, IncidentTyped
<1>8. CASE FollowShown
  <2> DEFINE q == [page EXCEPT !.inc.follows = ~@]
  <2>1. page' = Drawn(q, q.details)
    BY <1>8 DEF FollowShown
  <2>2. q \in PageStates /\ q.details \in Versions
    BY DEF IncidentTyped, PageStates, Incidents
  <2>3. toggle' \in Toggles
    BY <1>8 DEF FollowShown, IncidentTyped, Toggles
  <2> HIDE DEF q
  <2>4. page' \in PageStates
    BY <2>1, <2>2, DrawnIs
  <2> QED BY <1>8, <2>3, <2>4 DEF FollowShown, IncidentTyped
<1>9. CASE Comment
  <2>1. incident' \in Incidents
    BY <1>0, <1>9 DEF Comment
  <2>2. [inc |-> incident', force |-> TRUE] \in Answered
    BY <2>1 DEF Answered
  <2>3. answers' \subseteq Answered
    BY <1>9, <2>2 DEF Comment, IncidentTyped
  <2> QED BY <1>9, <2>1, <2>3 DEF Comment, IncidentTyped
<1>10. CASE UNCHANGED <<incident, page, answers, fetching, toggle>>
  BY <1>10 DEF IncidentTyped
<1>11. \/ UNCHANGED <<incident, page, answers, fetching, toggle>>
       \/ Change \/ Ask \/ Details \/ Follow \/ Followed \/ FollowShown \/ Comment
       \/ \E a \in answers : Heard(a) \/ NotHeard(a)
  BY DEF Next, Connect, Connected, NotConnected, LogOut, Revoke, Refused, Bell, Go, Arrives, Fails, Opens, Close,
         Tick, WatchEnds, Prepare, OpenViewer, Write, Mention, Works, AskItem, Recapture, SendCopy, CopyQueued,
         CopyHeard, HeardItem, NotHeardItem, Mounted, others, incidentSide, vars
<1> QED BY <1>1, <1>2, <1>3, <1>4, <1>5, <1>6, <1>7, <1>8, <1>9, <1>10, <1>11

\* Every step of a form counts what it loses.
LEMMA LostStep ==
  ASSUME FormsTyped, [Next]_vars
  PROVE  lost' \in 0 .. MaxLost /\ (UNCHANGED formVars \/ (FormsNext /\ UNCHANGED lost) \/ (FormsNext /\ Lose))
<1>1. FormsNext => Lose \/ UNCHANGED lost
  BY DEF FormsNext, TourNext, AddNext, Submit, Posted, NotPosted, AllPosted, PickNext, Pick, Offered, NewNext, Choose,
         Filled, Send, Create, SaveNext, Save, Type, Saved, NotSaved, NoticeNext, Ring, Notify, Mark, Counted, Listed,
         MapNext, OpenMap, Loaded, NotLoaded, DrawMap, NotDrawn, LeaveMap, CorrectionNext, OpenCorrection,
         PageReloaded, Corrected, Correct, CorrectedByAnother
<1>2. FormsNext \/ (UNCHANGED formVars /\ (Lose \/ UNCHANGED lost))
  BY DEF Next, Connect, Connected, NotConnected, LogOut, Revoke, Refused, Bell, Go, Arrives, Fails, Opens, Close,
         Tick, WatchEnds, Prepare, OpenViewer, Change, Ask, Details, Follow, Followed, FollowShown, Write, Mention,
         Comment, Heard, NotHeard, Works, AskItem, Recapture, SendCopy, CopyQueued, CopyHeard, HeardItem,
         NotHeardItem, Mounted, others, vars
<1>3. Lose \/ UNCHANGED lost => lost' \in 0 .. MaxLost
  BY DEF FormsTyped, Lose
<1> QED BY <1>1, <1>2, <1>3

LEMMA AddStep ==
  ASSUME FormsTyped, AddNext
  PROVE  adding' \in AddStates
<1>1. adding \in AddStates
  BY DEF FormsTyped
<1>2. CASE Submit
  BY <1>2 DEF Submit, AddStates
<1>3. CASE Posted
  <2>1. adding.next \in 1 .. Len(Picked) + 1 /\ adding.known \subseteq Lines
    BY <1>1 DEF AddStates
  <2>2. adding.next <= Len(Picked) => adding.next + 1 \in 1 .. Len(Picked) + 1
    BY <2>1
  <2>3. adding.known \cup ({Now} \cap filed \cap Lines) \subseteq Lines
    BY <2>1
  <2>4. CASE adding' = [adding EXCEPT !.at = "open"]
    BY <1>1, <2>4 DEF AddStates
  <2>5. CASE /\ adding.next <= Len(Picked)
             /\ adding' = [adding EXCEPT !.next = @ + 1, !.known = @ \cup ({Now} \cap filed \cap Lines)]
    BY <1>1, <2>2, <2>3, <2>5 DEF AddStates
  <2> QED BY <1>3, <2>4, <2>5 DEF Posted
<1>4. CASE NotPosted
  BY <1>1, <1>4 DEF NotPosted, AddStates
<1>5. CASE AllPosted
  BY <1>1, <1>5 DEF AllPosted, AddStates
<1> QED BY <1>2, <1>3, <1>4, <1>5 DEF AddNext

LEMMA PickStep ==
  ASSUME FormsTyped, PickNext
  PROVE  picker' \in PickStates
<1>1. picker \in PickStates
  BY DEF FormsTyped
<1>2. picker.offers \subseteq Projects /\ picker.calls \subseteq Projects
  BY <1>1 DEF PickStates
<1>3. ASSUME NEW p \in Projects, Pick(p) PROVE picker' \in PickStates
  <2>1. picker.calls \cup {p} \subseteq Projects
    BY <1>2
  <2> QED BY <1>3, <2>1 DEF Pick, PickStates
<1>4. ASSUME NEW p \in Projects, Offered(p) PROVE picker' \in PickStates
  <2>1. picker.calls \ {p} \subseteq Projects /\ picker.offers \cup {p} \subseteq Projects
    BY <1>2
  <2> QED BY <1>1, <1>4, <2>1 DEF Offered, PickStates
<1> QED BY <1>3, <1>4 DEF PickNext

\* What is sent was typed.
LEMMA SheetStep ==
  ASSUME FormsTyped, SaveNext
  PROVE  sheet' \in SheetStates /\ saved' \subseteq Links
<1>1. sheet \in SheetStates /\ saved \subseteq Links
  BY DEF FormsTyped
<1>2. CASE Save
  BY <1>1, <1>2 DEF Save, SheetStates
<1>3. ASSUME NEW l \in Links, Type(l) PROVE sheet' \in SheetStates /\ saved' \subseteq Links
  BY <1>1, <1>3 DEF Type, SheetStates
<1>4. ASSUME NEW l \in Links, Saved(l) PROVE sheet' \in SheetStates /\ saved' \subseteq Links
  BY <1>1, <1>4 DEF Saved, SheetStates
<1>5. ASSUME NEW l \in Links, NotSaved(l) PROVE sheet' \in SheetStates /\ saved' \subseteq Links
  BY <1>1, <1>5 DEF NotSaved, SheetStates
<1> QED BY <1>2, <1>3, <1>4, <1>5 DEF SaveNext

LEMMA NoticeStep ==
  ASSUME FormsTyped, NoticeNext
  PROVE  unread' \subseteq Notices /\ notices' \in NoticeStates
<1>1. unread \subseteq Notices /\ notices \in NoticeStates
  BY DEF FormsTyped
<1>2. CASE Ring
  BY <1>1, <1>2 DEF Ring, NoticeStates
<1>3. ASSUME NEW n \in Notices, Notify(n) PROVE unread' \subseteq Notices /\ notices' \in NoticeStates
  BY <1>1, <1>3 DEF Notify
<1>4. ASSUME NEW n \in Notices, Mark(n) PROVE unread' \subseteq Notices /\ notices' \in NoticeStates
  <2>1. unread' \subseteq Notices
    BY <1>1, <1>4 DEF Mark
  <2> QED BY <1>1, <1>4, <2>1 DEF Mark, NoticeStates
<1>5. ASSUME NEW c \in SUBSET Notices, Counted(c) \/ Listed(c)
      PROVE  unread' \subseteq Notices /\ notices' \in NoticeStates
  <2>1. notices.counts \ {c} \in SUBSET SUBSET Notices /\ notices.draws \ {c} \in SUBSET SUBSET Notices
    BY <1>1 DEF NoticeStates
  <2>2. CASE Counted(c)
    BY <1>1, <2>1, <2>2 DEF Counted, NoticeStates
  <2>3. CASE Listed(c)
    BY <1>1, <2>1, <2>3 DEF Listed, NoticeStates
  <2> QED BY <1>5, <2>2, <2>3
<1> QED BY <1>2, <1>3, <1>4, <1>5 DEF NoticeNext

LEMMA FormsStep ==
  ASSUME FormsTyped, [Next]_vars
  PROVE  FormsTyped'
<1>1. CASE AddNext
  BY <1>1, AddStep, LostStep DEF AddNext, FormsTyped, saveVars, restVars, noticeVars
<1>2. CASE PickNext
  BY <1>2, PickStep, LostStep DEF PickNext, FormsTyped, addVars, saveVars, restVars, noticeVars
<1>3. CASE SaveNext
  BY <1>3, SheetStep, LostStep DEF SaveNext, FormsTyped, addVars, restVars, noticeVars
<1>4. CASE NoticeNext
  BY <1>4, NoticeStep, LostStep DEF NoticeNext, FormsTyped, addVars, saveVars
<1>5. CASE TourNext \/ NewNext \/ MapNext \/ CorrectionNext
  BY <1>5, LostStep
     DEF TourNext, NewNext, MapNext, CorrectionNext, FormsTyped, addVars, saveVars, restVars, noticeVars
<1>6. CASE UNCHANGED formVars
  BY <1>6, LostStep DEF FormsTyped, formVars, addVars, saveVars, restVars, noticeVars
<1> QED BY <1>1, <1>2, <1>3, <1>4, <1>5, <1>6, LostStep DEF FormsNext

\* However answers overlap: the page that is shown, timers, windows and versions are of what there is, every window
\* listens to the keys (core.js modal), a sheet sends links that were typed and no more calls are counted than are made.
THEOREM ConsoleTypeCorrect == Spec => []TypeOK
<1> DEFINE TInv == RouterInv /\ ScreenTyped /\ RefusedTyped /\ IncidentTyped /\ FormsTyped
<1>1. Init => TInv
  <2> SUFFICES ASSUME Init PROVE TInv
    OBVIOUS
  <2>1. RouterInv /\ ScreenTyped /\ RefusedTyped
    BY DEF Init, RouterInv, PollsAreCurrent, ScreenTyped, RefusedTyped, seq
  <2>2. IncidentTyped
    BY DEF Init, IncidentTyped, Incidents, PageStates, Versions, Toggles
  <2>3. FormsTyped
    BY DEF Init, FormsInit, FormsTyped, AddStates, PickStates, SheetStates, NoticeStates
  <2> QED BY <2>1, <2>2, <2>3
<1>2. TInv /\ [Next]_vars => TInv'
  BY RouterStep, ScreenStep, RefusedStep, IncidentStep, FormsStep
<1>3. TInv => TypeOK
  <2> SUFFICES ASSUME TInv PROVE TypeOK
    OBVIOUS
  <2>1. page.key <= MaxChanges /\ fetching \in 0 .. MaxAnswers
    BY DEF IncidentTyped, PageStates, Versions
  <2>2. FormsTypeOK
    BY DEF FormsTypeOK, FormsTyped, AddStates, PickStates, SheetStates, NoticeStates
  <2> QED BY <2>1, <2>2 DEF TypeOK, ScreenTyped, RefusedTyped
<1> QED BY <1>1, <1>2, <1>3, PTL DEF Spec

-----------------------------------------------------------------------------
(* The incident page that is left open *)

\* The inductive invariant: the key is that of what is shown, and as long as something else is held, details are
\* being fetched that end in drawing it.
HeldInv == page.key = page.shown.v /\ ShownIsHeld

\* What is drawn has the key of what is held by then.
LEMMA DrawnHasItsKey ==
  ASSUME NEW P \in PageStates, NEW d \in Versions
  PROVE  LET D == Drawn(P, d) IN D.key = P.inc.v /\ D.shown.v = P.inc.v /\ D.inc = P.inc
BY DEF Drawn, PageStates, Incidents

LEMMA HeldStep ==
  ASSUME IncidentTyped, HeldInv, [Next]_vars
  PROVE  HeldInv'
<1>0. page \in PageStates /\ fetching \in 0 .. MaxAnswers
  BY DEF IncidentTyped
<1>1. ASSUME NEW a \in answers, Heard(a) PROVE HeldInv'
  <2>1. page'.key = page.key /\ page'.shown = page.shown /\ page'.inc = a.inc
    BY <1>0, <1>1 DEF Heard, PageStates
  <2>2. CASE a.force \/ a.inc.v # page.key
    <3>1. fetching' # 0
      BY <1>0, <1>1, <2>2 DEF Heard
    <3> QED BY <2>1, <3>1 DEF HeldInv, ShownIsHeld
  <2>3. CASE a.inc.v = page.key
    BY <2>1, <2>3 DEF HeldInv, ShownIsHeld
  <2> QED BY <2>2, <2>3
<1>2. CASE Details
  <2>1. PICK d \in Versions : page' = Drawn(page, d)
    BY <1>2, PageParts DEF Details
  <2> QED BY <1>0, <2>1, DrawnHasItsKey DEF HeldInv, ShownIsHeld
<1>3. CASE FollowShown
  <2> DEFINE q == [page EXCEPT !.inc.follows = ~@]
  <2>1. page' = Drawn(q, q.details)
    BY <1>3 DEF FollowShown
  <2>2. q \in PageStates /\ q.details \in Versions
    BY <1>0 DEF PageStates, Incidents
  <2> HIDE DEF q
  <2> QED BY <2>1, <2>2, DrawnHasItsKey DEF HeldInv, ShownIsHeld
<1>4. CASE UNCHANGED <<page, fetching>>
  BY <1>4 DEF HeldInv, ShownIsHeld
<1>5. UNCHANGED <<page, fetching>> \/ Details \/ FollowShown \/ \E a \in answers : Heard(a)
  BY DEF Next, Connect, Connected, NotConnected, LogOut, Revoke, Refused, Bell, Go, Arrives, Fails, Opens, Close,
         Tick, WatchEnds, Prepare, OpenViewer, Change, Ask, NotHeard, Follow, Followed, Write, Mention, Comment,
         Works, AskItem, Recapture, SendCopy, CopyQueued, CopyHeard, HeardItem, NotHeardItem, Mounted, others,
         incidentSide, vars
<1> QED BY <1>1, <1>2, <1>3, <1>4, <1>5

\* An incident page with nothing left to load shows the version it holds (incidents.js key, reload, render), for any
\* number of changes and of answers in flight, in whatever order they come and whatever is drawn between them.
THEOREM IncidentShowsWhatItHolds == Spec => []ShownIsHeld
<1>1. Init => IncidentTyped /\ HeldInv
  BY DEF Init, IncidentTyped, Incidents, PageStates, Versions, Toggles, HeldInv, ShownIsHeld
<1>2. IncidentTyped /\ HeldInv /\ [Next]_vars => (IncidentTyped /\ HeldInv)'
  BY IncidentStep, HeldStep
<1>3. HeldInv => ShownIsHeld
  BY DEF HeldInv
<1> QED BY <1>1, <1>2, <1>3, PTL DEF Spec
=============================================================================

---------------------------- MODULE MapAppProofs ----------------------------
(***************************************************************************)
(* Theorems about MapApp, for any cities, memories, cases, areas, sessions *)
(* and numbers of requests in flight.                                      *)
(***************************************************************************)
EXTENDS MapApp, SequenceTheorems, TLAPS

USE MapAssumption

-----------------------------------------------------------------------------
(* Types *)

Dates == [year : BOOLEAN, month : {"any", "vague", "known"}, day : BOOLEAN, hour : BOOLEAN]
FormStates == [step : {"write", "received"}, text : BOOLEAN, date : Dates, file : {"none", "reading", "ready"}]

ScreenTyped == city \in Cities \cup {"all"} /\ list \in BOOLEAN /\ back \in BOOLEAN
ComposeTyped == composing \in BOOLEAN /\ point \in {None, "here"} /\ form \in FormStates
ReadingTyped == selected \in Mems \cup {None} /\ hist \in Seq(Mems) /\ Len(hist) <= MaxHist
CaseTyped == openCase \in Cases \cup {None} /\ profile \in Cases \cup {None}
FeedTyped == cases \subseteq Cases /\ loading \in BOOLEAN /\ listCalls \in [ListQueries -> 0 .. MaxCalls]
SearchTyped == /\ research \in BOOLEAN /\ topics \in BOOLEAN /\ mode \in {"off", "circle", "polygon"}
               /\ shape \in Areas \cup {{}, None}
DraftTyped == /\ draft \in [points : 0 .. 4, distinct : 0 .. 4] /\ draft.distinct <= draft.points
              /\ draft.points # 0 => mode = "polygon"
DataTyped == memories \subseteq Mems /\ loaded \in BOOLEAN /\ sent \subseteq Own /\ posts \subseteq sent
CallsTyped == caseCalls \in [Cases -> 0 .. MaxCalls]

\* Besides the types: wanderHist is bounded, vertices are there only while a polygon is drawn, and what is posted was sent.
Typed == /\ ScreenTyped /\ ComposeTyped /\ ReadingTyped /\ CaseTyped /\ FeedTyped /\ SearchTyped /\ DraftTyped
         /\ DataTyped /\ CallsTyped

-----------------------------------------------------------------------------
(* Lemmas about the helpers *)

\* What is shown was loaded.
LEMMA ShownIs ==
  ASSUME Typed
  PROVE  mapMarkers \subseteq Mems /\ listEntries \subseteq Mems /\ listCases \subseteq Cases
BY DEF Typed, DataTyped, FeedTyped, mapMarkers, listEntries, listCases, results

LEMMA FetchCaseIs ==
  ASSUME Typed, NEW k \in Cases, FetchCase(k)
  PROVE  CallsTyped'
BY DEF Typed, CallsTyped, FetchCase

LEMMA FillIs ==
  ASSUME Typed, NEW f \in FormStates, Fill(f)
  PROVE  Typed'
BY DEF Typed, ScreenTyped, ComposeTyped, ReadingTyped, CaseTyped, FeedTyped, SearchTyped, DraftTyped, DataTyped,
       CallsTyped, Fill, screen, reading, case, feed, search, data

LEMMA FormIs ==
  /\ Blank \in FormStates /\ NoDate \in Dates /\ NoDraft \in [points : 0 .. 4, distinct : 0 .. 4]
  /\ NoDraft.points = 0 /\ NoDraft.distinct = 0
  /\ form \in FormStates => form.date \in Dates
<1>1. NoDate \in Dates
  BY DEF NoDate, Dates
<1> QED BY <1>1 DEF Blank, NoDraft, FormStates

-----------------------------------------------------------------------------
(* The inductive invariant *)

\* While the list shows a spinner there is a request that ends it.
SpinnerIsAnswered == loading => \E q \in ListQueries : listCalls[q] > 0

MapInv == Typed /\ QueryHasItsPanel /\ PlaceOfTheSheet /\ SpinnerIsAnswered

\* A memory is opened: the sheet and its place are gone.
LEMMA OpenIs ==
  ASSUME Typed, NEW m \in Mems, Open(m)
  PROVE  ComposeTyped' /\ ReadingTyped' /\ point' = None
<1>1. <<>> \in Seq(Mems) /\ Len(<<>>) = 0
  OBVIOUS
<1>2. ReadingTyped'
  BY <1>1 DEF Open, ReadingTyped
<1> QED BY <1>2, FormIs DEF Open, ComposeTyped

\* One of the nearest, or the last of wanderHist.
LEMMA WanderIs == ASSUME Typed, selected # None, Wander PROVE ReadingTyped'
<1>1. CASE mapMarkers \ {selected} = {}
  BY <1>1 DEF Wander, reading, Typed, ReadingTyped
<1>2. CASE mapMarkers \ {selected} # {}
  <2>1. selected' \in Mems /\ hist' = IF Len(hist) < MaxHist THEN Append(hist, selected) ELSE hist
    BY <1>2, ShownIs DEF Wander
  <2>2. selected \in Mems /\ hist \in Seq(Mems) /\ Len(hist) \in Nat /\ Len(hist) <= MaxHist
    BY DEF Typed, ReadingTyped
  <2>3. Append(hist, selected) \in Seq(Mems) /\ Len(Append(hist, selected)) = Len(hist) + 1
    BY <2>2
  <2> QED BY <2>1, <2>2, <2>3 DEF ReadingTyped
<1> QED BY <1>1, <1>2

LEMMA WanderBackIs ==
  ASSUME Typed, hist # <<>>, selected' = hist[Len(hist)], hist' = SubSeq(hist, 1, Len(hist) - 1)
  PROVE  ReadingTyped'
<1>1. hist \in Seq(Mems) /\ Len(hist) \in Nat \ {0} /\ Len(hist) <= MaxHist
  BY DEF Typed, ReadingTyped
<1>2. hist[Len(hist)] \in Mems
  BY <1>1
<1>3. PICK n \in Nat : n = Len(hist) - 1 /\ n <= MaxHist
  BY <1>1
<1>4. SubSeq(hist, 1, n) \in Seq(Mems) /\ Len(SubSeq(hist, 1, n)) <= n
  <2>1. \A i \in 1 .. n : hist[i] \in Mems
    BY <1>1, <1>3
  <2>2. /\ SubSeq(hist, 1, n) \in Seq(Mems)
        /\ Len(SubSeq(hist, 1, n)) = IF 1 <= n THEN n - 1 + 1 ELSE 0
    BY <2>1, SubSeqProperties
  <2> QED BY <2>2
<1>5. Len(SubSeq(hist, 1, n)) <= MaxHist
  BY <1>3, <1>4
<1> QED BY <1>2, <1>3, <1>4, <1>5 DEF ReadingTyped

LEMMA MapInit == Init => MapInv
<1> SUFFICES ASSUME Init PROVE MapInv
  OBVIOUS
<1>1. Blank \in FormStates /\ NoDraft \in [points : 0 .. 4, distinct : 0 .. 4] /\ NoDraft.points = 0 /\ NoDraft.distinct = 0
  BY FormIs
<1>2. ScreenTyped /\ ComposeTyped /\ CaseTyped /\ SearchTyped /\ DraftTyped /\ DataTyped
  <2>1. ScreenTyped /\ CaseTyped /\ SearchTyped
    BY DEF Init, ScreenTyped, CaseTyped, SearchTyped
  <2>2. ComposeTyped /\ DraftTyped
    <3>1. draft = NoDraft /\ form = Blank /\ composing = FALSE /\ point = None
      BY DEF Init
    <3>2. ComposeTyped
      BY <1>1, <3>1 DEF ComposeTyped
    <3>3. draft \in [points : 0 .. 4, distinct : 0 .. 4] /\ draft.points = 0 /\ draft.distinct = 0
      BY <1>1, <3>1 DEF NoDraft
    <3> QED BY <3>2, <3>3 DEF DraftTyped
  <2>3. DataTyped
    BY DEF Init, Mems, DataTyped
  <2> QED BY <2>1, <2>2, <2>3
<1>3. ReadingTyped /\ FeedTyped /\ CallsTyped
  <2>1. <<>> \in Seq(Mems) /\ Len(<<>>) = 0 /\ 0 <= MaxHist /\ 0 \in 0 .. MaxCalls
    OBVIOUS
  <2> QED BY <2>1 DEF Init, ReadingTyped, FeedTyped, CallsTyped
<1> QED BY <1>2, <1>3 DEF Init, MapInv, Typed, QueryHasItsPanel, PlaceOfTheSheet, SpinnerIsAnswered

\* What is sent comes back.
LEMMA ArrivalsStep ==
  ASSUME MapInv, \/ AnswerLists \/ (\E k \in Cases : CaseArrives(k)) \/ MemoriesArrive
                 \/ \E m \in Own : PostArrives(m)
  PROVE  MapInv'
<1>1. ASSUME NEW q \in ListQueries, ListArrives(q) PROVE MapInv'
  <2>1. FeedAnswer(q) \subseteq Cases
    BY DEF FeedAnswer
  <2>2. listCalls[q] \in 0 .. MaxCalls /\ listCalls[q] > 0
    BY <1>1 DEF ListArrives, MapInv, Typed, FeedTyped
  <2>3. FeedTyped' /\ ~loading'
    <3>1. listCalls' \in [ListQueries -> 0 .. MaxCalls]
      BY <1>1, <2>2 DEF ListArrives, MapInv, Typed, FeedTyped
    <3> QED BY <1>1, <2>1, <3>1 DEF ListArrives, MapInv, Typed, FeedTyped
  <2> QED BY <1>1, <2>3 DEF ListArrives, MapInv, Typed, ScreenTyped, ComposeTyped, ReadingTyped, CaseTyped, SearchTyped,
             DraftTyped, DataTyped, CallsTyped, QueryHasItsPanel, PlaceOfTheSheet, SpinnerIsAnswered,
             screen, compose, reading, case, search, data
<1>2. ASSUME NEW k \in Cases, CaseArrives(k) PROVE MapInv'
  <2>1. CallsTyped' /\ CaseTyped'
    BY <1>2 DEF CaseArrives, MapInv, Typed, CallsTyped, CaseTyped
  <2> QED BY <1>2, <2>1 DEF CaseArrives, MapInv, Typed, ScreenTyped, ComposeTyped, ReadingTyped, FeedTyped, SearchTyped,
             DraftTyped, DataTyped, QueryHasItsPanel, PlaceOfTheSheet, SpinnerIsAnswered,
             screen, compose, reading, feed, search, data
<1>3. ASSUME MemoriesArrive \/ \E m \in Own : PostArrives(m) PROVE MapInv'
  <2>1. DataTyped'
    BY <1>3 DEF MemoriesArrive, PostArrives, MapInv, Typed, DataTyped, Mems
  <2> QED BY <1>3, <2>1 DEF MemoriesArrive, PostArrives, MapInv, Typed, ScreenTyped, ComposeTyped, ReadingTyped, CaseTyped,
             FeedTyped, SearchTyped, DraftTyped, CallsTyped, QueryHasItsPanel, PlaceOfTheSheet, SpinnerIsAnswered,
             screen, compose, reading, case, feed, search
<1> QED BY <1>1, <1>2, <1>3 DEF AnswerLists

\* The sheet.
LEMMA ComposeStep ==
  ASSUME MapInv, \/ openCompose \/ mapClick \/ closeCompose \/ Write \/ ChooseDate \/ pickFile \/ FileRead \/ RemoveFile
                 \/ \E m \in Own : Send(m)
  PROVE  MapInv'
<1>1. ASSUME openCompose \/ closeCompose PROVE MapInv'
  <2>1. ComposeTyped' /\ ReadingTyped' /\ point' = None
    BY <1>1, FormIs DEF openCompose, closeCompose, MapInv, Typed, ComposeTyped, ReadingTyped, reading
  <2> QED BY <1>1, <2>1 DEF openCompose, closeCompose, MapInv, Typed, ScreenTyped, CaseTyped, FeedTyped, SearchTyped,
             DraftTyped, DataTyped, CallsTyped, QueryHasItsPanel, PlaceOfTheSheet, SpinnerIsAnswered,
             screen, case, feed, search, data
<1>2. ASSUME mapClick PROVE MapInv'
  <2>1. ComposeTyped' /\ ReadingTyped' /\ composing' /\ city' # "all"
    BY <1>2 DEF mapClick, MapInv, Typed, ComposeTyped, ReadingTyped, screen
  <2> QED BY <1>2, <2>1 DEF mapClick, MapInv, Typed, ScreenTyped, CaseTyped, FeedTyped, SearchTyped,
             DraftTyped, DataTyped, CallsTyped, QueryHasItsPanel, PlaceOfTheSheet, SpinnerIsAnswered,
             screen, case, feed, search, data
<1>3. ASSUME NEW f \in FormStates, Fill(f) PROVE MapInv'
  BY <1>3, FillIs DEF Fill, MapInv, QueryHasItsPanel, PlaceOfTheSheet, SpinnerIsAnswered, screen, feed, search
<1> DEFINE d == form.date
<1>4. form \in FormStates /\ d \in Dates
  BY FormIs DEF MapInv, Typed, ComposeTyped
<1>5. ASSUME NEW e \in Dates PROVE [form EXCEPT !.date = e] \in FormStates
  BY <1>4, <1>5 DEF FormStates
<1>6. CASE Write \/ pickFile \/ RemoveFile
  <2>1. /\ [form EXCEPT !.text = ~@] \in FormStates /\ [form EXCEPT !.file = "reading"] \in FormStates
        /\ [form EXCEPT !.file = "none"] \in FormStates
    BY <1>4 DEF FormStates
  <2> QED BY <1>3, <1>6, <2>1 DEF Write, pickFile, RemoveFile
<1>7. ASSUME NEW v \in BOOLEAN, ChooseYear(v) PROVE MapInv'
  <2>1. [d EXCEPT !.year = TRUE] \in Dates /\ NoDate \in Dates
    BY <1>4, FormIs DEF Dates, MapInv
  <2> DEFINE e == IF v THEN [d EXCEPT !.year = TRUE] ELSE NoDate
  <2>2. e \in Dates
    BY <2>1
  <2>3. Fill([form EXCEPT !.date = e])
    BY <1>4, <1>7 DEF ChooseYear, FormStates
  <2> HIDE DEF e
  <2> QED BY <1>3, <1>5, <2>2, <2>3
<1>8. ASSUME NEW v \in {"any", "vague", "known"}, ChooseMonth(v) PROVE MapInv'
  <2>1. [d EXCEPT !.month = v] \in Dates /\ [NoDate EXCEPT !.year = TRUE, !.month = v] \in Dates
    BY <1>4, FormIs DEF Dates, MapInv
  <2> DEFINE e == IF v = "known" THEN [d EXCEPT !.month = v] ELSE [NoDate EXCEPT !.year = TRUE, !.month = v]
  <2>2. e \in Dates
    BY <2>1
  <2>3. Fill([form EXCEPT !.date = e])
    BY <1>4, <1>8 DEF ChooseMonth, FormStates
  <2> HIDE DEF e
  <2> QED BY <1>3, <1>5, <2>2, <2>3
<1>9. ASSUME NEW v \in BOOLEAN, ChooseDay(v) PROVE MapInv'
  <2> DEFINE e == [d EXCEPT !.day = v, !.hour = d.hour /\ v]
  <2>1. e \in Dates
    BY <1>4 DEF Dates
  <2>2. Fill([form EXCEPT !.date = e])
    BY <1>4, <1>9 DEF ChooseDay, FormStates, Dates
  <2> HIDE DEF e
  <2> QED BY <1>3, <1>5, <2>1, <2>2
<1>10. ASSUME NEW v \in BOOLEAN, ChooseHour(v) PROVE MapInv'
  <2> DEFINE e == [d EXCEPT !.hour = v]
  <2>1. e \in Dates
    BY <1>4 DEF Dates
  <2>2. Fill([form EXCEPT !.date = e])
    BY <1>4, <1>10 DEF ChooseHour, FormStates, Dates
  <2> HIDE DEF e
  <2> QED BY <1>3, <1>5, <2>1, <2>2
<1>11. CASE FileRead
  <2>1. ComposeTyped' /\ UNCHANGED <<composing, point>>
    <3>1. PICK f \in {"ready", "none"} : form' = [form EXCEPT !.file = f]
      BY <1>11 DEF FileRead
    <3>2. form' \in FormStates
      BY <1>4, <3>1 DEF FormStates
    <3> QED BY <1>11, <3>2 DEF FileRead, MapInv, Typed, ComposeTyped
  <2> QED BY <1>11, <2>1 DEF FileRead, MapInv, Typed, ScreenTyped, ReadingTyped, CaseTyped, FeedTyped, SearchTyped,
             DraftTyped, DataTyped, CallsTyped, QueryHasItsPanel, PlaceOfTheSheet, SpinnerIsAnswered,
             screen, reading, case, feed, search, data
<1>12. ASSUME NEW m \in Own, Send(m) PROVE MapInv'
  <2>1. ComposeTyped' /\ UNCHANGED <<composing, point>>
    <3>1. form' \in FormStates
      BY <1>4, <1>12 DEF Send, FormStates
    <3> QED BY <1>12, <3>1 DEF Send, MapInv, Typed, ComposeTyped
  <2>2. DataTyped'
    BY <1>12 DEF Send, MapInv, Typed, DataTyped, Mems
  <2> QED BY <1>12, <2>1, <2>2 DEF Send, MapInv, Typed, ScreenTyped, ReadingTyped, CaseTyped, FeedTyped, SearchTyped,
             DraftTyped, CallsTyped, QueryHasItsPanel, PlaceOfTheSheet, SpinnerIsAnswered,
             screen, reading, case, feed, search
<1> QED BY <1>1, <1>2, <1>6, <1>7, <1>8, <1>9, <1>10, <1>11, <1>12 DEF ChooseDate

\* Whatever asks for the list.
Asks(c, t) ==
  /\ c # "all" /\ listCalls[<<c, t>>] < MaxCalls
  /\ listCalls' = [listCalls EXCEPT ![<<c, t>>] = @ + 1] /\ loading' = TRUE

LEMMA ListFeed ==
  ASSUME MapInv, UNCHANGED cases,
         \/ UNCHANGED <<listCalls, loading>>
         \/ \E c \in Cities \cup {"all"}, t \in BOOLEAN : Asks(c, t)
  PROVE  FeedTyped' /\ SpinnerIsAnswered'
<1>1. CASE UNCHANGED <<listCalls, loading>>
  BY <1>1 DEF MapInv, Typed, FeedTyped, SpinnerIsAnswered
<1>2. ASSUME NEW c \in Cities \cup {"all"}, NEW t \in BOOLEAN, Asks(c, t) PROVE FeedTyped' /\ SpinnerIsAnswered'
  <2> DEFINE q == <<c, t>>
  <2>1. q \in ListQueries
    BY <1>2 DEF ListQueries, Asks
  <2>2. /\ listCalls[q] < MaxCalls /\ loading' = TRUE
        /\ listCalls' = [listCalls EXCEPT ![q] = listCalls[q] + 1]
    BY <1>2 DEF Asks, MapInv, Typed, FeedTyped
  <2> HIDE DEF q
  <2>3. listCalls[q] + 1 \in 0 .. MaxCalls /\ listCalls[q] + 1 > 0
    BY <2>1, <2>2 DEF MapInv, Typed, FeedTyped
  <2>4. listCalls' \in [ListQueries -> 0 .. MaxCalls] /\ listCalls'[q] > 0
    BY <2>1, <2>2, <2>3 DEF MapInv, Typed, FeedTyped
  <2> QED BY <2>1, <2>2, <2>4 DEF MapInv, Typed, FeedTyped, SpinnerIsAnswered
<1> QED BY <1>1, <1>2

\* The city.
LEMMA CityStep == ASSUME MapInv, NEW k \in Cities \cup {"all"}, pickCity(k) PROVE MapInv'
<1>1. list' \in BOOLEAN /\ topics \in BOOLEAN
  BY DEF pickCity, MapInv, Typed, ScreenTyped, SearchTyped
<1>2. FeedTyped' /\ SpinnerIsAnswered'
  <2>1. UNCHANGED <<listCalls, loading>> \/ Asks(k, topics)
    BY DEF pickCity, FetchList, Asks
  <2>2. UNCHANGED cases
    BY DEF pickCity
  <2> QED BY <1>1, <2>1, <2>2, ListFeed
<1>3. ScreenTyped' /\ ComposeTyped' /\ ReadingTyped' /\ SearchTyped' /\ DraftTyped'
  <2>1. ScreenTyped' /\ ComposeTyped' /\ ReadingTyped'
    BY <1>1, FormIs DEF pickCity, MapInv, Typed, ScreenTyped, ComposeTyped, ReadingTyped
  <2>2. SearchTyped' /\ DraftTyped'
    BY FormIs DEF pickCity, MapInv, Typed, SearchTyped, DraftTyped
  <2> QED BY <2>1, <2>2
<1>4. QueryHasItsPanel' /\ PlaceOfTheSheet'
  BY DEF pickCity, QueryHasItsPanel, PlaceOfTheSheet
<1> QED BY <1>2, <1>3, <1>4 DEF pickCity, MapInv, Typed, CaseTyped, DataTyped, CallsTyped, case, data

\* Reading.
LEMMA ReadingStep ==
  ASSUME MapInv, \/ \E m \in memories : openMemory(m) \/ ShowMemoryOnMap(m)
                 \/ closeMemory \/ wanderNext \/ wanderPrev \/ OpenAbout \/ \E m \in Mems : SelectVoice(m)
  PROVE  MapInv'
<1>1. ASSUME NEW m \in memories, openMemory(m) \/ ShowMemoryOnMap(m) PROVE MapInv'
  <2>1. m \in Mems /\ Open(m)
    BY <1>1 DEF openMemory, ShowMemoryOnMap, MapInv, Typed, DataTyped
  <2>2. ComposeTyped' /\ ReadingTyped' /\ point' = None
    BY <2>1, OpenIs DEF MapInv
  <2>3. ScreenTyped'
    BY <1>1 DEF openMemory, ShowMemoryOnMap, MapInv, Typed, ScreenTyped, screen
  <2>4. UNCHANGED <<case, feed, search, data, caseCalls>>
    BY <1>1 DEF openMemory, ShowMemoryOnMap
  <2> QED BY <2>2, <2>3, <2>4 DEF MapInv, Typed, CaseTyped, FeedTyped, SearchTyped,
             DraftTyped, DataTyped, CallsTyped, QueryHasItsPanel, PlaceOfTheSheet, SpinnerIsAnswered,
             case, feed, search, data
<1>2. ASSUME ReadingTyped', UNCHANGED <<screen, compose, case, feed, search, data, caseCalls>> PROVE MapInv'
  BY <1>2 DEF MapInv, Typed, ScreenTyped, ComposeTyped, CaseTyped, FeedTyped, SearchTyped, DraftTyped, DataTyped,
       CallsTyped, QueryHasItsPanel, PlaceOfTheSheet, SpinnerIsAnswered, screen, compose, case, feed, search, data
<1>3. CASE closeMemory
  BY <1>2, <1>3 DEF closeMemory, MapInv, Typed, ReadingTyped
<1>4. CASE wanderNext \/ wanderPrev
  BY <1>2, <1>4, WanderIs, WanderBackIs DEF wanderNext, wanderPrev, MapInv
<1>5. CASE OpenAbout
  <2>1. ComposeTyped' /\ ReadingTyped' /\ point' = None
    BY <1>5, FormIs DEF OpenAbout, MapInv, Typed, ComposeTyped, ReadingTyped
  <2> QED BY <1>5, <2>1 DEF OpenAbout, MapInv, Typed, ScreenTyped, CaseTyped, FeedTyped, SearchTyped,
             DraftTyped, DataTyped, CallsTyped, QueryHasItsPanel, PlaceOfTheSheet, SpinnerIsAnswered,
             screen, case, feed, search, data
<1>6. ASSUME NEW m \in Mems, SelectVoice(m) PROVE MapInv'
  <2>1. ReadingTyped' /\ CaseTyped'
    BY <1>6 DEF SelectVoice, MapInv, Typed, ReadingTyped, CaseTyped
  <2> QED BY <1>6, <2>1 DEF SelectVoice, MapInv, Typed, ScreenTyped, ComposeTyped, FeedTyped, SearchTyped,
             DraftTyped, DataTyped, CallsTyped, QueryHasItsPanel, PlaceOfTheSheet, SpinnerIsAnswered,
             screen, compose, feed, search, data
<1> QED BY <1>1, <1>3, <1>4, <1>5, <1>6

\* The list and the cases.
LEMMA ListStep ==
  ASSUME MapInv, \/ ToggleList \/ ShowCaseOnMap \/ returnToList \/ CloseProfile \/ Escape
                 \/ \E k \in Cases : openCaseOf(k)
  PROVE  MapInv'
<1>1. CASE ToggleList \/ returnToList
  <2>1. UNCHANGED <<listCalls, loading>> \/ Asks(city, topics)
    BY <1>1 DEF ToggleList, returnToList, FetchList, Asks
  <2>2. city \in Cities \cup {"all"} /\ topics \in BOOLEAN
    BY DEF MapInv, Typed, ScreenTyped, SearchTyped
  <2>3. FeedTyped' /\ SpinnerIsAnswered'
    <3>1. UNCHANGED cases
      BY <1>1 DEF ToggleList, returnToList
    <3> QED BY <2>1, <2>2, <3>1, ListFeed
  <2>4. ScreenTyped' /\ ReadingTyped' /\ city' = city
    BY <1>1 DEF ToggleList, returnToList, MapInv, Typed, ScreenTyped, ReadingTyped, reading
  <2>5. UNCHANGED <<compose, case, search, data, caseCalls>>
    BY <1>1 DEF ToggleList, returnToList
  <2> QED BY <2>3, <2>4, <2>5 DEF MapInv, Typed, ComposeTyped, CaseTyped, SearchTyped,
             DraftTyped, DataTyped, CallsTyped, QueryHasItsPanel, PlaceOfTheSheet, compose, case, search, data
<1>2. CASE ShowCaseOnMap
  <2>1. ScreenTyped' /\ ReadingTyped' /\ city' = city
    BY <1>2 DEF ShowCaseOnMap, MapInv, Typed, ScreenTyped, ReadingTyped
  <2> QED BY <1>2, <2>1 DEF ShowCaseOnMap, MapInv, Typed, ComposeTyped, CaseTyped, FeedTyped, SearchTyped,
             DraftTyped, DataTyped, CallsTyped, QueryHasItsPanel, PlaceOfTheSheet, SpinnerIsAnswered,
             compose, case, feed, search, data
<1>3. CASE CloseProfile
  <2>1. CaseTyped'
    BY <1>3 DEF CloseProfile, CaseTyped
  <2> QED BY <1>3, <2>1 DEF CloseProfile, MapInv, Typed, ScreenTyped, ComposeTyped, ReadingTyped, FeedTyped, SearchTyped,
             DraftTyped, DataTyped, CallsTyped, QueryHasItsPanel, PlaceOfTheSheet, SpinnerIsAnswered,
             screen, compose, reading, feed, search, data
<1>4. CASE Escape
  <2>1. CaseTyped' /\ ReadingTyped' /\ SearchTyped'
    BY <1>4 DEF Escape, MapInv, Typed, CaseTyped, ReadingTyped, SearchTyped
  <2>2. DraftTyped'
    BY <1>4, FormIs DEF Escape, DraftTyped
  <2> QED BY <1>4, <2>1, <2>2 DEF Escape, MapInv, Typed, ScreenTyped, ComposeTyped, FeedTyped,
             DataTyped, CallsTyped, QueryHasItsPanel, PlaceOfTheSheet, SpinnerIsAnswered, screen, compose, feed, data
<1>5. ASSUME NEW k \in Cases, openCaseOf(k) PROVE MapInv'
  <2>1. CaseTyped' /\ CallsTyped'
    BY <1>5, FetchCaseIs DEF openCaseOf, MapInv, Typed, CaseTyped
  <2> QED BY <1>5, <2>1 DEF openCaseOf, MapInv, Typed, ScreenTyped, ComposeTyped, ReadingTyped, FeedTyped, SearchTyped,
             DraftTyped, DataTyped, QueryHasItsPanel, PlaceOfTheSheet, SpinnerIsAnswered,
             screen, compose, reading, feed, search, data
<1> QED BY <1>1, <1>2, <1>3, <1>4, <1>5

\* Searching: what is drawn is drawn in the panel.
LEMMA SearchStep ==
  ASSUME MapInv, \/ OpenResearch \/ closeResearch \/ toggleTopic \/ resetResearch
                 \/ (\E how \in {"circle", "polygon"} : startDraw(how)) \/ cancelDraw \/ clearShape
                 \/ DrawCircle \/ AddPoint \/ Finish \/ DoubleClick
  PROVE  MapInv'
<1>1. ASSUME SearchTyped', DraftTyped', QueryHasItsPanel', UNCHANGED <<screen, compose, reading, case, feed, data, caseCalls>>
      PROVE  MapInv'
  BY <1>1 DEF MapInv, Typed, ScreenTyped, ComposeTyped, ReadingTyped, CaseTyped, FeedTyped, DataTyped, CallsTyped,
       PlaceOfTheSheet, SpinnerIsAnswered, screen, compose, reading, case, feed, data
<1>2. CASE OpenResearch \/ closeResearch
  <2>1. SearchTyped' /\ QueryHasItsPanel'
    BY <1>2 DEF OpenResearch, closeResearch, MapInv, Typed, SearchTyped, QueryHasItsPanel
  <2>2. DraftTyped'
    <3>1. (UNCHANGED <<draft, mode>>) \/ draft' = NoDraft
      BY <1>2 DEF OpenResearch, closeResearch
    <3> QED BY <3>1, FormIs DEF MapInv, Typed, DraftTyped
  <2>3. UNCHANGED <<screen, compose, reading, case, feed, data, caseCalls>>
    BY <1>2 DEF OpenResearch, closeResearch
  <2> QED BY <1>1, <2>1, <2>2, <2>3
<1>3. CASE toggleTopic \/ resetResearch
  <2>1. \/ UNCHANGED <<listCalls, loading>>
        \/ \E t \in BOOLEAN : Asks(city, t)
    BY <1>3 DEF toggleTopic, resetResearch, FetchList, Asks, MapInv, Typed, SearchTyped
  <2>2. city \in Cities \cup {"all"} /\ topics \in BOOLEAN
    BY DEF MapInv, Typed, ScreenTyped, SearchTyped
  <2>3. FeedTyped' /\ SpinnerIsAnswered'
    BY <1>3, <2>1, <2>2, ListFeed DEF toggleTopic, resetResearch
  <2>4. SearchTyped' /\ DraftTyped' /\ QueryHasItsPanel'
    <3>1. (UNCHANGED <<draft, mode>>) \/ draft' = NoDraft
      BY <1>3 DEF toggleTopic, resetResearch
    <3>2. DraftTyped'
      BY <3>1, FormIs DEF MapInv, Typed, DraftTyped
    <3>3. SearchTyped' /\ QueryHasItsPanel'
      BY <1>3 DEF toggleTopic, resetResearch, MapInv, Typed, SearchTyped, QueryHasItsPanel
    <3> QED BY <3>2, <3>3
  <2> QED BY <1>3, <2>3, <2>4 DEF toggleTopic, resetResearch, MapInv, Typed, ScreenTyped, ComposeTyped, ReadingTyped,
             CaseTyped, DataTyped, CallsTyped, PlaceOfTheSheet, screen, compose, reading, case, data
<1>4. ASSUME NEW how \in {"circle", "polygon"}, startDraw(how) PROVE MapInv'
  <2>1. SearchTyped' /\ QueryHasItsPanel'
    BY <1>4 DEF startDraw, MapInv, Typed, SearchTyped, QueryHasItsPanel
  <2>2. DraftTyped'
    BY <1>4, FormIs DEF startDraw, MapInv, Typed, DraftTyped
  <2> QED BY <1>1, <1>4, <2>1, <2>2 DEF startDraw
<1>5. ASSUME NEW areas \in SUBSET (Areas \cup {{}}), mode # "off", Commit(areas) PROVE MapInv'
  <2>1. SearchTyped' /\ QueryHasItsPanel'
    BY <1>5 DEF Commit, MapInv, Typed, SearchTyped, QueryHasItsPanel
  <2>2. DraftTyped'
    BY <1>5, FormIs DEF Commit, DraftTyped
  <2> QED BY <1>1, <1>5, <2>1, <2>2 DEF Commit
<1>6. Areas \in SUBSET (Areas \cup {{}}) /\ \A n : Enclosed(n) \in SUBSET (Areas \cup {{}})
  BY DEF Enclosed
<1>7. CASE DrawCircle \/ Finish
  BY <1>5, <1>6, <1>7 DEF DrawCircle, Finish
<1>8. ASSUME NEW p \in 0 .. 4, NEW n \in 0 .. 4, n <= p, mode = "polygon", draft' = [points |-> p, distinct |-> n],
             UNCHANGED <<screen, compose, reading, case, feed, research, mode, shape, topics, data, caseCalls>>
      PROVE  MapInv'
  <2>1. DraftTyped'
    BY <1>8 DEF DraftTyped
  <2>2. SearchTyped' /\ QueryHasItsPanel'
    BY <1>8 DEF MapInv, Typed, SearchTyped, QueryHasItsPanel
  <2> QED BY <1>1, <1>8, <2>1, <2>2
<1>9. CASE AddPoint
  <2>1. /\ draft.points + 1 \in 0 .. 4 /\ draft.distinct + 1 \in 0 .. 4 /\ draft.distinct + 1 <= draft.points + 1
    <3>1. draft.points \in 0 .. 4 /\ draft.distinct \in 0 .. 4 /\ draft.distinct <= draft.points /\ draft.points < 4
      BY <1>9 DEF AddPoint, MapInv, Typed, DraftTyped
    <3> QED BY <3>1
  <2> QED BY <1>8, <1>9, <2>1 DEF AddPoint, Vertices
<1>10. CASE DoubleClick
  BY <1>5, <1>6, <1>8, <1>10 DEF DoubleClick, Vertices
<1>11. CASE cancelDraw \/ clearShape
  <2>1. SearchTyped' /\ QueryHasItsPanel'
    BY <1>11 DEF cancelDraw, clearShape, MapInv, Typed, SearchTyped, QueryHasItsPanel
  <2>2. DraftTyped'
    <3>1. (UNCHANGED <<draft, mode>>) \/ draft' = NoDraft
      BY <1>11 DEF cancelDraw, clearShape
    <3> QED BY <3>1, FormIs DEF MapInv, Typed, DraftTyped
  <2> QED BY <1>1, <1>11, <2>1, <2>2 DEF cancelDraw, clearShape
<1> QED BY <1>2, <1>3, <1>4, <1>7, <1>9, <1>10, <1>11

LEMMA MapStep == MapInv /\ [Next]_vars => MapInv'
<1> SUFFICES ASSUME MapInv, [Next]_vars PROVE MapInv'
  OBVIOUS
<1>1. CASE Next
  BY <1>1, ArrivalsStep, ComposeStep, CityStep, ReadingStep, ListStep, SearchStep DEF Next
<1>2. CASE UNCHANGED vars
  BY <1>2 DEF vars, MapInv, Typed, ScreenTyped, ComposeTyped, ReadingTyped, CaseTyped, FeedTyped, SearchTyped, DraftTyped,
       DataTyped, CallsTyped, QueryHasItsPanel, PlaceOfTheSheet, SpinnerIsAnswered,
       screen, compose, reading, case, feed, search, data
<1> QED BY <1>1, <1>2

-----------------------------------------------------------------------------
(* Theorems *)

\* Types, and with them: "Back" never remembers more than MaxHist memories, all of them real ones; vertices are there only
\* while a polygon is drawn; what is being posted is on the list of what was sent (app.jsx, map.jsx).
THEOREM MapTypeCorrect == Spec => []Typed
BY MapInit, MapStep, PTL DEF Spec, MapInv

\* QueryHasItsPanel: no order of drawing, closing, escaping and switching leaves a filter without the panel that clears it.
THEOREM FilterHasItsPanel == Spec => []QueryHasItsPanel
BY MapInit, MapStep, PTL DEF Spec, MapInv

\* PlaceOfTheSheet: a chosen place belongs to the sheet that is open, in a city.
THEOREM PlaceIsOfTheSheet == Spec => []PlaceOfTheSheet
BY MapInit, MapStep, PTL DEF Spec, MapInv

\* The safety half of ListAnswers: a list never spins without a request in flight that ends it (app.jsx:340-355).
THEOREM SpinnersAreAnswered == Spec => []SpinnerIsAnswered
BY MapInit, MapStep, PTL DEF Spec, MapInv
=============================================================================

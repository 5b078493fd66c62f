-------------------------- MODULE PublishingProofs --------------------------
(***************************************************************************)
(* Theorems about Team and Publishing, for any number of people, roles,    *)
(* submissions, sessions and acts.                                         *)
(***************************************************************************)
EXTENDS Publishing, FiniteSetTheorems, TLAPS

USE TeamAssumption

-----------------------------------------------------------------------------
(* Types: the team *)

LEMMA ActTypes == ASSUME TeamTypeOK, Act \/ UNCHANGED acts, uses' = uses PROVE acts' \in Nat /\ uses' \in Sessions
BY DEF TeamTypeOK, Act

\* A rank is between nothing and owner.
LEMMA RankTypes == ASSUME TeamTypeOK, NEW p \in People PROVE Rank(p) \in 0 .. 5 /\ (Entitled(p) \in BOOLEAN)
<1>1. roles[p] \in 0 .. 5
  BY DEF TeamTypeOK, Roles, Everyone
<1> QED BY <1>1 DEF Rank, RankIn, Entitled

\* What a panel is drawn from.
LEMMA PanelTypes == ASSUME NEW k \in 0 .. 5, NEW r \in Roles PROVE PanelOf(k, r) \in Panels
BY DEF Panels, PanelOf

\* What is drawn is not NotDrawn.
LEMMA DrawnIsNot == ASSUME NEW x, x.drawn PROVE x # NotDrawn
<1>1. ~NotDrawn.drawn
  BY DEF NotDrawn
<1> QED BY <1>1, Zenon

\* A panel that is drawn has rows, and selects that each show a role.
LEMMA DrawnPanel ==
  ASSUME TeamTypeOK, NEW p \in People, panels[p].drawn
  PROVE  /\ panels[p] \in [drawn : {TRUE}, rank : 0 .. 5, rows : Roles, shown : Roles]
         /\ Rows(p) \in Roles /\ panels[p].shown \in Roles
<1>1. panels[p] \in Panels
  BY DEF TeamTypeOK
<1>2. panels[p] # NotDrawn
  BY DrawnIsNot, Zenon
<1>3. panels[p] \in [drawn : {TRUE}, rank : 0 .. 5, rows : Roles, shown : Roles]
  BY <1>1, <1>2, Zenon DEF Panels
<1> QED BY <1>3 DEF Rows

\* A select that changes shows a role again.
LEMMA SelectTypes ==
  ASSUME TeamTypeOK, NEW p \in People, panels[p].drawn, NEW w \in Everyone, NEW to \in 0 .. 5,
         panels' = [panels EXCEPT ![p].shown[w] = to]
  PROVE  panels' \in [People -> Panels]
<1>1. panels[p] \in [drawn : {TRUE}, rank : 0 .. 5, rows : Roles, shown : Roles]
  BY DrawnPanel
<1>2. [panels[p] EXCEPT !.shown[w] = to] \in [drawn : {TRUE}, rank : 0 .. 5, rows : Roles, shown : Roles]
  BY <1>1 DEF Roles
<1> QED BY <1>2 DEF TeamTypeOK, Panels

\* A role that is read, shown or given is a role.
LEMMA ChangeTypes ==
  ASSUME TeamTypeOK, NEW c \in changing
  PROVE  c.by \in People /\ c.who \in Everyone /\ c.to \in 0 .. 5 /\ c \in Changes /\ People \subseteq Everyone
BY DEF TeamTypeOK, Changes, Everyone

\* A panel that is drawn again has the rows of the new roles.
LEMMA RedrawnTypes ==
  ASSUME TeamTypeOK, NEW p \in People, roles' \in Roles, Redrawn(p)
  PROVE  panels' \in [People -> Panels]
<1>1. CASE panels' = panels
  BY <1>1 DEF TeamTypeOK, Panels, Roles
<1>2. CASE panels' # panels
  <2>1. panels[p].drawn /\ panels' = [panels EXCEPT ![p] = PanelOf(panels[p].rank, roles')]
    BY <1>2 DEF Redrawn
  <2>2. panels[p].rank \in 0 .. 5
    BY <2>1, DrawnPanel
  <2>3. PanelOf(panels[p].rank, roles') \in Panels
    BY <2>2, PanelTypes
  <2> QED BY <2>1, <2>3 DEF TeamTypeOK
<1> QED BY <1>1, <1>2

\* A refusal puts a select back to the role that was drawn.
LEMMA RejectedTypes ==
  ASSUME TeamTypeOK, NEW c \in changing, Rejected(c)
  PROVE  panels' \in [People -> Panels] /\ changing' \subseteq Changes
<1>1. /\ c.by \in People /\ c.who \in Everyone /\ c.to \in 0 .. 5 /\ panels \in [People -> Panels]
      /\ panels' = IF c.to = 0 THEN panels ELSE [panels EXCEPT ![c.by].shown[c.who] = Rows(c.by)[c.who]]
  BY ChangeTypes DEF TeamTypeOK, Rejected
<1>2. ASSUME panels[c.by].drawn PROVE [panels[c.by] EXCEPT !.shown[c.who] = Rows(c.by)[c.who]] \in Panels
  <2>1. /\ panels[c.by] \in [drawn : {TRUE}, rank : 0 .. 5, rows : Roles, shown : Roles]
        /\ Rows(c.by) \in Roles
    BY <1>1, <1>2, DrawnPanel
  <2>2. Rows(c.by)[c.who] \in 0 .. 5
    BY <1>1, <2>1 DEF Roles
  <2>3. [panels[c.by] EXCEPT !.shown[c.who] = Rows(c.by)[c.who]]
          \in [drawn : {TRUE}, rank : 0 .. 5, rows : Roles, shown : Roles]
    BY <1>1, <2>1, <2>2 DEF Roles
  <2> QED BY <2>3 DEF Panels
<1>3. ASSUME ~panels[c.by].drawn PROVE panels[c.by] = NotDrawn
  <2>1. panels[c.by] \in Panels
    BY <1>1
  <2>2. CASE panels[c.by] \in [drawn : {TRUE}, rank : 0 .. 5, rows : Roles, shown : Roles]
    BY <1>3, <2>2
  <2> QED BY <2>1, <2>2, Zenon DEF Panels
<1>4. [NotDrawn EXCEPT !.shown[c.who] = Rows(c.by)[c.who]] = NotDrawn
  BY DEF NotDrawn
<1>5. panels' \in [People -> Panels]
  BY <1>1, <1>2, <1>3, <1>4
<1>6. changing' \subseteq Changes
  BY DEF TeamTypeOK, Rejected
<1> QED BY <1>5, <1>6

\* A call that goes on is a call.
LEMMA ProceedsTypes ==
  ASSUME TeamTypeOK, NEW c \in changing, NEW at \in {"allowed", "counted"}, Proceeds(c, at)
  PROVE  panels' \in [People -> Panels] /\ changing' \subseteq Changes
<1>1. [c EXCEPT !.at = at] \in Changes
  BY ChangeTypes DEF Changes
<1>2. changing' \subseteq Changes
  BY <1>1 DEF TeamTypeOK, Proceeds
<1>3. panels' \in [People -> Panels]
  BY DEF TeamTypeOK, Proceeds, Panels, Roles
<1> QED BY <1>2, <1>3

LEMMA AccessTypes ==
  ASSUME TeamTypeOK, AccessNext
  PROVE  TeamTypeOK'
<1>0. /\ roles \in Roles /\ grants \subseteq Everyone /\ changing \subseteq Changes /\ unguarded \in BOOLEAN
      /\ panels \in [People -> Panels] /\ invite \in [uses : Nat, revoked : BOOLEAN]
      /\ joining \subseteq [who : Everyone, had : 0 .. 5] /\ joined \subseteq Everyone
      /\ People \subseteq Everyone
  BY DEF TeamTypeOK, Everyone
<1>1. UNCHANGED <<uses, settings, manage, csv, sources>>
  BY DEF AccessNext
<1>2. acts' \in Nat /\ uses' \in Sessions
  BY <1>1, ActTypes DEF AccessNext, OpenPanel, Revoke, Change, Grant, AddMember, Admit, CountOwners, CommitChange,
                        CommitAdd, Join, Joined
<1> DEFINE T == /\ roles' \in Roles /\ grants' \subseteq Everyone /\ changing' \subseteq Changes /\ unguarded' \in BOOLEAN
                /\ panels' \in [People -> Panels] /\ invite' \in [uses : Nat, revoked : BOOLEAN]
                /\ joining' \subseteq [who : Everyone, had : 0 .. 5] /\ joined' \subseteq Everyone
<1>3. ASSUME NEW p \in Working, OpenPanel(p) PROVE T
  <2>1. p \in People /\ PanelOf(Rank(p), roles) \in Panels
    BY <1>0, RankTypes, PanelTypes DEF Working
  <2> QED BY <1>0, <1>3, <2>1 DEF OpenPanel
<1>4. ASSUME NEW p \in Working, Revoke(p) PROVE T
  BY <1>0, <1>4 DEF Revoke
<1>5. ASSUME NEW p \in Working, NEW w \in Everyone, NEW to \in {0, 2, 3, 5}, Change(p, w, to) PROVE T
  <2>1. p \in People /\ to \in 0 .. 5
    BY DEF Working
  <2>2. changing' \subseteq Changes
    BY <1>0, <1>5, <2>1 DEF Change, Changes
  <2>3. panels' \in [People -> Panels]
    BY <1>0, <1>5, <2>1, SelectTypes DEF Change
  <2> QED BY <1>0, <1>5, <2>2, <2>3 DEF Change
<1>6. ASSUME NEW p \in Working, NEW w \in Everyone, NEW on \in BOOLEAN, Grant(p, w, on) PROVE T
  BY <1>0, <1>6 DEF Grant
<1>7. ASSUME NEW p \in Working, NEW w \in Everyone, NEW to \in {2, 5}, AddMember(p, w, to) PROVE T
  BY <1>0, <1>7 DEF AddMember, Changes, Working
<1>8. ASSUME NEW c \in changing, Admit(c) \/ CountOwners(c) PROVE T
  <2>1. UNCHANGED <<roles, grants, unguarded, invite, joining, joined>>
    BY <1>8 DEF Admit, CountOwners
  <2>2. Proceeds(c, "allowed") \/ Proceeds(c, "counted") \/ Rejected(c)
    BY <1>8, Zenon DEF Admit, CountOwners
  <2>3. panels' \in [People -> Panels] /\ changing' \subseteq Changes
    BY <2>2, ProceedsTypes, RejectedTypes
  <2> QED BY <1>0, <2>1, <2>3
<1>9. ASSUME NEW c \in changing, CommitChange(c) PROVE T
  <2>1. /\ c.by \in People /\ c.who \in Everyone /\ c.to \in 0 .. 5
    BY ChangeTypes
  <2>2. roles' \in Roles
    BY <1>0, <1>9, <2>1 DEF CommitChange, Roles
  <2>3. panels' \in [People -> Panels]
    BY <1>0, <1>9, <2>1, <2>2, RedrawnTypes DEF CommitChange
  <2>4. unguarded' \in BOOLEAN
    BY <1>9 DEF CommitChange
  <2> QED BY <1>0, <1>9, <2>2, <2>3, <2>4 DEF CommitChange
<1>10. ASSUME NEW c \in changing, CommitAdd(c) PROVE T
  <2>1. /\ c.by \in People /\ c.who \in Everyone /\ c.to \in 0 .. 5
    BY ChangeTypes
  <2>2. roles' \in Roles
    BY <1>0, <1>10, <2>1 DEF CommitAdd, Roles
  <2>3. panels' \in [People -> Panels]
    BY <1>10, <2>1, <2>2, RedrawnTypes DEF CommitAdd
  <2>4. unguarded' \in BOOLEAN
    BY <1>10 DEF CommitAdd
  <2> QED BY <1>0, <1>10, <2>2, <2>3, <2>4 DEF CommitAdd
<1>11. ASSUME NEW w \in Everyone, Join(w) PROVE T
  <2>1. roles[w] \in 0 .. 5
    BY <1>0 DEF Roles
  <2> QED BY <1>0, <1>11, <2>1 DEF Join
<1>12. ASSUME NEW j \in joining, Joined(j) PROVE T
  <2>1. j.who \in Everyone /\ InviteRole \in 0 .. 5
    BY <1>0
  <2>2. roles' \in Roles
    BY <1>0, <1>12, <2>1 DEF Joined, Roles
  <2>3. unguarded' \in BOOLEAN
    BY <1>0, <1>12 DEF Joined
  <2> QED BY <1>0, <1>12, <2>1, <2>2, <2>3 DEF Joined
<1>13. T
  <2> HIDE DEF T
  <2> QED BY <1>3, <1>4, <1>5, <1>6, <1>7, <1>8, <1>9, <1>10, <1>11, <1>12 DEF AccessNext
<1> QED BY <1>1, <1>2, <1>13 DEF TeamTypeOK

LEMMA ManageTypes ==
  ASSUME TeamTypeOK, ManageNext
  PROVE  TeamTypeOK'
<1> DEFINE M == {NotDrawn} \cup [drawn : {TRUE}, form : SettingsForms, own : SUBSET Fields, archived : BOOLEAN]
<1>0. /\ settings \in [form : SettingsForms, archived : BOOLEAN]
      /\ manage \in [People -> M]
  BY DEF TeamTypeOK
<1>1. UNCHANGED <<uses, accessVars, csv, sources>>
  BY DEF ManageNext
<1>2. acts' \in Nat /\ uses' \in Sessions
  BY <1>1, ActTypes DEF ManageNext, OpenManage, TypeField, SaveSettings, Archive
<1>3. PICK p \in People : \/ OpenManage(p) \/ SaveSettings(p) \/ Archive(p)
                          \/ \E f \in Fields : TypeField(p, f)
  BY DEF ManageNext, Working
<1>4. manage[p].drawn => manage[p] \in [drawn : {TRUE}, form : SettingsForms, own : SUBSET Fields, archived : BOOLEAN]
  <2>1. manage[p] \in M
    BY <1>0
  <2> QED BY <2>1, DrawnIsNot
<1>5. settings' \in [form : SettingsForms, archived : BOOLEAN] /\ manage' \in [People -> M]
  <2>1. CASE OpenManage(p)
    <3>1. [drawn |-> TRUE, form |-> settings.form, own |-> {}, archived |-> settings.archived] \in M
      BY <1>0
    <3> QED BY <1>0, <2>1, <3>1 DEF OpenManage
  <2>2. CASE SaveSettings(p)
    BY <1>0, <1>4, <2>2 DEF SaveSettings
  <2>3. CASE Archive(p)
    <3>1. manage[p].form \in SettingsForms
      BY <1>4, <2>3 DEF Archive
    <3>2. manage' = [manage EXCEPT ![p] = NotDrawn]
      BY <2>3 DEF Archive
    <3>3. settings' \in [form : SettingsForms, archived : BOOLEAN]
      BY <2>3, <3>1 DEF Archive
    <3> QED BY <1>0, <3>2, <3>3
  <2>4. ASSUME NEW f \in Fields, TypeField(p, f)
        PROVE  settings' \in [form : SettingsForms, archived : BOOLEAN] /\ manage' \in [People -> M]
    <3>1. manage[p] \in [drawn : {TRUE}, form : SettingsForms, own : SUBSET Fields, archived : BOOLEAN]
      BY <1>4, <2>4 DEF TypeField
    <3>2. [manage[p] EXCEPT !.form[f] = p, !.own = manage[p].own \cup {f}] \in M
      BY <3>1 DEF SettingsForms
    <3>3. manage' = [manage EXCEPT ![p] = [manage[p] EXCEPT !.form[f] = p, !.own = manage[p].own \cup {f}]]
      BY <2>4, <1>0 DEF TypeField
    <3> QED BY <1>0, <2>4, <3>2, <3>3 DEF TypeField
  <2> QED BY <1>3, <2>1, <2>2, <2>3, <2>4
<1> QED BY <1>1, <1>2, <1>5 DEF TeamTypeOK, accessVars, Panels, Roles, Changes, NotDrawn, SettingsForms, Routings

LEMMA ImportTypes ==
  ASSUME TeamTypeOK, ImportNext
  PROVE  TeamTypeOK'
<1> DEFINE C == [n : Nat, text : 0 .. 2, commit : BOOLEAN]
<1>0. csv \in [text : 0 .. 2, of : 0 .. 2, calls : SUBSET C, imported : Seq(0 .. 2)] /\ acts \in Nat
  BY DEF TeamTypeOK
<1>1. UNCHANGED <<uses, accessVars, settings, manage, sources>>
  BY DEF ImportNext
<1>2. acts' \in Nat /\ uses' \in Sessions
  BY <1>1, ActTypes DEF ImportNext, TypeCsv, Preview, DoImport, Send, Imported
<1>3. csv' \in [text : 0 .. 2, of : 0 .. 2, calls : SUBSET C, imported : Seq(0 .. 2)]
  <2>1. CASE TypeCsv
    BY <1>0, <2>1 DEF TypeCsv
  <2>2. ASSUME NEW b \in BOOLEAN, Send(b)
        PROVE  csv' \in [text : 0 .. 2, of : 0 .. 2, calls : SUBSET C, imported : Seq(0 .. 2)]
    BY <1>0, <2>2 DEF Send
  <2>3. ASSUME NEW c \in csv.calls, Imported(c)
        PROVE  csv' \in [text : 0 .. 2, of : 0 .. 2, calls : SUBSET C, imported : Seq(0 .. 2)]
    <3>1. c.text \in 0 .. 2 /\ Append(csv.imported, c.text) \in Seq(0 .. 2)
      BY <1>0
    <3> DEFINE commits == c.commit /\ c.text # 0 /\ ~settings.archived
               imported == IF commits THEN Append(csv.imported, c.text) ELSE csv.imported
               of == IF settings.archived THEN csv.of ELSE IF commits THEN 0 ELSE c.text
    <3>2. imported \in Seq(0 .. 2) /\ of \in 0 .. 2
      BY <1>0, <3>1
    <3>3. csv' = [csv EXCEPT !.calls = csv.calls \ {c}, !.imported = imported, !.of = of]
      BY <2>3 DEF Imported
    <3> HIDE DEF imported, of
    <3> QED BY <1>0, <3>2, <3>3
  <2> QED BY <2>1, <2>2, <2>3 DEF ImportNext, Preview, DoImport
<1> QED BY <1>1, <1>2, <1>3 DEF TeamTypeOK, accessVars

LEMMA SourcesTypes ==
  ASSUME TeamTypeOK, SourcesNext
  PROVE  TeamTypeOK'
<1> DEFINE S == [routing : Routings, selected : Routings, patches : SUBSET [n : Nat, routing : Routings],
                 key : Nat, answers : SUBSET Nat, shown : Nat]
<1>0. sources \in S /\ acts \in Nat
  BY DEF TeamTypeOK
<1>1. UNCHANGED <<uses, accessVars, settings, manage, csv>>
  BY DEF SourcesNext
<1>2. acts' \in Nat /\ uses' \in Sessions
  BY <1>1, ActTypes DEF SourcesNext, PickRoute, UpdateSource, Rotate, ShowKey
<1>3. sources' \in S
  <2>1. ASSUME NEW k \in Kinds, NEW v \in 0 .. 1, PickRoute(k, v) PROVE sources' \in S
    <3>1. [sources.selected EXCEPT ![k] = v] \in Routings
      BY <1>0 DEF Routings
    <3> DEFINE s == [sources.selected EXCEPT ![k] = v]
    <3>2. sources' = [sources EXCEPT !.selected = s, !.patches = sources.patches \cup {[n |-> acts, routing |-> s]}]
      BY <2>1 DEF PickRoute
    <3> HIDE DEF s
    <3>3. sources.patches \cup {[n |-> acts, routing |-> s]} \subseteq [n : Nat, routing : Routings]
      BY <1>0, <3>1 DEF s
    <3> QED BY <1>0, <3>1, <3>2, <3>3 DEF s
  <2>2. ASSUME NEW x \in sources.patches, UpdateSource(x) PROVE sources' \in S
    BY <1>0, <2>2 DEF UpdateSource
  <2>3. CASE Rotate
    <3>1. /\ sources' = [sources EXCEPT !.key = sources.key + 1, !.answers = sources.answers \cup {sources.key + 1}]
      BY <2>3 DEF Rotate
    <3>2. sources.key + 1 \in Nat /\ sources.answers \cup {sources.key + 1} \subseteq Nat
      BY <1>0
    <3> QED BY <1>0, <3>1, <3>2
  <2>4. ASSUME NEW v \in sources.answers, ShowKey(v) PROVE sources' \in S
    BY <1>0, <2>4 DEF ShowKey
  <2> QED BY <2>1, <2>2, <2>3, <2>4 DEF SourcesNext
<1> QED BY <1>1, <1>2, <1>3 DEF TeamTypeOK, accessVars

-----------------------------------------------------------------------------
(* Owners *)

\* A project starts with an owner: who makes it (people.py).
Founded == \E p \in People : FirstRoles[p] = 5

\* One join at a time: the invite's row is locked.
OneJoin == \A j, k \in joining : j = k

\* Who has counted holds the row of its member: nobody else has counted for that member.
OneEach == \A c, d \in changing : c.at = "counted" /\ d.at = "counted" /\ c.who = d.who => c = d

\* Why an owner is left: until an unguarded write, what every count has found out still holds.
OwnersInv == OneEach /\ (~unguarded => Covered)

\* The count in LastOwner finds out whether there is another owner.
LEMMA AnotherOwner ==
  ASSUME NEW w, Owners # {}, ~(roles[w] = 5 /\ Cardinality(Owners) <= 1)
  PROVE  \E o \in Owners : o # w
<1>1. ASSUME \A o \in Owners : o = w PROVE FALSE
  <2>1. Owners = {w}
    BY <1>1
  <2>2. Cardinality(Owners) = 1 /\ roles[w] = 5
    BY <2>1, FS_Singleton DEF Owners
  <2> QED BY <2>2
<1> QED BY <1>1

LEMMA OwnersInit == ASSUME Founded, TeamInit PROVE OwnersInv
<1>1. PICK p \in People : FirstRoles[p] = 5
  BY DEF Founded
<1>2. p \in Owners
  BY <1>1 DEF TeamInit, Owners, Everyone
<1> QED BY <1>2 DEF TeamInit, OwnersInv, OneEach, Covered

\* Roles as they were, and no count more than before.
LEMMA OwnersStay ==
  ASSUME OwnersInv, UNCHANGED <<roles, unguarded>>, \A c \in changing' : c \in changing \/ c.at # "counted"
  PROVE  OwnersInv'
BY DEF OwnersInv, OneEach, Covered, Takes, Owners

\* A write to the roles by c: nobody has counted for its member any more, and it takes no owner, or leaves another one.
LEMMA OwnersWritten ==
  ASSUME TeamTypeOK, Covered, NEW c \in changing, c.at = "counted" \/ ~Takes(c), changing' = changing \ {c},
         roles' = [roles EXCEPT ![c.who] = c.to],
         \A d \in changing' : d.at = "counted" => d.who # c.who,
         ~Takes(c) \/ \A d \in changing' : d.at = "counted" => ~Takes(d)
  PROVE  Covered'
<1>0. roles \in Roles /\ c.who \in Everyone
  BY ChangeTypes DEF TeamTypeOK
<1>1. \A o \in Owners : o # c.who => o \in Owners'
  BY <1>0 DEF Owners, Roles
<1>2. c.to = 5 => c.who \in Owners'
  BY <1>0 DEF Owners, Roles
<1>3. ~Takes(c) => Owners \subseteq Owners'
  <2>1. CASE c.to = 5
    BY <1>1, <1>2, <2>1
  <2>2. CASE roles[c.who] # 5
    BY <1>1, <2>2 DEF Owners
  <2> QED BY <2>1, <2>2 DEF Takes
<1>4. Owners' # {}
  <2>1. CASE Takes(c)
    <3>1. PICK o \in Owners : o # c.who
      BY <2>1 DEF Covered
    <3> QED BY <1>1, <3>1
  <2>2. CASE ~Takes(c)
    BY <1>3, <2>2 DEF Covered
  <2> QED BY <2>1, <2>2
<1>5. ASSUME NEW d \in changing', d.at = "counted", Takes(d)' PROVE Owners' # {d.who}
  <2>1. d \in changing /\ d.who # c.who /\ d.who \in Everyone
    BY <1>5, ChangeTypes
  <2>2. Takes(d)
    BY <1>0, <1>5, <2>1 DEF Takes, Roles
  <2>3. PICK o \in Owners : o # d.who
    BY <1>5, <2>1, <2>2 DEF Covered
  <2>4. o \in Owners'
    BY <1>3, <1>5, <2>2, <2>3
  <2> QED BY <2>3, <2>4
<1> QED BY <1>4, <1>5 DEF Covered

LEMMA OwnersStep ==
  ASSUME TeamTypeOK, OwnersInv, AccessNext
  PROVE  OwnersInv'
<1>0. roles \in Roles
  BY DEF TeamTypeOK
<1>1. ASSUME NEW p \in Working, NEW w \in Everyone,
             \/ OpenPanel(p) \/ Revoke(p)
             \/ \E to \in {0, 2, 3, 5} : Change(p, w, to)
             \/ \E on \in BOOLEAN : Grant(p, w, on)
             \/ \E to \in {2, 5} : AddMember(p, w, to)
      PROVE  OwnersInv'
  <2>1. UNCHANGED <<roles, unguarded>> /\ \A c \in changing' : c \in changing \/ c.at # "counted"
    BY <1>1 DEF OpenPanel, Revoke, Change, Grant, AddMember
  <2> QED BY <2>1, OwnersStay
<1>2. ASSUME NEW w \in Everyone, Join(w) PROVE OwnersInv'
  BY <1>2, OwnersStay DEF Join
<1>3. ASSUME NEW c \in changing, Admit(c) PROVE OwnersInv'
  <2>1. c \in Changes
    BY ChangeTypes
  <2>2. [c EXCEPT !.at = "allowed"].at = "allowed"
    BY <2>1 DEF Changes
  <2>3. UNCHANGED <<roles, unguarded>> /\ \A d \in changing' : d \in changing \/ d.at # "counted"
    BY <1>3, <2>2 DEF Admit, Proceeds, Rejected
  <2> QED BY <2>3, OwnersStay
<1>4. ASSUME NEW c \in changing, CountOwners(c) PROVE OwnersInv'
  <2>1. CASE Rejected(c)
    <3>1. UNCHANGED <<roles, unguarded>> /\ \A d \in changing' : d \in changing
      BY <1>4, <2>1 DEF CountOwners, Rejected
    <3> QED BY <3>1, OwnersStay
  <2>2. CASE ~Rejected(c)
    <3> DEFINE e == [c EXCEPT !.at = "counted"]
    <3>1. changing' = (changing \ {c}) \cup {e} /\ UNCHANGED <<roles, unguarded>> /\ ~LastOwner(c) /\ ~Locked(c.who)
      BY <1>4, <2>2 DEF CountOwners, Proceeds
    <3>2. e.at = "counted" /\ e.to = c.to /\ e.who = c.who
      BY ChangeTypes DEF Changes
    <3> HIDE DEF e
    <3>3. OneEach'
      BY <3>1, <3>2 DEF OwnersInv, OneEach, Locked
    <3>4. ASSUME Covered, Takes(e) PROVE Owners # {e.who}
      <4>1. \E o \in Owners : o # c.who
        BY <3>1, <3>2, <3>4, AnotherOwner DEF LastOwner, Covered, Takes
      <4> QED BY <3>2, <4>1
    <3>5. Covered => Covered'
      BY <3>1, <3>4 DEF Covered, Takes, Owners
    <3> QED BY <3>1, <3>3, <3>5 DEF OwnersInv
  <2> QED BY <2>1, <2>2
<1>5. ASSUME NEW c \in changing, CommitChange(c) \/ CommitAdd(c) PROVE OwnersInv'
  <2>1. changing' = changing \ {c} /\ roles' = [roles EXCEPT ![c.who] = c.to]
    BY <1>5 DEF CommitChange, CommitAdd
  <2>2. \A d \in changing' : d.at = "counted" => d.who # c.who
    BY <1>5, <2>1 DEF CommitChange, CommitAdd, Locked, OwnersInv, OneEach
  <2>3. ASSUME ~unguarded' PROVE Covered'
    <3>1. Covered
      BY <1>5, <2>3 DEF CommitChange, CommitAdd, OwnersInv
    <3>2. CASE CommitChange(c)
      <4>1. Covered' \/ \A d \in changing' : d.at = "counted" => ~Takes(d)
        BY <2>1, <2>3, <3>2 DEF CommitChange
      <4>2. c.at = "counted"
        BY <3>2 DEF CommitChange
      <4> QED BY <2>1, <2>2, <3>1, <4>1, <4>2, OwnersWritten
    <3>3. CASE CommitAdd(c)
      <4>1. Covered' \/ ~Takes(c)
        BY <2>3, <3>3 DEF CommitAdd
      <4> QED BY <2>1, <2>2, <3>1, <4>1, OwnersWritten
    <3> QED BY <1>5, <3>2, <3>3
  <2>4. OneEach'
    BY <2>1 DEF OwnersInv, OneEach
  <2> QED BY <2>3, <2>4 DEF OwnersInv
<1>6. ASSUME NEW j \in joining, Joined(j) PROVE OwnersInv'
  <2>1. changing' = changing
    BY <1>6 DEF Joined
  <2>2. ASSUME ~unguarded' PROVE Covered'
    <3>1. Covered
      BY <1>6, <2>2 DEF Joined, OwnersInv
    <3>2. CASE roles' = roles
      BY <2>1, <3>1, <3>2 DEF Covered, Takes, Owners
    <3>3. CASE roles' # roles
      <4>1. Raised(j) /\ roles' = [roles EXCEPT ![j.who] = InviteRole] /\ (Covered' \/ roles[j.who] # 5)
        BY <1>6, <2>2, <3>3 DEF Joined
      <4>2. CASE roles[j.who] # 5
        <5>1. \A p \in Everyone : roles[p] = 5 <=> roles'[p] = 5
          BY <1>0, <4>1, <4>2 DEF Roles
        <5>2. Owners' = Owners
          BY <5>1 DEF Owners
        <5>3. \A d \in changing : Takes(d)' <=> Takes(d)
          BY <5>1, ChangeTypes DEF Takes
        <5> QED BY <2>1, <3>1, <5>2, <5>3 DEF Covered
      <4> QED BY <4>1, <4>2
    <3> QED BY <3>2, <3>3
  <2>3. OneEach'
    BY <2>1 DEF OwnersInv, OneEach
  <2> QED BY <2>2, <2>3 DEF OwnersInv
<1>7. Working \subseteq Everyone
  BY DEF Working, Everyone
<1> QED BY <1>1, <1>3, <1>4, <1>5, <1>6, <1>2, <1>7 DEF AccessNext

-----------------------------------------------------------------------------
(* The invite link *)

\* Why the link lets in no more than it says: every join is counted with the row locked, and the one that holds the row
\* has found it active.
InviteInv ==
  /\ OneJoin
  /\ joining # {} => ~invite.revoked /\ invite.uses < MaxUses
  /\ IsFiniteSet(joined) /\ Cardinality(joined) <= invite.uses

LEMMA InviteInit == ASSUME TeamInit PROVE InviteInv
<1>1. joined = {} /\ joining = {} /\ invite.uses = 0
  BY DEF TeamInit
<1> QED BY <1>1, FS_EmptySet DEF InviteInv, OneJoin

LEMMA InviteStep ==
  ASSUME TeamTypeOK, InviteInv, AccessNext
  PROVE  InviteInv' /\ (joined' # joined => ~invite.revoked /\ Cardinality(joined') <= MaxUses)
<1> USE DEF InviteInv, OneJoin
<1>0. invite \in [uses : Nat, revoked : BOOLEAN] /\ MaxUses \in Nat
  BY DEF TeamTypeOK
<1>1. CASE UNCHANGED <<invite, joining, joined>>
  BY <1>1
<1>2. ASSUME NEW w \in Everyone, Join(w) PROVE InviteInv' /\ joined' = joined
  BY <1>2 DEF Join, Active
<1>3. ASSUME NEW p \in Working, Revoke(p) PROVE InviteInv' /\ joined' = joined
  BY <1>0, <1>3 DEF Revoke
<1>4. ASSUME NEW j \in joining, Joined(j)
      PROVE  InviteInv' /\ (joined' # joined => ~invite.revoked /\ Cardinality(joined') <= MaxUses)
  <2>1. joining' = {} /\ ~invite.revoked /\ invite.uses < MaxUses
    BY <1>4 DEF Joined
  <2>2. CASE UNCHANGED <<invite, joined>>
    BY <2>1, <2>2
  <2>3. CASE joined' = joined \cup {j.who} /\ invite' = [invite EXCEPT !.uses = @ + 1]
    <3>1. /\ IsFiniteSet(joined')
          /\ Cardinality(joined') = Cardinality(joined) \/ Cardinality(joined') = Cardinality(joined) + 1
      BY <2>3, FS_AddElement
    <3>2. Cardinality(joined) \in Nat /\ invite'.uses = invite.uses + 1
      BY <1>0, <2>3, FS_CardinalityType
    <3> QED BY <1>0, <2>1, <3>1, <3>2
  <2> QED BY <1>4, <2>2, <2>3 DEF Joined
<1>5. ASSUME NEW p \in Working, NEW w \in Everyone,
             \/ \E to \in {0, 2, 3, 5} : Change(p, w, to)
             \/ \E on \in BOOLEAN : Grant(p, w, on)
             \/ \E to \in {2, 5} : AddMember(p, w, to)
      PROVE  UNCHANGED <<invite, joining, joined>>
  BY <1>5 DEF Change, Grant, AddMember
<1>6. ASSUME NEW c \in changing, Admit(c) \/ CountOwners(c) \/ CommitChange(c) \/ CommitAdd(c)
      PROVE  UNCHANGED <<invite, joining, joined>>
  BY <1>6 DEF Admit, CountOwners, CommitChange, CommitAdd
<1>7. ASSUME NEW p \in Working, OpenPanel(p) PROVE UNCHANGED <<invite, joining, joined>>
  BY <1>7 DEF OpenPanel
<1> HIDE DEF InviteInv
<1> QED BY <1>1, <1>2, <1>3, <1>4, <1>5, <1>6, <1>7 DEF AccessNext

-----------------------------------------------------------------------------
(* Types: the desk *)

\* What Live and Published make of a publication.
LEMMA SyncedIs ==
  ASSUME NEW d \in Drafts, NEW subs
  PROVE  /\ Synced(d, subs) \in Drafts
         /\ Synced(d, subs).listed = d.listed \cup FiledIn(subs)
BY DEF Synced, Drafts, FiledIn

LEMMA LiveIs ==
  ASSUME NEW b \in Publications, NEW d \in Drafts, NEW subs
  PROVE  /\ Live(b, d, subs) \in Publications
         /\ Live(b, d, subs).state = b.state /\ Live(b, d, subs).public = b.public
         /\ Live(b, d, subs).batched = b.batched
         /\ IF Synced(d, subs) = d
              THEN Live(b, d, subs) = b
              ELSE Live(b, d, subs).draft = Synced(d, subs) /\ (b.state = "published" => Live(b, d, subs).dirty)
<1>1. CASE Synced(d, subs) = d
  BY <1>1 DEF Live
<1>2. CASE Synced(d, subs) # d
  <2> DEFINE dirty == b.dirty \/ b.state = "published"
  <2>1. Live(b, d, subs) = [b EXCEPT !.draft = Synced(d, subs), !.dirty = dirty]
    BY <1>2 DEF Live
  <2>2. dirty \in BOOLEAN /\ (b.state = "published" => dirty)
    BY DEF Publications
  <2> HIDE DEF dirty
  <2>3. Synced(d, subs) \in Drafts
    BY SyncedIs
  <2>4. Live(b, d, subs) \in Publications
    BY <2>1, <2>2, <2>3 DEF Publications
  <2>5. b.state = "published" => Live(b, d, subs).dirty
    BY <2>1, <2>2 DEF Publications
  <2>6. /\ Live(b, d, subs).state = b.state /\ Live(b, d, subs).public = b.public
        /\ Live(b, d, subs).batched = b.batched /\ Live(b, d, subs).draft = Synced(d, subs)
    BY <2>1 DEF Publications
  <2> QED BY <1>2, <2>4, <2>5, <2>6
<1> QED BY <1>1, <1>2

LEMMA PublishedIs ==
  ASSUME NEW b \in Publications, NEW d \in Drafts
  PROVE  /\ Published(b, d) \in Publications
         /\ Published(b, d).draft = Live(b, d, sub).draft /\ Published(b, d).batched = b.batched
         /\ Published(b, d).public = ShownOf(Synced(d, sub))
<1>1. Live(b, d, sub) \in Publications /\ Live(b, d, sub).batched = b.batched
  BY LiveIs
<1>2. ShownOf(Synced(d, sub)) \in [text : Nat, parts : SUBSET Parts]
  BY SyncedIs DEF ShownOf, Drafts
<1>3. Live(b, d, sub).version + 1 \in Nat
  BY <1>1 DEF Publications
<1> QED BY <1>1, <1>2, <1>3 DEF Published, Publications

LEMMA WrittenIs ==
  ASSUME TypeOK, NEW p \in People, calls[p].op \in Unlocked, calls[p].at = "read"
  PROVE  /\ Written(p, calls[p], pub) \in Publications
         /\ Written(p, calls[p], pub).batched = pub.batched /\ Written(p, calls[p], pub).public = pub.public
         /\ \/ Written(p, calls[p], pub).draft = pub.draft /\ Written(p, calls[p], pub).dirty = pub.dirty
               /\ Written(p, calls[p], pub).state \in {pub.state, "withdrawn"}
            \/ Written(p, calls[p], pub).dirty
<1>1. calls[p] \in [op : Unlocked, form : Drafts, at : {"read"}, role : 0 .. 5]
  BY DEF TypeOK, Calls, Idle, Unlocked, OnPage, Reviews
<1>2. pub \in Publications /\ p \in People \cup {Nobody} /\ Nobody \in People \cup {Nobody}
  BY DEF TypeOK
<1>3. CASE calls[p].op = "save"
  BY <1>1, <1>2, <1>3 DEF Written, Publications
<1>4. CASE calls[p].op = "request"
  BY <1>2, <1>4 DEF Written, Publications
<1>5. CASE calls[p].op = "cancel"
  BY <1>2, <1>5 DEF Written, Publications
<1>6. CASE calls[p].op = "withdraw"
  BY <1>2, <1>6 DEF Written, Publications
<1>7. CASE calls[p].op = "republish"
  BY <1>2, <1>7 DEF Written, Publications
<1> QED BY <1>3, <1>4, <1>5, <1>6, <1>7 DEF Unlocked

\* What a page, a triage page and a call are once they are there.
LEMMA PageIs ==
  ASSUME TypeOK, NEW p \in People, pages[p].drawn
  PROVE  pages[p] \in [drawn : {TRUE}, pub : Publications, form : Drafts, editor : BOOLEAN, can : BOOLEAN]
<1>1. pages[p] \in Pages
  BY DEF TypeOK
<1> QED BY <1>1, DrawnIsNot DEF Pages

LEMMA TriageIs ==
  ASSUME TypeOK, NEW p \in People, triage[p].drawn
  PROVE  triage[p] \in [drawn : {TRUE}, s : Parts, state : {"new", "attached", "created", "rejected"}, role : 0 .. 5]
<1>1. triage[p] \in Triages
  BY DEF TypeOK
<1> QED BY <1>1, DrawnIsNot DEF Triages

LEMMA CallIs ==
  ASSUME TypeOK, NEW p \in People
  PROVE  /\ calls[p].op \in OnPage /\ calls[p].at = "sent" => calls[p] \in [op : OnPage, form : Drafts, at : {"sent"}]
         /\ calls[p].op \in Unlocked /\ calls[p].at = "read" =>
              calls[p] \in [op : Unlocked, form : Drafts, at : {"read"}, role : 0 .. 5]
         /\ calls[p].at = "out" =>
              calls[p] \in [op : OnPage \cup {"open", "start"}, at : {"out"}, role : 0 .. 5, seen : Publications]
         /\ calls[p].op \in Reviews \cup {"reopen"} =>
              calls[p].s \in Parts /\ calls[p].at \in {"sent", "read", "filing"}
         /\ calls[p].op \in Reviews /\ calls[p].at = "sent" =>
              calls[p] \in [op : Reviews \cup {"reopen"}, s : Parts, at : {"sent", "read"}]
         /\ calls[p].op = "attach" /\ calls[p].at = "filing" => calls[p].seen \in Publications
         /\ calls[p].op = "batch" => calls[p].seen \in Publications
<1>1. calls[p] \in Calls
  BY DEF TypeOK
<1> QED BY <1>1 DEF Calls, Idle, OnPage, Unlocked, Reviews

\* A page that is shown, and a call that has been answered but for _out.
LEMMA PageTypes ==
  ASSUME TypeOK, NEW p \in People, NEW b \in Publications, NEW role \in 0 .. 5
  PROVE  Page(p, b, role) \in Pages
<1>1. b.draft \in Drafts /\ (role >= 3) \in BOOLEAN /\ Entitled(p) \in BOOLEAN
  BY RankTypes DEF Publications, TypeOK
<1> QED BY <1>1 DEF Page, Pages

LEMMA AnsweredTypes ==
  ASSUME TypeOK, NEW p \in People, NEW role \in 0 .. 5, pub' \in Publications, calls[p].op \in OnPage, Answered(p, role)
  PROVE  calls' \in [People -> Calls]
<1>1. [op |-> calls[p].op, at |-> "out", role |-> role, seen |-> pub']
        \in [op : OnPage \cup {"open", "start"}, at : {"out"}, role : 0 .. 5, seen : Publications]
  OBVIOUS
<1>2. [op |-> calls[p].op, at |-> "out", role |-> role, seen |-> pub'] \in Calls
  BY <1>1 DEF Calls
<1> QED BY <1>2 DEF TypeOK, Answered

LEMMA ReviewedTypes ==
  ASSUME TypeOK, NEW p \in People, calls[p].op \in Reviews \cup {"reopen"},
         NEW state \in {"new", "attached", "created", "rejected"}, NEW here \in BOOLEAN,
         Reviewed(p, calls[p].s, state, here)
  PROVE  /\ sub' \in [Parts -> Submissions] /\ triage' \in [People -> Triages] /\ calls' \in [People -> Calls]
         /\ UNCHANGED <<batch, pages>>
<1>1. sub' \in [Parts -> Submissions] /\ UNCHANGED <<batch, pages>>
  BY DEF TypeOK, Reviewed, Submissions
<1>2. calls' \in [People -> Calls]
  BY DEF TypeOK, Reviewed, Calls
<1>3. triage' \in [People -> Triages]
  <2>1. CASE triage[p] = NotDrawn
    <3>1. [triage[p] EXCEPT !.state = state] = NotDrawn
      BY <2>1 DEF NotDrawn
    <3> QED BY <3>1, <2>1 DEF TypeOK, Reviewed
  <2>2. CASE triage[p] # NotDrawn
    <3>1. triage[p] \in [drawn : {TRUE}, s : Parts, state : {"new", "attached", "created", "rejected"}, role : 0 .. 5]
      BY <2>2 DEF TypeOK, Triages
    <3>2. [triage[p] EXCEPT !.state = state] \in Triages
      BY <3>1 DEF Triages
    <3> QED BY <3>2 DEF TypeOK, Reviewed
  <2> QED BY <2>1, <2>2
<1> QED BY <1>1, <1>2, <1>3

\* Every click of the desk.
LEMMA ClicksTypes ==
  ASSUME TypeOK, NEW p \in People, Clicks(p)
  PROVE  pages' \in [People -> Pages] /\ calls' \in [People -> Calls] /\ UNCHANGED <<pub, batch, sub, excused, triage>>
<1> DEFINE T == pages' \in [People -> Pages] /\ calls' \in [People -> Calls] /\ UNCHANGED <<pub, batch, sub, excused, triage>>
<1>0. pages \in [People -> Pages] /\ calls \in [People -> Calls] /\ acts \in Nat /\ pub \in Publications
  BY DEF TypeOK, TeamTypeOK
<1>1. ASSUME TypeText(p) PROVE T
  <2>1. pages[p] \in [drawn : {TRUE}, pub : Publications, form : Drafts, editor : BOOLEAN, can : BOOLEAN]
    BY <1>1, PageIs DEF TypeText, Editable
  <2>2. [pages[p].form EXCEPT !.text = acts + 1] \in Drafts
    BY <1>0, <2>1 DEF Drafts
  <2>3. [pages[p] EXCEPT !.form.text = acts + 1] \in Pages
    BY <2>1, <2>2 DEF Pages
  <2> QED BY <1>0, <1>1, <2>3 DEF TypeText
<1>2. ASSUME NEW op \in OnPage, Click(p, op) PROVE T
  <2>1. pages[p] \in [drawn : {TRUE}, pub : Publications, form : Drafts, editor : BOOLEAN, can : BOOLEAN]
    BY <1>2, PageIs DEF Click
  <2>2. [op |-> op, form |-> pages[p].form, at |-> "sent"] \in Calls
    BY <2>1 DEF Calls
  <2> QED BY <1>0, <1>2, <2>2 DEF Click
<1>3. ASSUME ReadBatch(p) PROVE T
  <2>1. [op |-> "batch", at |-> "read", seen |-> pub] \in Calls
    BY <1>0 DEF Calls
  <2> QED BY <1>0, <1>3, <2>1 DEF ReadBatch
<1>4. ASSUME NEW s \in Parts, Tick(p, s) PROVE T
  <2>1. pages[p] \in [drawn : {TRUE}, pub : Publications, form : Drafts, editor : BOOLEAN, can : BOOLEAN]
    BY <1>4, PageIs DEF Tick, Editable
  <2> DEFINE left == IF s \in pages[p].form.left THEN pages[p].form.left \ {s} ELSE pages[p].form.left \cup {s}
  <2>2. left \subseteq Parts
    BY <2>1 DEF Drafts
  <2>3. pages' = [pages EXCEPT ![p] = [pages[p] EXCEPT !.form = [pages[p].form EXCEPT !.left = left]]]
    BY <1>0, <1>4 DEF Tick
  <2> HIDE DEF left
  <2>4. [pages[p] EXCEPT !.form = [pages[p].form EXCEPT !.left = left]] \in Pages
    BY <2>1, <2>2 DEF Pages, Drafts
  <2> QED BY <1>0, <1>4, <2>3, <2>4 DEF Tick
<1>5. ASSUME NEW op \in Reviews \cup {"reopen"}, ClickReview(p, op) PROVE T
  <2>1. triage[p].s \in Parts
    BY <1>5, TriageIs DEF ClickReview
  <2>2. [op |-> op, s |-> triage[p].s, at |-> "sent"] \in Calls
    BY <2>1 DEF Calls
  <2> QED BY <1>0, <1>5, <2>2 DEF ClickReview
<1>6. "request" \in OnPage
  BY DEF OnPage, Unlocked
<1> QED
  <2> HIDE DEF T
  <2>1. T
    BY <1>1, <1>2, <1>3, <1>4, <1>5, <1>6 DEF Clicks, AskReview
  <2> QED BY <2>1 DEF T

\* Every request that the server answers, and every page that opens or is left.
LEMMA WorksTypes ==
  ASSUME TypeOK, NEW p \in People, Works(p)
  PROVE  /\ pub' \in Publications /\ batch' \in [made : BOOLEAN, published : BOOLEAN]
         /\ sub' \in [Parts -> Submissions] /\ excused' \subseteq Parts
         /\ pages' \in [People -> Pages] /\ triage' \in [People -> Triages]
         /\ calls' \in [People -> Calls]
<1> DEFINE T == /\ pub' \in Publications /\ batch' \in [made : BOOLEAN, published : BOOLEAN]
                /\ sub' \in [Parts -> Submissions] /\ excused' \subseteq Parts
                /\ pages' \in [People -> Pages] /\ triage' \in [People -> Triages]
                /\ calls' \in [People -> Calls]
<1>0. /\ pub \in Publications /\ pub.draft \in Drafts /\ batch \in [made : BOOLEAN, published : BOOLEAN]
      /\ sub \in [Parts -> Submissions] /\ excused \subseteq Parts
      /\ pages \in [People -> Pages] /\ triage \in [People -> Triages] /\ calls \in [People -> Calls]
      /\ Idle \in Calls /\ NotDrawn \in Pages /\ NotDrawn \in Triages
  BY DEF TypeOK, Publications, Calls, Pages, Triages
<1>1. ASSUME Refused(p) PROVE T
  BY <1>0, <1>1 DEF Refused
<1>2. ASSUME NEW more \in SUBSET Parts, Excuses(more) PROVE excused' \subseteq Parts
  BY <1>0, <1>2 DEF Excuses, Passed
<1>3. Rank(p) \in 0 .. 5
  BY RankTypes DEF TypeOK
<1>4. ASSUME Start(p) PROVE T
  <2>1. pub' \in Publications
    BY <1>0, <1>4 DEF Start, Publications
  <2>2. [op |-> "start", at |-> "out", role |-> Rank(p), seen |-> pub']
          \in [op : OnPage \cup {"open", "start"}, at : {"out"}, role : 0 .. 5, seen : Publications]
    BY <1>3, <2>1
  <2>3. calls' \in [People -> Calls]
    BY <1>0, <1>4, <2>2 DEF Start, Calls
  <2> QED BY <1>0, <1>4, <2>1, <2>3 DEF Start
<1>5. ASSUME OpenPublication(p) PROVE T
  <2>1. [op |-> "open", at |-> "out", role |-> Rank(p), seen |-> pub]
          \in [op : OnPage \cup {"open", "start"}, at : {"out"}, role : 0 .. 5, seen : Publications]
    BY <1>0, <1>3
  <2>2. calls' \in [People -> Calls]
    BY <1>0, <1>5, <2>1 DEF OpenPublication, Calls
  <2> QED BY <1>0, <1>5, <2>2 DEF OpenPublication
<1>6. ASSUME Out(p) PROVE T
  <2> DEFINE c == calls[p]
             d == Synced(c.seen.draft, sub)
             b == [c.seen EXCEPT !.draft = d]
  <2>1. c.seen \in Publications /\ c.role \in 0 .. 5 /\ c.seen.draft \in Drafts
    BY <1>6, CallIs DEF Out, Publications
  <2>2. pub' \in Publications
    BY <1>0, <1>6, <2>1, LiveIs DEF Out
  <2>3. b \in Publications
    <3>1. d \in Drafts
      BY <2>1, SyncedIs
    <3> HIDE DEF d
    <3> QED BY <2>1, <3>1 DEF Publications
  <2>4. Page(p, b, c.role) \in Pages
    BY <2>1, <2>3, PageTypes
  <2>5. pages' = pages \/ pages' = [pages EXCEPT ![p] = Page(p, b, c.role)]
    BY <1>6 DEF Out
  <2>6. pages' \in [People -> Pages]
    BY <1>0, <2>4, <2>5
  <2>7. excused' \subseteq Parts
    BY <1>2, <1>6 DEF Out
  <2> QED BY <1>0, <1>6, <2>2, <2>6, <2>7 DEF Out
<1>7. ASSUME Leave(p) PROVE T
  BY <1>0, <1>7 DEF Leave
<1>8. ASSUME NEW s \in Parts, OpenSubmission(p, s) PROVE T
  <2>1. sub[s].state \in {"new", "attached", "created", "rejected"}
    BY <1>0 DEF Submissions
  <2>2. [drawn |-> TRUE, s |-> s, state |-> sub[s].state, role |-> Rank(p)] \in Triages
    BY <1>3, <2>1 DEF Triages
  <2> QED BY <1>0, <1>8, <2>2 DEF OpenSubmission
<1>9. ASSUME Read(p) PROVE T
  <2> DEFINE c == [op |-> calls[p].op, form |-> calls[p].form, at |-> "read", role |-> Rank(p)]
  <2>1. calls[p].op \in Unlocked /\ calls[p].form \in Drafts
    BY <1>9, CallIs DEF Read, OnPage
  <2>2. c \in Calls
    BY <1>3, <2>1 DEF Calls
  <2>3. CASE Refused(p)
    BY <1>1, <2>3
  <2>4. CASE ~Refused(p)
    <3>1. calls' = [calls EXCEPT ![p] = c] /\ UNCHANGED <<pub, batch, sub, excused, pages, triage>>
      BY <1>9, <2>4 DEF Read
    <3> HIDE DEF c
    <3> QED BY <1>0, <2>2, <3>1
  <2> QED BY <2>3, <2>4
<1>10. ASSUME Write(p) PROVE T
  <2>1. pub' \in Publications
    BY <1>10, WrittenIs DEF Write
  <2>2. calls[p].role \in 0 .. 5 /\ calls[p].op \in OnPage
    BY <1>10, CallIs DEF Write, OnPage
  <2>3. calls' \in [People -> Calls]
    BY <1>10, <2>1, <2>2, AnsweredTypes DEF Write
  <2>4. excused' \subseteq Parts
    BY <1>2, <1>10 DEF Write
  <2> QED BY <1>0, <1>10, <2>1, <2>3, <2>4 DEF Write
<1>11. ASSUME Approve(p) PROVE T
  <2>1. CASE Permits(p, "approve", pub)
    <3>1. pub' \in Publications
      BY <1>0, <1>11, <2>1, PublishedIs DEF Approve
    <3>2. calls[p].op \in OnPage /\ Answered(p, Rank(p))
      BY <1>11, <2>1 DEF Approve, OnPage
    <3>3. calls' \in [People -> Calls]
      BY <1>3, <3>1, <3>2, AnsweredTypes
    <3> QED BY <1>0, <1>11, <2>1, <3>1, <3>3 DEF Approve
  <2>2. CASE ~Permits(p, "approve", pub)
    BY <1>1, <1>11, <2>2 DEF Approve
  <2> QED BY <2>1, <2>2
<1>12. ASSUME CheckNew(p) PROVE T
  <2>1. calls[p] \in [op : Reviews \cup {"reopen"}, s : Parts, at : {"sent", "read"}]
    BY <1>12, CallIs DEF CheckNew
  <2>2. [calls[p] EXCEPT !.at = "read"] \in Calls
    BY <2>1 DEF Calls
  <2> QED BY <1>0, <1>1, <1>12, <2>2 DEF CheckNew
<1>13. ASSUME File(p) PROVE T
  <2>1. calls[p].s \in Parts
    BY <1>13, CallIs DEF File, Reviews
  <2>2. [op |-> "attach", s |-> calls[p].s, at |-> "filing", seen |-> pub] \in Calls
    BY <1>0, <2>1 DEF Calls
  <2> QED BY <1>0, <1>13, <2>2 DEF File
<1>14. ASSUME Attach(p) PROVE T
  <2>1. /\ calls[p].op = "attach" /\ calls[p].seen \in Publications /\ calls[p].s \in Parts
        /\ calls[p].op \in Reviews \cup {"reopen"}
    BY <1>14, CallIs DEF Attach, Filing, Reviews
  <2>2. Reviewed(p, calls[p].s, "attached", TRUE)
    BY <1>14 DEF Attach
  <2>3. calls[p].seen.draft \in Drafts
    BY <2>1 DEF Publications
  <2>4. sub' \in [Parts -> Submissions] /\ triage' \in [People -> Triages] /\ calls' \in [People -> Calls]
        /\ UNCHANGED <<batch, pages>>
    BY <2>1, <2>2, ReviewedTypes
  <2>5. pub' = pub \/ pub' = Live(pub, calls[p].seen.draft, sub')
    BY <1>14 DEF Attach
  <2>6. pub' \in Publications
    BY <1>0, <2>3, <2>5, LiveIs
  <2> DEFINE more == IF Found(calls[p].seen) \/ pub.state # calls[p].seen.state
                       THEN {calls[p].s} \ pub'.draft.listed ELSE {}
  <2>7. Excuses(more) /\ more \in SUBSET Parts
    BY <1>14, <2>1 DEF Attach
  <2> HIDE DEF more
  <2>8. excused' \subseteq Parts
    BY <1>2, <2>7
  <2> QED BY <1>0, <2>4, <2>6, <2>8
<1>15. ASSUME CreateOrReject(p) PROVE T
  <2>1. calls[p].op \in Reviews \cup {"reopen"} /\ calls[p].s \in Parts
    BY <1>15, CallIs DEF CreateOrReject, Reviews
  <2>2. sub[calls[p].s].here \in BOOLEAN
    BY <1>0, <2>1 DEF Submissions
  <2>3. \/ Reviewed(p, calls[p].s, "created", FALSE)
        \/ Reviewed(p, calls[p].s, "rejected", sub[calls[p].s].here)
    BY <1>15 DEF CreateOrReject
  <2>4. pub' = pub /\ excused' \subseteq Parts
    BY <1>2, <1>15 DEF CreateOrReject
  <2> QED BY <1>0, <2>1, <2>2, <2>3, <2>4, ReviewedTypes
<1>16. ASSUME Reopen(p) PROVE T
  <2>1. calls[p].op \in Reviews \cup {"reopen"} /\ calls[p].s \in Parts
    BY <1>16, CallIs DEF Reopen
  <2>2. sub[calls[p].s].here \in BOOLEAN
    BY <1>0, <2>1 DEF Submissions
  <2>3. CASE Reviewed(p, calls[p].s, "new", sub[calls[p].s].here) /\ UNCHANGED <<pub, excused>>
    BY <1>0, <2>1, <2>2, <2>3, ReviewedTypes
  <2> QED BY <1>1, <1>16, <2>3 DEF Reopen
<1>17. ASSUME MakeBatch(p) PROVE T
  BY <1>0, <1>17 DEF MakeBatch, Publications
<1>18. ASSUME PublishBatch(p) PROVE T
  <2>1. calls[p].seen \in Publications
    BY <1>18, CallIs DEF PublishBatch
  <2>2. calls[p].seen.draft \in Drafts
    BY <2>1 DEF Publications
  <2>3. pub' \in Publications
    BY <1>0, <1>18, <2>2, PublishedIs DEF PublishBatch
  <2>4. excused' \subseteq Parts
    BY <1>2, <1>18 DEF PublishBatch
  <2> QED BY <1>0, <1>18, <2>3, <2>4 DEF PublishBatch
<1> QED
  <2> HIDE DEF T
  <2>1. T
    BY <1>4, <1>5, <1>6, <1>7, <1>8, <1>9, <1>10, <1>11, <1>12, <1>13, <1>14, <1>15, <1>16, <1>17, <1>18 DEF Works
  <2> QED BY <2>1 DEF T

LEMMA DeskTypes == ASSUME TypeOK, DeskNext PROVE TypeOK'
<1>1. UNCHANGED <<uses, accessVars, settings, manage, csv, sources>>
  BY DEF DeskNext
<1>2. PICK p \in People : Clicks(p) \/ (Works(p) /\ UNCHANGED acts)
  BY DEF DeskNext, Working
<1>3. Clicks(p) => Act
  BY DEF Clicks, TypeText, AskReview, Click, ReadBatch, Tick, ClickReview
<1>4. acts' \in Nat /\ uses' \in Sessions
  BY <1>1, <1>2, <1>3, ActTypes DEF TypeOK
<1>5. TeamTypeOK'
  BY <1>1, <1>4 DEF TypeOK, TeamTypeOK, accessVars
<1>6. CASE Clicks(p)
  BY <1>5, <1>6, ClicksTypes DEF TypeOK
<1>7. CASE Works(p)
  BY <1>5, <1>7, WorksTypes DEF TypeOK
<1> QED BY <1>2, <1>6, <1>7

LEMMA TypesInit == Init => TypeOK
<1> SUFFICES ASSUME Init PROVE TypeOK
  OBVIOUS
<1>1. TeamTypeOK
  <2>1. roles \in Roles /\ panels \in [People -> Panels]
    <3>1. /\ roles = [p \in Everyone |-> IF p \in People THEN FirstRoles[p] ELSE 0]
          /\ panels = [p \in People |-> NotDrawn]
      BY DEF Init, TeamInit
    <3>2. \A p \in Everyone : (IF p \in People THEN FirstRoles[p] ELSE 0) \in 0 .. 5
      OBVIOUS
    <3> QED BY <3>1, <3>2 DEF Roles, Panels
  <2>2. settings \in [form : SettingsForms, archived : BOOLEAN]
    BY DEF Init, TeamInit, SettingsForms
  <2>3. sources \in [routing : Routings, selected : Routings, patches : SUBSET [n : Nat, routing : Routings],
                    key : Nat, answers : SUBSET Nat, shown : Nat]
    <3>1. sources = [routing |-> [k \in Kinds |-> 0], selected |-> [k \in Kinds |-> 0], patches |-> {},
                     key |-> 1, answers |-> {}, shown |-> 1]
      BY DEF Init, TeamInit
    <3>2. [k \in Kinds |-> 0] \in Routings
      BY DEF Routings
    <3> QED BY <3>1, <3>2
  <2>4. csv \in [text : 0 .. 2, of : 0 .. 2, calls : SUBSET [n : Nat, text : 0 .. 2, commit : BOOLEAN],
                imported : Seq(0 .. 2)]
    <3>1. csv = [text |-> 0, of |-> 0, calls |-> {}, imported |-> <<>>]
      BY DEF Init, TeamInit
    <3> QED BY <3>1
  <2>5. /\ uses \in Sessions /\ acts \in Nat /\ grants \subseteq Everyone /\ changing \subseteq Changes
        /\ unguarded \in BOOLEAN /\ invite \in [uses : Nat, revoked : BOOLEAN]
        /\ joining \subseteq [who : Everyone, had : 0 .. 5] /\ joined \subseteq Everyone
        /\ manage \in [People -> {NotDrawn}]
    BY DEF Init, TeamInit
  <2> QED BY <2>1, <2>2, <2>3, <2>4, <2>5 DEF TeamTypeOK
<1>2. pub \in Publications
  BY DEF Init, Publications, Drafts, NoDraft, Unpublished
<1>3. /\ batch \in [made : BOOLEAN, published : BOOLEAN] /\ sub \in [Parts -> Submissions] /\ excused \subseteq Parts
      /\ pages \in [People -> Pages] /\ triage \in [People -> Triages] /\ calls \in [People -> Calls]
  BY DEF Init, Submissions, Pages, Triages, Calls, Idle
<1> QED BY <1>1, <1>2, <1>3 DEF TypeOK

LEMMA TypesStep == TypeOK /\ [Next]_vars => TypeOK'
<1> SUFFICES ASSUME TypeOK, [Next]_vars PROVE TypeOK'
  OBVIOUS
<1>1. CASE TeamNext /\ UNCHANGED deskVars
  <2>1. TeamTypeOK'
    BY <1>1, AccessTypes, ManageTypes, ImportTypes, SourcesTypes DEF TeamNext, TypeOK
  <2> QED BY <1>1, <2>1 DEF TypeOK, deskVars
<1>2. CASE DeskNext
  BY <1>2, DeskTypes
<1>3. CASE UNCHANGED vars
  BY <1>3 DEF vars, teamVars, accessVars, deskVars, TypeOK, TeamTypeOK
<1> QED BY <1>1, <1>2, <1>3 DEF Next

\* Every variable keeps its type, for any number of people, roles, submissions, sessions and acts.
THEOREM PublishingTypeCorrect == Spec => []TypeOK
BY TypesInit, TypesStep, PTL DEF Spec

-----------------------------------------------------------------------------
(* Owners and the link, of the specification *)

LEMMA TeamUntouched == DeskNext \/ UNCHANGED vars \/ ManageNext \/ ImportNext \/ SourcesNext => UNCHANGED accessVars
BY DEF DeskNext, ManageNext, ImportNext, SourcesNext, vars, teamVars, accessVars

\* "A project needs at least one owner" (people.py), of every project that starts with one: role changes and removals,
\* however many are under way, take the last owner only after a write that nobody counts owners for, or together with
\* another change that has counted on this owner.
THEOREM OwnersAreKept == ASSUME Founded PROVE Spec => []OwnersKept
<1>1. Init => OwnersInv
  BY OwnersInit DEF Init
<1>2. TypeOK /\ OwnersInv /\ [Next]_vars => OwnersInv'
  <2> SUFFICES ASSUME TypeOK, OwnersInv, [Next]_vars PROVE OwnersInv'
    OBVIOUS
  <2>1. CASE AccessNext
    BY <2>1, OwnersStep DEF TypeOK
  <2>2. CASE ~AccessNext
    <3>1. UNCHANGED accessVars
      BY <2>2, TeamUntouched DEF Next, TeamNext
    <3> QED BY <3>1, OwnersStay DEF accessVars
  <2> QED BY <2>1, <2>2
<1>3. OwnersInv => OwnersKept
  BY DEF OwnersInv, OwnersKept, Covered
<1> QED BY <1>1, <1>2, <1>3, PublishingTypeCorrect, PTL DEF Spec

\* A link lets in no more people than it says, and nobody once it is revoked (accept_invite, revoke_invite), for any
\* number of people and uses.
THEOREM LinkHolds == Spec => InviteHolds
<1>1. Init => InviteInv
  BY InviteInit DEF Init
<1>2. TypeOK /\ InviteInv /\ [Next]_vars =>
        InviteInv' /\ [joined' # joined => ~invite.revoked /\ Cardinality(joined') <= MaxUses]_teamVars
  <2> SUFFICES ASSUME TypeOK, InviteInv, [Next]_vars
               PROVE  InviteInv' /\ (joined' # joined => ~invite.revoked /\ Cardinality(joined') <= MaxUses)
    OBVIOUS
  <2>1. CASE AccessNext
    BY <2>1, InviteStep DEF TypeOK
  <2>2. CASE ~AccessNext
    <3>1. UNCHANGED accessVars
      BY <2>2, TeamUntouched DEF Next, TeamNext
    <3> QED BY <3>1 DEF accessVars, InviteInv, OneJoin
  <2> QED BY <2>1, <2>2
<1> QED BY <1>1, <1>2, PublishingTypeCorrect, PTL DEF Spec, InviteHolds

-----------------------------------------------------------------------------
(* The published version and its draft *)

\* Without the mark "unpublished changes", what is public is the draft.
Clean == pub.state = "published" /\ ~pub.dirty /\ ~pub.batched => pub.public = ShownOf(pub.draft)

\* What is rejected and filed here is in the draft, or excused: when it is reopened, it is filed again.
RejectedKept == \A s \in Parts : sub[s].here /\ sub[s].state = "rejected" => s \in pub.draft.listed \cup excused

\* Without that mark, what is filed here is in the draft, or excused.
FiledKept ==
  pub.state = "published" /\ ~pub.dirty /\ ~pub.batched => \A s \in Parts : sub[s].here => s \in pub.draft.listed \cup excused

\* Only a member of the batch is published with it.
BatchedOnly == (batch.made => pub.batched) /\ \A p \in People : calls[p].op = "batch" => batch.made

DeskInv == Clean /\ RejectedKept /\ FiledKept /\ BatchedOnly

LEMMA DeskInit == Init => DeskInv
BY DEF Init, DeskInv, Clean, RejectedKept, FiledKept, BatchedOnly, Idle

LEMMA DeskStays ==
  ASSUME DeskInv, UNCHANGED <<pub, batch, sub, excused, calls>>
  PROVE  DeskInv'
BY DEF DeskInv, Clean, RejectedKept, FiledKept, BatchedOnly

\* What a step excuses: what is rejected is excused, or listed, and nothing is excused no more.
LEMMA Excused == ASSUME NEW more, Excuses(more) PROVE RejectedKept' /\ excused \cup more \subseteq excused'
BY DEF Excuses, Passed, RejectedKept

\* A step in which p asks for something else than the batch.
LEMMA OthersBatch ==
  ASSUME TypeOK, BatchedOnly, NEW p \in People, NEW c, calls' = [calls EXCEPT ![p] = c], c.op = "batch" => batch.made,
         batch'.made = batch.made, pub'.batched = pub.batched
  PROVE  BatchedOnly'
BY DEF TypeOK, BatchedOnly

\* A step that only changes the call of p.
LEMMA CallStep ==
  ASSUME TypeOK, DeskInv, NEW p \in People, NEW c, calls' = [calls EXCEPT ![p] = c],
         UNCHANGED <<pub, batch, sub, excused>>, c.op = "batch" => batch.made
  PROVE  DeskInv'
<1>1. BatchedOnly'
  BY OthersBatch DEF DeskInv
<1> QED BY <1>1 DEF DeskInv, Clean, RejectedKept, FiledKept

LEMMA ClicksDesk == ASSUME TypeOK, DeskInv, NEW p \in People, Clicks(p) PROVE DeskInv'
<1>1. UNCHANGED <<pub, batch, sub, excused>>
  BY DEF Clicks, TypeText, AskReview, Click, ReadBatch, Tick, ClickReview
<1>2. ASSUME NEW op \in OnPage, Click(p, op) PROVE DeskInv'
  <2> DEFINE c == [op |-> op, form |-> pages[p].form, at |-> "sent"]
  <2>1. calls' = [calls EXCEPT ![p] = c] /\ c.op # "batch"
    BY <1>2 DEF Click, OnPage, Unlocked
  <2> HIDE DEF c
  <2> QED BY <1>1, <2>1, CallStep
<1>3. ASSUME NEW op \in Reviews \cup {"reopen"}, ClickReview(p, op) PROVE DeskInv'
  <2> DEFINE c == [op |-> op, s |-> triage[p].s, at |-> "sent"]
  <2>1. calls' = [calls EXCEPT ![p] = c] /\ c.op # "batch"
    BY <1>3 DEF ClickReview, Reviews
  <2> HIDE DEF c
  <2> QED BY <1>1, <2>1, CallStep
<1>4. ASSUME ReadBatch(p) PROVE DeskInv'
  <2> DEFINE c == [op |-> "batch", at |-> "read", seen |-> pub]
  <2>1. calls' = [calls EXCEPT ![p] = c] /\ batch.made
    BY <1>4 DEF ReadBatch
  <2> HIDE DEF c
  <2> QED BY <1>1, <2>1, CallStep
<1>5. ASSUME UNCHANGED calls PROVE DeskInv'
  BY <1>1, <1>5, DeskStays
<1>6. "request" \in OnPage
  BY DEF OnPage, Unlocked
<1> QED BY <1>2, <1>3, <1>4, <1>5, <1>6 DEF Clicks, TypeText, AskReview, Tick

\* Live on the publication: it stays as it is, or a published one is marked.
LEMMA LiveDesk ==
  ASSUME TypeOK, DeskInv, NEW d \in Drafts, NEW subs, pub' = Live(pub, d, subs),
         excused \subseteq excused', \A s \in Parts : sub'[s].here => sub[s].here \/ s \in pub'.draft.listed \cup excused'
  PROVE  Clean' /\ FiledKept' /\ pub'.batched = pub.batched
<1>1. pub \in Publications
  BY DEF TypeOK
<1>2. CASE pub' = pub
  BY <1>2 DEF DeskInv, Clean, FiledKept
<1>3. CASE pub' # pub
  <2>1. (pub'.state = "published" => pub'.dirty) /\ pub'.batched = pub.batched
    BY <1>1, <1>3, LiveIs
  <2> QED BY <2>1 DEF Clean, FiledKept
<1> QED BY <1>2, <1>3

LEMMA StartDesk == ASSUME TypeOK, DeskInv, NEW p \in People, Start(p) PROVE DeskInv'
<1> DEFINE c == [op |-> "start", at |-> "out", role |-> Rank(p), seen |-> pub']
<1>1. /\ pub' = [pub EXCEPT !.state = "draft"] /\ calls' = [calls EXCEPT ![p] = c] /\ c.op # "batch"
      /\ UNCHANGED <<batch, sub, excused>>
  BY DEF Start
<1>2. pub'.batched = pub.batched /\ pub'.draft = pub.draft /\ pub'.state = "draft"
  BY <1>1 DEF TypeOK, Publications
<1> HIDE DEF c
<1>3. BatchedOnly'
  BY <1>1, <1>2, OthersBatch DEF DeskInv
<1> QED BY <1>1, <1>2, <1>3 DEF DeskInv, Clean, RejectedKept, FiledKept

LEMMA OutDesk == ASSUME TypeOK, DeskInv, NEW p \in People, Out(p) PROVE DeskInv'
<1>1. /\ pub' = Live(pub, calls[p].seen.draft, sub) /\ Excuses({}) /\ calls' = [calls EXCEPT ![p] = Idle]
      /\ UNCHANGED <<batch, sub>>
  BY DEF Out
<1>2. calls[p].seen.draft \in Drafts
  BY CallIs DEF Out, Publications
<1>3. RejectedKept' /\ excused \subseteq excused'
  BY <1>1, Excused
<1>4. Clean' /\ FiledKept' /\ pub'.batched = pub.batched
  BY <1>1, <1>2, <1>3, LiveDesk
<1>5. Idle.op # "batch"
  BY DEF Idle
<1>6. BatchedOnly'
  BY <1>1, <1>4, <1>5, OthersBatch DEF DeskInv
<1> QED BY <1>3, <1>4, <1>6 DEF DeskInv

LEMMA WriteDesk == ASSUME TypeOK, DeskInv, NEW p \in People, Write(p) PROVE DeskInv'
<1> DEFINE c == [op |-> calls[p].op, at |-> "out", role |-> calls[p].role, seen |-> pub']
<1>1. /\ pub'.batched = pub.batched /\ pub'.public = pub.public
      /\ \/ pub'.draft = pub.draft /\ pub'.dirty = pub.dirty /\ pub'.state \in {pub.state, "withdrawn"}
         \/ pub'.dirty
  BY WrittenIs DEF Write
<1>2. Excuses({}) /\ calls' = [calls EXCEPT ![p] = c] /\ UNCHANGED <<batch, sub>> /\ c.op # "batch"
  BY DEF Write, Answered, Unlocked
<1> HIDE DEF c
<1>3. RejectedKept' /\ excused \subseteq excused'
  BY <1>2, Excused
<1>4. Clean' /\ FiledKept'
  BY <1>1, <1>2, <1>3 DEF DeskInv, Clean, FiledKept
<1>5. BatchedOnly'
  BY <1>1, <1>2, OthersBatch DEF DeskInv
<1> QED BY <1>3, <1>4, <1>5 DEF DeskInv

LEMMA ApproveDesk == ASSUME TypeOK, DeskInv, NEW p \in People, Approve(p), Permits(p, "approve", pub) PROVE DeskInv'
<1> DEFINE c == [op |-> calls[p].op, at |-> "out", role |-> Rank(p), seen |-> pub']
<1>1. /\ pub' = Published(pub, pub.draft) /\ calls' = [calls EXCEPT ![p] = c] /\ UNCHANGED <<batch, sub, excused>>
      /\ c.op # "batch"
  BY DEF Approve, Answered
<1> HIDE DEF c
<1>2. pub \in Publications /\ pub.draft \in Drafts /\ sub \in [Parts -> Submissions]
  BY DEF TypeOK, Publications
<1>3. /\ pub'.draft = Synced(pub.draft, sub) /\ pub'.batched = pub.batched
      /\ pub'.public = ShownOf(Synced(pub.draft, sub))
  BY <1>1, <1>2, PublishedIs, LiveIs
<1>4. Clean'
  BY <1>3 DEF Clean
<1>5. pub'.draft.listed = pub.draft.listed \cup FiledIn(sub)
  BY <1>2, <1>3, SyncedIs
<1>6. RejectedKept' /\ FiledKept'
  BY <1>1, <1>5 DEF DeskInv, RejectedKept, FiledKept, FiledIn
<1>7. BatchedOnly'
  BY <1>1, <1>3, OthersBatch DEF DeskInv
<1> QED BY <1>4, <1>6, <1>7 DEF DeskInv

LEMMA PublishBatchDesk == ASSUME TypeOK, DeskInv, NEW p \in People, PublishBatch(p) PROVE DeskInv'
<1>1. /\ pub' = IF calls[p].seen.state = "draft" THEN Published(pub, calls[p].seen.draft) ELSE pub
      /\ Excuses({}) /\ calls' = [calls EXCEPT ![p] = Idle] /\ batch' = [batch EXCEPT !.published = TRUE]
      /\ UNCHANGED sub
  BY DEF PublishBatch
<1>2. pub \in Publications /\ calls[p].seen \in Publications
  BY CallIs DEF TypeOK, PublishBatch
<1>3. calls[p].seen.draft \in Drafts
  BY <1>2 DEF Publications
<1>4. pub'.batched = pub.batched
  BY <1>1, <1>2, <1>3, PublishedIs
<1>5. Clean' /\ FiledKept'
  BY <1>4 DEF DeskInv, BatchedOnly, Clean, FiledKept, PublishBatch
<1>6. batch'.made = batch.made
  BY <1>1 DEF TypeOK
<1>7. Idle.op # "batch"
  BY DEF Idle
<1>8. BatchedOnly'
  BY <1>1, <1>4, <1>6, <1>7, OthersBatch DEF DeskInv
<1> QED BY <1>1, <1>5, <1>8, Excused DEF DeskInv

\* The commit of a filing: the submission joins the draft that was read, or it is excused.
LEMMA AttachDesk == ASSUME TypeOK, DeskInv, NEW p \in People, Attach(p) PROVE DeskInv'
<1> DEFINE c == calls[p]
           more == IF Found(c.seen) \/ pub.state # c.seen.state THEN {c.s} \ pub'.draft.listed ELSE {}
<1>1. c.s \in Parts /\ c.seen.draft \in Drafts
  BY CallIs DEF Attach, Filing, Reviews, Publications
<1>2. /\ sub' = [sub EXCEPT ![c.s] = [state |-> "attached", here |-> TRUE]]
      /\ calls' = [calls EXCEPT ![p] = Idle] /\ batch' = batch /\ Excuses(more)
      /\ pub' = IF Found(c.seen) THEN Live(pub, c.seen.draft, sub') ELSE pub
  BY DEF Attach, Reviewed
<1>3. RejectedKept' /\ excused \cup more \subseteq excused'
  BY <1>2, Excused
<1>4. \A s \in Parts : sub'[s].here => s = c.s \/ sub[s].here
  BY <1>2 DEF TypeOK
<1>5. Clean' /\ FiledKept' /\ pub'.batched = pub.batched
  <2>1. CASE Found(c.seen) \/ pub.state # c.seen.state
    <3>1. c.s \in pub'.draft.listed \cup excused'
      BY <1>3, <2>1
    <3>2. pub' = pub \/ pub' = Live(pub, c.seen.draft, sub')
      BY <1>2
    <3>3. CASE pub' = pub
      BY <1>3, <1>4, <3>1, <3>3 DEF DeskInv, Clean, FiledKept
    <3>4. CASE pub' = Live(pub, c.seen.draft, sub')
      BY <1>1, <1>3, <1>4, <3>1, <3>4, LiveDesk
    <3> QED BY <3>2, <3>3, <3>4
  <2>2. CASE ~(Found(c.seen) \/ pub.state # c.seen.state)
    BY <1>2, <2>2 DEF Found, Clean, FiledKept
  <2> QED BY <2>1, <2>2
<1>6. Idle.op # "batch"
  BY DEF Idle
<1>7. BatchedOnly'
  BY <1>2, <1>5, <1>6, OthersBatch DEF DeskInv
<1> QED BY <1>3, <1>5, <1>7 DEF DeskInv

\* A review that files nothing.
LEMMA ReviewedDesk ==
  ASSUME TypeOK, DeskInv, NEW p \in People, NEW s \in Parts, NEW state, NEW here,
         Reviewed(p, s, state, here), here => sub[s].here, pub' = pub, excused \subseteq excused', RejectedKept'
  PROVE  DeskInv'
<1>1. calls' = [calls EXCEPT ![p] = Idle] /\ batch' = batch /\ sub' = [sub EXCEPT ![s] = [state |-> state, here |-> here]]
  BY DEF Reviewed
<1>2. Idle.op # "batch"
  BY DEF Idle
<1>3. BatchedOnly'
  BY <1>1, <1>2, OthersBatch DEF DeskInv
<1>4. \A t \in Parts : sub'[t].here => sub[t].here
  BY <1>1 DEF TypeOK
<1> QED BY <1>3, <1>4 DEF DeskInv, Clean, FiledKept

LEMMA CreateOrRejectDesk == ASSUME TypeOK, DeskInv, NEW p \in People, CreateOrReject(p) PROVE DeskInv'
<1>1. calls[p].s \in Parts
  BY CallIs DEF CreateOrReject, Reviews
<1>2. \/ Reviewed(p, calls[p].s, "created", FALSE)
      \/ Reviewed(p, calls[p].s, "rejected", sub[calls[p].s].here)
  BY DEF CreateOrReject
<1>3. pub' = pub /\ Excuses({})
  BY DEF CreateOrReject
<1>4. RejectedKept' /\ excused \subseteq excused'
  BY <1>3, Excused
<1> QED BY <1>1, <1>2, <1>3, <1>4, ReviewedDesk

\* What is reopened is filed again, and nobody brings the draft up to date.
LEMMA ReopenDesk == ASSUME TypeOK, DeskInv, NEW p \in People, Reopen(p), ~Refused(p) PROVE DeskInv'
<1>1. calls[p].s \in Parts
  BY CallIs DEF Reopen
<1>2. Reviewed(p, calls[p].s, "new", sub[calls[p].s].here) /\ UNCHANGED <<pub, excused>>
  BY DEF Reopen
<1>3. sub' = [sub EXCEPT ![calls[p].s] = [state |-> "new", here |-> sub[calls[p].s].here]]
  BY <1>2 DEF Reviewed
<1>4. \A s \in Parts : sub'[s].here /\ sub'[s].state = "rejected" => sub[s].here /\ sub[s].state = "rejected"
  BY <1>1, <1>3 DEF TypeOK
<1>5. RejectedKept'
  BY <1>2, <1>4 DEF DeskInv, RejectedKept
<1> QED BY <1>1, <1>2, <1>5, ReviewedDesk

LEMMA MakeBatchDesk == ASSUME TypeOK, DeskInv, NEW p \in People, MakeBatch(p) PROVE DeskInv'
<1>1. /\ pub' = [pub EXCEPT !.state = "draft", !.batched = TRUE] /\ batch' = [batch EXCEPT !.made = TRUE]
      /\ UNCHANGED <<sub, excused, calls>>
  BY DEF MakeBatch
<1>2. pub'.draft = pub.draft /\ pub'.batched /\ batch'.made
  BY <1>1 DEF TypeOK, Publications
<1> QED BY <1>1, <1>2 DEF DeskInv, Clean, RejectedKept, FiledKept, BatchedOnly

\* The steps that only read: the call of p has read then, or is refused.
LEMMA ReadDesk ==
  ASSUME TypeOK, DeskInv, NEW p \in People, Read(p) \/ CheckNew(p) \/ File(p) \/ OpenPublication(p) \/ Refused(p)
  PROVE  DeskInv'
<1> DEFINE T == UNCHANGED <<pub, batch, sub, excused>> /\ \E c : calls' = [calls EXCEPT ![p] = c] /\ c.op # "batch"
<1>1. ASSUME Refused(p) PROVE T
  <2>1. Idle.op # "batch"
    BY DEF Idle
  <2> QED BY <1>1, <2>1, Zenon DEF Refused
<1>2. ASSUME Read(p), ~Refused(p) PROVE T
  <2> DEFINE c == [op |-> calls[p].op, form |-> calls[p].form, at |-> "read", role |-> Rank(p)]
  <2>1. calls' = [calls EXCEPT ![p] = c] /\ c.op # "batch" /\ UNCHANGED <<pub, batch, sub, excused>>
    BY <1>2 DEF Read, Unlocked
  <2> HIDE DEF c
  <2> QED BY <2>1
<1>3. ASSUME CheckNew(p), ~Refused(p) PROVE T
  <2> DEFINE c == [calls[p] EXCEPT !.at = "read"]
  <2>1. c.op = calls[p].op /\ calls[p].op # "batch"
    BY <1>3, CallIs DEF CheckNew, Reviews
  <2>2. calls' = [calls EXCEPT ![p] = c] /\ UNCHANGED <<pub, batch, sub, excused>>
    BY <1>3 DEF CheckNew
  <2> HIDE DEF c
  <2> QED BY <2>1, <2>2
<1>4. ASSUME File(p) PROVE T
  <2> DEFINE c == [op |-> "attach", s |-> calls[p].s, at |-> "filing", seen |-> pub]
  <2>1. calls' = [calls EXCEPT ![p] = c] /\ c.op # "batch" /\ UNCHANGED <<pub, batch, sub, excused>>
    BY <1>4 DEF File
  <2> HIDE DEF c
  <2> QED BY <2>1
<1>5. ASSUME OpenPublication(p) PROVE T
  <2> DEFINE c == [op |-> "open", at |-> "out", role |-> Rank(p), seen |-> pub]
  <2>1. calls' = [calls EXCEPT ![p] = c] /\ c.op # "batch" /\ UNCHANGED <<pub, batch, sub, excused>>
    BY <1>5 DEF OpenPublication
  <2> HIDE DEF c
  <2> QED BY <2>1
<1>6. T
  <2> HIDE DEF T
  <2> QED BY <1>1, <1>2, <1>3, <1>4, <1>5
<1> QED BY <1>6, CallStep

LEMMA WorksDesk == ASSUME TypeOK, DeskInv, NEW p \in People, Works(p) PROVE DeskInv'
<1>1. ASSUME Read(p) \/ CheckNew(p) \/ File(p) \/ OpenPublication(p) \/ Refused(p) PROVE DeskInv'
  BY <1>1, ReadDesk
<1>2. ASSUME Start(p) \/ Out(p) \/ Write(p) \/ Attach(p) \/ CreateOrReject(p) \/ MakeBatch(p) \/ PublishBatch(p)
      PROVE  DeskInv'
  BY <1>2, StartDesk, OutDesk, WriteDesk, AttachDesk, CreateOrRejectDesk, MakeBatchDesk, PublishBatchDesk
<1>3. ASSUME Approve(p) PROVE DeskInv'
  BY <1>1, <1>3, ApproveDesk DEF Approve
<1>4. ASSUME Reopen(p) PROVE DeskInv'
  BY <1>1, <1>4, ReopenDesk
<1>5. ASSUME Leave(p) \/ \E s \in Parts : OpenSubmission(p, s) PROVE DeskInv'
  BY <1>5, DeskStays DEF Leave, OpenSubmission
<1> QED BY <1>1, <1>2, <1>3, <1>4, <1>5 DEF Works

\* A published version without the mark "unpublished changes" is its draft, and nothing that is filed under the incident
\* and not excused is missing from that draft (live, _publish_now, _attach), for any number of people who edit, file,
\* approve and withdraw at the same time.
THEOREM CleanIsWhatIsPublic == Spec => []CleanIsPublic
<1>1. TypeOK /\ DeskInv /\ [Next]_vars => DeskInv'
  <2> SUFFICES ASSUME TypeOK, DeskInv, [Next]_vars PROVE DeskInv'
    OBVIOUS
  <2>1. CASE DeskNext
    BY <2>1, ClicksDesk, WorksDesk DEF DeskNext, Working
  <2>2. CASE UNCHANGED deskVars
    BY <2>2, DeskStays DEF deskVars
  <2> QED BY <2>1, <2>2 DEF Next, vars, deskVars
<1>2. DeskInv => CleanIsPublic
  BY DEF DeskInv, Clean, FiledKept, CleanIsPublic, FiledIn
<1> QED BY <1>1, <1>2, DeskInit, PublishingTypeCorrect, PTL DEF Spec
=============================================================================

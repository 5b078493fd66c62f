-------------------------------- MODULE Team --------------------------------
(***************************************************************************)
(* Projects and the people in them: the Access panel with roles, grants    *)
(* and invites (people.js against people.py), the Manage and Import tabs   *)
(* (projects.js against workspace.py) and the admin's sources (intake.js   *)
(* against intake.py).  Publishing.tla extends it with what the members do.*)
(*                                                                         *)
(* A role is its rank (access.py): 1 data_only_viewer, 2 viewer, 3 editor, *)
(* 4 manager, 5 owner; 0 stands for not a member.  An admin of the instance*)
(* acts as owner of every project, member or not.  A transaction that reads*)
(* a row, decides and then writes is two steps; the row locks it takes are *)
(* guards of the other transactions.                                       *)
(***************************************************************************)
EXTENDS Naturals, FiniteSets, Sequences

CONSTANTS
  People,      \* contributors with an account
  Admins,      \* those of them with the instance role admin
  Newcomers,   \* accounts that invites may create
  FirstRoles,  \* the roles of People at the start
  InviteRole,  \* the role that the invite link gives
  MaxUses,     \* how often the link may be used
  Kinds,       \* kinds of submissions a source sends
  Sessions,    \* bound: what one session is about, and who is at work in it
  MaxCalls,    \* bound: calls of one panel in flight
  MaxActs      \* bound: how much is typed, ticked and clicked, by session

ASSUME TeamAssumption ==
  /\ FirstRoles \in [People -> 0 .. 5] /\ Admins \subseteq People /\ People \cap Newcomers = {}
  /\ InviteRole \in 1 .. 4 /\ {MaxUses, MaxCalls} \subseteq Nat /\ MaxActs \in [Sessions -> Nat]

VARIABLES
  uses,       \* the session
  roles,      \* project_members.role
  grants,     \* members with can_publish
  changing,   \* role changes and removals under way; at: "sent", "allowed", "counted" (its member's row is locked) or "adding"
  unguarded,  \* history: a write that no count of owners guards has taken the last owner, or one that a count relied on
  panels,     \* the Access panel of each person: their rank when it opened, the rows as drawn, what the selects show
  invite,     \* the link: uses, revoked
  joining,    \* the transaction that holds the invite's row, with the role it has read
  joined,     \* history: who came in by the link
  settings,   \* the project: each field by who wrote it last, and archived
  manage,     \* the Manage tab of each person: the form, the fields typed in, archived as drawn
  csv,        \* the import panel: the text, which text its preview is of, calls in flight, texts imported
  acts,       \* bound: what has been typed, ticked or clicked so far
  sources     \* the sources panel: routing and key on the server, and as on the screen; calls in flight

accessVars == <<roles, grants, changing, unguarded, panels, invite, joining, joined>>
teamVars == <<uses, acts, accessVars, settings, manage, csv, sources>>

Everyone == People \cup Newcomers
Working == uses \cap People
Fields == {"tags", "attributes"}
Owners == {p \in Everyone : roles[p] = 5}
RankIn(rs, p) == IF p \in Admins THEN 5 ELSE rs[p]
Rank(p) == RankIn(roles, p)
\* entitled: managers and owners, or anyone with publication access, whatever the role is by then.
Entitled(p) == Rank(p) >= 4 \/ p \in grants
NotDrawn == [drawn |-> FALSE]
Act == acts < MaxActs[uses] /\ acts' = acts + 1

TeamInit ==
  /\ uses \in Sessions /\ acts = 0
  /\ roles = [p \in Everyone |-> IF p \in People THEN FirstRoles[p] ELSE 0]
  /\ grants = {} /\ changing = {} /\ unguarded = FALSE
  /\ panels = [p \in People |-> NotDrawn]
  /\ invite = [uses |-> 0, revoked |-> FALSE] /\ joining = {} /\ joined = {}
  /\ settings = [form |-> [f \in Fields |-> "as made"], archived |-> FALSE]
  /\ manage = [p \in People |-> NotDrawn]
  /\ csv = [text |-> 0, of |-> 0, calls |-> {}, imported |-> <<>>]
  /\ sources = [routing |-> [k \in Kinds |-> 0], selected |-> [k \in Kinds |-> 0], patches |-> {},
                key |-> 1, answers |-> {}, shown |-> 1]

-----------------------------------------------------------------------------
(* Members: each row of the panel has a select that saves by itself *)

Rows(p) == panels[p].rows
PanelOf(rank, rs) == [drawn |-> TRUE, rank |-> rank, rows |-> rs, shown |-> rs]
\* draw again, with the roles by then: the panel stays as it is for who may no longer see the members.
Redrawn(p) ==
  panels' = IF panels[p].drawn /\ RankIn(roles', p) >= 2
              THEN [panels EXCEPT ![p] = PanelOf(panels[p].rank, roles')] ELSE panels

OpenPanel(p) ==
  /\ "access" \in uses /\ ~panels[p].drawn /\ Rank(p) >= 2 /\ UNCHANGED acts
  /\ panels' = [panels EXCEPT ![p] = PanelOf(Rank(p), roles)]
  /\ UNCHANGED <<roles, grants, changing, unguarded, invite, joining, joined>>

\* to = 0: remove, or leave.
Change(p, w, to) ==
  LET c == [by |-> p, who |-> w, to |-> to, at |-> "sent"]
  IN  /\ panels[p].drawn /\ Rows(p)[w] # 0
      /\ panels[p].rank = 5 \/ (to = 0 /\ w = p)
      /\ c \notin changing /\ Cardinality({d \in changing : d.by = p}) < MaxCalls
      /\ to # panels[p].shown[w] /\ Act
      /\ changing' = changing \cup {c}
      /\ panels' = IF to = 0 THEN panels ELSE [panels EXCEPT ![p].shown[w] = to]
      /\ UNCHANGED <<roles, grants, unguarded, invite, joining, joined>>

Proceeds(c, at) == changing' = (changing \ {c}) \cup {[c EXCEPT !.at = at]} /\ UNCHANGED panels
\* A refusal puts the select back to the role that was drawn.
Rejected(c) ==
  /\ changing' = changing \ {c}
  /\ panels' = IF c.to = 0 THEN panels ELSE [panels EXCEPT ![c.by].shown[c.who] = Rows(c.by)[c.who]]

\* require_project: it is asked before the row is waited for.
Allowed(c) == Rank(c.by) = 5 \/ (c.to = 0 /\ c.by = c.who)
Admit(c) ==
  /\ c.at = "sent" /\ UNCHANGED acts
  /\ IF Allowed(c) THEN Proceeds(c, "allowed") ELSE Rejected(c)
  /\ UNCHANGED <<roles, grants, unguarded, invite, joining, joined>>

Locked(w) == \E c \in changing : c.who = w /\ c.at = "counted"
Takes(c) == roles[c.who] = 5 /\ c.to # 5
\* Mutant: the count is compared with the wrong bound.
LastOwnerOffByOne(c) == Takes(c) /\ Cardinality(Owners) < 1
LastOwner(c) == Takes(c) /\ Cardinality(Owners) <= 1

\* change_member, remove_member up to the decision: the member's row is locked, the owners are counted.
CountOwners(c) ==
  /\ c.at = "allowed" /\ ~Locked(c.who) /\ UNCHANGED acts
  /\ IF roles[c.who] # 0 /\ ~LastOwner(c) THEN Proceeds(c, "counted") ELSE Rejected(c)
  /\ UNCHANGED <<roles, grants, unguarded, invite, joining, joined>>

\* What a count has found out: there is an owner, and another one than whom the change takes away.
Covered == Owners # {} /\ \A c \in changing : c.at = "counted" /\ Takes(c) => Owners # {c.who}

\* The write. A grant goes with the row, not with the role; only a removal draws the panel again.
\* Another change that has counted this owner as the one that stays is not guarded by its count any more.
CommitChange(c) ==
  /\ c.at = "counted" /\ UNCHANGED acts
  /\ changing' = changing \ {c}
  /\ roles' = [roles EXCEPT ![c.who] = c.to]
  /\ grants' = IF c.to = 0 THEN grants \ {c.who} ELSE grants
  /\ unguarded' = (unguarded \/ ((\E d \in changing \ {c} : d.at = "counted" /\ Takes(d)) /\ ~Covered'))
  /\ IF c.to = 0 THEN Redrawn(c.by) ELSE UNCHANGED panels
  /\ UNCHANGED <<invite, joining, joined>>

\* set_publish_grant: the box is drawn for editors and up, and the server asks for it when it gives, not later.
Grant(p, w, on) ==
  /\ panels[p].drawn /\ panels[p].rank >= 4 /\ Rows(p)[w] >= 3 /\ on # (w \in grants)
  /\ Rank(p) >= 4 /\ roles[w] # 0 /\ (on => roles[w] >= 3) /\ ~Locked(w) /\ Act
  /\ grants' = IF on THEN grants \cup {w} ELSE grants \ {w}
  /\ UNCHANGED <<roles, changing, unguarded, panels, invite, joining, joined>>

\* add_member looks up the owner's role and takes any contributor, members and the owner included: the form of a panel
\* offers who was not a member when it was drawn, a request of one's own names anybody ...
AddMember(p, w, to) ==
  /\ panels[p].drawn /\ panels[p].rank = 5 /\ w \in People
  /\ Rank(p) = 5 /\ Cardinality({d \in changing : d.by = p}) < MaxCalls /\ Act
  /\ changing' = changing \cup {[by |-> p, who |-> w, to |-> to, at |-> "adding"]}
  /\ UNCHANGED <<roles, grants, unguarded, panels, invite, joining, joined>>

\* ... and in another transaction inserts the row, or overwrites the role of who is a member: nobody counts owners.
CommitAdd(c) ==
  /\ c.at = "adding" /\ ~Locked(c.who) /\ UNCHANGED acts
  /\ changing' = changing \ {c}
  /\ roles' = [roles EXCEPT ![c.who] = c.to]
  /\ unguarded' = (unguarded \/ (Takes(c) /\ ~Covered'))
  /\ Redrawn(c.by)
  /\ UNCHANGED <<grants, invite, joining, joined>>

-----------------------------------------------------------------------------
(* The invite link *)

Active == ~invite.revoked /\ invite.uses < MaxUses /\ ~settings.archived

\* Mutant: the invite is found without a lock on its row.
JoinUnlocked(w) ==
  /\ "access" \in uses /\ Active /\ w \notin {j.who : j \in joining} /\ Act
  /\ w \in Working \/ (w \in Newcomers /\ roles[w] = 0)
  /\ joining' = joining \cup {[who |-> w, had |-> roles[w]]}
  /\ UNCHANGED <<roles, grants, changing, unguarded, panels, invite, joined>>

\* accept_invite up to the decision, by a member, another contributor or a newcomer: the button is not disabled.
Join(w) ==
  /\ "access" \in uses /\ Active /\ joining = {} /\ Act
  /\ w \in Working \/ (w \in Newcomers /\ roles[w] = 0)
  /\ joining' = {[who |-> w, had |-> roles[w]]}
  /\ UNCHANGED <<roles, grants, changing, unguarded, panels, invite, joined>>

Raised(j) == InviteRole > j.had
\* The write: by the role that was read. A row inserted by somebody else meanwhile fails it, one removed is not updated.
Joined(j) ==
  /\ joining' = joining \ {j} /\ UNCHANGED <<acts, grants, changing, panels>>
  /\ Raised(j) => ~Locked(j.who)
  /\ IF j.had = 0 /\ roles[j.who] # 0
       THEN UNCHANGED <<roles, unguarded, invite, joined>>
       ELSE /\ roles' = IF Raised(j) /\ (roles[j.who] = 0 => j.had = 0) THEN [roles EXCEPT ![j.who] = InviteRole] ELSE roles
            /\ unguarded' = (unguarded \/ (Raised(j) /\ roles[j.who] = 5 /\ ~Covered'))
            /\ invite' = [invite EXCEPT !.uses = @ + 1]
            /\ joined' = joined \cup {j.who}

\* revoke_invite waits for whoever holds the row.
Revoke(p) ==
  /\ panels[p].drawn /\ panels[p].rank = 5 /\ Rank(p) = 5
  /\ ~invite.revoked /\ joining = {} /\ Act
  /\ invite' = [invite EXCEPT !.revoked = TRUE]
  /\ UNCHANGED <<roles, grants, changing, unguarded, panels, joining, joined>>

AccessNext ==
  /\ \/ \E p \in Working : OpenPanel(p) \/ Revoke(p)
     \/ \E p \in Working, w \in Everyone :
          \/ \E to \in {0, 2, 3, 5} : Change(p, w, to)
          \/ \E on \in BOOLEAN : Grant(p, w, on)
          \/ \E to \in {2, 5} : AddMember(p, w, to)
     \/ \E c \in changing : Admit(c) \/ CountOwners(c) \/ CommitChange(c) \/ CommitAdd(c)
     \/ \E w \in Everyone : Join(w)
     \/ \E j \in joining : Joined(j)
  /\ UNCHANGED <<uses, settings, manage, csv, sources>>

-----------------------------------------------------------------------------
(* The Manage tab: one form, saved as a whole *)

OpenManage(p) ==
  /\ "manage" \in uses /\ ~manage[p].drawn /\ Rank(p) >= 4
  /\ manage' = [manage EXCEPT ![p] = [drawn |-> TRUE, form |-> settings.form, own |-> {}, archived |-> settings.archived]]
  /\ UNCHANGED <<settings, acts>>

TypeField(p, f) ==
  /\ manage[p].drawn /\ Act
  /\ manage' = [manage EXCEPT ![p].form[f] = p, ![p].own = @ \cup {f}]
  /\ UNCHANGED settings

SaveSettings(p) ==
  /\ manage[p].drawn /\ Rank(p) >= 4
  /\ settings' = [settings EXCEPT !.form = manage[p].form]
  /\ UNCHANGED <<manage, acts>>

\* The archive button saves the form too, then leaves the page.
Archive(p) ==
  /\ manage[p].drawn /\ Rank(p) = 5 /\ Act
  /\ settings' = [form |-> manage[p].form, archived |-> ~manage[p].archived]
  /\ manage' = [manage EXCEPT ![p] = NotDrawn]

ManageNext ==
  /\ \E p \in Working : \/ OpenManage(p) \/ SaveSettings(p) \/ Archive(p)
                        \/ \E f \in Fields : TypeField(p, f)
  /\ UNCHANGED <<uses, accessVars, csv, sources>>

-----------------------------------------------------------------------------
(* The Import tab: preview, then import. 0 is the empty text. *)

Send(commit) == Act /\ csv' = [csv EXCEPT !.calls = @ \cup {[n |-> acts, text |-> csv.text, commit |-> commit]}]

TypeCsv == Act /\ \E x \in 0 .. 2 : x # csv.text /\ csv' = [csv EXCEPT !.text = x]
Preview == Send(FALSE)
\* The button of a preview without errors sends what is in the box now, and is not disabled.
DoImport == csv.of # 0 /\ Send(TRUE)

\* bulk_import and its answer: a preview with its button, or what was created, all rows or none.
Imported(c) ==
  LET commits == c.commit /\ c.text # 0 /\ ~settings.archived
  IN  UNCHANGED acts /\ csv' = [csv EXCEPT !.calls = @ \ {c}, !.imported = IF commits THEN Append(@, c.text) ELSE @,
                         !.of = IF settings.archived THEN @ ELSE IF commits THEN 0 ELSE c.text]

ImportNext ==
  /\ "import" \in uses
  /\ TypeCsv \/ Preview \/ DoImport \/ \E c \in csv.calls : Imported(c)
  /\ UNCHANGED <<uses, accessVars, settings, manage, sources>>

-----------------------------------------------------------------------------
(* The admin's sources: routing by kind, and the key *)

\* One select changes; the whole routing of the row is sent.
PickRoute(k, v) ==
  /\ v # sources.selected[k] /\ Act
  /\ LET s == [sources.selected EXCEPT ![k] = v]
     IN  sources' = [sources EXCEPT !.selected = s,
                                    !.patches = @ \cup {[n |-> acts, routing |-> s]}]

UpdateSource(x) == UNCHANGED acts /\ sources' = [sources EXCEPT !.patches = @ \ {x}, !.routing = x.routing]

\* rotate_source_key: the key before it is dead at once; the answer carries the new one.
Rotate ==
  /\ Act
  /\ sources' = [sources EXCEPT !.key = @ + 1, !.answers = @ \cup {sources.key + 1}]

ShowKey(v) == UNCHANGED acts /\ sources' = [sources EXCEPT !.shown = v, !.answers = @ \ {v}]

SourcesNext ==
  /\ "sources" \in uses
  /\ \/ \E k \in Kinds, v \in 0 .. 1 : PickRoute(k, v)
     \/ \E x \in sources.patches : UpdateSource(x)
     \/ Rotate
     \/ \E v \in sources.answers : ShowKey(v)
  /\ UNCHANGED <<uses, accessVars, settings, manage, csv>>

TeamNext == AccessNext \/ ManageNext \/ ImportNext \/ SourcesNext

-----------------------------------------------------------------------------
(* What holds *)

Roles == [Everyone -> 0 .. 5]
Changes == [by : People, who : Everyone, to : 0 .. 5, at : {"sent", "allowed", "counted", "adding"}]
Panels == {NotDrawn} \cup [drawn : {TRUE}, rank : 0 .. 5, rows : Roles, shown : Roles]
SettingsForms == [Fields -> {"as made"} \cup People]
Routings == [Kinds -> 0 .. 1]

TeamTypeOK ==
  /\ uses \in Sessions /\ acts \in Nat
  /\ roles \in Roles /\ grants \subseteq Everyone /\ changing \subseteq Changes /\ unguarded \in BOOLEAN
  /\ panels \in [People -> Panels]
  /\ invite \in [uses : Nat, revoked : BOOLEAN] /\ joining \subseteq [who : Everyone, had : 0 .. 5]
  /\ joined \subseteq Everyone
  /\ settings \in [form : SettingsForms, archived : BOOLEAN]
  /\ manage \in [People -> {NotDrawn} \cup [drawn : {TRUE}, form : SettingsForms, own : SUBSET Fields, archived : BOOLEAN]]
  /\ csv \in [text : 0 .. 2, of : 0 .. 2, calls : SUBSET [n : Nat, text : 0 .. 2, commit : BOOLEAN],
              imported : Seq(0 .. 2)]
  /\ sources \in [routing : Routings, selected : Routings, patches : SUBSET [n : Nat, routing : Routings],
                  key : Nat, answers : SUBSET Nat, shown : Nat]

\* "A project needs at least one owner" (people.py): the owner that a change or a removal has counted under the lock of
\* its member's row is there when it writes, however many are under way. What no count guards may take the last owner:
\* the other of two that have counted each other's owner, an addition that names an owner, a join that has read an older
\* role.
OwnersKept == Owners = {} => unguarded

\* A link lets in no more people than it says, and nobody once it is revoked, however many click at the same moment.
InviteHolds == [][joined' # joined => ~invite.revoked /\ Cardinality(joined') <= MaxUses]_teamVars

-----------------------------------------------------------------------------
(* What a text of the code says and the code does not do *)

\* "A project needs at least one owner": an addition that names the last one is enough, nothing else under way.
AlwaysAnOwner == Owners # {}

\* "An invite never lowers an existing role, only raises it."
NeverLowers == [][joining' # joining => \A w \in Everyone : roles'[w] >= roles[w]]_teamVars

\* "Owners and managers entrust it to members (editor and up)."
GrantedToEditors == \A w \in grants : roles[w] >= 3

\* With one owner at work and nothing in flight the selects show the roles.
RoleShown ==
  \A p \in People : panels[p].drawn /\ changing = {} /\ Working = {p} /\ joined = {} => panels[p].shown = roles

\* A field of the settings changes only by somebody who typed in it.
SettingsKept ==
  [][\A f \in Fields : settings'.form[f] # settings.form[f] => settings'.form[f] \in People]_teamVars

\* What is imported is what the preview on the screen was of, and it is imported once.
ImportIsPreviewed == [][\A c \in csv'.calls \ csv.calls : c.commit => c.text = csv.of]_teamVars
ImportedOnce == \A i, j \in DOMAIN csv.imported : csv.imported[i] = csv.imported[j] => i = j

\* With nothing in flight the selects and the key on the screen are those of the server.
RoutingShown == sources.patches = {} => sources.selected = sources.routing
KeyShownWorks == sources.answers = {} => sources.shown = sources.key
=============================================================================

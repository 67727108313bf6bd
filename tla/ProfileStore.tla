---------------------------- MODULE ProfileStore ----------------------------
(***************************************************************************)
(* The profile repository: src/server/app/repositories/profiles.py and the *)
(* installation of the builtin profile, builtin_profiles.py.  RevisionStore*)
(* is what it promises; this module adds what the promise rests on: the    *)
(* is_active flag of every row, the snapshots of profile_revisions that    *)
(* every read goes through, the pages inside a profile, and the editors    *)
(* who send back the revision they have read.                              *)
(*                                                                         *)
(* Each operation is one BEGIN IMMEDIATE transaction, hence one step; a    *)
(* refused operation raises and rolls back, hence is no step.  A restart   *)
(* loses nothing but open transactions: Start may happen at any time.      *)
(*                                                                         *)
(* Abstractions.  Names, titles, grids and what a button shows and does    *)
(* are one `text`; a page is its place in the order and the identifiers of *)
(* its buttons.  The pages, buttons and actions tables are written beside  *)
(* the snapshot and read by no one: they are left out.                     *)
(***************************************************************************)
EXTENDS Integers, FiniteSets

CONSTANTS Profiles, NoProfile,
          Pages,            \* page identifiers
          Buttons,          \* button identifiers
          Texts,            \* what a profile says besides the order of its pages
          Editors,          \* clients that read a profile and send back changes
          Builtin,          \* BUILTIN_PROFILE_ID
          BuiltinVersion,   \* BUILTIN_PROFILE_VERSION
          Fixture,          \* the builtin profile as each version ships it
          Drafts,           \* the whole profiles a client may send
          NoContent,        \* no snapshot
          Untouched,        \* the user has said nothing about the builtin profile
          MaxRevision,      \* bound on the revisions explored
          MaxOrder          \* bound on the order values explored

VARIABLES revision,         \* profiles.revision, 0 when there is no row
          isActive,         \* profiles.is_active
          history,          \* profile_revisions.snapshot_json
          marker,           \* builtin_profile_installations.version, 0 when absent
          held,             \* what each editor has last read
          chosen, lost      \* ghosts, read by no action: what the user made of the
                            \* builtin profile, and whether a write went unseen

rowVars == <<revision, isActive, history>>
ghostVars == <<chosen, lost>>
vars == <<rowVars, marker, held, ghostVars>>

-----------------------------------------------------------------------------
(* A profile's content.  Absent is the order of a page it does not have.   *)

Absent == -1

PagesOf(d) == {g \in Pages : d.orders[g] # Absent}

(* No page of a profile has one of these buttons. *)
ButtonsFree(d, some) == \A h \in PagesOf(d) : d.buttons[h] \intersect some = {}

(* Profile.validate_page_relationships: one order and one button           *)
(* identifier for one page each.  A page has a button (Page.buttons), and  *)
(* a page that is not there has none.                                      *)
Valid(d) == /\ d.activePage \in PagesOf(d)
            /\ \A g, h \in PagesOf(d) :
                 \/ d.orders[g] # d.orders[h] /\ d.buttons[g] \intersect d.buttons[h] = {}
                 \/ g = h
            /\ \A g \in Pages : g \in PagesOf(d) <=> d.buttons[g] # {}

Contents == [text : Texts, activePage : Pages, orders : [Pages -> Absent..MaxOrder],
             buttons : [Pages -> SUBSET Buttons]]

ASSUME StoreConstants ==
  /\ NoProfile \notin Profiles
  /\ Builtin \in Profiles
  /\ IsFiniteSet(Profiles) /\ IsFiniteSet(Pages)
  /\ BuiltinVersion \in Nat \ {0}
  /\ Fixture \in [1..BuiltinVersion -> Contents]
  /\ \A n \in 1..BuiltinVersion : Valid(Fixture[n])
  /\ Drafts \subseteq {d \in Contents : Valid(d)}
  /\ NoContent \notin Contents /\ Untouched \notin Contents \union {NoContent}
  /\ MaxRevision \in Nat \ {0}
  /\ MaxOrder \in Nat

Retitled(d, t) == [d EXCEPT !.text = t]

(* Mutation: the page that has the wanted order stays where it is. *)
InsertedOnTop(d, g, n, some) ==
  [d EXCEPT !.buttons[g] = some,
            !.orders = [x \in Pages |-> IF x = g THEN n
                                        ELSE IF @[x] > n THEN @[x] + 1 ELSE @[x]]]

(* create_page: pages from the wanted order on make room.  Orders that a   *)
(* client sent with gaps keep their gaps.                                  *)
Inserted(d, g, n, some) ==
  [d EXCEPT !.buttons[g] = some,
            !.orders = [x \in Pages |-> IF x = g THEN n
                                        ELSE IF @[x] >= n THEN @[x] + 1 ELSE @[x]]]

(* The index of a page among some, sorted by order. *)
Position(d, among, g) == Cardinality({x \in among : d.orders[x] < d.orders[g]})

(* reorder_page: the page is taken out of the sorted list, put back at     *)
(* index n, and every page gets its index as order.                        *)
Moved(d, g, n) ==
  LET others == PagesOf(d) \ {g}
      index(x) == LET i == Position(d, others, x) IN IF i < n THEN i ELSE i + 1
  IN  [d EXCEPT !.orders = [x \in Pages |-> IF x = g THEN n
                                            ELSE IF x \in others THEN index(x) ELSE Absent]]

(* delete_page: the rest gets its index as order; h is the active page     *)
(* from then on.                                                           *)
Removed(d, g, h) ==
  LET others == PagesOf(d) \ {g}
  IN  [d EXCEPT !.activePage = h, !.buttons[g] = {},
         !.orders = [x \in Pages |-> IF x \in others THEN Position(d, others, x) ELSE Absent]]

-----------------------------------------------------------------------------
(* Reading and writing rows.                                               *)

Existing == {p \in Profiles : revision[p] > 0}

(* Every read joins profiles to profile_revisions on the current revision. *)
Current(p) == history[p][revision[p]]

NoHistory == [v \in 1..MaxRevision |-> NoContent]

(* Mutation: a new profile is selected beside the one that is. *)
SelectToo(p) == isActive' = [isActive EXCEPT ![p] = TRUE]

(* The first profile of an unselected store becomes the selected one. *)
SelectIfNone(p) ==
  isActive' = IF \E q \in Profiles : isActive[q] THEN isActive
              ELSE [isActive EXCEPT ![p] = TRUE]

(* _insert_profile, at revision 1. *)
Insert(p, d) ==
  /\ revision[p] = 0
  /\ revision' = [revision EXCEPT ![p] = 1]
  /\ history' = [history EXCEPT ![p][1] = d]
  /\ SelectIfNone(p)

(* _replace_profile, at the next revision; the snapshot's primary key must *)
(* be free.                                                                *)
Replace(p, d) ==
  LET v == revision[p] + 1 IN
  /\ v <= MaxRevision
  /\ history[p][v] = NoContent
  /\ revision' = [revision EXCEPT ![p] = v]
  /\ history' = [history EXCEPT ![p][v] = d]

(* The user has written this profile. *)
Chose(p, d) == chosen' = IF p = Builtin THEN d ELSE chosen

Nothing == [profile |-> NoProfile, revision |-> 0, content |-> NoContent, fresh |-> FALSE]

(* Mutation: the answer names the revision and leaves the content out. *)
ReadingBare(p, v, d) == [profile |-> p, revision |-> v, fresh |-> d # NoContent]

Reading(p, v, d) == [profile |-> p, revision |-> v, content |-> d, fresh |-> TRUE]

Readings == [profile : Profiles \union {NoProfile}, revision : 0..MaxRevision,
             content : Contents \union {NoContent}, fresh : BOOLEAN]

(* The editor takes over the profile an answer carries, unless the answer  *)
(* is lost.                                                                *)
Answer(e, p, v, d) == held' \in {held, [held EXCEPT ![e] = Reading(p, v, d)]}

-----------------------------------------------------------------------------
(* A database this version or an earlier one left: the builtin profile was *)
(* installed as some version shipped it, edited, deleted, or never known.  *)

ProfileTypeOK ==
  /\ revision \in [Profiles -> 0..MaxRevision]
  /\ isActive \in [Profiles -> BOOLEAN]
  /\ history \in [Profiles -> [1..MaxRevision -> Contents \union {NoContent}]]
  /\ marker \in 0..BuiltinVersion
  /\ held \in [Editors -> Readings]
  /\ chosen \in Contents \union {NoContent, Untouched}
  /\ lost \in {"nothing", "within", "across"}

Init ==
  /\ \E kept \in SUBSET Profiles, d \in {Fixture[n] : n \in 1..BuiltinVersion} \union Drafts :
       /\ revision = [p \in Profiles |-> IF p \in kept THEN 1 ELSE 0]
       /\ history = [p \in Profiles |-> IF p \in kept THEN [NoHistory EXCEPT ![1] = d]
                                        ELSE NoHistory]
       /\ \E p \in kept \union {NoProfile} :
            /\ p = NoProfile => kept = {}
            /\ isActive = [q \in Profiles |-> q = p]
       /\ marker \in IF kept = {} THEN {0} ELSE 0..BuiltinVersion
       /\ chosen = IF Builtin \notin kept
                     THEN IF marker = 0 THEN Untouched ELSE NoContent
                     ELSE IF marker > 0 /\ d = Fixture[marker] THEN Untouched ELSE d
  /\ held = [e \in Editors |-> Nothing]
  /\ lost = "nothing"

-----------------------------------------------------------------------------
(* create_app installs the builtin profile before the server answers.      *)

Started == marker = BuiltinVersion

Upgradable == Builtin \in Existing /\ Current(Builtin) = Fixture[marker]

(* Mutation: the user's content is not compared with what was shipped. *)
StartUncompared ==
  /\ marker' = BuiltinVersion
  /\ \/ marker = 0 /\ Builtin \notin Existing /\ Insert(Builtin, Fixture[BuiltinVersion])
     \/ marker = 0 /\ Builtin \in Existing /\ UNCHANGED rowVars
     \/ /\ marker \in 1..(BuiltinVersion - 1) /\ Builtin \in Existing
        /\ Replace(Builtin, Fixture[BuiltinVersion]) /\ UNCHANGED isActive
     \/ marker = BuiltinVersion /\ UNCHANGED rowVars
  /\ UNCHANGED <<held, ghostVars>>

(* install_builtin_profiles: a profile never known is inserted, one left   *)
(* as an earlier version shipped it is upgraded, anything else is the      *)
(* user's.                                                                 *)
Start ==
  /\ marker' = BuiltinVersion
  /\ \/ marker = 0 /\ Builtin \notin Existing /\ Insert(Builtin, Fixture[BuiltinVersion])
     \/ marker = 0 /\ Builtin \in Existing /\ UNCHANGED rowVars
     \/ /\ marker \in 1..(BuiltinVersion - 1) /\ Upgradable
        /\ Replace(Builtin, Fixture[BuiltinVersion]) /\ UNCHANGED isActive
     \/ marker \in 1..(BuiltinVersion - 1) /\ ~Upgradable /\ UNCHANGED rowVars
     \/ marker = BuiltinVersion /\ UNCHANGED rowVars
  /\ UNCHANGED <<held, ghostVars>>

-----------------------------------------------------------------------------
(* Operations.                                                             *)

(* GET of a profile, or the snapshot a session is greeted with. *)
Read(e, p) ==
  /\ Started /\ p \in Existing
  /\ held' = [held EXCEPT ![e] = Reading(p, revision[p], Current(p))]
  /\ UNCHANGED <<rowVars, marker, ghostVars>>

(* Mutation: the expected revision is not compared. *)
HoldsAnyRevision(e, p) == Started /\ held[e].profile = p /\ p \in Existing

(* _current_profile_row and _check_expected_revision, with the revision    *)
(* the editor has read.                                                    *)
Holds(e, p) ==
  /\ Started /\ held[e].profile = p /\ p \in Existing
  /\ held[e].revision = revision[p]

(* The editor puts its change in the place of something it has not seen. *)
Overwrites(e, p) ==
  lost' = IF held[e].content = Current(p) THEN lost
          ELSE IF held[e].fresh THEN "within" ELSE "across"

(* save_profile on an existing row, and _mutate_profile. *)
Commit(e, p, d) ==
  /\ Holds(e, p)
  /\ Valid(d) /\ d \in Contents
  /\ Replace(p, d)
  /\ Answer(e, p, revision[p] + 1, d)
  /\ Chose(p, d)
  /\ Overwrites(e, p)
  /\ UNCHANGED <<isActive, marker>>

(* PUT, and the import of a known profile. *)
SaveProfile(e, p, d) == d \in Drafts /\ Commit(e, p, d)

RenameProfile(e, p, t) == p \in Existing /\ Commit(e, p, Retitled(Current(p), t))

RenamePage(e, p, g, t) ==
  /\ p \in Existing /\ g \in PagesOf(Current(p))
  /\ Commit(e, p, Retitled(Current(p), t))

MayInsert(d, g, n) == g \notin PagesOf(d) /\ n \in 0..Cardinality(PagesOf(d))

MayMove(d, g, n) == g \in PagesOf(d) /\ n \in 0..(Cardinality(PagesOf(d)) - 1)

MayRemove(d, g, h) ==
  /\ g \in PagesOf(d) /\ Cardinality(PagesOf(d)) > 1
  /\ IF g = d.activePage THEN h \in PagesOf(d) \ {g} ELSE h = d.activePage

(* The page comes with its buttons; that they are new to the profile is    *)
(* found out only by the validation of the result.                         *)
CreatePage(e, p, g, n, some) ==
  /\ p \in Existing /\ MayInsert(Current(p), g, n)
  /\ Commit(e, p, Inserted(Current(p), g, n, some))

ReorderPage(e, p, g, n) ==
  /\ p \in Existing /\ MayMove(Current(p), g, n)
  /\ Commit(e, p, Moved(Current(p), g, n))

DeletePage(e, p, g, h) ==
  /\ p \in Existing /\ MayRemove(Current(p), g, h)
  /\ Commit(e, p, Removed(Current(p), g, h))

(* create_profile, seed_profile, and the import of an unknown profile. *)
CreateProfile(e, p, d) ==
  /\ Started /\ d \in Drafts
  /\ Insert(p, d)
  /\ Answer(e, p, 1, d)
  /\ Chose(p, d)
  /\ UNCHANGED <<marker, lost>>

(* The copy may get a name of its own; the source is left as it is. *)
DuplicateProfile(e, p, q, t) ==
  LET d == Retitled(Current(p), t) IN
  /\ Holds(e, p)
  /\ Insert(q, d)
  /\ Answer(e, q, 1, d)
  /\ Chose(q, d)
  /\ UNCHANGED <<marker, lost>>

(* The selected profile is returned as it is; that is no step. *)
ActivateProfile(e, p) ==
  /\ Holds(e, p) /\ ~isActive[p]
  /\ isActive' = [q \in Profiles |-> q = p]
  /\ Replace(p, Current(p))
  /\ Answer(e, p, revision[p] + 1, Current(p))
  /\ UNCHANGED <<marker, ghostVars>>

(* set_active_profile: no revision is written. *)
SetActiveProfile(p) ==
  /\ Started /\ p \in Existing
  /\ isActive' = [q \in Profiles |-> q = p]
  /\ UNCHANGED <<revision, history, marker, held, ghostVars>>

(* Every editor's reading of a deleted profile belongs to the past. *)
Outlived(p) == held' = [e \in Editors |-> [held[e] EXCEPT !.fresh = @ /\ held[e].profile # p]]

(* Mutation: the snapshots of a deleted profile stay behind. *)
EraseRowOnly(p) ==
  /\ revision' = [revision EXCEPT ![p] = 0]
  /\ isActive' = [isActive EXCEPT ![p] = FALSE]
  /\ UNCHANGED history

(* The row goes, and its snapshots by ON DELETE CASCADE. *)
Erase(p) ==
  /\ revision' = [revision EXCEPT ![p] = 0]
  /\ isActive' = [isActive EXCEPT ![p] = FALSE]
  /\ history' = [history EXCEPT ![p] = NoHistory]

DeleteInactiveProfile(e, p) ==
  /\ Holds(e, p) /\ ~isActive[p]
  /\ Cardinality(Existing) > 1
  /\ Erase(p)
  /\ Outlived(p)
  /\ Chose(p, NoContent)
  /\ Overwrites(e, p)
  /\ UNCHANGED marker

(* Mutation: the replacement is selected without a revision of its own. *)
DeleteSilently(e, p, q) ==
  /\ Holds(e, p) /\ isActive[p]
  /\ q \in Existing \ {p}
  /\ isActive' = [x \in Profiles |-> x = q]
  /\ revision' = [revision EXCEPT ![p] = 0]
  /\ history' = [history EXCEPT ![p] = NoHistory]
  /\ Outlived(p)
  /\ Chose(p, NoContent)
  /\ Overwrites(e, p)
  /\ UNCHANGED marker

(* The replacement is selected at its next revision, then the row goes. *)
DeleteActiveProfile(e, p, q) ==
  /\ Holds(e, p) /\ isActive[p]
  /\ q \in Existing \ {p}
  /\ revision[q] < MaxRevision
  /\ isActive' = [x \in Profiles |-> x = q]
  /\ revision' = [revision EXCEPT ![p] = 0, ![q] = @ + 1]
  /\ history' = [history EXCEPT ![p] = NoHistory, ![q][revision[q] + 1] = Current(q)]
  /\ Outlived(p)
  /\ Chose(p, NoContent)
  /\ Overwrites(e, p)
  /\ UNCHANGED marker

-----------------------------------------------------------------------------
EditPages(e, p) ==
  \E g \in Pages :
    \/ \E t \in Texts : RenamePage(e, p, g, t)
    \/ \E n \in 0..Cardinality(Pages) :
         \/ \E some \in (SUBSET Buttons) \ {{}} : CreatePage(e, p, g, n, some)
         \/ ReorderPage(e, p, g, n)
    \/ \E h \in Pages : DeletePage(e, p, g, h)

EditProfile(e, p) ==
  \/ \E d \in Drafts : SaveProfile(e, p, d) \/ CreateProfile(e, p, d)
  \/ \E t \in Texts : \/ RenameProfile(e, p, t)
                      \/ \E q \in Profiles : DuplicateProfile(e, p, q, t)
  \/ ActivateProfile(e, p)
  \/ DeleteInactiveProfile(e, p)
  \/ \E q \in Profiles : DeleteActiveProfile(e, p, q)

Next ==
  \/ Start
  \/ \E p \in Profiles : SetActiveProfile(p)
  \/ \E e \in Editors, p \in Profiles : Read(e, p) \/ EditPages(e, p) \/ EditProfile(e, p)

Spec == Init /\ [][Next]_vars

-----------------------------------------------------------------------------
(* Properties.                                                             *)

(* A store that has profiles has exactly one selected, and it exists:      *)
(* moving the selection, deleting the selected profile and installing the  *)
(* builtin one never leave two or none (profiles.py:191, :239).            *)
OneSelected ==
  /\ \A p \in Profiles : isActive[p] => p \in Existing
  /\ \A p, q \in Profiles : isActive[p] /\ isActive[q] => p = q
  /\ Existing # {} => \E p \in Profiles : isActive[p]

(* Every revision from the first to the current one has its snapshot, and  *)
(* no other has: the join every read makes finds its row, and a profile    *)
(* recreated under an old name never meets the snapshots of its            *)
(* predecessor (profiles.py:249, migrations.py:143).                       *)
HistoryComplete ==
  \A p \in Profiles : \A v \in 1..MaxRevision :
    history[p][v] # NoContent <=> v <= revision[p]

(* While a profile lives, an editor's change is only ever put in the place *)
(* of the content that editor has read, whatever other editors, a restart, *)
(* an upgrade, a lost answer or a resent request did (profiles.py:605).    *)
NoLostUpdate == lost # "within"

(* What the user did with the builtin profile outlives every restart and   *)
(* upgrade: deleted, it stays deleted; edited, it keeps the user's         *)
(* content, unless that is the very content some version shipped           *)
(* (builtin_profiles.py:69, :132).                                         *)
UserChoiceSurvives ==
  /\ chosen = NoContent => Builtin \notin Existing
  /\ chosen \in Contents =>
       /\ Builtin \in Existing
       /\ \/ Current(Builtin) = chosen
          \/ \E n \in 1..BuiltinVersion : chosen = Fixture[n]

(* Pages that were there before and after keep their relative order. *)
SameSequence(d, f, among) ==
  \A g, h \in among : d.orders[g] < d.orders[h] <=> f.orders[g] < f.orders[h]

(* The pages are numbered 0, 1, 2, ... *)
Dense(d) == {d.orders[g] : g \in PagesOf(d)} = 0..(Cardinality(PagesOf(d)) - 1)

(* A page operation whose own checks pass puts its page where it was asked *)
(* to, leaves the other pages in their order, and (but for a creation)     *)
(* closes every gap a client's own numbering had.  The validation of its   *)
(* result refuses one thing that its own checks let through: a new page    *)
(* with a button of another page (profiles.py:269, :325, :363).            *)
PageOperationsSound ==
  \A p \in Existing, g \in Pages, n \in 0..Cardinality(Pages) :
    LET d == Current(p)
        others == PagesOf(d) \ {g}
    IN  /\ MayInsert(d, g, n) => \A some \in (SUBSET Buttons) \ {{}} :
             LET f == Inserted(d, g, n, some)
             IN  /\ Valid(f) <=> ButtonsFree(d, some)
                 /\ f.orders[g] = n /\ SameSequence(d, f, others)
        /\ MayMove(d, g, n) =>
             LET f == Moved(d, g, n)
             IN  Valid(f) /\ f.orders[g] = n /\ SameSequence(d, f, others) /\ Dense(f)
        /\ \A h \in Pages : MayRemove(d, g, h) =>
             LET f == Removed(d, g, h)
             IN  Valid(f) /\ SameSequence(d, f, others) /\ Dense(f)

(* The selected profile. *)
Selected == IF \E p \in Profiles : isActive[p] THEN CHOOSE p \in Profiles : isActive[p]
            ELSE NoProfile

Store == INSTANCE RevisionStore WITH active <- Selected

(* The repository keeps the promise its callers rely on: each operation,   *)
(* installation and upgrade included, is one step of RevisionStore.        *)
StoreRefined == Store!StoreSpec
=============================================================================

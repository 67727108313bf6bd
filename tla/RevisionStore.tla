---------------------------- MODULE RevisionStore ----------------------------
(***************************************************************************)
(* What src/server/app/repositories/profiles.py promises to its callers:   *)
(* every profile carries a revision that each committed write advances by  *)
(* one, and exactly one existing profile is selected.  Each operation is   *)
(* one BEGIN IMMEDIATE transaction (db.py Database.transaction), hence one *)
(* step.  Refused operations raise and roll back: they are not steps here. *)
(* Revision 0 stands for an absent row.                                    *)
(***************************************************************************)
EXTENDS Naturals

CONSTANTS Profiles,     \* profile identifiers
          NoProfile,    \* no row is selected
          MaxRevision   \* bound on the revisions explored

ASSUME StoreAssumption == /\ NoProfile \notin Profiles
                          /\ MaxRevision \in Nat \ {0}

VARIABLES revision,     \* revision[p]: profiles.revision, 0 when absent
          active        \* the row whose is_active is 1

storeVars == <<revision, active>>

StoreTypeOK == /\ revision \in [Profiles -> 0..MaxRevision]
               /\ active \in Profiles \union {NoProfile}

Existing == {p \in Profiles : revision[p] > 0}

(* A store as a server may find it: empty, or with one selected profile.   *)
ConsistentStore == /\ StoreTypeOK
                   /\ IF Existing = {} THEN active = NoProfile ELSE active \in Existing

(* create_profile, duplicate_profile, save_profile on an absent row: the   *)
(* first profile of an unselected store becomes the selected one.          *)
Create(p) ==
  /\ revision[p] = 0
  /\ revision' = [revision EXCEPT ![p] = 1]
  /\ active' = IF active = NoProfile THEN p ELSE active

(* save_profile and every _mutate_profile operation. *)
Change(p) ==
  /\ revision[p] \in 1..(MaxRevision - 1)
  /\ revision' = [revision EXCEPT ![p] = @ + 1]
  /\ UNCHANGED active

(* activate_profile on a profile that is not selected yet. *)
Activate(p) ==
  /\ active # p
  /\ revision[p] \in 1..(MaxRevision - 1)
  /\ revision' = [revision EXCEPT ![p] = @ + 1]
  /\ active' = p

(* set_active_profile moves the selection and leaves the revision alone. *)
Select(p) == p \in Existing /\ active' = p /\ UNCHANGED revision

(* delete_profile of a profile that is not selected. *)
DeleteInactive(p) ==
  /\ p \in Existing /\ Existing # {p}
  /\ active # p
  /\ revision' = [revision EXCEPT ![p] = 0]
  /\ UNCHANGED active

(* delete_profile of the selected one: the replacement takes the selection *)
(* together with a revision of its own.                                    *)
DeleteActive(p, replacement) ==
  /\ active = p
  /\ p \in Existing
  /\ replacement \in Existing \ {p}
  /\ revision[replacement] < MaxRevision
  /\ revision' = [revision EXCEPT ![p] = 0, ![replacement] = @ + 1]
  /\ active' = replacement

Delete(p, replacement) == DeleteInactive(p) \/ DeleteActive(p, replacement)

StoreNext ==
  \E p \in Profiles :
    \/ Create(p)
    \/ Change(p)
    \/ Activate(p)
    \/ Select(p)
    \/ DeleteInactive(p)
    \/ \E q \in Profiles : DeleteActive(p, q)

StoreSpec == ConsistentStore /\ [][StoreNext]_storeVars
=============================================================================

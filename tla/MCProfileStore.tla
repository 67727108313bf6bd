--------------------------- MODULE MCProfileStore ---------------------------
(* Instances of ProfileStore for TLC: the drafts and fixtures the          *)
(* configurations choose from.  Texts are numbers, and version n ships     *)
(* text n.  In what a client sends, every page has the button of its own;  *)
(* a page that is created later has any others.                            *)
EXTENDS ProfileStore, TLC

Own == CHOOSE f \in [Pages -> Buttons] : \A g, h \in Pages : f[g] = f[h] => g = h

OwnButtons(some) == [g \in Pages |-> IF g \in some THEN {Own[g]} ELSE {}]

(* A profile with one page. *)
Plain(t) == LET g == CHOOSE g \in Pages : TRUE
            IN  [text |-> t, activePage |-> g,
                 orders |-> [x \in Pages |-> IF x = g THEN 0 ELSE Absent],
                 buttons |-> OwnButtons({g})]

PlainFixtures == [n \in 1..BuiltinVersion |-> Plain(n)]

PlainDrafts == {Plain(t) : t \in Texts}

(* What no version of the builtin profile says. *)
UserDrafts == {Plain(t) : t \in Texts \ 1..BuiltinVersion}

(* Every numbering, with gaps too. *)
AllDrafts ==
  {d \in [text : Texts, activePage : Pages, orders : [Pages -> Absent..MaxOrder],
          buttons : {OwnButtons(some) : some \in SUBSET Pages}] : Valid(d)}

Symmetry == Permutations(Editors)
=============================================================================

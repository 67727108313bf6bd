--------------------------- MODULE OneTimePairing ---------------------------
(***************************************************************************)
(* What temporary pairing promises, as docs/architecture.md has it: a      *)
(* password is offered, at most one at a time; it is used once or it is    *)
(* over; and only a password that was used gives a token, one.             *)
(***************************************************************************)
CONSTANT Passwords

VARIABLES stage,     \* of every password: fresh, offered, used or over
          tokens     \* the tokens that were given out

TypeOK == stage \in [Passwords -> {"fresh", "offered", "used", "over"}]

Init == /\ stage = [p \in Passwords |-> "fresh"]
        /\ tokens = {}

(* The password that was offered before is over. *)
Offer(p) ==
  /\ stage[p] = "fresh"
  /\ stage' = [q \in Passwords |-> IF q = p THEN "offered"
                                   ELSE IF stage[q] = "offered" THEN "over" ELSE stage[q]]
  /\ UNCHANGED tokens

Leave(p, end) ==
  /\ stage[p] = "offered"
  /\ stage' = [stage EXCEPT ![p] = end]
  /\ UNCHANGED tokens

Issue(p) ==
  /\ stage[p] = "used"
  /\ \A t \in tokens : t.session # p
  /\ \E t \in tokens' : t.session = p /\ tokens' = tokens \cup {t}
  /\ UNCHANGED stage

Next == \E p \in Passwords : \/ Offer(p)
                             \/ Leave(p, "used") \/ Leave(p, "over")
                             \/ Issue(p)

Spec == Init /\ [][Next]_<<stage, tokens>>
=============================================================================

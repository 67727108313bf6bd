-------------------------- MODULE MCActionExecution --------------------------
(* An instance of ActionExecution for TLC: two hotkeys that share a        *)
(* modifier and one key of its own kind.                                   *)
EXTENDS ActionExecution, TLC

CONSTANTS ctrl, shift, s, mute

SharedChords == {<<ctrl, s>>, <<shift, ctrl, s>>, <<mute>>}

Symmetry == Permutations(Workers)
=============================================================================

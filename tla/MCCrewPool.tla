------------------------------ MODULE MCCrewPool ------------------------------
(* Three agents.  The first may name the second before that is spawned, as an  *)
(* LLM that spawns both in one response can; the third may name both others,   *)
(* or itself and another.                                                      *)
EXTENDS CrewPool

MCDependencies ==
    <<{<<>>, <<2>>}, {<<>>}, {<<1, 2>>, <<2>>, <<3, 1>>}>>
===============================================================================

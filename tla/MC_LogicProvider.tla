-------------------------- MODULE MC_LogicProvider --------------------------
(* Instantiation of LogicProvider for TLC.                                 *)
EXTENDS LogicProvider, TLC

CONSTANTS a1, a2, a3, h1, h2, m1, m2

MCAccounts == {a1, a2, a3}
MCTwoAccounts == {a1, a2}
MCHashes == {h1, h2}
MCOneRound == {m1}
MCTwoRounds == {m1, m2}
==============================================================================

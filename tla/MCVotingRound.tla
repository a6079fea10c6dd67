---------------------------- MODULE MCVotingRound ----------------------------
(***************************************************************************)
(* A small show: all candidates but c1 are submitted at the same time, so  *)
(* that the earliest-first rule has to break a tie.                        *)
(***************************************************************************)
EXTENDS VotingRound

CONSTANT c1

MCSubmittedAt == [c \in Candidate |-> IF c = c1 THEN 2 ELSE 1]
==============================================================================

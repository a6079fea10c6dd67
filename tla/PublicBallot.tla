----------------------------- MODULE PublicBallot -----------------------------
(***************************************************************************)
(* What a voting round promises its viewers, with no process, no timer and *)
(* no stream mode in it: a sequence of public ballots.                     *)
(*                                                                         *)
(*   - a ballot is opened once, over a list of options fixed at opening;   *)
(*   - while it is open and not paused, a viewer's last vote replaces the  *)
(*     previous one;                                                       *)
(*   - it is decided once, by plurality of the votes on record (by the     *)
(*     earliest submission when nobody voted), or dropped while paused;    *)
(*   - nothing about a decided or dropped ballot ever changes again.       *)
(*                                                                         *)
(* VotingRound implements this specification across crashes, restarts,     *)
(* halts and recoveries: a viewer cannot tell that the process died.       *)
(***************************************************************************)
EXTENDS Naturals, FiniteSets, Sequences

CONSTANTS Voter, Option, SubmittedAt, BallotId

VARIABLES
  phase,    \* [BallotId -> "none", "open", "paused", "decided", "dropped"]
  options,  \* [BallotId -> Seq(Option)]
  ballots,  \* [BallotId -> [Voter -> 0 or the index of an option]]
  winner    \* [BallotId -> 0 or the index of the winning option]

vars == <<phase, options, ballots, winner>>

Support(b, o) == Cardinality({v \in Voter : b[v] = o})

\* The options that may win a ballot with these votes.
Winners(opts, b) ==
  IF \E v \in Voter : b[v] # 0
    THEN {o \in DOMAIN opts : \A p \in DOMAIN opts : Support(b, p) <= Support(b, o)}
    ELSE {o \in DOMAIN opts : \A p \in DOMAIN opts :
             SubmittedAt[opts[o]] <= SubmittedAt[opts[p]]}

Init ==
  /\ phase = [i \in BallotId |-> "none"]
  /\ options = [i \in BallotId |-> <<>>]
  /\ ballots = [i \in BallotId |-> [v \in Voter |-> 0]]
  /\ winner = [i \in BallotId |-> 0]

Open(i) ==
  /\ phase[i] = "none"
  /\ \A j \in BallotId : phase[j] \notin {"open", "paused"}
  /\ phase' = [phase EXCEPT ![i] = "open"]
  /\ options'[i] \in Seq(Option)
  /\ options' = [options EXCEPT ![i] = options'[i]]
  /\ UNCHANGED <<ballots, winner>>

Cast(i, v) ==
  /\ phase[i] = "open"
  /\ \E o \in DOMAIN options[i] : ballots' = [ballots EXCEPT ![i] = [@ EXCEPT ![v] = o]]
  /\ UNCHANGED <<phase, options, winner>>

Pause(i) ==
  /\ phase[i] = "open"
  /\ phase' = [phase EXCEPT ![i] = "paused"]
  /\ UNCHANGED <<options, ballots, winner>>

Unpause(i) ==
  /\ phase[i] = "paused"
  /\ phase' = [phase EXCEPT ![i] = "open"]
  /\ UNCHANGED <<options, ballots, winner>>

Decide(i) ==
  /\ phase[i] = "open"
  /\ phase' = [phase EXCEPT ![i] = "decided"]
  /\ IF options[i] = <<>>
       THEN UNCHANGED winner
       ELSE \E w \in Winners(options[i], ballots[i]) : winner' = [winner EXCEPT ![i] = w]
  /\ UNCHANGED <<options, ballots>>

Drop(i) ==
  /\ phase[i] = "paused"
  /\ phase' = [phase EXCEPT ![i] = "dropped"]
  /\ UNCHANGED <<options, ballots, winner>>

Next ==
  \E i \in BallotId :
    \/ Open(i) \/ Pause(i) \/ Unpause(i) \/ Decide(i) \/ Drop(i)
    \/ \E v \in Voter : Cast(i, v)

Spec == Init /\ [][Next]_vars
===============================================================================

------------------------------ MODULE Cadence ------------------------------
(***************************************************************************)
(* The hands-free cadence (AutoCycleScheduler): a suggestion phase, a      *)
(* vote, and the next phase as soon as the round closes; by default a vote *)
(* waits until nothing builds.                                             *)
(*                                                                         *)
(* Its methods call, and are called from, listeners that run inside other  *)
(* components' methods, so calls is the stack of the one thread: the       *)
(* innermost call first, and empty when Node is back in its event loop.  A *)
(* method is a step that replaces the top call by the calls it makes.      *)
(* What a method reads of the rest of the show is a parameter.             *)
(***************************************************************************)
EXTENDS StreamMode, Naturals, Sequences

VARIABLES
    enabled,   \* the console's pause
    phase,     \* a suggestion phase is open: #phaseEndsAtMs is set
    timers,    \* armed phase timers: #timer holds one, so a second one is an orphan
    waiting,   \* a vote is owed to chat when the build is over
    calls      \* the call stack

cycle == <<enabled, phase, timers, waiting>>

MaxTimers == 2

InLoop == calls = <<>>

\* The top call is f.
Call(f) == ~InLoop /\ Head(calls)[1] = f

\* The running step ends in the calls of then, before whatever called it goes on.
Then(then) == calls' = then \o (IF InLoop THEN <<>> ELSE Tail(calls))

Return == Then(<<>>)

-----------------------------------------------------------------------------
(* Phases.                                                                 *)

\* #beginSuggestPhase, whose last call looks for a pool that is already full.
BeginSuggestPhase ==
    /\ Call("beginSuggestPhase")
    /\ phase' = TRUE
    /\ timers' = IF timers < MaxTimers THEN timers + 1 ELSE timers
    /\ UNCHANGED <<enabled, waiting>>
    /\ Then(<<<<"maybeEarlyClose">>>>)

\* #resumeFromWait: the checks of a phase end, and nothing builds.
ResumesVote(eligible) == eligible /\ mode # "BUILD_IN_PROGRESS"

\* #maybeBegin, also the listener of STATE_CHANGED and of ROUND_CLOSED; a vote that is owed
\* is resumed instead.
MaybeBegin(eligible) ==
    /\ Call("maybeBegin")
    /\ IF phase \/ timers # 0 THEN Return /\ UNCHANGED cycle
       ELSE IF waiting THEN
            /\ waiting' = ~ResumesVote(eligible)
            /\ Then(IF ResumesVote(eligible) THEN <<<<"attemptRoundStart">>>> ELSE <<>>)
            /\ UNCHANGED <<enabled, phase, timers>>
       ELSE Then(IF eligible THEN <<<<"beginSuggestPhase">>>> ELSE <<>>) /\ UNCHANGED cycle

ClearTimer == timers' = IF timers = 0 THEN 0 ELSE timers - 1

\* #maybeEarlyClose: a pool that is full ends the phase through the method its timer calls.
MaybeEarlyClose(full) ==
    /\ Call("maybeEarlyClose")
    /\ IF phase /\ timers # 0 /\ full
       THEN ClearTimer /\ Then(<<<<"onPhaseEnd">>>>)
       ELSE UNCHANGED timers /\ Return
    /\ UNCHANGED <<enabled, phase, waiting>>

OnPhaseEnd(eligible) ==
    /\ Call("onPhaseEnd")
    /\ phase' = FALSE
    /\ Then(IF eligible THEN <<<<"attemptRoundStart">>>> ELSE <<>>)
    /\ UNCHANGED <<enabled, timers, waiting>>

PhaseTimer ==
    /\ InLoop /\ timers # 0
    /\ timers' = timers - 1
    /\ Then(<<<<"onPhaseEnd">>>>)
    /\ UNCHANGED <<enabled, phase, waiting>>

\* Mutant of Park: the halt forgets the phase's timer.
ParkPhaseOnly ==
    /\ phase' = FALSE
    /\ UNCHANGED <<enabled, timers, waiting>>

\* #park, inside the halt.  An owed vote stays owed.
Park ==
    /\ ClearTimer
    /\ phase' = FALSE
    /\ UNCHANGED <<enabled, waiting>>

\* toggle(): the owed vote dies with the pause.
Toggle ==
    /\ InLoop
    /\ enabled' = ~enabled
    /\ IF enabled
       THEN ClearTimer /\ phase' = FALSE /\ waiting' = FALSE /\ UNCHANGED calls
       ELSE UNCHANGED <<phase, timers, waiting>> /\ Then(<<<<"maybeBegin">>>>)

CycleTypeOK ==
    /\ enabled \in BOOLEAN /\ phase \in BOOLEAN /\ waiting \in BOOLEAN
    /\ timers \in 0..MaxTimers

CycleInit ==
    /\ enabled = TRUE /\ phase = FALSE /\ timers = 0 /\ waiting = FALSE
    /\ calls = <<<<"maybeBegin">>>>
=============================================================================

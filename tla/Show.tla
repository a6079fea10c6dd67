--------------------------------- MODULE Show ---------------------------------
(***************************************************************************)
(* The show as the composition root wires it: the cadence, the queue of    *)
(* winners and its drain, and the drives of paid windows and of chaos      *)
(* mode.  The voting round, the windows and the build session appear by    *)
(* what they do to the rest; VotingRound, ControlWindow and BuildSession   *)
(* model them, Gallery and HeldReview the winners that are not builds.     *)
(*                                                                         *)
(* Everything from one callback of Node to its end is a cascade of calls   *)
(* (see Cadence): a transition of the mode calls its listeners in the      *)
(* order they subscribed, and each of them may make another.               *)
(***************************************************************************)
EXTENDS Cadence, SequencesExt, FiniteSets

CONSTANTS
    Suggestion, Chaos, Paid,  \* candidates of chat, its requests for chaos, and the instructions
                              \* of window donors
    NoTask,
    VoteQueueMax,             \* queued winners that keep a new phase from beginning
    EarlyCloseSize,           \* pooled candidates that end a phase
    StartedMax,               \* how many heads startedVoteHeads remembers
    MaxActs                   \* bound: what the streamer and the donors do, and stale picks

Task == Suggestion \union Chaos \union Paid

ShowAssumption ==
    /\ NoTask \notin Task
    /\ Suggestion \intersect (Chaos \union Paid) = {} /\ Chaos \intersect Paid = {}
    /\ VoteQueueMax \in Nat \ {0} /\ EarlyCloseSize \in Nat /\ StartedMax \in Nat \ {0}
    /\ MaxActs \in Nat

ASSUME ShowAssumption

Drives == {"vote", "window", "chaos", "nobody"}
Job    == [task : Task, drive : Drives, retry : BOOLEAN]
NoJob  == [task |-> NoTask, drive |-> "nobody", retry |-> FALSE]
Settling == [NoJob EXCEPT !.retry = TRUE]

VARIABLES
    seen,          \* candidates submitted so far
    pool,          \* CandidatePool
    asked,         \* instructions and stale picks the gate is looking at
    queue,         \* TaskQueue
    started,       \* startedVoteHeads, oldest first
    round,         \* the options of the loaded round, {} when there is none
    roundFrozen,
    window,        \* "none", "banked", "live", or "over": loaded but past its deadline
    armed,         \* the window has its timer
    chaosOn,       \* chaos mode, the console's toggle
    chaosWindow,   \* the chaos window that chat votes for is live
    drainHeard,    \* prevDrainMode
    drainDue,      \* a setImmediate with a drain is scheduled
    building,      \* the job p-queue runs; Settling when it is over but p-queue has not gone on
    line,          \* the jobs behind it
    pending,       \* the task whose decision the streamer owes
    rechecked,     \* history: picks whose approval was stale
    over,          \* history: tasks that were built, skipped, vetoed or otherwise done with
    uncapped,      \* history: the console started a round or chaos mode picked a winner
    unheard,       \* history: what kept a phase from beginning went away, and no listener ran since
    undrained,     \* history: a halt was left, and no drain has run since
    acts

tasks      == <<seen, pool, asked, queue, started>>
roundVars  == <<round, roundFrozen, uncapped>>
windowVars == <<window, armed>>
chaosVars  == <<chaosOn, chaosWindow>>
drainVars  == <<drainHeard, drainDue>>
session    == <<building, line, pending>>
history    == <<rechecked, over, unheard, undrained>>

vars == <<modeVars, cycle, calls, tasks, roundVars, windowVars, chaosVars, drainVars, session,
          history, acts>>

Act == acts < MaxActs /\ acts' = acts + 1

-----------------------------------------------------------------------------
(* What the components ask about each other.                               *)

InQueue(t) == \E i \in DOMAIN queue : queue[i] = t
Without(t) == RemoveFirst(queue, t)
VoteOrigin(t) == t \notin Paid

\* Mutant of Finish: the task is still queued when IDLE is announced.
FinishLate(t) == UNCHANGED queue /\ over' = over \union {t}

\* The task is done with, and leaves the queue.
Finish(t) == queue' = Without(t) /\ over' = over \union {t}

\* Mutant of IsVoteQueueFull: the bound is passed by one.
IsVoteQueueOver == Cardinality({i \in DOMAIN queue : VoteOrigin(queue[i])}) > VoteQueueMax

IsVoteQueueFull == Cardinality({i \in DOMAIN queue : VoteOrigin(queue[i])}) >= VoteQueueMax

IsControlWindowLive == window \in {"live", "banked"}

\* #isEligible
Eligible ==
    /\ enabled /\ round = {}
    /\ mode \in {"IDLE", "BUILD_IN_PROGRESS"}
    /\ ~IsControlWindowLive /\ ~chaosOn /\ ~IsVoteQueueFull

PoolFull == Cardinality(pool) >= IF EarlyCloseSize < 2 THEN 2 ELSE EarlyCloseSize

-----------------------------------------------------------------------------
(* Moving the mode.  transition(m) calls the listeners of STATE_CHANGED in *)
(* the order the composition root subscribes them; then is what the caller *)
(* goes on to do.                                                          *)

Listeners(m) == <<<<"windowHears", mode, m>>, <<"maybeBegin">>, <<"drainHears", m>>>>

MoveTo(m, then) == Transition(m) /\ Then(Listeners(m) \o then)

LeaveModeTo(from, m, then) ==
    IF mode = from THEN MoveTo(m, then) ELSE UNCHANGED modeVars /\ Then(then)

EnterBuildMode(then) ==
    IF mode = "BUILD_IN_PROGRESS" THEN UNCHANGED modeVars /\ Then(then)
    ELSE MoveTo("BUILD_IN_PROGRESS", then)

Init ==
    /\ ModeInit /\ CycleInit
    /\ seen = {} /\ pool = {} /\ asked = {} /\ queue = <<>> /\ started = <<>>
    /\ round = {} /\ roundFrozen = FALSE /\ uncapped = FALSE
    /\ window = "none" /\ armed = FALSE
    /\ chaosOn = FALSE /\ chaosWindow = FALSE
    /\ drainHeard = "IDLE" /\ drainDue = FALSE
    /\ building = NoJob /\ line = <<>> /\ pending = NoTask
    /\ rechecked = {} /\ over = {} /\ unheard = FALSE /\ undrained = FALSE /\ acts = 0

-----------------------------------------------------------------------------
(* The build session, as far as the drives see it.                         *)

\* p-queue takes a job: at once when it has none, or behind the others.
Track(job, then) ==
    IF building # NoJob
    THEN line' = Append(line, job) /\ UNCHANGED <<modeVars, building>> /\ Then(then)
    ELSE /\ building' = job /\ UNCHANGED line
         /\ IF job.retry THEN UNCHANGED modeVars /\ Then(then) ELSE EnterBuildMode(then)

\* dispatchBuild; startBuild takes nothing under a halt and returns at once.
DispatchBuild ==
    /\ Call("dispatchBuild")
    /\ LET t == Head(calls)[2]
           drive == Head(calls)[3]
       IN IF mode = "HALTED"
          THEN UNCHANGED <<modeVars, building, line>> /\ Then(<<<<"continue", drive>>>>)
          ELSE Track([task |-> t, drive |-> drive, retry |-> FALSE], <<>>)
    /\ UNCHANGED <<cycle, tasks, roundVars, windowVars, chaosVars, drainVars, pending, history, acts>>

\* The running build settles: p-queue goes on to the next job, then the drive that awaited
\* this one continues.
AfterBuild == <<<<"nextJob">>, <<"continue", building.drive>>>>

Running == building \notin {NoJob, Settling}

\* finalize, finalizeAborted and parkForReview: the task leaves the queue before the mode moves.
BuildEnds ==
    /\ InLoop /\ Running
    /\ Finish(building.task)
    /\ building' = Settling
    /\ LeaveModeTo("BUILD_IN_PROGRESS", "IDLE", AfterBuild)
    /\ unheard' = (unheard \/ mode # "BUILD_IN_PROGRESS")
    /\ UNCHANGED <<cycle, seen, pool, asked, started, roundVars, windowVars, chaosVars, drainVars,
                   line, pending, rechecked, undrained, acts>>

\* enterDecision: the mode stays until the streamer retries or skips.
BuildNeedsDecision ==
    /\ InLoop /\ Running /\ mode # "HALTED"
    /\ building' = Settling
    /\ pending' = building.task
    /\ Then(AfterBuild)
    /\ UNCHANGED <<modeVars, cycle, tasks, roundVars, windowVars, chaosVars, drainVars, line,
                   history, acts>>

\* p-queue's next job; a pipeline that cannot enter BUILD_IN_PROGRESS fails at once.
NextJob ==
    /\ Call("nextJob")
    /\ IF line = <<>>
       THEN building' = NoJob /\ UNCHANGED <<modeVars, queue, over, line>> /\ Return
       ELSE LET job == Head(line) IN
            /\ line' = Tail(line)
            /\ IF mode = "HALTED" /\ ~job.retry
               THEN /\ Finish(job.task)
                    /\ UNCHANGED <<modeVars, building>>
                    /\ Then(<<<<"nextJob">>, <<"continue", job.drive>>>>)
               ELSE /\ building' = job /\ UNCHANGED <<queue, over>>
                    /\ IF job.retry THEN UNCHANGED modeVars /\ Return ELSE EnterBuildMode(<<>>)
    /\ UNCHANGED <<cycle, seen, pool, asked, started, roundVars, windowVars, chaosVars, drainVars,
                   pending, rechecked, unheard, undrained, acts>>

Retry ==
    /\ InLoop /\ pending # NoTask /\ mode # "HALTED" /\ Act
    /\ pending' = NoTask
    /\ Track([task |-> pending, drive |-> "nobody", retry |-> TRUE], <<>>)
    /\ UNCHANGED <<cycle, tasks, roundVars, windowVars, chaosVars, drainVars, history>>

\* skipTask, in any mode.
Skip ==
    /\ InLoop /\ pending # NoTask
    /\ pending' = NoTask
    /\ Finish(pending)
    /\ LeaveModeTo("BUILD_IN_PROGRESS", "IDLE", <<>>)
    /\ unheard' = (unheard \/ mode # "BUILD_IN_PROGRESS")
    /\ UNCHANGED <<cycle, seen, pool, asked, started, roundVars, windowVars, chaosVars, drainVars,
                   building, line, rechecked, undrained, acts>>

-----------------------------------------------------------------------------
(* The drain and the drives.                                               *)

Drainable(t) == VoteOrigin(t) /\ \A i \in DOMAIN started : started[i] # t

\* stampStartedHead: past the limit the oldest stamp is forgotten.
Stamp(t) ==
    started' = IF Len(started) < StartedMax THEN Append(started, t) ELSE Append(Tail(started), t)

\* The first drainable task of the queue.
IsHead(t) ==
    \E i \in DOMAIN queue :
        /\ queue[i] = t /\ Drainable(t)
        /\ \A j \in 1..(i - 1) : ~Drainable(queue[j])

MayDrain == mode \in {"IDLE", "VOTING_ROUND"} /\ window # "live" /\ ~chaosOn

\* ChaosModeController.activate: a chaos window that is live already is left as it is.
Activate == chaosWindow' = TRUE

\* ChaosModeController.clear: no window survives a halt.
ClearChaos == chaosWindow' = FALSE

\* runChaosWinner, and the next winner at once when nothing else owns the mode.
DrainChaosWinner(t) ==
    /\ t \in Chaos
    /\ Finish(t)
    /\ Activate
    /\ Then(IF mode = "IDLE" THEN <<<<"drain">>>> ELSE <<>>)
    /\ unheard' = (unheard \/ mode = "IDLE")
    /\ UNCHANGED modeVars

\* The build begins after the listeners of BUILD_IN_PROGRESS.
DrainWinner(t) ==
    /\ t \notin Chaos
    /\ MoveTo("BUILD_IN_PROGRESS", <<<<"dispatchBuild", t, "vote">>>>)
    /\ UNCHANGED <<queue, over, chaosWindow, unheard>>

\* drainVoteQueue
Drain ==
    /\ Call("drain")
    /\ \/ /\ MayDrain
          /\ \E t \in Task :
                /\ IsHead(t)
                /\ Stamp(t)
                /\ DrainChaosWinner(t) \/ DrainWinner(t)
       \/ /\ ~MayDrain \/ \A t \in Task : ~IsHead(t)
          /\ Return
          /\ UNCHANGED <<modeVars, queue, over, started, chaosWindow, unheard>>
    /\ undrained' = FALSE
    /\ UNCHANGED <<cycle, seen, pool, asked, roundVars, windowVars, chaosOn, drainVars, session,
                   rechecked, acts>>

\* driveWindowBuild and driveChaosBuild: a queued task goes to the build session.
Drive ==
    /\ Call("drive")
    /\ LET t == Head(calls)[2]
           drive == Head(calls)[3]
       IN IF mode = "BUILD_IN_PROGRESS" \/ ~InQueue(t)
          THEN UNCHANGED modeVars /\ Return
          ELSE LeaveModeTo(IF drive = "window" THEN "FREE_REIGN_WINDOW" ELSE "CHAOS_MODE",
                           "BUILD_IN_PROGRESS", <<<<"dispatchBuild", t, drive>>>>)
    /\ UNCHANGED <<cycle, tasks, roundVars, windowVars, chaosVars, drainVars, session, history, acts>>

\* What a drive does when the build it awaited has settled.
Continue ==
    /\ Call("continue")
    /\ LET drive == Head(calls)[2] IN
       CASE mode = "IDLE" /\ drive = "vote" -> Then(<<<<"drain">>>>) /\ UNCHANGED modeVars
         [] mode = "IDLE" /\ drive = "window" /\ window = "live" ->
                MoveTo("FREE_REIGN_WINDOW", <<<<"driveHead">>>>)
         [] mode = "IDLE" /\ drive = "chaos" /\ chaosOn -> MoveTo("CHAOS_MODE", <<<<"pickChaos">>>>)
         [] OTHER -> Return /\ UNCHANGED modeVars
    /\ UNCHANGED <<cycle, tasks, roundVars, windowVars, chaosVars, drainVars, session, history, acts>>

\* The window's drive takes whatever heads the queue.
DriveHead ==
    /\ Call("driveHead")
    /\ Then(IF queue = <<>> THEN <<>> ELSE <<<<"drive", Head(queue), "window">>>>)
    /\ UNCHANGED <<modeVars, cycle, tasks, roundVars, windowVars, chaosVars, drainVars, session,
                   history, acts>>

\* The drain's listener: a return to IDLE that is not out of a halt drains in a later tick.
DrainHears ==
    /\ Call("drainHears")
    /\ LET m == Head(calls)[2] IN
       drainHeard' = m /\ drainDue' = (drainDue \/ (m = "IDLE" /\ drainHeard # "HALTED"))
    /\ Return
    /\ UNCHANGED <<modeVars, cycle, tasks, roundVars, windowVars, chaosVars, session, history, acts>>

\* Mutant of DrainTick: the drain that was due is dropped.
DrainTickDropped ==
    /\ InLoop /\ drainDue
    /\ drainDue' = FALSE
    /\ UNCHANGED <<modeVars, cycle, calls, tasks, roundVars, windowVars, chaosVars, drainHeard,
                   session, history, acts>>

DrainTick ==
    /\ InLoop /\ drainDue
    /\ drainDue' = FALSE
    /\ Then(IF mode = "IDLE" THEN <<<<"drain">>>> ELSE <<>>)
    /\ UNCHANGED <<modeVars, cycle, tasks, roundVars, windowVars, chaosVars, drainHeard, session,
                   history, acts>>

-----------------------------------------------------------------------------
(* Chat and the picks from the pool.                                       *)

\* A suggestion that the gate approved enters the pool, whose listener may close the phase.
Suggest(t) ==
    /\ InLoop /\ t \in Task \ (seen \union Paid) /\ mode # "HALTED"
    /\ seen' = seen \union {t} /\ pool' = pool \union {t}
    /\ Then(<<<<"maybeEarlyClose">>>>)
    /\ UNCHANGED <<modeVars, cycle, asked, queue, started, roundVars, windowVars, chaosVars,
                   drainVars, session, history, acts>>

\* An instruction is sent while a window is loaded, and the gate looks at it.
Instruct(t) ==
    /\ InLoop /\ t \in Paid \ seen /\ mode # "HALTED"
    /\ window \in {"live", "over"}
    /\ seen' = seen \union {t} /\ asked' = asked \union {t}
    /\ UNCHANGED <<modeVars, cycle, calls, pool, queue, started, roundVars, windowVars, chaosVars,
                   drainVars, session, history, acts>>

\* The gate approves it, whatever the mode is by now: it is queued and driven.
InstructionApproved(t) ==
    /\ InLoop /\ t \in asked \intersect Paid
    /\ asked' = asked \ {t}
    /\ queue' = Append(queue, t)
    /\ Then(<<<<"drive", t, "window">>>>)
    /\ UNCHANGED <<modeVars, cycle, seen, pool, started, roundVars, windowVars, chaosVars,
                   drainVars, session, history, acts>>

\* The gate refuses a stale pick, or holds it for review; a refused instruction is one that is
\* never approved.
GateRefuses(t) ==
    /\ InLoop /\ t \in asked \ Paid
    /\ asked' = asked \ {t}
    /\ UNCHANGED <<modeVars, cycle, calls, seen, pool, queue, started, roundVars, windowVars,
                   chaosVars, drainVars, session, history, acts>>

\* A stale pick that the gate approves again is pooled, wherever it is by now.
Repooled(t) ==
    /\ InLoop /\ t \in asked \ Paid
    /\ asked' = asked \ {t}
    /\ pool' = pool \union {t}
    /\ Then(<<<<"maybeEarlyClose">>>>)
    /\ UNCHANGED <<modeVars, cycle, seen, queue, started, roundVars, windowVars, chaosVars,
                   drainVars, session, history, acts>>

\* A pick whose approval is stale goes back to the gate; it stays where it was picked.  The
\* bound: the gate looks at a task once at a time.
Recheck(t) ==
    /\ t \notin asked /\ Act
    /\ asked' = asked \union {t}
    /\ rechecked' = rechecked \union {t}
    /\ UNCHANGED <<seen, pool, queue>>

\* Mutant of PickFromPool: the pick is not taken out of the pool.
PickLeavesPool(t, onQueued, then) ==
    /\ queue' = Append(queue, t)
    /\ Then(onQueued \o then)
    /\ UNCHANGED <<seen, pool, asked, rechecked, acts>>

\* enqueueWinner and submitChaosPick of a fresh pick outside a halt, and what is called for
\* the queued pick.
PickFromPool(t, onQueued, then) ==
    /\ queue' = Append(queue, t)
    /\ pool' = pool \ {t}
    /\ Then(onQueued \o then)
    /\ UNCHANGED <<seen, asked, rechecked, acts>>

\* startRound takes the whole pool; a round under a build leaves the mode to the build.
OpenRound ==
    /\ round = {} /\ mode \in {"IDLE", "BUILD_IN_PROGRESS"} /\ Cardinality(pool) >= 2
    /\ round' = pool /\ roundFrozen' = FALSE
    /\ pool' = {}
    /\ LeaveModeTo("IDLE", "VOTING_ROUND", <<>>)
    /\ UNCHANGED <<seen, asked, queue>>

\* After a pick the next phase is begun as by any listener, which may have begun it already.
PicksAgain == <<<<"maybeBegin">>>>

\* chaosModePick owns the phase's end.
AttemptChaosPick ==
    /\ chaosWindow
    /\ \/ \E t \in pool : \/ PickFromPool(t, <<<<"drain">>>>, PicksAgain)
                          \/ Recheck(t) /\ Then(PicksAgain)
       \/ pool = {} /\ UNCHANGED <<seen, pool, asked, queue, rechecked, acts>>
                    /\ Then(<<<<"maybeBegin">>>>)
    /\ UNCHANGED <<modeVars, cycle, round, roundFrozen>>

\* The vote waits until nothing builds.
AttemptWaits ==
    /\ ~chaosWindow /\ mode = "BUILD_IN_PROGRESS"
    /\ waiting' = TRUE
    /\ Return
    /\ UNCHANGED <<modeVars, enabled, phase, timers, seen, pool, asked, queue, round, roundFrozen,
                   rechecked, acts>>

AttemptVote ==
    /\ ~chaosWindow /\ mode # "BUILD_IN_PROGRESS"
    /\ OpenRound
    /\ UNCHANGED <<cycle, rechecked, acts>>

\* soloPick builds a lone candidate that does not ask for chaos.
AttemptSolo ==
    /\ ~chaosWindow /\ mode # "BUILD_IN_PROGRESS"
    /\ \E t \in pool : /\ pool = {t} /\ t \notin Chaos
                       /\ \/ PickFromPool(t, <<<<"drain">>>>, PicksAgain)
                          \/ Recheck(t) /\ Then(PicksAgain)
    /\ UNCHANGED <<modeVars, cycle, round, roundFrozen>>

\* Nothing to vote on: another phase.
AttemptRestart ==
    /\ ~chaosWindow /\ mode # "BUILD_IN_PROGRESS"
    /\ pool = {} \/ \E t \in Chaos : pool = {t}
    /\ Then(<<<<"beginSuggestPhase">>>>)
    /\ UNCHANGED <<modeVars, cycle, seen, pool, asked, queue, round, roundFrozen, rechecked, acts>>

\* #attemptRoundStart
AttemptRoundStart ==
    /\ Call("attemptRoundStart")
    /\ AttemptChaosPick \/ AttemptWaits \/ AttemptVote \/ AttemptSolo \/ AttemptRestart
    /\ UNCHANGED <<started, uncapped, windowVars, chaosVars, drainVars, session, over, unheard,
                   undrained>>

\* The scheduler's other methods.
CycleStep ==
    /\ \/ (MaybeBegin(Eligible) \/ BeginSuggestPhase \/ MaybeEarlyClose(PoolFull)
             \/ OnPhaseEnd(Eligible) \/ PhaseTimer) /\ UNCHANGED acts
       \/ Toggle /\ Act
    /\ unheard' = (unheard /\ ~Call("maybeBegin"))
    /\ UNCHANGED <<modeVars, tasks, roundVars, windowVars, chaosVars, drainVars, session, rechecked,
                   over, undrained>>

-----------------------------------------------------------------------------
(* The voting round.                                                       *)

\* The console's start route.
StartRound ==
    /\ InLoop /\ Act
    /\ OpenRound
    /\ uncapped' = TRUE
    /\ UNCHANGED <<cycle, started, windowVars, chaosVars, drainVars, session, history>>

\* closeRound up to the funnel and its drain, which run while the round is still loaded.  A
\* stale winner goes back to the gate instead.
RoundTimer ==
    /\ InLoop /\ round # {} /\ ~roundFrozen
    /\ \E t \in round :
          \/ /\ queue' = Append(queue, t)
             /\ Then(<<<<"drain">>, <<"leaveVoting">>>>)
             /\ UNCHANGED <<seen, pool, asked, rechecked, acts>>
          \/ Recheck(t) /\ Then(<<<<"leaveVoting">>>>)
    /\ UNCHANGED <<modeVars, cycle, started, roundVars, windowVars, chaosVars, drainVars, session,
                   over, unheard, undrained>>

LeaveVoting ==
    /\ Call("leaveVoting")
    /\ LeaveModeTo("VOTING_ROUND", "IDLE", <<<<"roundClosed">>>>)
    /\ UNCHANGED <<cycle, tasks, roundVars, windowVars, chaosVars, drainVars, session, history, acts>>

\* The round is unloaded and ROUND_CLOSED emitted, to the scheduler.
RoundClosed ==
    /\ Call("roundClosed")
    /\ round' = {} /\ roundFrozen' = FALSE
    /\ Then(<<<<"maybeBegin">>>>)
    /\ UNCHANGED <<modeVars, cycle, tasks, uncapped, windowVars, chaosVars, drainVars, session,
                   history, acts>>

-----------------------------------------------------------------------------
(* Paid windows.                                                           *)

\* open(): a payment opens a window in IDLE and is banked elsewhere.
OpenWindow ==
    /\ InLoop /\ window = "none" /\ mode # "HALTED" /\ Act
    /\ IF mode = "IDLE"
       THEN window' = "live" /\ armed' = TRUE /\ MoveTo("FREE_REIGN_WINDOW", <<>>)
       ELSE window' = "banked" /\ UNCHANGED <<modeVars, calls, armed>>
    /\ UNCHANGED <<cycle, tasks, roundVars, chaosVars, drainVars, session, history>>

\* The deadline passes without a timer.
Lapse ==
    /\ InLoop /\ window = "live" /\ ~armed
    /\ window' = "over" /\ unheard' = TRUE /\ undrained' = TRUE
    /\ UNCHANGED <<modeVars, cycle, calls, tasks, roundVars, armed, chaosVars, drainVars, session,
                   rechecked, over, acts>>

\* #expire: the deadline has passed while the listeners of IDLE run.
WindowTimer ==
    /\ InLoop /\ window = "live" /\ armed
    /\ window' = "over" /\ armed' = FALSE
    /\ LeaveModeTo("FREE_REIGN_WINDOW", "IDLE", <<<<"windowClosed">>>>)
    /\ UNCHANGED <<cycle, tasks, roundVars, chaosVars, drainVars, session, history, acts>>

\* revoke(), of the loaded window, which is live while they run, or of the banked one.
Revoke ==
    /\ InLoop /\ window # "none" /\ Act
    /\ IF window = "banked"
       THEN UNCHANGED modeVars /\ Then(<<<<"windowClosed">>>>)
       ELSE LeaveModeTo("FREE_REIGN_WINDOW", "IDLE", <<<<"windowClosed">>>>)
    /\ UNCHANGED <<cycle, tasks, roundVars, windowVars, chaosVars, drainVars, session, history>>

\* Mutant of PokeCycle: nobody tells the scheduler that the window is gone.
NoPoke == <<>>

\* WINDOW_CLOSED and WINDOW_REVOKED start the scheduler.
PokeCycle == <<<<"maybeBegin">>>>

\* The window is unloaded and its event emitted.
WindowClosed ==
    /\ Call("windowClosed")
    /\ window' = "none" /\ armed' = FALSE
    /\ Then(PokeCycle)
    /\ undrained' = (undrained \/ mode = "IDLE")
    /\ UNCHANGED <<modeVars, cycle, tasks, roundVars, chaosVars, drainVars, session, rechecked, over,
                   unheard, acts>>

\* The window's listener of STATE_CHANGED: a recovery resumes or discards it, a return to
\* IDLE opens a banked window inside the transition.
WindowHears ==
    /\ Call("windowHears")
    /\ LET from == Head(calls)[2]
           m == Head(calls)[3]
       IN CASE from = "HALTED" /\ m = "FREE_REIGN_WINDOW" /\ window # "none" ->
                   /\ armed' = TRUE
                   /\ UNCHANGED <<modeVars, window>> /\ Return
            [] from = "HALTED" /\ m = "IDLE" /\ window # "none" ->
                   UNCHANGED <<modeVars, windowVars>> /\ Then(<<<<"windowClosed">>>>)
            [] from # "HALTED" /\ m = "IDLE" /\ window = "banked" ->
                   /\ window' = "live" /\ armed' = TRUE
                   /\ MoveTo("FREE_REIGN_WINDOW", <<>>)
            [] OTHER -> UNCHANGED <<modeVars, windowVars>> /\ Return
    /\ UNCHANGED <<cycle, tasks, roundVars, chaosVars, drainVars, session, history, acts>>

-----------------------------------------------------------------------------
(* Chaos.                                                                  *)

\* The console's toggle: the flag changes only when the listeners of the mode have run.
ToggleChaos ==
    /\ InLoop /\ Act
    /\ MoveTo(IF chaosOn THEN "IDLE" ELSE "CHAOS_MODE", <<<<"chaosFlag">>>>)
    /\ UNCHANGED <<cycle, tasks, roundVars, windowVars, chaosVars, drainVars, session, history>>

ChaosFlag ==
    /\ Call("chaosFlag")
    /\ chaosOn' = ~chaosOn
    /\ unheard' = (unheard \/ chaosOn)
    /\ Then(IF chaosOn THEN <<>> ELSE <<<<"pickChaos">>>>)
    /\ UNCHANGED <<modeVars, cycle, tasks, roundVars, windowVars, chaosWindow, drainVars, session,
                   rechecked, over, undrained, acts>>

\* chaos.pick, of the suggestions only.
PickChaos ==
    /\ Call("pickChaos")
    /\ IF mode = "CHAOS_MODE" /\ pool \intersect Suggestion # {}
       THEN \E t \in pool \intersect Suggestion :
               \/ PickFromPool(t, <<<<"drive", t, "chaos">>>>, <<>>) /\ uncapped' = TRUE
               \/ Recheck(t) /\ Return /\ UNCHANGED uncapped
       ELSE Return /\ UNCHANGED <<seen, pool, asked, queue, uncapped, rechecked, acts>>
    /\ UNCHANGED <<modeVars, cycle, started, round, roundFrozen, windowVars, chaosVars, drainVars,
                   session, over, unheard, undrained>>

\* The chaos window that chat voted for is over.
ChaosExpires ==
    /\ InLoop /\ chaosWindow
    /\ chaosWindow' = FALSE
    /\ UNCHANGED <<modeVars, cycle, calls, tasks, roundVars, windowVars, chaosOn, drainVars,
                   session, history, acts>>

-----------------------------------------------------------------------------
(* The streamer.                                                           *)

\* The halt.  STATE_CHANGED comes first and finds nothing eligible; then HALT_TRIGGERED
\* clears the chaos window, freezes round and window, and parks the cadence.
Halt ==
    /\ InLoop /\ Act
    /\ ForceHalt
    /\ drainHeard' = "HALTED"
    /\ ClearChaos
    /\ roundFrozen' = (round # {})
    /\ armed' = FALSE
    /\ Park
    /\ undrained' = TRUE
    /\ UNCHANGED <<calls, tasks, round, uncapped, window, chaosOn, drainDue, session, rechecked, over,
                   unheard>>

\* recover(): the round's listener is first; it resumes the round, or repools its options
\* and emits ROUND_CLOSED inside the transition.
RecoverShow(action) ==
    /\ InLoop
    /\ Recover(action)
    /\ LET discards == mode' = "IDLE" /\ roundFrozen IN
       /\ pool' = IF discards THEN pool \union round ELSE pool
       /\ round' = IF discards THEN {} ELSE round
       /\ roundFrozen' = (roundFrozen /\ mode' \notin {"IDLE", "VOTING_ROUND", "BUILD_IN_PROGRESS"})
       /\ Then((IF discards THEN <<<<"maybeBegin">>>> ELSE <<>>) \o Listeners(mode'))
    /\ UNCHANGED <<cycle, seen, asked, queue, started, uncapped, windowVars, chaosVars, drainVars,
                   session, history, acts>>

\* The console's veto takes a task off the queue, whatever else holds it.
Veto(t) ==
    /\ InLoop /\ InQueue(t) /\ Act
    /\ Finish(t)
    /\ unheard' = TRUE
    /\ UNCHANGED <<modeVars, cycle, calls, seen, pool, asked, started, roundVars, windowVars,
                   chaosVars, drainVars, session, rechecked, undrained>>

-----------------------------------------------------------------------------
\* The calls: whatever is on the stack goes on before Node takes another callback.
CallStep ==
    \/ DispatchBuild \/ NextJob \/ Drain \/ Drive \/ Continue \/ DriveHead \/ DrainHears
    \/ AttemptRoundStart \/ LeaveVoting \/ RoundClosed \/ WindowClosed \/ WindowHears
    \/ ChaosFlag \/ PickChaos

Next ==
    \/ CycleStep \/ CallStep
    \/ BuildEnds \/ BuildNeedsDecision \/ Retry \/ Skip
    \/ DrainTick
    \/ StartRound \/ RoundTimer
    \/ OpenWindow \/ Lapse \/ WindowTimer \/ Revoke
    \/ ToggleChaos \/ ChaosExpires
    \/ Halt
    \/ \E a \in RecoveryActions : RecoverShow(a)
    \/ \E t \in Task :
         Suggest(t) \/ Instruct(t) \/ InstructionApproved(t) \/ GateRefuses(t) \/ Repooled(t) \/ Veto(t)

Spec == Init /\ [][Next]_vars

-----------------------------------------------------------------------------

TypeOK ==
    /\ ModeTypeOK /\ CycleTypeOK
    /\ seen \subseteq Task /\ pool \subseteq seen /\ asked \subseteq seen
    /\ queue \in Seq(Task) /\ started \in Seq(Task)
    /\ \A t \in pool \ rechecked : t \notin round /\ ~InQueue(t)
    /\ round \subseteq Task /\ roundFrozen \in BOOLEAN /\ uncapped \in BOOLEAN
    /\ window \in {"none", "banked", "live", "over"} /\ armed \in BOOLEAN
    /\ chaosOn \in BOOLEAN /\ chaosWindow \in BOOLEAN
    /\ drainHeard \in Modes /\ drainDue \in BOOLEAN
    /\ building \in Job \union {NoJob, Settling} /\ line \in Seq(Job)
    /\ pending \in Task \union {NoTask}
    /\ rechecked \subseteq Task /\ over \subseteq Task /\ {unheard, undrained} \subseteq BOOLEAN
    /\ acts \in 0..MaxActs

\* However the halt, the pause, an early close and a pick that re-enters the scheduler meet,
\* an open suggestion phase has one timer, a timer has its phase, and a halt leaves neither.
OnePhaseTimer ==
    InLoop => /\ timers = (IF phase THEN 1 ELSE 0)
              /\ (mode = "HALTED" => ~phase)

\* A task that is done with is done with before any listener hears of it: whichever of the
\* build's end, a skip, a halt, a veto or the chaos arm ends it, no drain or drive inside the
\* same cascade finds it queued, and no later pick, round or discarded ballot brings it back.
\* Only the gate does, that was asked again about a stale pick.
OverIsGone ==
    \A t \in over \ rechecked :
        /\ t \notin pool \union asked /\ ~InQueue(t)
        /\ InLoop => t \notin round

\* The cadence never mints a winner that the queue has no room for: a phase, the round after
\* it and the winner's entry are three callbacks apart.  The console's rounds have no cap.
QueueBounded == ~uncapped => Cardinality({i \in DOMAIN queue : VoteOrigin(queue[i])}) <= VoteQueueMax

\* The cadence does not stall: when nothing keeps it from a phase, one is open, or chat is
\* owed a vote by a running build.  Excepted is what the scheduler is not told: a veto, a
\* task that ends outside the build's mode, chaos switched off, the drain of a chaos winner.
CadenceRuns == InLoop /\ Eligible /\ ~phase /\ ~unheard => waiting /\ mode = "BUILD_IN_PROGRESS"

\* A queued winner that nothing keeps from being built has its drain coming.  Excepted is
\* what is left behind by a halt, and by a window that ends when it does not own the mode.
WinnersNotStranded ==
    InLoop /\ MayDrain /\ mode = "IDLE" /\ ~undrained /\ (\E t \in Task : IsHead(t)) => drainDue
===============================================================================

------------------------------ MODULE BuildSession ------------------------------
(***************************************************************************)
(* The build session (src/orchestrator/build-session.ts): it takes a       *)
(* gate-approved task through a compliance screen, one or two sandboxed    *)
(* agent turns and an output probe, and freezes on a decision, parks for   *)
(* review, or ends.                                                        *)
(*                                                                         *)
(* The pipeline is asynchronous and `at` is the await it stands at: while  *)
(* it waits there the streamer may halt, recover, retry, skip, approve a   *)
(* parked build or toggle chaos, and the drives may hand over more tasks.  *)
(* p-queue runs one pipeline at a time; jobs holds those behind it.        *)
(*                                                                         *)
(* The vote drain hands over the heads it has not stamped; the drives of a *)
(* paid window and of console chaos hand over any task in the queue, so    *)
(* also one that awaits a decision.  A task's id is its suggestion's, which*)
(* may be queued again.  What was handed over while the session had it is  *)
(* `repeated`: it can be run twice.  The routing of other kinds of winner, *)
(* the choice between the drives and their continuations are not part of   *)
(* this module.                                                            *)
(***************************************************************************)
EXTENDS StreamMode, Naturals, Sequences, FiniteSets

CONSTANTS
  Task,       \* QueuedTask ids
  NoTask,     \* null
  HandedMax,  \* how many heads startedVoteHeads remembers
  MaxCopies,  \* bound: entries of one id in the queue
  MaxJobs,    \* bound: jobs that wait
  MaxRepeats  \* bound: tasks handed over again, once each

ASSUME TaskAssumption ==
  /\ IsFiniteSet(Task) /\ NoTask \notin Task
  /\ HandedMax \in Nat \ {0} /\ MaxCopies \in Nat /\ MaxJobs \in Nat
  /\ MaxRepeats \in Nat

Resumes == {"pre-build", "mid-build"}             \* StartBuildOptions.resume.phase

\* Only a retry has its controller before it runs: heard while the abort registry holds
\* it, aborted once a halt or a close reached it.
Job == [task : Task, kind : {"fresh", "retry"} \union Resumes, heard : BOOLEAN, aborted : BOOLEAN]

\* Built, or ended without: failed, refused, aborted, skipped or declined.
Outcomes == {"none", "built", "dropped"}

\* Where the running pipeline waits: the compliance screen, the workspace checks, the
\* agent turn, the output probe, or the sandbox teardown on the way to one of three exits.
Awaits == {"nothing", "screen", "workspace", "turn", "probe",
           "timeout-teardown", "park-teardown", "reject-teardown"}

VARIABLES
  queued,      \* TaskQueue: how many entries of each task
  handed,      \* startedVoteHeads, oldest first
  jobs,        \* p-queue: jobs behind the running pipeline
  building,    \* the task of the running pipeline, or NoTask
  at,          \* the await it stands at
  autoRetry,   \* allowAutoRetry of the running attempt
  heard,       \* its controller is the one the abort registry holds for its task
  aborted,     \* its controller is aborted
  active,      \* active.task
  pending,     \* pending.task: the decision the streamer owes
  parked,      \* parkedReviews: [Task -> "no" or the phase it was held in]
  outcome,     \* how the task ended
  repeated,    \* history: tasks handed over while they had a place
  closed       \* close() has run

pipeline == <<building, at, autoRetry, heard, aborted>>
session == <<queued, handed, jobs, pipeline, active, pending, parked, outcome, repeated>>
vars == <<mode, haltedFrom, session, closed>>

Waiting == {jobs[k].task : k \in DOMAIN jobs}
Busy == building # NoTask \/ jobs # <<>> \/ pending # NoTask

\* Where the session has a task.
PlacesOf(t) ==
  (IF t \in Waiting THEN {"waiting"} ELSE {}) \union
  (IF t = building THEN {"building"} ELSE {}) \union
  (IF t = pending THEN {"pending"} ELSE {}) \union
  (IF parked[t] # "no" THEN {"parked"} ELSE {}) \union
  (IF outcome[t] # "none" THEN {"ended"} ELSE {})

Placed(t) == PlacesOf(t) # {}

\* The bound: a task the session has is queued and handed over again only so long.
MayRepeat(t) == Placed(t) => t \notin repeated /\ Cardinality(repeated) < MaxRepeats

Repeat(t) ==
  /\ MayRepeat(t)
  /\ repeated' = repeated \union (IF Placed(t) THEN {t} ELSE {})

-------------------------------------------------------------------------------
Init ==
  /\ ModeInit
  /\ queued = [t \in Task |-> 0]
  /\ handed = <<>>
  /\ jobs = <<>>
  /\ building = NoTask
  /\ at = "nothing"
  /\ autoRetry = FALSE
  /\ heard = FALSE
  /\ aborted = FALSE
  /\ active = NoTask
  /\ pending = NoTask
  /\ parked = [t \in Task |-> "no"]
  /\ outcome = [t \in Task |-> "none"]
  /\ repeated = {}
  /\ closed = FALSE

(***************************************************************************)
(* The ends of a pipeline                                                  *)
(***************************************************************************)

\* Mutant of ReturnToIdle: the mode is left to whoever comes next.
KeepMode == UNCHANGED modeVars

\* BUILD_IN_PROGRESS is given back; any other mode, HALTED above all, is left alone.
ReturnToIdle ==
  IF mode = "BUILD_IN_PROGRESS" THEN Transition("IDLE") ELSE UNCHANGED modeVars

PipelineOver ==
  /\ building' = NoTask /\ at' = "nothing"
  /\ autoRetry' = FALSE /\ heard' = FALSE /\ aborted' = FALSE

\* The registry has one controller per task: registering another one and unregistering
\* the task alike put a waiting retry's out of it.
Unheard(t) ==
  [k \in DOMAIN jobs |-> IF jobs[k].task = t THEN [jobs[k] EXCEPT !.heard = FALSE] ELSE jobs[k]]

\* The task leaves the queue and the registry before the mode changes.
Leave(t) ==
  /\ active' = NoTask
  /\ jobs' = Unheard(t)
  /\ queued' = [queued EXCEPT ![t] = IF @ = 0 THEN 0 ELSE @ - 1]
  /\ ReturnToIdle
  /\ UNCHANGED <<handed, repeated>>

\* finalize and finalizeAborted of task t.
Finalize(t, how) ==
  /\ PipelineOver
  /\ outcome' = [outcome EXCEPT ![t] = how]
  /\ Leave(t)
  /\ UNCHANGED <<pending, parked>>

\* parkForReview's synchronous tail, with the entry onHeldForReview makes.
Park(t, phase) ==
  /\ PipelineOver
  /\ parked' = [parked EXCEPT ![t] = phase]
  /\ pending' = NoTask
  /\ Leave(t)
  /\ UNCHANGED outcome

\* enterDecision: the task keeps its place in the queue and in the registry.
Decide(t) ==
  /\ PipelineOver
  /\ active' = NoTask
  /\ pending' = t
  /\ UNCHANGED <<modeVars, queued, handed, jobs, parked, outcome, repeated>>

\* The pipeline goes on to its next await, with or without an automatic retry left.
WaitAt(next, retry) ==
  /\ at' = next
  /\ autoRetry' = retry
  /\ UNCHANGED <<modeVars, queued, handed, jobs, building, heard, active, pending,
                 parked, outcome, repeated>>

-------------------------------------------------------------------------------
(***************************************************************************)
(* Starting a pipeline.  p-queue runs a job at once when nothing is before *)
(* it, and otherwise when the pipeline before it has settled.              *)
(***************************************************************************)

Free == building = NoTask /\ jobs = <<>>

\* A job that has to wait; a retry's controller takes the place of another run's.
Enqueue(t, kind) ==
  LET retry == kind = "retry" IN
  /\ Len(jobs) < MaxJobs
  /\ jobs' = Append(IF retry THEN Unheard(t) ELSE jobs,
                    [task |-> t, kind |-> kind, heard |-> retry, aborted |-> FALSE])
  /\ heard' = (heard /\ ~(retry /\ building = t))
  /\ UNCHANGED <<building, at, autoRetry, aborted>>

\* Mutant of BeginPipeline: the controller of the run is not registered.
BeginUnregistered(t, await, retry) ==
  building' = t /\ at' = await /\ autoRetry' = retry /\ heard' = FALSE /\ aborted' = FALSE

\* A run with a fresh controller, registered.
BeginPipeline(t, await, retry) ==
  building' = t /\ at' = await /\ autoRetry' = retry /\ heard' = TRUE /\ aborted' = FALSE

\* runPipeline up to its first await, when the machine lets it enter BUILD_IN_PROGRESS.
\* Only the resume of a pre-build hold skips the screen.
BeginBuild(t, kind) ==
  /\ mode' = "BUILD_IN_PROGRESS" /\ UNCHANGED haltedFrom
  /\ BeginPipeline(t, IF kind = "pre-build" THEN "workspace" ELSE "screen", TRUE)
  /\ active' = t

\* startBuild: at once, or behind what runs, with the mode as the drive left it.
StartBuild(t, kind, moveMode) ==
  IF Free
    THEN BeginBuild(t, kind) /\ UNCHANGED jobs
    ELSE Enqueue(t, kind) /\ moveMode /\ UNCHANGED active

\* The vote drain hands over a head it has not stamped, stamps it, and past the limit
\* forgets its oldest stamp.
Drain(t) ==
  /\ ~closed
  /\ queued[t] > 0 /\ \A k \in DOMAIN handed : handed[k] # t
  /\ mode \in {"IDLE", "VOTING_ROUND"}
  /\ handed' = IF Len(handed) < HandedMax THEN Append(handed, t) ELSE Append(Tail(handed), t)
  /\ Repeat(t)
  /\ StartBuild(t, "fresh", Transition("BUILD_IN_PROGRESS"))
  /\ UNCHANGED <<queued, pending, parked, outcome, closed>>

\* The drive of a window or of console chaos hands over any task in the queue: the
\* instruction just queued, or whatever is first when its last build has ended.
Drive(t) ==
  /\ ~closed
  /\ queued[t] > 0
  /\ mode \notin {"BUILD_IN_PROGRESS", "HALTED"}
  /\ Repeat(t)
  /\ StartBuild(t, "fresh", IF mode \in {"FREE_REIGN_WINDOW", "CHAOS_MODE"}
                              THEN Transition("BUILD_IN_PROGRESS") ELSE UNCHANGED modeVars)
  /\ UNCHANGED <<queued, handed, pending, parked, outcome, closed>>

\* The streamer approves a parked build: startBuild with the phase it was held in.
Approve(t) ==
  /\ ~closed
  /\ parked[t] # "no"
  /\ mode # "HALTED"
  /\ parked' = [parked EXCEPT ![t] = "no"]
  /\ StartBuild(t, parked[t], UNCHANGED modeVars)
  /\ UNCHANGED <<queued, handed, pending, outcome, repeated, closed>>

\* Mutant of ClearDecision: retryBuild leaves the decision standing.
KeepDecision == UNCHANGED pending

ClearDecision == pending' = NoTask

\* retryBuild.  The attempt of a retry never retries by itself.
Retry(t) ==
  /\ ~closed
  /\ pending = t
  /\ mode # "HALTED"
  /\ ClearDecision
  /\ active' = t
  /\ IF Free THEN BeginPipeline(t, "workspace", FALSE) /\ UNCHANGED jobs ELSE Enqueue(t, "retry")
  /\ UNCHANGED <<modeVars, queued, handed, parked, outcome, repeated, closed>>

\* p-queue's next job, an attempt that was retried, with the controller it was given.
NextRetry ==
  /\ building = NoTask /\ jobs # <<>>
  /\ Head(jobs).kind = "retry"
  /\ building' = Head(jobs).task /\ at' = "workspace" /\ autoRetry' = FALSE
  /\ heard' = Head(jobs).heard /\ aborted' = Head(jobs).aborted
  /\ jobs' = Tail(jobs)
  /\ UNCHANGED <<modeVars, queued, handed, active, pending, parked, outcome, repeated, closed>>

\* p-queue's next job, a pipeline.
NextBuild ==
  /\ building = NoTask /\ jobs # <<>>
  /\ Head(jobs).kind # "retry"
  /\ mode # "HALTED"
  /\ BeginBuild(Head(jobs).task, Head(jobs).kind)
  /\ jobs' = Tail(Unheard(Head(jobs).task))
  /\ UNCHANGED <<queued, handed, pending, parked, outcome, repeated, closed>>

\* A pipeline whose turn comes while HALTED: enterBuildMode throws and it fails closed.
NextRefused ==
  /\ building = NoTask /\ jobs # <<>>
  /\ Head(jobs).kind # "retry"
  /\ mode = "HALTED"
  /\ LET t == Head(jobs).task IN
       /\ outcome' = [outcome EXCEPT ![t] = "dropped"]
       /\ queued' = [queued EXCEPT ![t] = IF @ = 0 THEN 0 ELSE @ - 1]
       /\ jobs' = Tail(Unheard(t))
  /\ active' = NoTask
  /\ UNCHANGED <<modeVars, handed, pipeline, pending, parked, repeated, closed>>

-------------------------------------------------------------------------------
(***************************************************************************)
(* The awaits of a pipeline                                                *)
(***************************************************************************)

\* abortedNow
AbortedNow == aborted \/ mode = "HALTED"

\* The compliance screen answers.  Only an approval looks at the abort.
ScreenReturns(t) ==
  /\ building = t /\ at = "screen"
  /\ \/ Park(t, "pre-build")
     \/ Finalize(t, "dropped")
     \/ AbortedNow /\ Finalize(t, "dropped")
     \/ ~AbortedNow /\ WaitAt("workspace", TRUE) /\ UNCHANGED aborted
  /\ UNCHANGED closed

\* ensureWorkspaceDir and workspaceHasFiles: an error is a decision, otherwise the
\* agent turn starts.
WorkspaceReady(t) ==
  /\ building = t /\ at = "workspace"
  /\ \/ Decide(t)
     \/ WaitAt("turn", autoRetry) /\ UNCHANGED aborted
  /\ UNCHANGED closed

\* Mutant of RetryOnce: an attempt may always be retried.
RetryAlways == WaitAt("workspace", TRUE)

\* An attempt that failed is retried once by itself.
RetryOnce == autoRetry /\ WaitAt("workspace", FALSE)

FailAttempt(t) ==
  \/ RetryOnce /\ UNCHANGED aborted
  \/ ~autoRetry /\ Decide(t)

\* The agent turn is over without having been aborted.
TurnReturns(t) ==
  /\ building = t /\ at = "turn"
  /\ ~AbortedNow
  /\ \/ WaitAt("probe", autoRetry) /\ UNCHANGED aborted
     \/ FailAttempt(t)
     \/ Decide(t)
     \/ \E exit \in {"park-teardown", "reject-teardown"} :
          /\ WaitAt(exit, autoRetry)
          /\ aborted' = TRUE
  /\ UNCHANGED closed

\* Whatever the turn had to say, the abort decides.
TurnAborted(t) ==
  /\ building = t /\ at = "turn"
  /\ AbortedNow
  /\ Finalize(t, "dropped")
  /\ UNCHANGED closed

\* The stall watchdog fires, also on a turn that was aborted and hangs.
TurnTimesOut(t) ==
  /\ building = t /\ at = "turn"
  /\ WaitAt("timeout-teardown", autoRetry)
  /\ aborted' = TRUE
  /\ UNCHANGED closed

\* The sandbox is terminated, or that failed and is logged.
TeardownReturns(t) ==
  /\ building = t
  /\ \/ at = "timeout-teardown" /\ Decide(t)
     \/ at = "park-teardown" /\ Park(t, "mid-build")
     \/ at = "reject-teardown" /\ Finalize(t, "dropped")
  /\ UNCHANGED closed

\* The output probe answers; a turn that wrote nothing has failed.
ProbeReturns(t) ==
  /\ building = t /\ at = "probe"
  /\ Finalize(t, "built") \/ FailAttempt(t)
  /\ UNCHANGED closed

-------------------------------------------------------------------------------
(***************************************************************************)
(* The streamer and the rest of the show                                   *)
(***************************************************************************)

\* A winner, an instruction or a pick enters the queue.
Queue(t) ==
  /\ ~closed
  /\ queued[t] < MaxCopies /\ MayRepeat(t)
  /\ queued' = [queued EXCEPT ![t] = @ + 1]
  /\ UNCHANGED <<modeVars, handed, jobs, pipeline, active, pending, parked, outcome, repeated,
                 closed>>

\* skipTask
Skip(t) ==
  /\ ~closed
  /\ pending = t
  /\ pending' = NoTask
  /\ outcome' = [outcome EXCEPT ![t] = "dropped"]
  /\ heard' = (heard /\ building # t)
  /\ Leave(t)
  /\ UNCHANGED <<building, at, autoRetry, aborted, parked, closed>>

\* A parked build is rejected or its review times out.
Decline(t) ==
  /\ parked[t] # "no"
  /\ parked' = [parked EXCEPT ![t] = "no"]
  /\ outcome' = [outcome EXCEPT ![t] = "dropped"]
  /\ UNCHANGED <<modeVars, queued, handed, jobs, pipeline, active, pending, repeated, closed>>

\* The halt, with abortActiveWork's synchronous part.
Halt ==
  /\ ForceHalt
  /\ aborted' = (aborted \/ heard)
  /\ jobs' = [k \in DOMAIN jobs |-> [jobs[k] EXCEPT !.aborted = @ \/ jobs[k].heard]]
  /\ UNCHANGED <<queued, handed, building, at, autoRetry, heard, active, pending, parked,
                 outcome, repeated, closed>>

RecoverBuild(action) == Recover(action) /\ UNCHANGED <<session, closed>>

\* Rounds and windows move the mode while nothing is building; the chaos toggle's
\* transition is legal under a build as well.
OtherTransition(to) ==
  /\ to # "BUILD_IN_PROGRESS"
  /\ mode = "BUILD_IN_PROGRESS" => to \in {"CHAOS_MODE", "IDLE"}
  /\ Transition(to)
  /\ UNCHANGED <<session, closed>>

\* close(): abort what is active, drop the rest; a running pipeline still settles.
Close ==
  /\ ~closed
  /\ closed' = TRUE
  /\ jobs' = <<>>
  /\ pending' = NoTask
  /\ active' = NoTask
  /\ aborted' = (aborted \/ (heard /\ active = building))
  /\ heard' = (heard /\ active # building)
  /\ UNCHANGED <<modeVars, queued, handed, building, at, autoRetry, parked, outcome, repeated>>

-------------------------------------------------------------------------------
Pipeline(t) ==
  \/ ScreenReturns(t) \/ WorkspaceReady(t)
  \/ TurnReturns(t) \/ TurnAborted(t) \/ TurnTimesOut(t)
  \/ TeardownReturns(t) \/ ProbeReturns(t)

NextJob == NextRetry \/ NextBuild \/ NextRefused

Next ==
  \/ \E t \in Task :
       \/ Queue(t) \/ Drain(t) \/ Drive(t) \/ Approve(t) \/ Decline(t) \/ Retry(t) \/ Skip(t)
       \/ Pipeline(t)
  \/ NextJob
  \/ Halt
  \/ \E a \in RecoveryActions : RecoverBuild(a)
  \/ \E to \in Modes : OtherTransition(to)
  \/ Close

Spec == Init /\ [][Next]_vars

(***************************************************************************)
(* Every await returns: a turn that stalls is ended by its watchdog, and   *)
(* the screen, the probes and the teardown are bounded calls.  The         *)
(* streamer owes nothing.                                                  *)
(***************************************************************************)
Fairness == WF_vars(\E t \in Task : Pipeline(t))

FairSpec == Spec /\ Fairness

-------------------------------------------------------------------------------
(***************************************************************************)
(* Properties                                                              *)
(***************************************************************************)

TypeOK ==
  /\ ModeTypeOK
  /\ queued \in [Task -> Nat]
  /\ handed \in Seq(Task)
  /\ jobs \in Seq(Job)
  /\ building \in Task \union {NoTask}
  /\ at \in Awaits
  /\ at = "nothing" <=> building = NoTask
  /\ autoRetry \in BOOLEAN /\ heard \in BOOLEAN /\ aborted \in BOOLEAN
  /\ active \in Task \union {NoTask}
  /\ pending \in Task \union {NoTask}
  /\ parked \in [Task -> {"no"} \union Resumes]
  /\ outcome \in [Task -> Outcomes]
  /\ repeated \subseteq Task
  /\ closed \in BOOLEAN

\* A task is in one place of the session, whatever the streamer clicks and however often:
\* a decision retried twice, an approval beside a retry, or a park cannot run one task
\* twice or end it twice.  Only a task handed over again while the session had it can
\* be in two.
OnePlace ==
  /\ \A j, k \in DOMAIN jobs :
       jobs[j].task = jobs[k].task => j = k \/ jobs[j].task \in repeated
  /\ \A t \in Task \ repeated : Cardinality(PlacesOf(t)) <= 1

\* A halt reaches every build: whatever runs while HALTED has had its controller aborted,
\* also an attempt that was retried, or that was still behind another one (COMP-04).  The
\* exception is a task that is run a second time, whose second controller takes the
\* first one's place in the registry.
HaltReachesBuild ==
  mode = "HALTED" /\ building # NoTask => aborted \/ building \in repeated

\* The session never ends in BUILD_IN_PROGRESS: the step that leaves it with nothing to
\* run and nothing to decide gives the mode back (T-03-22).
StageGivenBack ==
  [][Busy /\ ~Busy' => mode' # "BUILD_IN_PROGRESS" \/ closed']_vars

\* Every run of a build comes to its end, where the task is over, parked, or the streamer's
\* to decide on: through one automatic retry, a stalled turn, a broken sandbox, a halt, and
\* also when its task is run a second time.
BuildEventuallySettles == building # NoTask ~> building = NoTask

(***************************************************************************)
(* What the source says of the session and the code does not do.           *)
(***************************************************************************)

\* build-session.ts: "the compliance ledger never records a force-killed build as
\* completed".
KilledIsNeverBuilt ==
  [][\A t \in Task : building = t /\ aborted /\ outcome[t] = "none" => outcome'[t] # "built"]_vars
===============================================================================

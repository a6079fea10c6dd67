------------------------------ MODULE HeldReview ------------------------------
(***************************************************************************)
(* What happens to a build, or a suggestion, that the compliance gate      *)
(* holds for the streamer, and what the preview shows meanwhile.           *)
(*                                                                         *)
(* A held build is parked: its task leaves the queue and is kept in memory *)
(* beside a row of the review table, with a timer that declines it.  A     *)
(* batch held in the middle of a build may already be on disk, so the      *)
(* preview server, which the sandbox teardown has killed, must not come    *)
(* back over that workspace.  The preview has one supervisor, whose        *)
(* reroots run one after the other and read the directory when they run.   *)
(***************************************************************************)
EXTENDS Naturals, Sequences, FiniteSets

CONSTANTS MaxTasks,         \* bound: winners handed to the build session and suggestions held
          MaxRows,          \* bound: holds
          MaxGeneration,    \* bound: projects
          MaxMoves,         \* bound: projects swapped and opened by the console
          MaxOutages        \* bound: halts and restarts of the process

HeldReviewAssumption ==
    /\ MaxGeneration \in Nat \ {0}
    /\ {MaxTasks, MaxRows, MaxMoves, MaxOutages} \subseteq Nat

ASSUME HeldReviewAssumption

Generations == 1..MaxGeneration

VARIABLES
    mode,           \* IDLE (and the modes of rounds and windows), BUILD or HALTED
    frozen,         \* the mode a Resume returns to
    job,            \* the build session's running pipeline
    waiting,        \* tasks handed to the session behind it
    ship,           \* a switch that waits for its publish: its task and the outgoing project
    tasks,          \* winners and held suggestions so far
    rows,           \* the review table
    parked,         \* parkedReviews: the rows with a retained task and a timer
    generation,     \* the project on stage
    top,            \* the newest project
    scaffolded,     \* the project on stage has a build
    holdover,       \* previewHoldoverGeneration, 0 for null
    previewParked,  \* the workspace on stage may hold a held batch
    serving,        \* the project the dev server serves, 0 when it is down
    reroots,        \* reroots called and not over, the running one included
    cycle,          \* the running reroot
    gaveUp,         \* the last reroot failed open
    overtaken,      \* history: the project moved under a ship that a halt had let go
    moves, outages  \* the bounded counters

session == <<mode, frozen, job, waiting, ship, tasks, outages>>
review  == <<rows, parked>>
project == <<generation, top, scaffolded, overtaken, moves>>
taint   == <<holdover, previewParked>>
server  == <<serving, reroots, cycle, gaveUp>>
vars    == <<session, review, project, taint, server>>

Phases  == {"none", "pre-build", "mid-build"}
NoJob   == [task |-> 0, at |-> "none", gen |-> 0, from |-> 0]
NoShip  == [task |-> 0, gen |-> 0]
NoCycle == [at |-> "none", dir |-> 0, attempt |-> 0]

Init ==
    /\ mode = "IDLE" /\ frozen = "IDLE"
    /\ job = NoJob /\ waiting = <<>> /\ ship = NoShip /\ tasks = 0
    /\ rows = <<>> /\ parked = {}
    /\ generation = 1 /\ top = 1 /\ scaffolded = FALSE
    /\ holdover = 0 /\ previewParked = FALSE
    /\ serving = 0 /\ reroots = 1 /\ cycle = NoCycle /\ gaveUp = FALSE
    /\ overtaken = FALSE /\ moves = 0 /\ outages = 0

-----------------------------------------------------------------------------
(* The preview's supervisor.                                               *)

\* A reroot serves the project held over during a switch, else the one on stage.
Wanted == IF holdover # 0 THEN holdover ELSE generation

\* The project behind the play link the overlay shows for what is on the screen.
Linked == IF holdover # 0 THEN holdover ELSE generation

\* With a held batch on disk and nothing held over, nothing may bring the preview back.
Withheld == previewParked /\ holdover = 0

\* A reroot that waits reads the directory when it runs, so one that waits stands for all.
OneMore  == IF reroots = 2 THEN 2 ELSE reroots + 1
Reroot   == reroots' = OneMore /\ UNCHANGED <<serving, cycle, gaveUp>>
NoReroot == UNCHANGED server

\* What the sandbox does when its command is run: the server on the port is killed, and one
\* for the directory is left in the background, a new directory empty.
ServerStops  == serving' = 0
ServerStarts == serving' = cycle.dir

\* The directory is read when the cycle begins, before the old server is stopped.
RerootStops ==
    /\ reroots > 0 /\ cycle.at = "none"
    /\ \/ /\ cycle' = [cycle EXCEPT !.at = "stopped", !.dir = Wanted]
          /\ ServerStops /\ UNCHANGED <<reroots, gaveUp>>
       \/ cycle' = NoCycle /\ reroots' = reroots - 1 /\ gaveUp' = TRUE /\ UNCHANGED serving
    /\ UNCHANGED <<session, review, project, taint>>

RerootStarts ==
    /\ cycle.at = "stopped"
    /\ \/ cycle' = [cycle EXCEPT !.at = "settling"] /\ ServerStarts /\ UNCHANGED <<reroots, gaveUp>>
       \/ cycle' = NoCycle /\ reroots' = reroots - 1 /\ gaveUp' = TRUE /\ UNCHANGED serving
    /\ UNCHANGED <<session, review, project, taint>>

\* One retry, which reads the directory again; then the supervisor fails open.
RerootProbes ==
    /\ cycle.at = "settling"
    /\ \/ /\ serving # 0
          /\ cycle' = NoCycle /\ reroots' = reroots - 1 /\ gaveUp' = FALSE
       \/ /\ cycle.attempt = 0
          /\ cycle' = [NoCycle EXCEPT !.attempt = 1] /\ UNCHANGED <<reroots, gaveUp>>
       \/ /\ cycle.attempt = 1
          /\ cycle' = NoCycle /\ reroots' = reroots - 1 /\ gaveUp' = TRUE
    /\ UNCHANGED <<session, review, project, taint, serving>>

\* Mutant of RerootNow: the reroot itself is forgotten.
RerootNowNever == holdover' = 0 /\ previewParked' = FALSE /\ NoReroot

\* rerootPreviewNow: every move of the project drops what was held over or tainted.
RerootNow == holdover' = 0 /\ previewParked' = FALSE /\ Reroot

-----------------------------------------------------------------------------
(* The build session, as far as holds and the preview see it.              *)

LeaveBuild == mode' = IF mode = "BUILD" THEN "IDLE" ELSE mode

\* A winner takes the stage and is handed over; its pipeline may wait behind another.
StartBuild ==
    /\ mode = "IDLE" /\ tasks < MaxTasks
    /\ mode' = "BUILD"
    /\ tasks' = tasks + 1
    /\ waiting' = Append(waiting, [task |-> tasks + 1, phase |-> "none"])
    /\ UNCHANGED <<frozen, job, ship, outages, review, project, taint, server>>

\* The next pipeline begins.  Under a halt it fails closed; a build that the streamer
\* approved before it began is not screened a second time.
BeginBuild ==
    /\ job = NoJob /\ waiting # <<>>
    /\ waiting' = Tail(waiting)
    /\ IF mode = "HALTED" THEN UNCHANGED <<mode, job>>
       ELSE /\ mode' = "BUILD"
            /\ job' = [task |-> Head(waiting).task, gen |-> generation, from |-> holdover,
                       at |-> IF Head(waiting).phase = "pre-build" THEN "turn" ELSE "screen"]
    /\ UNCHANGED <<frozen, ship, tasks, outages, review, project, taint, server>>

ScreenApproves ==
    /\ job.at = "screen" /\ mode # "HALTED"
    /\ job' = [job EXCEPT !.at = "turn", !.gen = generation, !.from = holdover]
    /\ UNCHANGED <<mode, frozen, waiting, ship, tasks, outages, review, project, taint, server>>

\* The bound on holds leaves room for the one under way.
Room == Len(rows) + (IF job.at = "parking" THEN 1 ELSE 0) < MaxRows

\* onHeldForReview: the row, the retained task and its timer.
InsertParked(phase) ==
    /\ rows' = Append(rows, [task |-> job.task, phase |-> phase, status |-> "pending",
                             sent |-> 0, pooled |-> 0])
    /\ parked' = parked \cup {Len(rows) + 1}

\* Held before the build: nothing was written and nothing is torn down.
ScreenHolds ==
    /\ job.at = "screen" /\ Room
    /\ InsertParked("pre-build")
    /\ job' = NoJob
    /\ LeaveBuild
    /\ UNCHANGED <<frozen, waiting, ship, tasks, outages, project, taint, server>>

\* A batch is held: the turn is aborted and the sandbox, the preview with it, terminated.
TurnHolds ==
    /\ job.at = "turn" /\ Room
    /\ job' = [job EXCEPT !.at = "parking"]
    /\ serving' = 0
    /\ UNCHANGED <<mode, frozen, waiting, ship, tasks, outages, review, project, taint, reroots,
                   cycle, gaveUp>>

\* The teardown returns and the build is parked.  A project held over comes back on screen;
\* else the preview stays down, unless a halt came first.
Park ==
    /\ job.at = "parking"
    /\ InsertParked("mid-build")
    /\ CASE mode = "HALTED" -> NoReroot /\ UNCHANGED previewParked
         [] mode # "HALTED" /\ holdover # 0 -> Reroot /\ UNCHANGED previewParked
         [] OTHER -> NoReroot /\ previewParked' = TRUE
    /\ job' = NoJob
    /\ LeaveBuild
    /\ UNCHANGED <<frozen, waiting, ship, tasks, outages, project, holdover>>

\* finalize(done): the project counts as built, and what was held over or tainted is over.
BuildDone ==
    /\ job.at = "turn"
    /\ IF holdover # 0 \/ previewParked THEN RerootNow
       ELSE NoReroot /\ UNCHANGED <<holdover, previewParked>>
    /\ scaffolded' = TRUE
    /\ job' = NoJob
    /\ LeaveBuild
    /\ UNCHANGED <<frozen, waiting, ship, tasks, outages, review, generation, top, overtaken,
                   moves>>

\* Mutant of Teardown: the hook does not look for a held batch on disk.
TeardownUnguarded(up) ==
    /\ serving' = up
    /\ reroots' = IF mode = "HALTED" THEN reroots ELSE OneMore
    /\ UNCHANGED <<cycle, gaveUp>>

\* onBuildTeardown, after every build that ends without being done.
Teardown(up) ==
    /\ serving' = up
    /\ reroots' = IF mode = "HALTED" \/ Withheld THEN reroots ELSE OneMore
    /\ UNCHANGED <<cycle, gaveUp>>

\* Refused, failed and skipped, timed out: the sandbox, and the preview, may be gone.
BuildFails ==
    /\ job.at \in {"screen", "turn"}
    /\ job' = NoJob
    /\ LeaveBuild
    /\ \E up \in {0, serving} : Teardown(up)
    /\ UNCHANGED <<frozen, waiting, ship, tasks, outages, review, project, taint>>

\* The pipeline that a halt aborted settles, before or after the recovery.
AbortSettles ==
    /\ job.at = "aborted"
    /\ job' = NoJob
    /\ LeaveBuild
    /\ Teardown(serving)
    /\ UNCHANGED <<frozen, waiting, ship, tasks, outages, review, project, taint>>

-----------------------------------------------------------------------------
(* The project on stage.                                                   *)

Move(to) ==
    /\ moves < MaxMoves /\ moves' = moves + 1
    /\ generation' = to
    /\ overtaken' = (overtaken \/ ship # NoShip)
    /\ RerootNow

\* The console's New project and a wipe-intent winner: neither under a build or a halt.
NewProject ==
    /\ mode = "IDLE" /\ top < MaxGeneration
    /\ Move(top + 1)
    /\ top' = top + 1 /\ scaffolded' = FALSE
    /\ UNCHANGED <<session, review>>

\* A swap that its ship gate let through.
Swap ==
    /\ mode = "IDLE"
    /\ \E to \in 1..top \ {generation} : Move(to)
    /\ scaffolded' = TRUE
    /\ UNCHANGED <<top, session, review>>

\* A project switch takes the stage and waits for its publish.
StartShip ==
    /\ mode = "IDLE" /\ ship = NoShip /\ scaffolded /\ tasks < MaxTasks /\ top < MaxGeneration
    /\ mode' = "BUILD"
    /\ tasks' = tasks + 1
    /\ ship' = [task |-> tasks + 1, gen |-> generation]
    /\ UNCHANGED <<frozen, job, waiting, outages, review, project, taint, server>>

\* The outgoing project stays on screen while the new one is built.
HoldOver == holdover' = ship.gen /\ NoReroot /\ UNCHANGED previewParked

\* The publish is confirmed: rotate, whatever the mode is by now, and hand the winner over.
ShipConfirmed ==
    /\ ship # NoShip /\ top < MaxGeneration
    /\ ship' = NoShip
    /\ generation' = top + 1 /\ top' = top + 1 /\ scaffolded' = FALSE
    /\ HoldOver
    /\ waiting' = IF mode = "HALTED" THEN waiting
                   ELSE Append(waiting, [task |-> ship.task, phase |-> "none"])
    /\ UNCHANGED <<mode, frozen, job, tasks, outages, review, moves, overtaken>>

ShipFails ==
    /\ ship # NoShip
    /\ ship' = NoShip
    /\ LeaveBuild
    /\ UNCHANGED <<frozen, job, waiting, tasks, outages, review, project, taint, server>>

-----------------------------------------------------------------------------
(* The review table.                                                       *)

\* Mutant of Resolvable: a terminal row is resolved again.
ResolvableAgain(r) == r \in DOMAIN rows

\* resolvePendingRow throws on anything but a pending row.
Resolvable(r) == r \in DOMAIN rows /\ rows[r].status = "pending"

\* A suggestion held by the gate at intake.
HoldIntake ==
    /\ Room /\ tasks < MaxTasks
    /\ tasks' = tasks + 1
    /\ rows' = Append(rows, [task |-> 0, phase |-> "none", status |-> "pending",
                             sent |-> 0, pooled |-> 0])
    /\ UNCHANGED <<mode, frozen, job, waiting, ship, outages, parked, project, taint, server>>

\* approve: an intake hold re-enters the pool.
ApproveIntake(r) ==
    /\ r \notin parked /\ Resolvable(r)
    /\ rows' = [rows EXCEPT ![r].status = "approved", ![r].pooled = @ + 1]
    /\ UNCHANGED <<session, parked, project, taint, server>>

RejectIntake(r) ==
    /\ r \notin parked /\ Resolvable(r)
    /\ rows' = [rows EXCEPT ![r].status = "rejected"]
    /\ UNCHANGED <<session, parked, project, taint, server>>

\* heldBuilds.resolve approve: refused under a halt; a row that is terminal already only
\* loses its entry; else the retained task goes to the session and its content is sanctioned.
ApproveParked(r) ==
    /\ r \in parked /\ mode # "HALTED"
    /\ parked' = parked \ {r}
    /\ IF ~Resolvable(r)
       THEN UNCHANGED <<rows, waiting, taint, server>>
       ELSE /\ rows' = [rows EXCEPT ![r].status = "approved", ![r].sent = @ + 1]
            /\ waiting' = Append(waiting, [task |-> rows[r].task, phase |-> rows[r].phase])
            /\ IF rows[r].phase = "mid-build" /\ Withheld
               THEN previewParked' = FALSE /\ Reroot
               ELSE UNCHANGED previewParked /\ NoReroot
            /\ UNCHANGED holdover
    /\ UNCHANGED <<mode, frozen, job, ship, tasks, outages, project>>

\* A refusal keeps the preview down: nothing takes the held batch off the disk.
RejectParked(r) ==
    /\ r \in parked
    /\ parked' = parked \ {r}
    /\ rows' = IF Resolvable(r) THEN [rows EXCEPT ![r].status = "rejected"] ELSE rows
    /\ UNCHANGED <<session, project, taint, server>>

\* Mutant of TimerFires: the entry goes and the row stays.
TimerForgets(r) ==
    /\ r \in parked
    /\ parked' = parked \ {r}
    /\ UNCHANGED <<rows, session, project, taint, server>>

\* expireParkedReview: the timer runs on through a halt.
TimerFires(r) ==
    /\ r \in parked
    /\ parked' = parked \ {r}
    /\ rows' = IF Resolvable(r) THEN [rows EXCEPT ![r].status = "expired"] ELSE rows
    /\ UNCHANGED <<session, project, taint, server>>

Expired(table, last) ==
    [r \in DOMAIN table |->
        IF r <= last /\ table[r].status = "pending" THEN [table[r] EXCEPT !.status = "expired"]
        ELSE table[r]]

\* The sweep expires the rows that are old enough, whatever their kind.
Sweep ==
    /\ \E last \in DOMAIN rows : rows[last].status = "pending" /\ rows' = Expired(rows, last)
    /\ UNCHANGED <<session, parked, project, taint, server>>

-----------------------------------------------------------------------------
(* The halt, the recovery and the restart.                                 *)

\* The running turn is aborted and the sandbox torn down; a ship is not in the registry.
Halt ==
    /\ mode # "HALTED" /\ outages < MaxOutages
    /\ outages' = outages + 1
    /\ frozen' = mode /\ mode' = "HALTED"
    /\ IF job.at \in {"screen", "turn", "parking"}
       THEN /\ serving' = 0
            /\ job' = IF job.at = "parking" THEN job ELSE [job EXCEPT !.at = "aborted"]
       ELSE UNCHANGED <<serving, job>>
    /\ UNCHANGED <<waiting, ship, tasks, review, project, taint, reroots, cycle, gaveUp>>

\* Leaving HALTED brings the preview back, unless a held batch is on disk.
Recover ==
    /\ mode = "HALTED"
    /\ mode' \in {frozen, "IDLE"}
    /\ IF Withheld THEN NoReroot ELSE Reroot
    /\ UNCHANGED <<frozen, job, waiting, ship, tasks, outages, review, project, taint>>

\* Mutant of Restart: leftover holds are still pending.
RestartKeepsHolds ==
    /\ outages < MaxOutages /\ outages' = outages + 1
    /\ mode' = "IDLE" /\ frozen' = "IDLE" /\ job' = NoJob /\ waiting' = <<>> /\ ship' = NoShip
    /\ parked' = {}
    /\ holdover' = 0 /\ previewParked' = FALSE
    /\ reroots' = 1 /\ cycle' = NoCycle /\ gaveUp' = FALSE
    /\ UNCHANGED <<tasks, rows, project, serving>>

\* The process dies and boots: what was in memory is gone, leftover holds expire, and the
\* dev server, which lives in the sandbox, is rerooted at the project on stage.
Restart ==
    /\ outages < MaxOutages /\ outages' = outages + 1
    /\ mode' = "IDLE" /\ frozen' = "IDLE" /\ job' = NoJob /\ waiting' = <<>> /\ ship' = NoShip
    /\ rows' = Expired(rows, Len(rows)) /\ parked' = {}
    /\ holdover' = 0 /\ previewParked' = FALSE
    /\ reroots' = 1 /\ cycle' = NoCycle /\ gaveUp' = FALSE
    /\ UNCHANGED <<tasks, project, serving>>

-----------------------------------------------------------------------------

Supervisor == RerootStops \/ RerootStarts \/ RerootProbes

Next ==
    \/ Supervisor
    \/ StartBuild \/ BeginBuild \/ ScreenApproves \/ ScreenHolds \/ TurnHolds \/ Park
    \/ BuildDone \/ BuildFails \/ AbortSettles
    \/ NewProject \/ Swap \/ StartShip \/ ShipConfirmed \/ ShipFails
    \/ HoldIntake \/ Sweep
    \/ \E r \in DOMAIN rows :
          \/ ApproveIntake(r) \/ RejectIntake(r)
          \/ ApproveParked(r) \/ RejectParked(r) \/ TimerFires(r)
    \/ Halt \/ Recover \/ Restart

\* The timer of a parked build fires, a teardown returns.
Fairness == WF_vars(Park) /\ \A r \in 1..MaxRows : WF_vars(TimerFires(r))

Spec == Init /\ [][Next]_vars
LiveSpec == Spec /\ Fairness

-----------------------------------------------------------------------------

Statuses == {"pending", "approved", "rejected", "expired"}

Projects == {0} \cup Generations
Row      == [task : 0..MaxTasks, phase : Phases, status : Statuses, sent : 0..1, pooled : 0..1]
Handed   == [task : 1..MaxTasks, phase : Phases]

Job      == [task : 0..MaxTasks, gen : Projects, from : Projects,
             at : {"none", "screen", "turn", "parking", "aborted"}]

ModeType ==
    /\ mode \in {"IDLE", "BUILD", "HALTED"} /\ frozen \in {"IDLE", "BUILD"}
    /\ outages \in 0..MaxOutages

TasksType ==
    /\ job \in Job /\ waiting \in Seq(Handed)
    /\ ship \in [task : 0..MaxTasks, gen : Projects] /\ tasks \in 0..MaxTasks

ReviewType ==
    /\ rows \in Seq(Row) /\ Len(rows) <= MaxRows
    /\ parked \subseteq {r \in DOMAIN rows : rows[r].phase # "none"}

ProjectType ==
    /\ generation \in Generations /\ top \in Generations /\ generation <= top
    /\ holdover \in Projects /\ moves \in 0..MaxMoves

ServerType ==
    /\ serving \in Projects /\ reroots \in 0..2
    /\ cycle \in [at : {"none", "stopped", "settling"}, dir : Projects, attempt : 0..1]

\* A cycle under way is a reroot's.
CycleCounted == cycle # NoCycle => reroots > 0

FlagsType ==
    /\ scaffolded \in BOOLEAN /\ previewParked \in BOOLEAN
    /\ gaveUp \in BOOLEAN /\ overtaken \in BOOLEAN

TypeOK ==
    /\ ModeType /\ TasksType /\ ReviewType /\ ProjectType
    /\ ServerType /\ CycleCounted /\ FlagsType

\* However the approval, the refusal, the timer, the sweep and a restart race, a hold has
\* one end, and only an approval has an effect: an intake hold enters the pool once, a
\* parked build is handed over once, and never through the pool.
ResolvedOnce ==
    \A r \in DOMAIN rows :
        /\ rows[r].sent = (IF rows[r].status = "approved" /\ rows[r].phase # "none" THEN 1 ELSE 0)
        /\ rows[r].pooled = (IF rows[r].status = "approved" /\ rows[r].phase = "none" THEN 1 ELSE 0)

\* A parked build nobody has resolved yet.
Waits(r) == r \in DOMAIN rows /\ rows[r].status = "pending" /\ rows[r].phase # "none"

\* A pending parked build has its retained task and its timer, and is nowhere else: not
\* waiting, not running, not held twice.
ParkedInOnePlace ==
    \A r \in DOMAIN rows :
        Waits(r) =>
            /\ r \in parked
            /\ rows[r].task \notin {job.task, ship.task}
            /\ \A i \in DOMAIN waiting : waiting[i].task # rows[r].task
            /\ \A s \in DOMAIN rows \ {r} :
                  rows[s].status = "pending" => rows[s].task # rows[r].task

\* With every reroot over, what is on screen is the project on stage, or the one held over,
\* and the play link beside it leads to the same project.  A ship that confirms
\* after a halt, a reset and a move of the project is the exception: it holds over the
\* project it left.
ScreenShowsProject ==
    serving # 0 /\ reroots = 0 /\ ~gaveUp /\ ~overtaken => serving = Wanted /\ serving = Linked

\* While a held batch is on disk no step calls for the preview.
WithheldWhileParked ==
    [][Withheld /\ Withheld' => reroots' <= reroots]_vars

\* Nobody has to answer: a parked build is declined in the end.
HeldEventuallyResolved == \A r \in 1..MaxRows : Waits(r) ~> ~Waits(r)
=============================================================================

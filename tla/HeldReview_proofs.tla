----------------------------- MODULE HeldReview_proofs -----------------------------
(***************************************************************************)
(* What holds of the review of held builds for every number of tasks,      *)
(* holds, projects, moves and outages.                                     *)
(***************************************************************************)
EXTENDS HeldReview, SequenceTheorems, TLAPS

-------------------------------------------------------------------------------
(***************************************************************************)
(* The inductive invariant                                                 *)
(***************************************************************************)

\* The session has a task in its hands once: running, shipping or waiting.
HandedOnce ==
    /\ \A i \in DOMAIN waiting : \A k \in DOMAIN waiting :
          i # k => waiting[i].task # waiting[k].task
    /\ \A i \in DOMAIN waiting : waiting[i].task \notin {job.task, ship.task}
    /\ job.task # 0 => job.task # ship.task

\* Tasks are numbered as they come, from 1.
Numbered ==
    /\ job.task <= tasks /\ ship.task <= tasks
    /\ \A i \in DOMAIN waiting : waiting[i].task <= tasks
    /\ \A r \in DOMAIN rows : rows[r].task <= tasks
    /\ \A r \in DOMAIN rows : rows[r].phase # "none" <=> rows[r].task # 0
    /\ job.at # "none" => job.task # 0
    /\ ship # NoShip => ship.task # 0

\* A teardown under way has its place in the review table.
RoomIsKept == job.at = "parking" => Len(rows) < MaxRows

Core ==
    /\ TasksType /\ ReviewType
    /\ HandedOnce /\ Numbered /\ RoomIsKept
    /\ ResolvedOnce /\ ParkedInOnePlace

IInv == TypeOK /\ Core

-------------------------------------------------------------------------------
(***************************************************************************)
(* Sequences                                                               *)
(***************************************************************************)

LEMMA CoreFacts ==
  ASSUME Core
  PROVE  /\ Len(waiting) \in Nat /\ DOMAIN waiting = 1..Len(waiting)
         /\ \A i \in DOMAIN waiting : waiting[i] \in Handed
         /\ Len(rows) \in Nat /\ DOMAIN rows = 1..Len(rows)
         /\ \A r \in DOMAIN rows : rows[r] \in Row
         /\ MaxTasks \in Nat /\ MaxRows \in Nat
<1>1. waiting \in Seq(Handed) /\ rows \in Seq(Row)
  BY DEF Core, TasksType, ReviewType
<1>2. /\ Len(waiting) \in Nat /\ DOMAIN waiting = 1..Len(waiting)
      /\ Len(rows) \in Nat /\ DOMAIN rows = 1..Len(rows)
  BY <1>1, LenProperties
<1>3. /\ \A i \in DOMAIN waiting : waiting[i] \in Handed
      /\ \A r \in DOMAIN rows : rows[r] \in Row
  BY <1>1, <1>2, ElementOfSeq
<1>4. QED
  BY <1>2, <1>3, HeldReviewAssumption DEF HeldReviewAssumption

\* A sequence with one element more.
LEMMA AppendFacts ==
  ASSUME NEW S, NEW s \in Seq(S), NEW e \in S
  PROVE  /\ Append(s, e) \in Seq(S)
         /\ Len(Append(s, e)) = Len(s) + 1 /\ Len(s) \in Nat
         /\ DOMAIN Append(s, e) = (1..Len(s)) \union {Len(s) + 1}
         /\ DOMAIN s = 1..Len(s)
         /\ \A i \in 1..Len(s) : Append(s, e)[i] = s[i]
         /\ Append(s, e)[Len(s) + 1] = e
<1>1. /\ Append(s, e) \in Seq(S) /\ Len(Append(s, e)) = Len(s) + 1
      /\ \A i \in 1..Len(s) : Append(s, e)[i] = s[i]
      /\ Append(s, e)[Len(s) + 1] = e
  BY AppendProperties
<1>2. Len(s) \in Nat /\ DOMAIN s = 1..Len(s)
      /\ DOMAIN Append(s, e) = 1..Len(Append(s, e))
  BY <1>1, LenProperties
<1>3. 1..(Len(s) + 1) = (1..Len(s)) \union {Len(s) + 1}
  BY <1>2
<1>4. QED
  BY <1>1, <1>2, <1>3

LEMMA TailFacts ==
  ASSUME NEW S, NEW s \in Seq(S), s # <<>>
  PROVE  /\ Head(s) = s[1] /\ 1 \in DOMAIN s /\ Tail(s) \in Seq(S)
         /\ \A i \in DOMAIN Tail(s) : i + 1 \in DOMAIN s /\ i + 1 # 1 /\ Tail(s)[i] = s[i + 1]
         /\ \A i \in DOMAIN Tail(s) : i \in Nat
<1>1. /\ Head(s) = s[1] /\ Tail(s) \in Seq(S) /\ Len(Tail(s)) = Len(s) - 1
      /\ \A i \in 1..Len(Tail(s)) : Tail(s)[i] = s[i + 1]
  BY HeadTailProperties
<1>2. Len(s) \in Nat /\ DOMAIN s = 1..Len(s) /\ DOMAIN Tail(s) = 1..Len(Tail(s))
  BY <1>1, LenProperties
<1>3. Len(s) # 0
  BY EmptySeq
<1>4. QED
  BY <1>1, <1>2, <1>3

-------------------------------------------------------------------------------
(***************************************************************************)
(* What steps do to the tasks and the rows                                 *)
(***************************************************************************)

\* The running job changes its place, never its task.
JobMoves ==
    /\ job' \in Job /\ job'.task = job.task /\ job.at # "none"
    /\ job'.at = "parking" => Len(rows) < MaxRows
    /\ UNCHANGED <<waiting, ship, tasks, rows, parked>>

JobEnds == job' = NoJob /\ UNCHANGED <<waiting, ship, tasks, rows, parked>>

\* A winner goes behind the running job.
WinnerWaits ==
    /\ tasks < MaxTasks /\ tasks' = tasks + 1
    /\ waiting' = Append(waiting, [task |-> tasks + 1, phase |-> "none"])
    /\ UNCHANGED <<job, ship, rows, parked>>

JobBegins ==
    /\ waiting # <<>> /\ waiting' = Tail(waiting) /\ job = NoJob
    /\ \/ job' = NoJob
       \/ job' \in Job /\ job'.task = Head(waiting).task /\ job'.at \in {"turn", "screen"}
    /\ UNCHANGED <<ship, tasks, rows, parked>>

JobHeld(phase) ==
    /\ job.at \in {"screen", "parking"} /\ Len(rows) < MaxRows
    /\ InsertParked(phase) /\ job' = NoJob
    /\ UNCHANGED <<waiting, ship, tasks>>

ShipBegins ==
    /\ ship = NoShip /\ tasks < MaxTasks /\ tasks' = tasks + 1
    /\ ship' = [task |-> tasks + 1, gen |-> generation]
    /\ UNCHANGED <<job, waiting, rows, parked>>

ShipEnds ==
    /\ ship # NoShip /\ ship' = NoShip
    /\ \/ waiting' = waiting
       \/ waiting' = Append(waiting, [task |-> ship.task, phase |-> "none"])
    /\ UNCHANGED <<job, tasks, rows, parked>>

\* The entry of a parked build goes; its row, when it is pending, gets its end.
RowEnds(r, status) ==
    /\ r \in DOMAIN rows
    /\ parked' = parked \ {r}
    /\ rows' = IF Resolvable(r) THEN [rows EXCEPT ![r].status = status] ELSE rows
    /\ UNCHANGED <<job, waiting, ship, tasks>>

LEMMA NoJobFacts ==
  /\ NoJob \in Job /\ NoJob.at = "none" /\ NoJob.task = 0
  /\ NoShip \in [task : 0..MaxTasks, gen : Projects] /\ NoShip.task = 0
BY HeldReviewAssumption DEF NoJob, NoShip, Job, Projects, HeldReviewAssumption

\* Everything but the job stays where it is.
LEMMA SameRows ==
  ASSUME Core, UNCHANGED <<rows, parked>>
  PROVE  ReviewType' /\ ResolvedOnce'
BY DEF Core, ReviewType, ResolvedOnce, Row, Phases, Statuses

LEMMA JobMovesKeeps ==
  ASSUME Core, JobMoves
  PROVE  Core'
<1>0. TasksType /\ HandedOnce /\ Numbered /\ ParkedInOnePlace
  BY DEF Core
<1>1. TasksType'
  BY <1>0 DEF JobMoves, TasksType, Job, Handed, Projects, Generations, Phases
<1>2. HandedOnce' /\ Numbered' /\ RoomIsKept'
  BY <1>0 DEF JobMoves, HandedOnce, Numbered, RoomIsKept, NoShip
<1>3. ParkedInOnePlace'
  BY <1>0 DEF JobMoves, ParkedInOnePlace, Waits
<1>4. QED
  BY <1>1, <1>2, <1>3, SameRows DEF JobMoves, Core

LEMMA NothingMovesKeeps ==
  ASSUME Core, UNCHANGED <<job, waiting, ship, tasks, rows, parked>>
  PROVE  Core'
<1>0. TasksType /\ HandedOnce /\ Numbered /\ ParkedInOnePlace /\ RoomIsKept
  BY DEF Core
<1>1. TasksType'
  BY <1>0 DEF TasksType, Job, Handed, Projects, Generations, Phases
<1>2. HandedOnce' /\ Numbered' /\ RoomIsKept'
  BY <1>0 DEF HandedOnce, Numbered, RoomIsKept, NoShip
<1>3. ParkedInOnePlace'
  BY <1>0 DEF ParkedInOnePlace, Waits
<1>4. QED
  BY <1>1, <1>2, <1>3, SameRows DEF Core

LEMMA JobEndsKeeps ==
  ASSUME Core, JobEnds
  PROVE  Core'
<1>0. TasksType /\ HandedOnce /\ Numbered /\ ParkedInOnePlace
  BY DEF Core
<1>1. TasksType'
  BY <1>0, NoJobFacts DEF JobEnds, TasksType, Job, Handed, Projects, Generations, Phases
<1>2. /\ job'.task = 0 /\ job'.at = "none" /\ tasks \in Nat
      /\ \A i \in DOMAIN waiting : waiting[i].task # 0
      /\ \A r \in DOMAIN rows : Waits(r) => rows[r].task # 0
  BY <1>0, NoJobFacts, CoreFacts DEF JobEnds, TasksType, Handed, Numbered, Waits
<1>3. HandedOnce' /\ Numbered' /\ RoomIsKept'
  BY <1>0, <1>2 DEF JobEnds, HandedOnce, Numbered, RoomIsKept, NoShip
<1>4. ParkedInOnePlace'
  BY <1>0, <1>2 DEF JobEnds, ParkedInOnePlace, Waits
<1>5. QED
  BY <1>1, <1>3, <1>4, SameRows DEF JobEnds, Core

\* A task that is new to the review table and to the session goes behind the running job.
LEMMA HandOverKeeps ==
  ASSUME Core, NEW e \in Handed, waiting' = Append(waiting, e), job' = job,
         UNCHANGED <<rows, parked>>, ship' \in [task : 0..MaxTasks, gen : Projects],
         tasks' \in 0..MaxTasks, tasks <= tasks', e.task <= tasks',
         ship' # NoShip => ship'.task # 0,
         ship'.task \in {0, ship.task},
         e.task # job.task, e.task # ship'.task,
         \A i \in DOMAIN waiting : waiting[i].task # e.task,
         \A r \in DOMAIN rows : Waits(r) => rows[r].task # e.task
  PROVE  Core'
<1>0. TasksType /\ HandedOnce /\ Numbered /\ ParkedInOnePlace /\ RoomIsKept
  BY DEF Core
<1>1. /\ waiting' \in Seq(Handed)
      /\ DOMAIN waiting = 1..Len(waiting) /\ Len(waiting) \in Nat
      /\ DOMAIN waiting' = DOMAIN waiting \union {Len(waiting) + 1}
      /\ \A i \in DOMAIN waiting : waiting'[i] = waiting[i]
      /\ waiting'[Len(waiting) + 1] = e
  BY <1>0, AppendFacts DEF TasksType
<1>2. TasksType'
  BY <1>0, <1>1 DEF TasksType, Job, Handed, Projects, Generations, Phases
<1>3. /\ \A i \in DOMAIN waiting : waiting[i].task # 0 /\ waiting[i].task \in Nat
      /\ \A r \in DOMAIN rows : Waits(r) => rows[r].task # 0
      /\ \A r \in DOMAIN rows : rows[r].task \in Nat
      /\ job.task \in Nat /\ ship.task \in Nat /\ tasks \in Nat /\ tasks' \in Nat
      /\ e.task \in Nat /\ e.task # 0
  BY <1>0, CoreFacts DEF TasksType, Handed, Numbered, Waits, Row, Job
<1>4. HandedOnce'
  BY <1>0, <1>1, <1>3 DEF HandedOnce
<1>5. Numbered'
  BY <1>0, <1>1, <1>3 DEF Numbered, NoShip
<1>6. RoomIsKept'
  BY <1>0 DEF RoomIsKept
<1>7. ParkedInOnePlace'
  BY <1>0, <1>1, <1>3 DEF ParkedInOnePlace, Waits
<1>8. QED
  BY <1>2, <1>4, <1>5, <1>6, <1>7, SameRows DEF Core

LEMMA WinnerWaitsKeeps ==
  ASSUME Core, WinnerWaits
  PROVE  Core'
<1> DEFINE e == [task |-> tasks + 1, phase |-> "none"]
<1>1. /\ tasks \in Nat /\ MaxTasks \in Nat /\ tasks' \in 0..MaxTasks /\ tasks <= tasks'
      /\ e \in Handed /\ e.task = tasks + 1 /\ tasks' = tasks + 1
  BY CoreFacts DEF WinnerWaits, Core, TasksType, Handed, Phases
<1>2. /\ job.task <= tasks /\ ship.task <= tasks
      /\ \A i \in DOMAIN waiting : waiting[i].task <= tasks
      /\ \A r \in DOMAIN rows : rows[r].task <= tasks
      /\ ship # NoShip => ship.task # 0
  BY DEF Core, Numbered
<1>3. /\ \A i \in DOMAIN waiting : waiting[i].task \in Nat
      /\ \A r \in DOMAIN rows : rows[r].task \in Nat
      /\ job.task \in Nat /\ ship.task \in Nat
      /\ ship \in [task : 0..MaxTasks, gen : Projects]
  BY CoreFacts DEF Core, TasksType, Handed, Row, Job
<1>4. /\ waiting' = Append(waiting, e) /\ job' = job /\ ship' = ship
      /\ UNCHANGED <<rows, parked>>
  BY DEF WinnerWaits
<1> HIDE DEF e
<1>5. /\ e.task # job.task /\ e.task # ship.task
      /\ \A i \in DOMAIN waiting : waiting[i].task # e.task
      /\ \A r \in DOMAIN rows : rows[r].task # e.task
  BY <1>1, <1>2, <1>3
<1>6. QED
  BY <1>1, <1>2, <1>3, <1>4, <1>5, HandOverKeeps

LEMMA ShipEndsKeeps ==
  ASSUME Core, ShipEnds
  PROVE  Core'
<1>0. TasksType /\ HandedOnce /\ Numbered /\ ParkedInOnePlace /\ RoomIsKept
  BY DEF Core
<1>1. /\ ship' \in [task : 0..MaxTasks, gen : Projects] /\ ship'.task = 0 /\ ship' = NoShip
      /\ ship.task # 0 /\ ship.task \in Nat /\ ship.task <= MaxTasks
      /\ \A i \in DOMAIN waiting : waiting[i].task # 0
      /\ \A r \in DOMAIN rows : Waits(r) => rows[r].task # 0
  BY <1>0, NoJobFacts, CoreFacts DEF ShipEnds, TasksType, Numbered, Handed, Waits
<1>2. CASE waiting' = waiting
  <2>1. TasksType'
    BY <1>0, <1>1, <1>2 DEF ShipEnds, TasksType, Job, Handed, Projects, Generations, Phases
  <2>2. HandedOnce' /\ Numbered' /\ RoomIsKept'
    BY <1>0, <1>1, <1>2, CoreFacts DEF ShipEnds, HandedOnce, Numbered, RoomIsKept, TasksType
  <2>3. ParkedInOnePlace'
    BY <1>0, <1>1, <1>2 DEF ShipEnds, ParkedInOnePlace, Waits
  <2>4. QED
    BY <2>1, <2>2, <2>3, SameRows DEF ShipEnds, Core
<1>3. CASE waiting' = Append(waiting, [task |-> ship.task, phase |-> "none"])
  <2> DEFINE e == [task |-> ship.task, phase |-> "none"]
  <2>1. e \in Handed /\ e.task = ship.task
    BY <1>1, CoreFacts DEF Handed, Phases
  <2> HIDE DEF e
  <2>2. /\ e.task # job.task
        /\ \A i \in DOMAIN waiting : waiting[i].task # e.task
        /\ \A r \in DOMAIN rows : Waits(r) => rows[r].task # e.task
    BY <1>0, <1>1, <2>1 DEF HandedOnce, ParkedInOnePlace, Waits
  <2>3. tasks \in 0..MaxTasks /\ e.task <= tasks /\ tasks <= tasks
    BY <1>0, <2>1 DEF TasksType, Numbered
  <2>4. waiting' = Append(waiting, e)
    BY <1>3 DEF e
  <2>5. job' = job /\ UNCHANGED <<rows, parked>> /\ tasks' = tasks
    BY DEF ShipEnds
  <2>6. QED
    BY <1>1, <2>1, <2>2, <2>3, <2>4, <2>5, HandOverKeeps
<1>4. QED
  BY <1>2, <1>3 DEF ShipEnds

LEMMA JobBeginsKeeps ==
  ASSUME Core, JobBegins
  PROVE  Core'
<1>0. TasksType /\ HandedOnce /\ Numbered /\ ParkedInOnePlace /\ RoomIsKept
  BY DEF Core
<1>1. /\ waiting \in Seq(Handed) /\ waiting # <<>> /\ waiting' = Tail(waiting)
      /\ ship' = ship /\ tasks' = tasks /\ rows' = rows /\ parked' = parked
  BY <1>0 DEF JobBegins, TasksType
<1>2. /\ Head(waiting) = waiting[1] /\ 1 \in DOMAIN waiting /\ waiting' \in Seq(Handed)
      /\ \A i \in DOMAIN waiting' :
            i \in Nat /\ i + 1 \in DOMAIN waiting /\ i + 1 # 1 /\ waiting'[i] = waiting[i + 1]
  BY <1>1, TailFacts
<1>3. /\ job' \in Job /\ job'.task \in {0, waiting[1].task}
      /\ job'.at # "parking" /\ (job'.at # "none" => job'.task = waiting[1].task)
  BY <1>2, NoJobFacts DEF JobBegins
<1>4. TasksType'
  BY <1>0, <1>1, <1>2, <1>3 DEF TasksType, Job, Handed, Projects, Generations, Phases
<1>5. /\ \A i \in DOMAIN waiting : waiting[i].task # 0
      /\ \A r \in DOMAIN rows : Waits(r) => rows[r].task # 0
      /\ tasks \in Nat
  BY <1>0, CoreFacts DEF TasksType, Handed, Numbered, Waits
<1>6. HandedOnce'
  <2>1. ASSUME NEW i \in DOMAIN waiting', NEW k \in DOMAIN waiting', i # k
        PROVE  waiting'[i].task # waiting'[k].task
    <3>1. i + 1 \in DOMAIN waiting /\ k + 1 \in DOMAIN waiting /\ i + 1 # k + 1
      BY <1>2, <2>1
    <3>2. QED
      BY <1>0, <1>2, <3>1 DEF HandedOnce
  <2>2. ASSUME NEW i \in DOMAIN waiting'
        PROVE  waiting'[i].task \notin {job'.task, ship'.task}
    BY <1>0, <1>1, <1>2, <1>3, <1>5, <2>2 DEF HandedOnce
  <2>3. job'.task # 0 => job'.task # ship'.task
    BY <1>0, <1>1, <1>2, <1>3 DEF HandedOnce
  <2>4. QED
    BY <2>1, <2>2, <2>3 DEF HandedOnce
<1>7. Numbered' /\ RoomIsKept'
  BY <1>0, <1>1, <1>2, <1>3, <1>5 DEF Numbered, RoomIsKept, NoShip
<1>8. ParkedInOnePlace'
  BY <1>0, <1>1, <1>2, <1>3, <1>5 DEF ParkedInOnePlace, Waits
<1>9. QED
  BY <1>1, <1>4, <1>6, <1>7, <1>8, SameRows DEF Core

LEMMA ShipBeginsKeeps ==
  ASSUME Core, ShipBegins, generation \in Generations
  PROVE  Core'
<1>0. TasksType /\ HandedOnce /\ Numbered /\ ParkedInOnePlace /\ RoomIsKept
  BY DEF Core
<1>1. /\ tasks \in Nat /\ MaxTasks \in Nat /\ tasks' \in 0..MaxTasks /\ tasks' = tasks + 1
      /\ ship' \in [task : 0..MaxTasks, gen : Projects] /\ ship'.task = tasks + 1
  BY <1>0, CoreFacts DEF ShipBegins, TasksType, Projects
<1>2. /\ waiting' = waiting /\ job' = job /\ rows' = rows /\ parked' = parked
  BY DEF ShipBegins
<1>3. /\ \A i \in DOMAIN waiting : waiting[i].task \in Nat
      /\ \A r \in DOMAIN rows : rows[r].task \in Nat
      /\ job.task \in Nat
  BY <1>0, CoreFacts DEF TasksType, Handed, Row, Job
<1>4. TasksType'
  BY <1>0, <1>1, <1>2 DEF TasksType, Job, Handed, Projects, Generations, Phases
<1>5. Numbered' /\ RoomIsKept'
  BY <1>0, <1>1, <1>2, <1>3 DEF Numbered, RoomIsKept, NoShip
<1>6. HandedOnce'
  BY <1>0, <1>1, <1>2, <1>3 DEF HandedOnce, Numbered
<1>7. ParkedInOnePlace'
  BY <1>0, <1>1, <1>2, <1>3 DEF ParkedInOnePlace, Numbered, Waits
<1>8. QED
  BY <1>2, <1>4, <1>5, <1>6, <1>7, SameRows DEF Core

\* A new row is pending, and parked when its build is held.
LEMMA NewRowKeeps ==
  ASSUME Core, NEW t \in 0..MaxTasks, NEW phase \in Phases, Len(rows) < MaxRows,
         rows' = Append(rows, [task |-> t, phase |-> phase, status |-> "pending",
                               sent |-> 0, pooled |-> 0]),
         phase # "none" => t # 0 /\ parked' = parked \union {Len(rows) + 1},
         phase = "none" => t = 0 /\ parked' = parked,
         waiting' = waiting, ship' = ship, tasks' \in 0..MaxTasks, tasks <= tasks', t <= tasks',
         job' = NoJob \/ (job' = job /\ (job.at # "parking" \/ Len(rows) + 1 < MaxRows)),
         t # 0 => /\ t # job'.task /\ t # ship.task
                  /\ \A i \in DOMAIN waiting : waiting[i].task # t
                  /\ \A r \in DOMAIN rows : rows[r].status = "pending" => rows[r].task # t
  PROVE  Core'
<1> DEFINE e == [task |-> t, phase |-> phase, status |-> "pending", sent |-> 0, pooled |-> 0]
           k == Len(rows) + 1
<1>0. TasksType /\ ReviewType /\ HandedOnce /\ Numbered /\ ParkedInOnePlace /\ RoomIsKept
      /\ ResolvedOnce
  BY DEF Core
<1>1. /\ e \in Row /\ e.task = t /\ e.phase = phase /\ e.status = "pending"
      /\ e.sent = 0 /\ e.pooled = 0
  BY DEF Row, Statuses
<1> HIDE DEF e
<1>2. /\ rows' \in Seq(Row) /\ Len(rows') = k /\ Len(rows) \in Nat
      /\ DOMAIN rows = 1..Len(rows) /\ DOMAIN rows' = DOMAIN rows \union {k}
      /\ \A r \in DOMAIN rows : rows'[r] = rows[r]
      /\ rows'[k] = e /\ k \notin DOMAIN rows
  BY <1>0, <1>1, AppendFacts DEF e, ReviewType
<1>3. /\ job' \in Job /\ job'.task \in {0, job.task}
      /\ job'.at = "parking" => k < MaxRows
      /\ job'.at # "none" => job' = job
  BY <1>0, NoJobFacts DEF TasksType, RoomIsKept
<1>4. TasksType'
  BY <1>0, <1>3 DEF TasksType, Job, Handed, Projects, Generations, Phases
<1>5. ReviewType'
  <2>1. Len(rows') <= MaxRows
    BY <1>2, CoreFacts
  <2>2. parked' \subseteq {r \in DOMAIN rows' : rows'[r].phase # "none"}
    BY <1>0, <1>1, <1>2 DEF ReviewType
  <2>3. QED
    BY <1>2, <2>1, <2>2 DEF ReviewType, Row, Phases, Statuses
<1>6. /\ \A i \in DOMAIN waiting : waiting[i].task # 0 /\ waiting[i].task \in Nat
      /\ \A r \in DOMAIN rows : rows[r].task \in Nat
      /\ \A r \in DOMAIN rows : Waits(r) => rows[r].task # 0
      /\ job.task \in Nat /\ ship.task \in Nat /\ tasks \in Nat /\ tasks' \in Nat
  BY <1>0, CoreFacts DEF TasksType, Handed, Numbered, Waits, Row, Job
<1>7. HandedOnce'
  BY <1>0, <1>3, <1>6 DEF HandedOnce
<1>8. Numbered'
  BY <1>0, <1>1, <1>2, <1>3, <1>6 DEF Numbered, NoShip
<1>9. RoomIsKept'
  BY <1>2, <1>3 DEF RoomIsKept
<1>10. ResolvedOnce'
  BY <1>0, <1>1, <1>2 DEF ResolvedOnce
<1>11. ParkedInOnePlace'
  <2> SUFFICES ASSUME NEW r \in DOMAIN rows', Waits(r)'
               PROVE  /\ r \in parked' /\ rows'[r].task \notin {job'.task, ship'.task}
                      /\ \A i \in DOMAIN waiting' : waiting'[i].task # rows'[r].task
                      /\ \A q \in DOMAIN rows' \ {r} :
                            rows'[q].status = "pending" => rows'[q].task # rows'[r].task
    BY DEF ParkedInOnePlace
  <2>1. CASE r = k
    BY <1>1, <1>2, <1>3, <2>1 DEF Waits
  <2>2. CASE r \in DOMAIN rows
    <3>1. Waits(r) /\ rows'[r] = rows[r] /\ r \in parked /\ r \in parked'
      BY <1>0, <1>2, <2>2 DEF Waits, ParkedInOnePlace
    <3>2. t # 0 => t # rows[r].task
      BY <2>2, <3>1 DEF Waits
    <3>3. rows[r].task # 0
      BY <1>6, <2>2, <3>1
    <3>4. QED
      BY <1>0, <1>1, <1>2, <1>3, <3>1, <3>2, <3>3 DEF ParkedInOnePlace
  <2>3. QED
    BY <1>2, <2>1, <2>2
<1>12. QED
  BY <1>4, <1>5, <1>7, <1>8, <1>9, <1>10, <1>11 DEF Core

\* The row of a task is a held build's: an intake hold has no task.
LEMMA NotHeldIsNoTask ==
  ASSUME Core
  PROVE  \A r \in DOMAIN rows : rows[r].phase = "none" => rows[r].task = 0
BY DEF Core, Numbered

LEMMA JobHeldKeeps ==
  ASSUME Core, NEW phase \in {"pre-build", "mid-build"}, JobHeld(phase)
  PROVE  Core'
<1>0. TasksType /\ HandedOnce /\ Numbered /\ ParkedInOnePlace
  BY DEF Core
<1>1. /\ job.task \in 0..MaxTasks /\ job.task # 0 /\ job.task <= tasks /\ tasks \in 0..MaxTasks
      /\ tasks <= tasks
  BY <1>0 DEF JobHeld, TasksType, Job, Numbered
<1>2. job.task # job'.task /\ job.task # ship.task /\ job' = NoJob
  BY <1>0, <1>1, NoJobFacts DEF JobHeld, HandedOnce
<1>3. \A i \in DOMAIN waiting : waiting[i].task # job.task
  BY <1>0 DEF HandedOnce
<1>4. \A r \in DOMAIN rows : rows[r].status = "pending" => rows[r].task # job.task
  <2> SUFFICES ASSUME NEW r \in DOMAIN rows, rows[r].status = "pending",
                      rows[r].task = job.task
               PROVE  FALSE
    OBVIOUS
  <2>1. rows[r].phase # "none"
    BY <1>1, NotHeldIsNoTask DEF Core
  <2>2. QED
    BY <1>0, <2>1 DEF ParkedInOnePlace, Waits
<1>5. /\ rows' = Append(rows, [task |-> job.task, phase |-> phase, status |-> "pending",
                               sent |-> 0, pooled |-> 0])
      /\ parked' = parked \union {Len(rows) + 1} /\ Len(rows) < MaxRows
      /\ waiting' = waiting /\ ship' = ship /\ tasks' = tasks
      /\ phase \in Phases /\ phase # "none"
  BY DEF JobHeld, InsertParked, Phases
<1>6. QED
  BY <1>1, <1>2, <1>3, <1>4, <1>5, NewRowKeeps

LEMMA HoldIntakeKeeps ==
  ASSUME Core, HoldIntake
  PROVE  Core'
<1>1. /\ tasks' \in 0..MaxTasks /\ tasks <= tasks' /\ 0 <= tasks' /\ 0 \in 0..MaxTasks
  BY CoreFacts DEF HoldIntake, Core, TasksType
<1>2. /\ rows' = Append(rows, [task |-> 0, phase |-> "none", status |-> "pending",
                               sent |-> 0, pooled |-> 0])
      /\ parked' = parked /\ waiting' = waiting /\ ship' = ship /\ job' = job
  BY DEF HoldIntake
<1>3. Len(rows) < MaxRows /\ (job.at # "parking" \/ Len(rows) + 1 < MaxRows)
  BY CoreFacts DEF HoldIntake, Room
<1>4. "none" \in Phases
  BY DEF Phases
<1>5. 0 # 0 => FALSE
  OBVIOUS
<1>6. QED
  BY <1>1, <1>2, <1>3, <1>4, <1>5, NewRowKeeps, ZenonT(60)

-------------------------------------------------------------------------------
(***************************************************************************)
(* What resolves a row                                                     *)
(***************************************************************************)

\* The rows keep their number, tasks and phases, and only lose pending ones.
RowsResolve ==
    /\ DOMAIN rows' = DOMAIN rows /\ rows' \in Seq(Row)
    /\ \A r \in DOMAIN rows :
          /\ rows'[r].task = rows[r].task /\ rows'[r].phase = rows[r].phase
          /\ rows'[r].status = "pending" => rows'[r] = rows[r]

LEMMA RowsResolveKeeps ==
  ASSUME Core, RowsResolve, ResolvedOnce',
         parked' \subseteq parked,
         \A r \in parked \ parked' : rows'[r].status # "pending"
  PROVE  ReviewType' /\ (\A r \in DOMAIN rows' : Waits(r)' => Waits(r) /\ r \in parked')
         /\ Len(rows') = Len(rows)
<1>0. ReviewType /\ ParkedInOnePlace
  BY DEF Core
<1>1. Len(rows') = Len(rows)
  <2>1. /\ rows \in Seq(Row) /\ rows' \in Seq(Row) /\ DOMAIN rows' = DOMAIN rows
    BY <1>0 DEF RowsResolve, ReviewType
  <2>2. /\ Len(rows) \in Nat /\ DOMAIN rows = 1..Len(rows)
        /\ Len(rows') \in Nat /\ DOMAIN rows' = 1..Len(rows')
    BY <2>1, LenProperties
  <2>3. QED
    BY <2>1, <2>2
<1>2. ReviewType'
  BY <1>0, <1>1 DEF RowsResolve, ReviewType, Row, Phases, Statuses
<1>3. \A r \in DOMAIN rows' : Waits(r)' => Waits(r) /\ r \in parked'
  BY <1>0 DEF RowsResolve, Waits, ParkedInOnePlace
<1>4. QED
  BY <1>1, <1>2, <1>3

\* With the session as it was.
LEMMA ResolvedRowsKeep ==
  ASSUME Core, RowsResolve, ResolvedOnce', parked' \subseteq parked,
         \A r \in parked \ parked' : rows'[r].status # "pending",
         UNCHANGED <<job, waiting, ship, tasks>>
  PROVE  Core'
<1>0. TasksType /\ HandedOnce /\ Numbered /\ ParkedInOnePlace /\ RoomIsKept
  BY DEF Core
<1>1. /\ ReviewType' /\ Len(rows') = Len(rows)
      /\ \A r \in DOMAIN rows' : Waits(r)' => Waits(r) /\ r \in parked'
  BY RowsResolveKeeps
<1>2. TasksType'
  BY <1>0 DEF TasksType, Job, Handed, Projects, Generations, Phases
<1>3. HandedOnce' /\ Numbered' /\ RoomIsKept'
  BY <1>0, <1>1 DEF HandedOnce, Numbered, RoomIsKept, RowsResolve, NoShip
<1>4. ParkedInOnePlace'
  BY <1>0, <1>1 DEF ParkedInOnePlace, RowsResolve
<1>5. QED
  BY <1>1, <1>2, <1>3, <1>4 DEF Core

\* One row, once pending, gets its end.
LEMMA OneRowResolves ==
  ASSUME Core, NEW r \in DOMAIN rows, rows[r].status = "pending", NEW e \in Row,
         rows' = [rows EXCEPT ![r] = e], e.status # "pending",
         e.task = rows[r].task, e.phase = rows[r].phase,
         e.sent = (IF e.status = "approved" /\ e.phase # "none" THEN 1 ELSE 0),
         e.pooled = (IF e.status = "approved" /\ e.phase = "none" THEN 1 ELSE 0)
  PROVE  RowsResolve /\ ResolvedOnce' /\ rows'[r] = e
<1>0. rows \in Seq(Row) /\ ResolvedOnce
  BY DEF Core, ReviewType
<1>1. DOMAIN rows' = DOMAIN rows /\ rows'[r] = e
      /\ \A q \in DOMAIN rows \ {r} : rows'[q] = rows[q]
  OBVIOUS
<1>2. rows' \in Seq(Row)
  BY <1>0, LenProperties, ExceptSeq
<1>3. RowsResolve
  BY <1>1, <1>2 DEF RowsResolve
<1>4. ResolvedOnce'
  BY <1>0, <1>1 DEF ResolvedOnce
<1>5. QED
  BY <1>1, <1>3, <1>4

LEMMA RowEndsKeeps ==
  ASSUME Core, NEW r, NEW status \in {"rejected", "expired"}, RowEnds(r, status)
  PROVE  Core'
<1>1. r \in DOMAIN rows /\ parked' = parked \ {r} /\ UNCHANGED <<job, waiting, ship, tasks>>
  BY DEF RowEnds
<1>2. CASE rows[r].status = "pending"
  <2> DEFINE e == [rows[r] EXCEPT !.status = status]
  <2>1. rows[r] \in Row /\ rows[r].sent = 0 /\ rows[r].pooled = 0
    BY <1>1, <1>2, CoreFacts DEF Core, ResolvedOnce
  <2>2. /\ e \in Row /\ e.status = status /\ e.task = rows[r].task /\ e.phase = rows[r].phase
        /\ e.sent = 0 /\ e.pooled = 0
    BY <2>1 DEF Row, Statuses
  <2>3. rows' = [rows EXCEPT ![r] = e]
    BY <1>1, <1>2 DEF RowEnds, Resolvable
  <2> HIDE DEF e
  <2>4. RowsResolve /\ ResolvedOnce' /\ rows'[r] = e
    BY <1>1, <1>2, <2>2, <2>3, OneRowResolves
  <2>5. QED
    BY <1>1, <2>2, <2>4, ResolvedRowsKeep
<1>3. CASE rows[r].status # "pending"
  <2>1. rows' = rows
    BY <1>3 DEF RowEnds, Resolvable
  <2>2. RowsResolve /\ ResolvedOnce'
    BY <2>1 DEF Core, ReviewType, RowsResolve, ResolvedOnce
  <2>3. QED
    BY <1>1, <1>3, <2>1, <2>2, ResolvedRowsKeep
<1>4. QED
  BY <1>2, <1>3

\* A row approved, with its one effect.
LEMMA ApprovedRow ==
  ASSUME NEW x \in Row, x.sent = 0, x.pooled = 0
  PROVE  /\ LET e == [x EXCEPT !.status = "approved", !.pooled = 1]
            IN  /\ e \in Row /\ e.status = "approved" /\ e.task = x.task /\ e.phase = x.phase
                /\ e.sent = 0 /\ e.pooled = 1
         /\ LET e == [x EXCEPT !.status = "approved", !.sent = 1]
            IN  /\ e \in Row /\ e.status = "approved" /\ e.task = x.task /\ e.phase = x.phase
                /\ e.sent = 1 /\ e.pooled = 0
<1> DEFINE d == [x EXCEPT !.status = "approved"]
<1>1. /\ d \in Row /\ d.status = "approved" /\ d.task = x.task /\ d.phase = x.phase
      /\ d.sent = 0 /\ d.pooled = 0
  BY DEF Row, Statuses
<1>2. /\ [x EXCEPT !.status = "approved", !.pooled = 1] = [d EXCEPT !.pooled = 1]
      /\ [x EXCEPT !.status = "approved", !.sent = 1] = [d EXCEPT !.sent = 1]
  BY DEF Row
<1> HIDE DEF d
<1>3. [d EXCEPT !.pooled = 1] \in Row /\ [d EXCEPT !.sent = 1] \in Row
  BY <1>1 DEF Row
<1>4. /\ LET e == [d EXCEPT !.pooled = 1]
         IN  /\ e.status = "approved" /\ e.task = x.task /\ e.phase = x.phase
             /\ e.sent = 0 /\ e.pooled = 1
      /\ LET e == [d EXCEPT !.sent = 1]
         IN  /\ e.status = "approved" /\ e.task = x.task /\ e.phase = x.phase
             /\ e.sent = 1 /\ e.pooled = 0
  BY <1>1 DEF Row
<1>5. QED
  BY <1>2, <1>3, <1>4

LEMMA ApproveIntakeKeeps ==
  ASSUME Core, NEW r, ApproveIntake(r)
  PROVE  Core'
<1> DEFINE e == [rows[r] EXCEPT !.status = "approved", !.pooled = 1]
<1>1. /\ r \in DOMAIN rows /\ rows[r].status = "pending" /\ r \notin parked
      /\ UNCHANGED <<job, waiting, ship, tasks, parked>>
  BY DEF ApproveIntake, Resolvable, session
<1>2. rows[r].phase = "none"
  BY <1>1 DEF Core, ParkedInOnePlace, Waits
<1>3. rows[r] \in Row /\ rows[r].sent = 0 /\ rows[r].pooled = 0
  BY <1>1, CoreFacts DEF Core, ResolvedOnce
<1>4. /\ e \in Row /\ e.status = "approved" /\ e.task = rows[r].task /\ e.phase = rows[r].phase
      /\ e.sent = 0 /\ e.pooled = 1
  BY <1>3, ApprovedRow
<1>5. rows' = [rows EXCEPT ![r] = e]
  <2>1. rows[r].pooled + 1 = 1
    BY <1>3
  <2>2. rows' = [rows EXCEPT ![r].status = "approved", ![r].pooled = rows[r].pooled + 1]
    BY DEF ApproveIntake
  <2>3. QED
    BY <1>1, <1>3, <2>1, <2>2
<1> HIDE DEF e
<1>6. RowsResolve /\ ResolvedOnce' /\ rows'[r] = e
  BY <1>1, <1>2, <1>4, <1>5, OneRowResolves
<1>7. QED
  BY <1>1, <1>4, <1>6, ResolvedRowsKeep

\* The retained task of an approved build goes to the session, which had it nowhere.
LEMMA ApproveParkedKeeps ==
  ASSUME Core, NEW r, ApproveParked(r)
  PROVE  Core'
<1>0. TasksType /\ ReviewType /\ HandedOnce /\ Numbered /\ ParkedInOnePlace /\ RoomIsKept
  BY DEF Core
<1>1. r \in DOMAIN rows /\ rows[r].phase # "none" /\ parked' = parked \ {r}
      /\ UNCHANGED <<job, ship, tasks>>
  BY <1>0 DEF ApproveParked, ReviewType
<1>2. CASE ~Resolvable(r)
  <2>1. rows' = rows /\ waiting' = waiting /\ rows[r].status # "pending"
    BY <1>1, <1>2 DEF ApproveParked, Resolvable
  <2>2. RowsResolve /\ ResolvedOnce'
    BY <2>1 DEF Core, ReviewType, RowsResolve, ResolvedOnce
  <2>3. QED
    BY <1>1, <2>1, <2>2, ResolvedRowsKeep
<1>3. CASE Resolvable(r)
  <2> DEFINE e == [rows[r] EXCEPT !.status = "approved", !.sent = 1]
             h == [task |-> rows[r].task, phase |-> rows[r].phase]
  <2>0. /\ rows[r].status = "pending" /\ waiting' = Append(waiting, h)
        /\ rows' = [rows EXCEPT ![r].status = "approved", ![r].sent = rows[r].sent + 1]
    BY <1>3 DEF ApproveParked, Resolvable
  <2>2. rows[r] \in Row /\ rows[r].sent = 0 /\ rows[r].pooled = 0 /\ rows[r].task # 0
    BY <1>0, <1>1, <2>0, CoreFacts DEF Core, ResolvedOnce, Numbered
  <2>1. rows' = [rows EXCEPT ![r] = e]
    <3>1. rows[r].sent + 1 = 1
      BY <2>2
    <3>2. QED
      BY <1>1, <2>0, <2>2, <3>1
  <2>3. /\ e \in Row /\ e.status = "approved" /\ e.task = rows[r].task /\ e.phase = rows[r].phase
        /\ e.sent = 1 /\ e.pooled = 0
    BY <2>2, ApprovedRow
  <2>4. h \in Handed /\ h.task = rows[r].task
    BY <2>2 DEF Row, Handed
  <2> HIDE DEF e, h
  <2>5. RowsResolve /\ ResolvedOnce' /\ rows'[r] = e
    BY <1>1, <2>0, <2>1, <2>3, OneRowResolves
  <2>6. /\ ReviewType' /\ Len(rows') = Len(rows)
        /\ \A q \in DOMAIN rows' : Waits(q)' => Waits(q) /\ q \in parked'
    BY <1>1, <2>3, <2>5, RowsResolveKeeps
  <2>7. /\ h.task \notin {job.task, ship.task} /\ h.task <= tasks /\ h.task # 0
        /\ \A i \in DOMAIN waiting : waiting[i].task # h.task
        /\ \A q \in DOMAIN rows' : Waits(q)' => rows'[q].task # h.task
    <3>1. Waits(r) /\ ~Waits(r)'
      BY <1>1, <2>0, <2>3, <2>5 DEF Waits
    <3>2. /\ h.task \notin {job.task, ship.task}
          /\ \A i \in DOMAIN waiting : waiting[i].task # h.task
      BY <1>0, <1>1, <2>4, <3>1 DEF ParkedInOnePlace
    <3>3. \A q \in DOMAIN rows' : Waits(q)' => rows'[q].task # h.task
      BY <1>0, <1>1, <2>4, <2>5, <2>6, <3>1 DEF ParkedInOnePlace, Waits, RowsResolve
    <3>4. QED
      BY <1>0, <1>1, <2>2, <2>4, <3>2, <3>3 DEF Numbered
  <2>8. /\ waiting' \in Seq(Handed)
        /\ DOMAIN waiting = 1..Len(waiting) /\ Len(waiting) \in Nat
        /\ DOMAIN waiting' = DOMAIN waiting \union {Len(waiting) + 1}
        /\ \A i \in DOMAIN waiting : waiting'[i] = waiting[i]
        /\ waiting'[Len(waiting) + 1] = h
    BY <1>0, <2>0, <2>4, AppendFacts DEF TasksType
  <2>9. TasksType'
    BY <1>0, <1>1, <2>8 DEF TasksType, Job, Handed, Projects, Generations, Phases
  <2>10. HandedOnce'
    BY <1>0, <1>1, <2>7, <2>8 DEF HandedOnce
  <2>11. Numbered' /\ RoomIsKept'
    BY <1>0, <1>1, <2>5, <2>6, <2>7, <2>8 DEF Numbered, RoomIsKept, RowsResolve, NoShip
  <2>12. ParkedInOnePlace'
    <3> SUFFICES ASSUME NEW q \in DOMAIN rows', Waits(q)'
                 PROVE  /\ q \in parked' /\ rows'[q].task \notin {job'.task, ship'.task}
                        /\ \A i \in DOMAIN waiting' : waiting'[i].task # rows'[q].task
                        /\ \A p \in DOMAIN rows' \ {q} :
                              rows'[p].status = "pending" => rows'[p].task # rows'[q].task
      BY DEF ParkedInOnePlace
    <3>1. Waits(q) /\ q \in parked' /\ q \in DOMAIN rows /\ rows'[q].task = rows[q].task
      BY <2>5, <2>6 DEF RowsResolve
    <3>2. \A i \in DOMAIN waiting' : waiting'[i].task # rows'[q].task
      BY <1>0, <2>7, <2>8, <3>1 DEF ParkedInOnePlace
    <3>3. QED
      BY <1>0, <1>1, <2>5, <3>1, <3>2 DEF ParkedInOnePlace, RowsResolve
  <2>13. QED
    BY <2>5, <2>6, <2>9, <2>10, <2>11, <2>12 DEF Core
<1>4. QED
  BY <1>2, <1>3

LEMMA ExpiredFacts ==
  ASSUME Core, NEW last, rows' = Expired(rows, last)
  PROVE  RowsResolve /\ ResolvedOnce'
         /\ (last = Len(rows) => \A r \in DOMAIN rows' : rows'[r].status # "pending")
<1>0. /\ DOMAIN rows = 1..Len(rows) /\ Len(rows) \in Nat
      /\ \A r \in DOMAIN rows : rows[r] \in Row
      /\ ResolvedOnce
  BY CoreFacts DEF Core
<1>1. DOMAIN rows' = DOMAIN rows
  BY DEF Expired
<1>2. \A r \in DOMAIN rows :
         \/ rows'[r] = rows[r]
         \/ rows[r].status = "pending" /\ rows'[r] = [rows[r] EXCEPT !.status = "expired"]
  BY DEF Expired
<1>3. ASSUME NEW r \in DOMAIN rows
      PROVE  /\ rows'[r] \in Row
             /\ rows'[r].task = rows[r].task /\ rows'[r].phase = rows[r].phase
             /\ rows'[r].sent = rows[r].sent /\ rows'[r].pooled = rows[r].pooled
             /\ rows'[r] = rows[r] \/ (rows[r].status = "pending" /\ rows'[r].status = "expired")
  <2>1. CASE rows'[r] = rows[r]
    BY <1>0, <2>1
  <2>2. CASE rows[r].status = "pending" /\ rows'[r] = [rows[r] EXCEPT !.status = "expired"]
    BY <1>0, <2>2 DEF Row, Statuses
  <2>3. QED
    BY <1>2, <2>1, <2>2
<1>4. rows' \in Seq(Row)
  <2>1. rows' = [r \in 1..Len(rows) |-> rows'[r]]
    BY <1>0, <1>1 DEF Expired
  <2>2. rows' \in [1..Len(rows) -> Row]
    BY <1>0, <1>3, <2>1
  <2>3. QED
    BY <1>0, <2>2, SeqDef
<1>5. ResolvedOnce'
  <2> SUFFICES ASSUME NEW r \in DOMAIN rows
               PROVE  /\ rows'[r].sent = (IF rows'[r].status = "approved"
                                             /\ rows'[r].phase # "none" THEN 1 ELSE 0)
                      /\ rows'[r].pooled = (IF rows'[r].status = "approved"
                                               /\ rows'[r].phase = "none" THEN 1 ELSE 0)
    BY <1>1 DEF ResolvedOnce
  <2>1. /\ rows[r].sent = (IF rows[r].status = "approved" /\ rows[r].phase # "none" THEN 1 ELSE 0)
        /\ rows[r].pooled = (IF rows[r].status = "approved" /\ rows[r].phase = "none" THEN 1 ELSE 0)
    BY <1>0 DEF ResolvedOnce
  <2>2. CASE rows'[r] = rows[r]
    BY <2>1, <2>2
  <2>3. CASE rows[r].status = "pending" /\ rows'[r].status = "expired"
    BY <1>3, <2>1, <2>3
  <2>4. QED
    BY <1>3, <2>2, <2>3
<1>6. RowsResolve
  BY <1>1, <1>3, <1>4 DEF RowsResolve
<1>7. last = Len(rows) => \A r \in DOMAIN rows' : rows'[r].status # "pending"
  <2> SUFFICES ASSUME last = Len(rows), NEW r \in DOMAIN rows
               PROVE  rows'[r].status # "pending"
    BY <1>1
  <2>1. r <= last
    BY <1>0
  <2>2. rows'[r] = IF rows[r].status = "pending" THEN [rows[r] EXCEPT !.status = "expired"]
                   ELSE rows[r]
    BY <2>1 DEF Expired
  <2>3. rows[r] \in Row
    BY <1>0
  <2>4. QED
    BY <2>2, <2>3 DEF Row
<1>8. QED
  BY <1>5, <1>6, <1>7

LEMMA RowsExpireKeeps ==
  ASSUME Core, Sweep \/ Restart
  PROVE  Core'
<1>1. CASE Sweep
  <2>1. PICK last : rows' = Expired(rows, last)
    BY <1>1 DEF Sweep
  <2>2. parked' = parked /\ UNCHANGED <<job, waiting, ship, tasks>>
    BY <1>1 DEF Sweep, session
  <2>3. QED
    BY <2>1, <2>2, ExpiredFacts, ResolvedRowsKeep
<1>2. CASE Restart
  <2>1. /\ rows' = Expired(rows, Len(rows)) /\ parked' = {} /\ job' = NoJob /\ waiting' = <<>>
        /\ ship' = NoShip /\ tasks' = tasks
    BY <1>2 DEF Restart
  <2>2. RowsResolve /\ ResolvedOnce' /\ \A r \in DOMAIN rows' : rows'[r].status # "pending"
    BY <2>1, ExpiredFacts
  <2>3. ReviewType' /\ (\A r \in DOMAIN rows' : ~Waits(r)')
    BY <2>1, <2>2, RowsResolveKeeps DEF RowsResolve, Waits, Core, ReviewType
  <2>4. waiting' \in Seq(Handed) /\ DOMAIN waiting' = {}
    BY <2>1
  <2>5. TasksType /\ Numbered
    BY DEF Core
  <2>6. TasksType'
    BY <2>1, <2>4, <2>5, NoJobFacts
       DEF TasksType, Job, Handed, Projects, Generations, Phases
  <2>7. HandedOnce' /\ RoomIsKept'
    BY <2>1, <2>4, NoJobFacts DEF HandedOnce, RoomIsKept
  <2>8. Numbered'
    BY <2>1, <2>2, <2>4, <2>5, NoJobFacts DEF Numbered, RowsResolve, TasksType, NoShip
  <2>9. ParkedInOnePlace'
    BY <2>3 DEF ParkedInOnePlace
  <2>10. QED
    BY <2>2, <2>3, <2>6, <2>7, <2>8, <2>9 DEF Core
<1>3. QED
  BY <1>1, <1>2

-------------------------------------------------------------------------------
(***************************************************************************)
(* Every step                                                              *)
(***************************************************************************)

LEMMA RunningJobKeeps ==
  ASSUME Core, ProjectType, ScreenApproves \/ TurnHolds \/ Halt
  PROVE  Core'
<1>0. job \in Job /\ job.at \in {"none", "screen", "turn", "parking", "aborted"}
      /\ generation \in Projects /\ holdover \in Projects
  BY DEF Core, TasksType, Job, ProjectType, Projects
<1>1. CASE ScreenApproves
  <2>1. /\ job' = [job EXCEPT !.at = "turn", !.gen = generation, !.from = holdover]
        /\ job.at = "screen" /\ UNCHANGED <<waiting, ship, tasks, rows, parked>>
    BY <1>1 DEF ScreenApproves, review
  <2> DEFINE i == [job EXCEPT !.at = "turn"]
             j == [i EXCEPT !.gen = generation]
             k == [j EXCEPT !.from = holdover]
  <2>2. job' = k
    BY <1>0, <2>1 DEF Job
  <2>3. i \in Job /\ i.task = job.task /\ i.at = "turn"
    BY <1>0 DEF Job
  <2> HIDE DEF i
  <2>4. j \in Job /\ j.task = job.task /\ j.at = "turn"
    BY <1>0, <2>3 DEF Job
  <2> HIDE DEF j
  <2>5. k \in Job /\ k.task = job.task /\ k.at = "turn"
    BY <1>0, <2>4 DEF Job
  <2> HIDE DEF k
  <2>6. JobMoves
    BY <2>1, <2>2, <2>5 DEF JobMoves
  <2>7. QED
    BY <2>6, JobMovesKeeps
<1>2. CASE TurnHolds
  <2>1. /\ job' = [job EXCEPT !.at = "parking"] /\ job.at = "turn" /\ Len(rows) < MaxRows
        /\ UNCHANGED <<waiting, ship, tasks, rows, parked>>
    BY <1>2, CoreFacts DEF TurnHolds, review, Room
  <2>2. JobMoves
    BY <1>0, <2>1 DEF JobMoves, Job
  <2>3. QED
    BY <2>2, JobMovesKeeps
<1>3. CASE Halt
  <2>1. UNCHANGED <<waiting, ship, tasks, rows, parked>>
    BY <1>3 DEF Halt, review
  <2>2. CASE job.at \in {"screen", "turn"}
    <3>1. job' = [job EXCEPT !.at = "aborted"]
      BY <1>3, <2>2 DEF Halt
    <3>2. JobMoves
      BY <1>0, <2>1, <2>2, <3>1 DEF JobMoves, Job
    <3>3. QED
      BY <3>2, JobMovesKeeps
  <2>3. CASE job.at \notin {"screen", "turn"}
    <3>1. job' = job
      BY <1>3, <2>3 DEF Halt
    <3>2. QED
      BY <2>1, <3>1, NothingMovesKeeps
  <2>4. QED
    BY <2>2, <2>3
<1>4. QED
  BY <1>1, <1>2, <1>3

LEMMA SessionKeeps ==
  ASSUME Core, ProjectType,
         \/ StartBuild \/ BeginBuild \/ ScreenHolds \/ Park
         \/ BuildDone \/ BuildFails \/ AbortSettles
         \/ StartShip \/ ShipConfirmed \/ ShipFails
  PROVE  Core'
<1>1. CASE StartBuild
  <2>1. WinnerWaits
    BY <1>1 DEF StartBuild, WinnerWaits, review
  <2>2. QED
    BY <2>1, WinnerWaitsKeeps
<1>2. CASE BeginBuild
  <2>1. /\ job = NoJob /\ waiting # <<>> /\ waiting' = Tail(waiting)
        /\ UNCHANGED <<ship, tasks, rows, parked>>
    BY <1>2 DEF BeginBuild, review
  <2>2. Head(waiting).task \in 0..MaxTasks /\ generation \in Projects /\ holdover \in Projects
    <3>1. Head(waiting) = waiting[1] /\ 1 \in DOMAIN waiting
      BY <2>1, TailFacts DEF Core, TasksType
    <3>2. waiting[1] \in Handed /\ MaxTasks \in Nat
      BY <3>1, CoreFacts
    <3>3. QED
      BY <3>1, <3>2 DEF Handed, ProjectType, Projects
  <2>3. CASE mode = "HALTED"
    <3>1. JobBegins
      BY <1>2, <2>1, <2>3 DEF BeginBuild, JobBegins
    <3>2. QED
      BY <3>1, JobBeginsKeeps
  <2>4. CASE mode # "HALTED"
    <3>1. PICK at \in {"turn", "screen"} :
             job' = [task |-> Head(waiting).task, gen |-> generation, from |-> holdover, at |-> at]
      BY <1>2, <2>4 DEF BeginBuild
    <3>2. job' \in Job /\ job'.task = Head(waiting).task /\ job'.at \in {"turn", "screen"}
      BY <2>2, <3>1 DEF Job
    <3>3. JobBegins
      BY <2>1, <3>2 DEF JobBegins
    <3>4. QED
      BY <3>3, JobBeginsKeeps
  <2>5. QED
    BY <2>3, <2>4
<1>3. CASE ScreenHolds
  <2>1. JobHeld("pre-build")
    BY <1>3, CoreFacts DEF ScreenHolds, JobHeld, Room
  <2>2. QED
    BY <2>1, JobHeldKeeps
<1>4. CASE Park
  <2>1. JobHeld("mid-build")
    BY <1>4 DEF Park, JobHeld, Core, RoomIsKept
  <2>2. QED
    BY <2>1, JobHeldKeeps
<1>5. CASE BuildDone \/ BuildFails \/ AbortSettles
  <2>1. JobEnds
    BY <1>5 DEF BuildDone, BuildFails, AbortSettles, JobEnds, review
  <2>2. QED
    BY <2>1, JobEndsKeeps
<1>6. CASE StartShip
  <2>1. ShipBegins /\ generation \in Generations
    BY <1>6 DEF StartShip, ShipBegins, review, ProjectType
  <2>2. QED
    BY <2>1, ShipBeginsKeeps
<1>7. CASE ShipConfirmed \/ ShipFails
  <2>1. ShipEnds
    BY <1>7 DEF ShipConfirmed, ShipFails, ShipEnds, review
  <2>2. QED
    BY <2>1, ShipEndsKeeps
<1>8. QED
  BY <1>1, <1>2, <1>3, <1>4, <1>5, <1>6, <1>7

LEMMA ReviewKeeps ==
  ASSUME Core, NEW r \in DOMAIN rows,
         \/ ApproveIntake(r) \/ RejectIntake(r)
         \/ ApproveParked(r) \/ RejectParked(r) \/ TimerFires(r)
  PROVE  Core'
<1>1. CASE ApproveIntake(r)
  BY <1>1, ApproveIntakeKeeps
<1>2. CASE RejectIntake(r)
  <2>1. RowEnds(r, "rejected")
    BY <1>2 DEF RejectIntake, RowEnds, Resolvable, session
  <2>2. QED
    BY <2>1, RowEndsKeeps
<1>3. CASE ApproveParked(r)
  BY <1>3, ApproveParkedKeeps
<1>4. CASE RejectParked(r)
  <2>1. RowEnds(r, "rejected")
    BY <1>4 DEF RejectParked, RowEnds, session
  <2>2. QED
    BY <2>1, RowEndsKeeps
<1>5. CASE TimerFires(r)
  <2>1. RowEnds(r, "expired")
    BY <1>5 DEF TimerFires, RowEnds, session
  <2>2. QED
    BY <2>1, RowEndsKeeps
<1>6. QED
  BY <1>1, <1>2, <1>3, <1>4, <1>5

LEMMA CoreKept ==
  ASSUME Core, ProjectType, [Next]_vars
  PROVE  Core'
<1>1. CASE \/ Supervisor \/ NewProject \/ Swap \/ Recover \/ UNCHANGED vars
  <2>1. UNCHANGED <<job, waiting, ship, tasks, rows, parked>>
    BY <1>1 DEF Supervisor, RerootStops, RerootStarts, RerootProbes, NewProject, Swap, Recover,
                vars, session, review
  <2>2. QED
    BY <2>1, NothingMovesKeeps
<1>2. CASE ScreenApproves \/ TurnHolds \/ Halt
  BY <1>2, RunningJobKeeps
<1>3. CASE \/ StartBuild \/ BeginBuild \/ ScreenHolds \/ Park
           \/ BuildDone \/ BuildFails \/ AbortSettles
           \/ StartShip \/ ShipConfirmed \/ ShipFails
  BY <1>3, SessionKeeps
<1>4. CASE HoldIntake
  BY <1>4, HoldIntakeKeeps
<1>5. CASE Sweep \/ Restart
  BY <1>5, RowsExpireKeeps
<1>6. ASSUME NEW r \in DOMAIN rows,
             \/ ApproveIntake(r) \/ RejectIntake(r)
             \/ ApproveParked(r) \/ RejectParked(r) \/ TimerFires(r)
      PROVE  Core'
  BY <1>6, ReviewKeeps
<1>7. QED
  BY <1>1, <1>2, <1>3, <1>4, <1>5, <1>6 DEF Next

-------------------------------------------------------------------------------
(***************************************************************************)
(* The preview, the project and the mode                                   *)
(***************************************************************************)

LEMMA InitHolds == Init => IInv
<1> SUFFICES ASSUME Init PROVE IInv
  OBVIOUS
<1>1. /\ MaxGeneration \in Nat \ {0} /\ MaxTasks \in Nat /\ MaxRows \in Nat
      /\ MaxMoves \in Nat /\ MaxOutages \in Nat
  BY HeldReviewAssumption DEF HeldReviewAssumption
<1>2. waiting \in Seq(Handed) /\ DOMAIN waiting = {} /\ rows \in Seq(Row) /\ DOMAIN rows = {}
      /\ Len(rows) = 0
  BY DEF Init
<1>3. TasksType /\ ReviewType
  BY <1>1, <1>2, NoJobFacts DEF Init, TasksType, ReviewType
<1>4. HandedOnce /\ Numbered /\ RoomIsKept /\ ResolvedOnce /\ ParkedInOnePlace
  BY <1>2, NoJobFacts DEF Init, HandedOnce, Numbered, RoomIsKept, ResolvedOnce, ParkedInOnePlace
<1>5. ModeType /\ ProjectType
  BY <1>1 DEF Init, ModeType, ProjectType, Projects, Generations
<1>6. ServerType /\ CycleCounted
  BY <1>1 DEF Init, ServerType, CycleCounted, Projects, NoCycle
<1>7. FlagsType
  BY DEF Init, FlagsType
<1>8. QED
  BY <1>3, <1>4, <1>5, <1>6, <1>7 DEF IInv, TypeOK, Core

LEMMA ModeKept ==
  ASSUME IInv, [Next]_vars
  PROVE  ModeType'
<1>1. ModeType /\ MaxOutages \in Nat
  BY HeldReviewAssumption DEF IInv, TypeOK, HeldReviewAssumption
<1>2. CASE Halt \/ Recover \/ Restart
  BY <1>1, <1>2 DEF Halt, Recover, Restart, ModeType
<1>3. CASE Next /\ ~(Halt \/ Recover \/ Restart)
  BY <1>1, <1>3 DEF Next, Supervisor, RerootStops, RerootStarts, RerootProbes,
      StartBuild, BeginBuild, ScreenApproves, ScreenHolds, TurnHolds, Park,
      BuildDone, BuildFails, AbortSettles, NewProject, Swap, StartShip, ShipConfirmed, ShipFails,
      HoldIntake, Sweep, ApproveIntake, RejectIntake, ApproveParked, RejectParked, TimerFires,
      LeaveBuild, session, ModeType
<1>4. CASE UNCHANGED vars
  BY <1>1, <1>4 DEF vars, session, ModeType
<1>5. QED
  BY <1>2, <1>3, <1>4

LEMMA ProjectKept ==
  ASSUME IInv, [Next]_vars
  PROVE  ProjectType'
<1>1. /\ ProjectType /\ MaxMoves \in Nat /\ MaxGeneration \in Nat
      /\ generation \in Projects /\ ship.gen \in Projects /\ 0 \in Projects
  BY HeldReviewAssumption DEF IInv, TypeOK, HeldReviewAssumption, ProjectType, Projects, TasksType
<1>2. CASE NewProject \/ Swap
  BY <1>1, <1>2 DEF NewProject, Swap, Move, RerootNow, ProjectType, Projects, Generations
<1>3. CASE ShipConfirmed
  BY <1>1, <1>3 DEF ShipConfirmed, HoldOver, ProjectType, Generations
<1>4. CASE BuildDone
  BY <1>1, <1>4 DEF BuildDone, RerootNow, ProjectType
<1>5. CASE Restart
  BY <1>1, <1>5 DEF Restart, project, ProjectType
<1>6. CASE Next /\ ~(NewProject \/ Swap \/ ShipConfirmed \/ BuildDone \/ Restart)
  BY <1>1, <1>6 DEF Next, Supervisor, RerootStops, RerootStarts, RerootProbes,
      StartBuild, BeginBuild, ScreenApproves, ScreenHolds, TurnHolds, Park,
      BuildFails, AbortSettles, StartShip, ShipFails,
      HoldIntake, Sweep, ApproveIntake, RejectIntake, ApproveParked, RejectParked, TimerFires,
      Halt, Recover, project, taint, ProjectType
<1>7. CASE UNCHANGED vars
  BY <1>1, <1>7 DEF vars, project, taint, ProjectType
<1>8. QED
  BY <1>2, <1>3, <1>4, <1>5, <1>6, <1>7

Cycles == [at : {"none", "stopped", "settling"}, dir : Projects, attempt : 0..1]

\* The steps outside the supervisor leave the cycle alone and take no reroot away.
LEMMA OthersKeepServer ==
  ASSUME IInv, serving' \in Projects, cycle' = cycle, reroots' \in {reroots, OneMore}
  PROVE  ServerType' /\ CycleCounted'
<1>1. ServerType /\ CycleCounted
  BY DEF IInv, TypeOK
<1>2. reroots' \in 0..2 /\ reroots' >= reroots
  BY <1>1 DEF ServerType, OneMore
<1>3. QED
  BY <1>1, <1>2 DEF ServerType, CycleCounted, Projects, Generations, NoCycle

LEMMA ServerKept ==
  ASSUME IInv, [Next]_vars
  PROVE  ServerType' /\ CycleCounted'
<1>1. /\ ServerType /\ CycleCounted /\ serving \in Projects /\ 0 \in Projects
      /\ Wanted \in Projects /\ cycle \in Cycles
      /\ NoCycle \in Cycles /\ [NoCycle EXCEPT !.attempt = 1] \in Cycles
  BY DEF IInv, TypeOK, ServerType, Projects, Wanted, ProjectType, NoCycle, Cycles
<1>2. ASSUME cycle' \in Cycles, serving' \in Projects, reroots > 0,
             \/ reroots' = reroots
             \/ reroots' = reroots - 1 /\ cycle' = NoCycle
      PROVE  ServerType' /\ CycleCounted'
  BY <1>1, <1>2 DEF ServerType, CycleCounted, Projects, Generations, Cycles, NoCycle
<1>3. CASE RerootStops
  <2>1. reroots > 0
    BY <1>3 DEF RerootStops
  <2>2. CASE /\ cycle' = [cycle EXCEPT !.at = "stopped", !.dir = Wanted]
             /\ serving' = 0 /\ reroots' = reroots
    <3> DEFINE c == [cycle EXCEPT !.at = "stopped"]
    <3>1. c \in Cycles
      BY <1>1 DEF Cycles
    <3>2. cycle' = [c EXCEPT !.dir = Wanted]
      BY <1>1, <2>2 DEF Cycles
    <3> HIDE DEF c
    <3>3. cycle' \in Cycles
      BY <1>1, <3>1, <3>2 DEF Cycles
    <3>4. QED
      BY <1>1, <1>2, <2>1, <2>2, <3>3
  <2>3. CASE cycle' = NoCycle /\ reroots' = reroots - 1 /\ serving' = serving
    BY <1>1, <1>2, <2>1, <2>3
  <2>4. QED
    BY <1>3, <2>2, <2>3 DEF RerootStops, ServerStops
<1>4. CASE RerootStarts
  <2>1. reroots > 0
    BY <1>1, <1>4 DEF RerootStarts, CycleCounted, NoCycle
  <2>2. CASE cycle' = [cycle EXCEPT !.at = "settling"] /\ serving' = cycle.dir /\ reroots' = reroots
    <3>1. cycle' \in Cycles /\ serving' \in Projects
      BY <1>1, <2>2 DEF Cycles
    <3>2. QED
      BY <1>2, <2>1, <2>2, <3>1
  <2>3. CASE cycle' = NoCycle /\ reroots' = reroots - 1 /\ serving' = serving
    BY <1>1, <1>2, <2>1, <2>3
  <2>4. QED
    BY <1>4, <2>2, <2>3 DEF RerootStarts, ServerStarts
<1>5. CASE RerootProbes
  <2>1. reroots > 0 /\ serving' = serving
    BY <1>1, <1>5 DEF RerootProbes, CycleCounted, NoCycle
  <2>2. CASE cycle' = NoCycle /\ reroots' = reroots - 1
    BY <1>1, <1>2, <2>1, <2>2
  <2>3. CASE cycle' = [NoCycle EXCEPT !.attempt = 1] /\ reroots' = reroots
    BY <1>1, <1>2, <2>1, <2>3
  <2>4. QED
    BY <1>5, <2>2, <2>3 DEF RerootProbes
<1>6. CASE Restart
  <2>1. cycle' = NoCycle /\ reroots' = 1 /\ serving' = serving
    BY <1>6 DEF Restart
  <2>2. QED
    BY <1>1, <2>1 DEF ServerType, CycleCounted, Projects, Generations, Cycles
<1>7. CASE Next /\ ~(Supervisor \/ Restart)
  <2>1. serving' \in {0, serving} /\ cycle' = cycle /\ reroots' \in {reroots, OneMore}
    BY <1>7 DEF Next, StartBuild, BeginBuild, ScreenApproves, ScreenHolds, TurnHolds, Park,
      BuildDone, BuildFails, AbortSettles, NewProject, Swap, StartShip, ShipConfirmed, ShipFails,
      HoldIntake, Sweep, ApproveIntake, RejectIntake, ApproveParked, RejectParked, TimerFires,
      Halt, Recover, Move, RerootNow, HoldOver, Reroot, NoReroot, Teardown, server
  <2>2. QED
    BY <1>1, <2>1, OthersKeepServer
<1>8. CASE UNCHANGED vars
  BY <1>1, <1>8, OthersKeepServer DEF vars, server
<1>9. QED
  BY <1>3, <1>4, <1>5, <1>6, <1>7, <1>8 DEF Supervisor

LEMMA FlagsKept ==
  ASSUME IInv, [Next]_vars
  PROVE  FlagsType'
<1>0. FlagsType
  BY DEF IInv, TypeOK
<1>1. CASE Supervisor \/ NewProject \/ Swap \/ BuildDone \/ ShipConfirmed
  BY <1>0, <1>1, Zenon DEF Supervisor, RerootStops, RerootStarts, RerootProbes, NewProject, Swap,
      BuildDone, ShipConfirmed, Move, RerootNow, HoldOver, Reroot, NoReroot,
      project, taint, server, FlagsType
<1>2. CASE Park \/ \E r \in DOMAIN rows : ApproveParked(r)
  BY <1>0, <1>2, Zenon DEF Park, ApproveParked, Reroot, NoReroot, project, taint, server, FlagsType
<1>3. CASE BuildFails \/ AbortSettles \/ Halt \/ Recover \/ Restart
  BY <1>0, <1>3, Zenon DEF BuildFails, AbortSettles, Halt, Recover, Restart, Teardown,
      Reroot, NoReroot, project, taint, server, FlagsType
<1>4. CASE StartBuild \/ BeginBuild \/ ScreenApproves \/ ScreenHolds \/ TurnHolds
  BY <1>0, <1>4, Zenon DEF StartBuild, BeginBuild, ScreenApproves, ScreenHolds, TurnHolds,
      project, taint, server, FlagsType
<1>5. CASE StartShip \/ ShipFails \/ HoldIntake \/ Sweep
  BY <1>0, <1>5, Zenon DEF StartShip, ShipFails, HoldIntake, Sweep, project, taint, server, FlagsType
<1>6. CASE \E r \in DOMAIN rows :
             ApproveIntake(r) \/ RejectIntake(r) \/ RejectParked(r) \/ TimerFires(r)
  BY <1>0, <1>6, Zenon DEF ApproveIntake, RejectIntake, RejectParked, TimerFires,
      project, taint, server, FlagsType
<1>7. CASE UNCHANGED vars
  BY <1>0, <1>7, Zenon DEF vars, project, taint, server, FlagsType
<1>8. QED
  BY <1>1, <1>2, <1>3, <1>4, <1>5, <1>6, <1>7 DEF Next

LEMMA Invariance == Spec => []IInv
<1>1. IInv /\ [Next]_vars => IInv'
  <2> SUFFICES ASSUME IInv, [Next]_vars PROVE IInv'
    OBVIOUS
  <2>1. Core'
    BY CoreKept DEF IInv, TypeOK
  <2>2. ModeType' /\ ProjectType' /\ ServerType' /\ CycleCounted' /\ FlagsType'
    BY ModeKept, ProjectKept, ServerKept, FlagsKept
  <2>3. QED
    BY <2>1, <2>2 DEF IInv, TypeOK, Core
<1>2. QED
  BY <1>1, InitHolds, PTL DEF Spec

-------------------------------------------------------------------------------
(***************************************************************************)
(* The theorems                                                            *)
(***************************************************************************)

\* The state of the review, of the session and of the preview is well typed, and a reroot
\* under way is one that was asked for.
THEOREM TypeCorrect == Spec => []TypeOK
<1>1. IInv => TypeOK
  BY DEF IInv
<1>2. QED
  BY <1>1, Invariance, PTL

\* However approval, refusal, timer, sweep and restart race, a hold has one end, and its
\* effect happens once.
THEOREM EveryHoldEndsOnce == Spec => []ResolvedOnce
<1>1. IInv => ResolvedOnce
  BY DEF IInv, Core
<1>2. QED
  BY <1>1, Invariance, PTL

\* A parked build is on the shelf and nowhere else: neither waiting, running, shipping nor
\* held a second time.
THEOREM ParkedIsNowhereElse == Spec => []ParkedInOnePlace
<1>1. IInv => ParkedInOnePlace
  BY DEF IInv, Core
<1>2. QED
  BY <1>1, Invariance, PTL

-------------------------------------------------------------------------------
(***************************************************************************)
(* What is on screen                                                       *)
(***************************************************************************)

\* A reroot with none behind it serves what is wanted still; a ship that waits will hold over
\* the project that is on screen already.
Screen ==
    /\ holdover # 0 => ~scaffolded
    /\ ship # NoShip /\ ~overtaken => ship.gen = generation /\ holdover = 0
    /\ ~overtaken /\ reroots = 1 /\ cycle.at # "none" => cycle.dir = Wanted
    /\ cycle.at = "settling" => serving \in {0, cycle.dir}
    /\ ~overtaken /\ ~gaveUp /\ reroots = 0 => serving \in {0, Wanted}

\* Steps that move neither the project nor what is held over.
LEMMA ScreenStays ==
  ASSUME IInv, Screen, UNCHANGED <<holdover, generation, overtaken, gaveUp, cycle>>,
         scaffolded' = scaffolded, ship' \in {ship, NoShip}, serving' \in {0, serving},
         reroots' \in {reroots, OneMore}
  PROVE  Screen'
<1>1. reroots \in 0..2 /\ (cycle # NoCycle => reroots > 0) /\ Wanted' = Wanted
  BY DEF IInv, TypeOK, ServerType, CycleCounted, Wanted
<1>2. CASE reroots' = reroots
  BY <1>1, <1>2 DEF Screen
<1>3. CASE reroots' # reroots
  <2>1. reroots' = 1 => cycle = NoCycle
    BY <1>1, <1>3 DEF OneMore
  <2>2. reroots' # 0 /\ NoCycle.at = "none"
    BY <1>1, <1>3 DEF OneMore, NoCycle
  <2>3. QED
    BY <1>1, <2>1, <2>2 DEF Screen
<1>4. QED
  BY <1>2, <1>3

\* A move of the project asks for a reroot.
LEMMA ScreenMoves ==
  ASSUME IInv, Screen, NewProject \/ Swap
  PROVE  Screen'
<1>1. /\ holdover' = 0 /\ cycle' = cycle /\ serving' = serving /\ reroots' = OneMore
      /\ ship' = ship /\ (ship # NoShip => overtaken')
  BY DEF NewProject, Swap, Move, RerootNow, Reroot, session
<1>2. reroots \in 0..2 /\ (cycle # NoCycle => reroots > 0) /\ NoCycle.at = "none"
  BY DEF IInv, TypeOK, ServerType, CycleCounted, NoCycle
<1>3. reroots' # 0 /\ (reroots' = 1 => cycle = NoCycle)
  BY <1>1, <1>2 DEF OneMore
<1>4. QED
  BY <1>1, <1>2, <1>3 DEF Screen

\* The project that a confirmed ship holds over is the one on screen.
LEMMA ScreenHeldOver ==
  ASSUME IInv, Screen, ShipConfirmed
  PROVE  Screen'
<1>1. /\ ship # NoShip /\ ship' = NoShip /\ scaffolded' = FALSE /\ overtaken' = overtaken
      /\ holdover' = ship.gen /\ UNCHANGED <<serving, reroots, cycle, gaveUp>>
  BY DEF ShipConfirmed, HoldOver, NoReroot, server
<1>2. ~overtaken => Wanted' = Wanted
  <2>1. generation # 0
    BY HeldReviewAssumption
       DEF IInv, TypeOK, ProjectType, Generations, HeldReviewAssumption
  <2>2. QED
    BY <1>1, <2>1 DEF Screen, Wanted
<1>3. QED
  BY <1>1, <1>2 DEF Screen

LEMMA ScreenBuilt ==
  ASSUME IInv, Screen, BuildDone
  PROVE  Screen'
<1>1. ship' = ship /\ overtaken' = overtaken /\ generation' = generation
  BY DEF BuildDone
<1>2. CASE holdover # 0 \/ previewParked
  <2>1. /\ holdover' = 0 /\ cycle' = cycle /\ serving' = serving /\ reroots' = OneMore
    BY <1>2 DEF BuildDone, RerootNow, Reroot
  <2>2. reroots \in 0..2 /\ (cycle # NoCycle => reroots > 0) /\ NoCycle.at = "none"
    BY DEF IInv, TypeOK, ServerType, CycleCounted, NoCycle
  <2>3. reroots' # 0 /\ (reroots' = 1 => cycle = NoCycle)
    BY <2>1, <2>2 DEF OneMore
  <2>4. QED
    BY <1>1, <2>1, <2>2, <2>3 DEF Screen
<1>3. CASE ~(holdover # 0 \/ previewParked)
  <2>1. holdover' = 0 /\ holdover = 0 /\ UNCHANGED <<serving, reroots, cycle, gaveUp>>
    BY <1>3 DEF BuildDone, NoReroot, server
  <2>2. QED
    BY <1>1, <2>1 DEF Screen, Wanted
<1>4. QED
  BY <1>2, <1>3

LEMMA ScreenRerooted ==
  ASSUME IInv, Screen, Supervisor
  PROVE  Screen'
<1>1. /\ UNCHANGED <<holdover, scaffolded, ship, overtaken, generation>> /\ Wanted' = Wanted
  BY DEF Supervisor, RerootStops, RerootStarts, RerootProbes, session, project, taint, Wanted
<1>2. /\ reroots \in 0..2 /\ (cycle # NoCycle => reroots > 0) /\ NoCycle.at = "none"
      /\ cycle \in Cycles
  BY DEF IInv, TypeOK, ServerType, CycleCounted, NoCycle, Cycles
<1>3. ASSUME cycle' = NoCycle, reroots' = reroots - 1, gaveUp' = TRUE, serving' = serving
      PROVE  Screen'
  BY <1>1, <1>2, <1>3 DEF Screen
<1>4. CASE RerootStops
  <2>1. CASE /\ cycle' = [cycle EXCEPT !.at = "stopped", !.dir = Wanted]
             /\ serving' = 0 /\ reroots' = reroots /\ gaveUp' = gaveUp
    <3>1. cycle'.at = "stopped" /\ cycle'.dir = Wanted
      BY <1>2, <2>1 DEF Cycles
    <3>2. QED
      BY <1>1, <2>1, <3>1 DEF Screen
  <2>2. QED
    BY <1>3, <1>4, <2>1 DEF RerootStops, ServerStops
<1>5. CASE RerootStarts
  <2>1. CASE /\ cycle' = [cycle EXCEPT !.at = "settling"] /\ serving' = cycle.dir
             /\ reroots' = reroots /\ gaveUp' = gaveUp /\ cycle.at = "stopped"
    <3>1. cycle'.at = "settling" /\ cycle'.dir = cycle.dir /\ reroots' # 0
      BY <1>2, <2>1 DEF Cycles
    <3>2. QED
      BY <1>1, <2>1, <3>1 DEF Screen
  <2>2. QED
    BY <1>3, <1>5, <2>1 DEF RerootStarts, ServerStarts
<1>6. CASE RerootProbes
  <2>1. cycle.at = "settling" /\ serving' = serving /\ reroots # 0
    BY <1>2, <1>6 DEF RerootProbes
  <2>2. CASE serving # 0 /\ cycle' = NoCycle /\ reroots' = reroots - 1 /\ gaveUp' = FALSE
    BY <1>1, <1>2, <2>1, <2>2 DEF Screen
  <2>3. CASE cycle' = [NoCycle EXCEPT !.attempt = 1] /\ reroots' = reroots /\ gaveUp' = gaveUp
    <3>1. cycle'.at = "none"
      BY <2>3 DEF NoCycle
    <3>2. QED
      BY <1>1, <1>2, <2>1, <2>3, <3>1 DEF Screen
  <2>4. QED
    BY <1>3, <1>6, <2>2, <2>3 DEF RerootProbes
<1>7. QED
  BY <1>4, <1>5, <1>6 DEF Supervisor

LEMMA ScreenKept ==
  ASSUME IInv, Screen, [Next]_vars
  PROVE  Screen'
<1>1. CASE NewProject \/ Swap
  BY <1>1, ScreenMoves
<1>2. CASE Supervisor
  BY <1>2, ScreenRerooted
<1>3. CASE ShipConfirmed
  BY <1>3, ScreenHeldOver
<1>4. CASE BuildDone
  BY <1>4, ScreenBuilt
<1>5. CASE StartShip
  <2>1. /\ ship' = [task |-> tasks + 1, gen |-> generation] /\ scaffolded
        /\ UNCHANGED <<project, taint, server>>
    BY <1>5 DEF StartShip
  <2>2. ship'.gen = generation /\ Wanted' = Wanted
    BY <2>1 DEF project, taint, Wanted
  <2>3. QED
    BY <2>1, <2>2 DEF Screen, project, taint, server
<1>6. CASE Restart
  <2>1. /\ holdover' = 0 /\ ship' = NoShip /\ reroots' = 1 /\ cycle' = NoCycle
    BY <1>6 DEF Restart
  <2>2. NoCycle.at = "none"
    BY DEF NoCycle
  <2>3. QED
    BY <2>1, <2>2 DEF Screen
<1>7. CASE Next /\ ~(NewProject \/ Swap \/ Supervisor \/ ShipConfirmed \/ BuildDone
                      \/ StartShip \/ Restart)
  <2>1. /\ UNCHANGED <<holdover, generation, overtaken, gaveUp, cycle>>
        /\ scaffolded' = scaffolded /\ ship' \in {ship, NoShip} /\ serving' \in {0, serving}
        /\ reroots' \in {reroots, OneMore}
    BY <1>7 DEF Next, StartBuild, BeginBuild, ScreenApproves, ScreenHolds, TurnHolds, Park,
      BuildFails, AbortSettles, ShipFails,
      HoldIntake, Sweep, ApproveIntake, RejectIntake, ApproveParked, RejectParked, TimerFires,
      Halt, Recover, Reroot, NoReroot, Teardown, session, project, taint, server
  <2>2. QED
    BY <2>1, ScreenStays
<1>8. CASE UNCHANGED vars
  <2>1. /\ UNCHANGED <<holdover, generation, overtaken, gaveUp, cycle, serving, reroots, ship>>
        /\ scaffolded' = scaffolded
    BY <1>8 DEF vars, session, project, taint, server
  <2>2. QED
    BY <2>1, ScreenStays
<1>9. QED
  BY <1>1, <1>2, <1>3, <1>4, <1>5, <1>6, <1>7, <1>8

\* With no reroot left to do, the screen and the play link show the project on stage, or the
\* one held over while its successor is built.
THEOREM ScreenIsOnStage == Spec => []ScreenShowsProject
<1>1. Init => Screen
  BY DEF Init, Screen, NoCycle
<1>2. IInv /\ Screen /\ [Next]_vars => Screen'
  BY ScreenKept
<1>3. Screen => ScreenShowsProject
  BY DEF Screen, ScreenShowsProject, Wanted, Linked
<1>4. QED
  BY <1>1, <1>2, <1>3, Invariance, PTL DEF Spec

\* No step brings the preview back over a workspace that may hold a held batch.
THEOREM HeldBatchStaysOffScreen == Spec => WithheldWhileParked
<1>1. IInv /\ [Next]_vars => [Withheld /\ Withheld' => reroots' <= reroots]_vars
  <2> SUFFICES ASSUME IInv, Next, Withheld, Withheld' PROVE reroots' <= reroots
    BY DEF vars
  <2>0. reroots \in 0..2 /\ holdover = 0
    BY DEF IInv, TypeOK, ServerType, Withheld
  <2>1. CASE Supervisor
    BY <2>0, <2>1 DEF Supervisor, RerootStops, RerootStarts, RerootProbes
  <2>2. CASE NewProject \/ Swap \/ Restart
    BY <2>2 DEF NewProject, Swap, Restart, Move, RerootNow, Withheld
  <2>3. CASE BuildDone
    BY <2>0, <2>3 DEF BuildDone, RerootNow, NoReroot, server, Withheld
  <2>4. CASE Next /\ ~(Supervisor \/ NewProject \/ Swap \/ Restart \/ BuildDone)
    <3>1. reroots' = reroots
      BY <2>0, <2>4 DEF Next, StartBuild, BeginBuild, ScreenApproves, ScreenHolds, TurnHolds, Park,
        BuildFails, AbortSettles, StartShip, ShipConfirmed, ShipFails,
        HoldIntake, Sweep, ApproveIntake, RejectIntake, ApproveParked, RejectParked, TimerFires,
        Halt, Recover, HoldOver, NoReroot, Teardown, server, Withheld
    <3>2. QED
      BY <2>0, <3>1
  <2>5. QED
    BY <2>1, <2>2, <2>3, <2>4
<1>2. QED
  BY <1>1, Invariance, PTL DEF Spec, WithheldWhileParked
=================================================================================

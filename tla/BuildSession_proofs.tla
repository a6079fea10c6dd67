------------------------- MODULE BuildSession_proofs -------------------------
(***************************************************************************)
(* What holds of BuildSession for every set of tasks, and of Console, from *)
(* which the streamer answers the session's decisions, for any number of   *)
(* paid windows.                                                           *)
(***************************************************************************)
EXTENDS BuildSession, Console, SequenceTheorems, FiniteSetTheorems, TLAPS

-------------------------------------------------------------------------------
(***************************************************************************)
(* The jobs behind the running pipeline                                    *)
(***************************************************************************)

TasksOf(s) == {s[k].task : k \in DOMAIN s}

\* No task outside R waits twice.
Distinct(s, R) == \A j, k \in DOMAIN s : s[j].task = s[k].task => j = k \/ s[j].task \in R

\* A retry that waits has a controller a halt will abort, or one that has been aborted;
\* the tasks in R are run a second time and may have lost theirs.
Reached(j, R, halted) ==
  j.kind = "retry" /\ j.task \notin R => (j.heard \/ j.aborted) /\ (halted => j.aborted)

JobsOK(s, R, halted) ==
  s \in Seq(Job) /\ Distinct(s, R) /\ \A k \in DOMAIN s : Reached(s[k], R, halted)

LEMMA JobsAre ==
  ASSUME NEW s \in Seq(Job)
  PROVE  TasksOf(s) \subseteq Task /\ \A k \in DOMAIN s : s[k] \in Job /\ s[k].task \in TasksOf(s)
<1>1. \A k \in DOMAIN s : s[k] \in Job
  BY LenProperties, ElementOfSeq
<1>2. QED
  BY <1>1 DEF TasksOf, Job

LEMMA NoJobs ==
  ASSUME NEW R, NEW halted
  PROVE  JobsOK(<<>>, R, halted) /\ TasksOf(<<>>) = {}
<1>1. <<>> \in Seq(Job) /\ DOMAIN <<>> = {}
  BY EmptySeq
<1>2. QED
  BY <1>1 DEF JobsOK, Distinct, TasksOf

LEMMA MoreRepeated ==
  ASSUME NEW s, NEW R, NEW Q, NEW h \in BOOLEAN, NEW g \in BOOLEAN, JobsOK(s, R, h),
         R \subseteq Q, g => h
  PROVE  JobsOK(s, Q, g)
BY DEF JobsOK, Distinct, Reached

LEMMA AppendJob ==
  ASSUME NEW s, NEW R, JobsOK(s, R, FALSE), NEW e \in Job,
         e.task \notin TasksOf(s) \/ e.task \in R, e.kind = "retry" => e.heard
  PROVE  /\ JobsOK(Append(s, e), R, FALSE) /\ Append(s, e) # <<>>
         /\ TasksOf(Append(s, e)) = TasksOf(s) \union {e.task}
<1> DEFINE a == Append(s, e)
           n == Len(s) + 1
<1>0. s \in Seq(Job)
  BY DEF JobsOK
<1>1. /\ a \in Seq(Job) /\ DOMAIN a = 1..n /\ DOMAIN s = 1..Len(s) /\ Len(s) \in Nat
      /\ a[n] = e /\ \A k \in DOMAIN s : a[k] = s[k]
  BY <1>0, AppendProperties, LenProperties
<1> HIDE DEF a
<1>2. n \in Int /\ DOMAIN a = DOMAIN s \union {n} /\ n \notin DOMAIN s
  BY <1>1
<1>3. a # <<>>
  BY <1>2, EmptySeq
<1> HIDE DEF n
<1>4. Distinct(a, R)
  BY <1>1, <1>2 DEF Distinct, TasksOf, JobsOK
<1>5. TasksOf(a) = TasksOf(s) \union {e.task}
  BY <1>1, <1>2 DEF TasksOf
<1>6. \A k \in DOMAIN a : Reached(a[k], R, FALSE)
  BY <1>1, <1>2 DEF JobsOK, Reached
<1>7. QED
  BY <1>1, <1>3, <1>4, <1>5, <1>6 DEF JobsOK, a

LEMMA TailJobs ==
  ASSUME NEW s, NEW R, NEW h \in BOOLEAN, JobsOK(s, R, h), s # <<>>
  PROVE  /\ Head(s) \in Job /\ Head(s).task \in TasksOf(s) /\ Reached(Head(s), R, h)
         /\ JobsOK(Tail(s), R, h) /\ TasksOf(Tail(s)) \subseteq TasksOf(s)
         /\ Head(s).task \in R \/ Head(s).task \notin TasksOf(Tail(s))
<1> DEFINE b == Tail(s)
<1>0. s \in Seq(Job)
  BY DEF JobsOK
<1>1. /\ b \in Seq(Job) /\ DOMAIN b = 1..(Len(s) - 1) /\ DOMAIN s = 1..Len(s)
      /\ Len(s) \in Nat \ {0} /\ Head(s) = s[1] /\ s[1] \in Job
      /\ \A k \in DOMAIN b : b[k] = s[k + 1]
  BY <1>0, HeadTailProperties, LenProperties, ElementOfSeq, EmptySeq
<1> HIDE DEF b
<1>2. 1 \in DOMAIN s /\ \A k \in DOMAIN b : k + 1 \in DOMAIN s /\ k + 1 # 1 /\ k \in Int
  BY <1>1
<1>3. Distinct(b, R)
  <2> SUFFICES ASSUME NEW j \in DOMAIN b, NEW k \in DOMAIN b, b[j].task = b[k].task,
                      b[j].task \notin R
               PROVE  j = k
    BY DEF Distinct
  <2>1. j + 1 = k + 1
    BY <1>1, <1>2 DEF Distinct, JobsOK
  <2>2. QED
    BY <1>2, <2>1
<1>4. \A k \in DOMAIN b : b[k].task \in TasksOf(s) /\ (b[k].task = s[1].task => s[1].task \in R)
  BY <1>1, <1>2 DEF TasksOf, Distinct, JobsOK
<1>5. TasksOf(b) \subseteq TasksOf(s) /\ (s[1].task \in R \/ s[1].task \notin TasksOf(b))
  BY <1>4 DEF TasksOf
<1>6. \A k \in DOMAIN b : Reached(b[k], R, h)
  BY <1>1, <1>2 DEF JobsOK
<1>7. s[1].task \in TasksOf(s) /\ Reached(s[1], R, h)
  BY <1>2 DEF TasksOf, JobsOK
<1>8. QED
  BY <1>1, <1>3, <1>5, <1>6, <1>7 DEF b, JobsOK

\* A sequence of jobs rewritten job by job, none changing its task or its kind.
LEMMA MappedJobs ==
  ASSUME NEW s \in Seq(Job), NEW g, DOMAIN g = DOMAIN s, g = [k \in DOMAIN s |-> g[k]],
         \A k \in DOMAIN s : g[k] \in Job /\ g[k].task = s[k].task /\ g[k].kind = s[k].kind
  PROVE  /\ g \in Seq(Job) /\ TasksOf(g) = TasksOf(s) /\ (g = <<>> <=> s = <<>>)
         /\ \A R : Distinct(s, R) => Distinct(g, R)
<1>1. DOMAIN s = 1..Len(s) /\ Len(s) \in Nat
  BY LenProperties
<1>2. g \in [1..Len(s) -> Job]
  BY <1>1
<1>3. g \in Seq(Job)
  BY <1>1, <1>2, SeqDef
<1>4. DOMAIN g = 1..Len(g) /\ Len(g) \in Nat
  BY <1>3, LenProperties
<1>5. g = <<>> <=> s = <<>>
  <2>1. \A q \in Seq(Job) : q = <<>> <=> DOMAIN q = {}
    BY EmptySeq, LenProperties
  <2>2. QED
    BY <1>3, <2>1
<1>6. TasksOf(g) = TasksOf(s)
  BY DEF TasksOf
<1>7. \A R : Distinct(s, R) => Distinct(g, R)
  BY DEF Distinct
<1>8. QED
  BY <1>3, <1>5, <1>6, <1>7

LEMMA UnheardJobs ==
  ASSUME NEW R, NEW h \in BOOLEAN, JobsOK(jobs, R, h), NEW t, t \in R \/ t \notin TasksOf(jobs)
  PROVE  /\ JobsOK(Unheard(t), R, h) /\ TasksOf(Unheard(t)) = TasksOf(jobs)
         /\ Unheard(t) = <<>> <=> jobs = <<>>
<1> DEFINE g == Unheard(t)
<1>1. jobs \in Seq(Job) /\ \A k \in DOMAIN jobs : jobs[k] \in Job
  BY JobsAre DEF JobsOK
<1>2. DOMAIN g = DOMAIN jobs /\ g = [k \in DOMAIN jobs |-> g[k]]
  BY DEF Unheard
<1>3. \A k \in DOMAIN jobs :
        g[k] = IF jobs[k].task = t THEN [jobs[k] EXCEPT !.heard = FALSE] ELSE jobs[k]
  BY DEF Unheard
<1> HIDE DEF g
<1>4. \A k \in DOMAIN jobs :
        /\ g[k] \in Job /\ g[k].task = jobs[k].task /\ g[k].kind = jobs[k].kind
        /\ jobs[k].task # t => g[k] = jobs[k]
  BY <1>1, <1>3 DEF Job
<1>5. /\ g \in Seq(Job) /\ TasksOf(g) = TasksOf(jobs) /\ (g = <<>> <=> jobs = <<>>)
      /\ Distinct(g, R)
  BY <1>1, <1>2, <1>4, MappedJobs DEF JobsOK
<1>6. \A k \in DOMAIN g : Reached(g[k], R, h)
  <2> SUFFICES ASSUME NEW k \in DOMAIN g, g[k].task \notin R  PROVE Reached(g[k], R, h)
    BY DEF Reached
  <2>1. jobs[k].task # t
    BY <1>2, <1>4 DEF TasksOf
  <2>2. QED
    BY <1>2, <1>4, <2>1 DEF JobsOK
<1>7. QED
  BY <1>5, <1>6 DEF JobsOK, g

-------------------------------------------------------------------------------
(***************************************************************************)
(* The inductive invariant                                                 *)
(***************************************************************************)

\* OnePlace with the places spelled out: each excludes the ones after it.
Exclusive ==
  \A t \in Task \ repeated :
    /\ t = building =>
         t \notin TasksOf(jobs) /\ t # pending /\ parked[t] = "no" /\ outcome[t] = "none"
    /\ t \in TasksOf(jobs) => t # pending /\ parked[t] = "no" /\ outcome[t] = "none"
    /\ t = pending => parked[t] = "no" /\ outcome[t] = "none"
    /\ parked[t] # "no" => outcome[t] = "none"

\* Whoever runs has a controller a halt will abort, or one that has been aborted.
RunReached ==
  building # NoTask /\ building \notin repeated =>
    (heard \/ aborted) /\ (mode = "HALTED" => aborted)

IInv ==
  /\ TypeOK
  /\ JobsOK(jobs, repeated, mode = "HALTED")
  /\ Exclusive
  /\ RunReached

LEMMA InitIInv == Init => IInv
<1> SUFFICES ASSUME Init PROVE IInv
  OBVIOUS
<1>1. jobs = <<>> /\ jobs \in Seq(Job) /\ handed \in Seq(Task)
  BY EmptySeq DEF Init
<1>2. TypeOK
  BY <1>1 DEF Init, TypeOK, ModeTypeOK, ModeInit, Modes, ActiveModes, NoMode, Awaits,
              Resumes, Outcomes
<1>3. JobsOK(jobs, repeated, mode = "HALTED") /\ TasksOf(jobs) = {}
  BY <1>1, NoJobs
<1>4. Exclusive /\ RunReached
  BY <1>3, TaskAssumption DEF Init, Exclusive, RunReached
<1>5. QED
  BY <1>2, <1>3, <1>4 DEF IInv

-------------------------------------------------------------------------------
(***************************************************************************)
(* The ends of a pipeline                                                  *)
(***************************************************************************)

LEMMA TaskIsNotNoTask == \A t \in Task : t # NoTask
BY TaskAssumption

\* Giving the stage back touches neither a halt nor its context.
LEMMA ReturnToIdleFacts ==
  ASSUME TypeOK, ReturnToIdle
  PROVE  ModeTypeOK' /\ (mode' = "HALTED" => mode = "HALTED") /\ mode' # "BUILD_IN_PROGRESS"
BY DEF ReturnToIdle, Transition, modeVars, TypeOK, ModeTypeOK, Modes, ActiveModes, NoMode

\* What is left of the session when a task leaves it that runs or awaits its decision.
LEMMA LeaveFacts ==
  ASSUME IInv, NEW t \in Task, t \in {building, pending}, Leave(t)
  PROVE  /\ JobsOK(jobs', repeated, mode' = "HALTED") /\ TasksOf(jobs') = TasksOf(jobs)
         /\ jobs' \in Seq(Job) /\ ModeTypeOK' /\ (mode' = "HALTED" => mode = "HALTED")
         /\ active' = NoTask /\ queued' \in [Task -> Nat] /\ UNCHANGED <<handed, repeated>>
<1>1. /\ active' = NoTask /\ jobs' = Unheard(t) /\ ReturnToIdle /\ UNCHANGED <<handed, repeated>>
      /\ queued' = [queued EXCEPT ![t] = IF queued[t] = 0 THEN 0 ELSE queued[t] - 1]
  BY DEF Leave
<1>2. ModeTypeOK' /\ (mode' = "HALTED" => mode = "HALTED")
  BY <1>1, ReturnToIdleFacts DEF IInv
<1>3. queued' \in [Task -> Nat]
  <2>1. queued \in [Task -> Nat]
    BY DEF IInv, TypeOK
  <2>2. QED
    BY <1>1, <2>1
<1>4. t \in repeated \/ t \notin TasksOf(jobs)
  BY DEF IInv, Exclusive
<1>5. JobsOK(jobs, repeated, mode' = "HALTED")
  BY <1>2, MoreRepeated DEF IInv
<1>6. JobsOK(jobs', repeated, mode' = "HALTED") /\ TasksOf(jobs') = TasksOf(jobs)
  BY <1>1, <1>4, <1>5, UnheardJobs
<1>7. QED
  BY <1>1, <1>2, <1>3, <1>6 DEF JobsOK

LEMMA FinalizeStep ==
  ASSUME IInv, NEW t \in Task, building = t, NEW how \in Outcomes, Finalize(t, how), UNCHANGED closed
  PROVE  IInv'
<1>1. /\ building' = NoTask /\ at' = "nothing" /\ autoRetry' = FALSE /\ heard' = FALSE
      /\ aborted' = FALSE /\ outcome' = [outcome EXCEPT ![t] = how]
      /\ Leave(t) /\ UNCHANGED <<pending, parked, closed>>
  BY DEF Finalize, PipelineOver
<1>2. /\ JobsOK(jobs', repeated, mode' = "HALTED") /\ TasksOf(jobs') = TasksOf(jobs)
      /\ jobs' \in Seq(Job) /\ ModeTypeOK' /\ active' = NoTask /\ queued' \in [Task -> Nat]
      /\ UNCHANGED <<handed, repeated>>
  BY <1>1, LeaveFacts
<1>3. TypeOK'
  BY <1>1, <1>2 DEF IInv, TypeOK, Awaits
<1>4. Exclusive' /\ RunReached'
  BY <1>1, <1>2, TaskIsNotNoTask DEF IInv, TypeOK, Exclusive, RunReached
<1>5. QED
  BY <1>2, <1>3, <1>4 DEF IInv

LEMMA ParkStep ==
  ASSUME IInv, NEW t \in Task, building = t, NEW phase \in Resumes, Park(t, phase), UNCHANGED closed
  PROVE  IInv'
<1>1. /\ building' = NoTask /\ at' = "nothing" /\ autoRetry' = FALSE /\ heard' = FALSE
      /\ aborted' = FALSE /\ parked' = [parked EXCEPT ![t] = phase] /\ pending' = NoTask
      /\ Leave(t) /\ UNCHANGED <<outcome, closed>>
  BY DEF Park, PipelineOver
<1>2. /\ JobsOK(jobs', repeated, mode' = "HALTED") /\ TasksOf(jobs') = TasksOf(jobs)
      /\ jobs' \in Seq(Job) /\ ModeTypeOK' /\ active' = NoTask /\ queued' \in [Task -> Nat]
      /\ UNCHANGED <<handed, repeated>>
  BY <1>1, LeaveFacts
<1>3. TypeOK'
  BY <1>1, <1>2 DEF IInv, TypeOK, Awaits
<1>4. Exclusive' /\ RunReached'
  BY <1>1, <1>2, TaskIsNotNoTask DEF IInv, TypeOK, Exclusive, RunReached
<1>5. QED
  BY <1>2, <1>3, <1>4 DEF IInv

LEMMA DecideStep ==
  ASSUME IInv, NEW t \in Task, building = t, Decide(t), UNCHANGED closed
  PROVE  IInv'
<1>1. /\ building' = NoTask /\ at' = "nothing" /\ autoRetry' = FALSE /\ heard' = FALSE
      /\ aborted' = FALSE /\ active' = NoTask /\ pending' = t
      /\ UNCHANGED <<modeVars, queued, handed, jobs, parked, outcome, repeated, closed>>
  BY DEF Decide, PipelineOver
<1>2. TypeOK'
  BY <1>1 DEF IInv, TypeOK, ModeTypeOK, modeVars, Awaits
<1>3. Exclusive' /\ RunReached'
  BY <1>1, TaskIsNotNoTask DEF IInv, TypeOK, Exclusive, RunReached
<1>4. QED
  BY <1>1, <1>2, <1>3 DEF IInv, modeVars

LEMMA WaitStep ==
  ASSUME IInv, NEW t \in Task, building = t, NEW next \in Awaits \ {"nothing"},
         NEW retry \in BOOLEAN, WaitAt(next, retry), UNCHANGED closed,
         aborted' = aborted \/ aborted' = TRUE
  PROVE  IInv'
<1>1. /\ at' = next /\ autoRetry' = retry
      /\ UNCHANGED <<modeVars, queued, handed, jobs, building, heard, active, pending,
                     parked, outcome, repeated, closed>>
  BY DEF WaitAt
<1>2. TypeOK'
  BY <1>1, TaskIsNotNoTask DEF IInv, TypeOK, ModeTypeOK, modeVars
<1>3. Exclusive' /\ RunReached'
  BY <1>1 DEF IInv, Exclusive, RunReached, modeVars
<1>4. QED
  BY <1>1, <1>2, <1>3 DEF IInv, modeVars

\* Every await returns into one of the four.
LEMMA PipelineStep ==
  ASSUME IInv, NEW t \in Task, Pipeline(t)
  PROVE  IInv'
<1>0. building = t /\ UNCHANGED closed /\ autoRetry \in BOOLEAN
  BY DEF Pipeline, ScreenReturns, WorkspaceReady, TurnReturns, TurnAborted, TurnTimesOut,
         TeardownReturns, ProbeReturns, IInv, TypeOK
<1>1. ASSUME FailAttempt(t) PROVE IInv'
  BY <1>0, <1>1, WaitStep, DecideStep DEF FailAttempt, RetryOnce, Awaits
<1>2. CASE ScreenReturns(t)
  BY <1>0, <1>2, ParkStep, FinalizeStep, WaitStep DEF ScreenReturns, Resumes, Outcomes, Awaits
<1>3. CASE WorkspaceReady(t)
  BY <1>0, <1>3, DecideStep, WaitStep DEF WorkspaceReady, Awaits
<1>4. CASE TurnReturns(t)
  BY <1>0, <1>1, <1>4, DecideStep, WaitStep DEF TurnReturns, Awaits
<1>5. CASE TurnAborted(t)
  BY <1>0, <1>5, FinalizeStep DEF TurnAborted, Outcomes
<1>6. CASE TurnTimesOut(t)
  BY <1>0, <1>6, WaitStep DEF TurnTimesOut, Awaits
<1>7. CASE TeardownReturns(t)
  BY <1>0, <1>7, DecideStep, ParkStep, FinalizeStep DEF TeardownReturns, Resumes, Outcomes
<1>8. CASE ProbeReturns(t)
  BY <1>0, <1>1, <1>8, FinalizeStep DEF ProbeReturns, Outcomes
<1>9. QED
  BY <1>2, <1>3, <1>4, <1>5, <1>6, <1>7, <1>8 DEF Pipeline

-------------------------------------------------------------------------------
(***************************************************************************)
(* Starting a pipeline                                                     *)
(***************************************************************************)

\* A pipeline that begins now.
LEMMA BeginStep ==
  ASSUME IInv, building = NoTask, NEW t \in Task, building' = t, at' \in Awaits \ {"nothing"},
         autoRetry' \in BOOLEAN, heard' \in BOOLEAN, aborted' \in BOOLEAN, ModeTypeOK',
         queued' \in [Task -> Nat], handed' \in Seq(Task), active' \in Task \union {NoTask},
         pending' \in {pending, NoTask}, parked' \in [Task -> {"no"} \union Resumes],
         \A x \in Task : x # t => parked'[x] = parked[x], UNCHANGED <<outcome, closed>>,
         repeated \subseteq repeated', repeated' \subseteq Task,
         JobsOK(jobs', repeated', mode' = "HALTED"), TasksOf(jobs') \subseteq TasksOf(jobs),
         t \in repeated' \/ (/\ t \notin TasksOf(jobs') /\ t # pending' /\ parked'[t] = "no"
                             /\ outcome[t] = "none" /\ (heard' \/ aborted')
                             /\ mode' = "HALTED" => aborted')
  PROVE  IInv'
<1>1. jobs' \in Seq(Job)
  BY DEF JobsOK
<1>2. TypeOK'
  BY <1>1, TaskIsNotNoTask DEF IInv, TypeOK
<1>3. Exclusive'
  BY TaskIsNotNoTask DEF IInv, TypeOK, Exclusive
<1>4. RunReached'
  BY DEF RunReached
<1>5. QED
  BY <1>2, <1>3, <1>4 DEF IInv

\* A job that has to wait.
LEMMA BehindStep ==
  ASSUME IInv, NEW t \in Task, ModeTypeOK', mode' # "HALTED", UNCHANGED <<building, at, autoRetry, aborted>>,
         heard' \in BOOLEAN, heard' = heard \/ building = t,
         queued' \in [Task -> Nat], handed' \in Seq(Task), active' \in Task \union {NoTask},
         pending' \in {pending, NoTask}, parked' \in [Task -> {"no"} \union Resumes],
         \A x \in Task : x # t => parked'[x] = parked[x], UNCHANGED <<outcome, closed>>,
         repeated \subseteq repeated', repeated' \subseteq Task,
         JobsOK(jobs', repeated', FALSE), TasksOf(jobs') = TasksOf(jobs) \union {t},
         t \in repeated' \/ (/\ t # building /\ t # pending' /\ parked'[t] = "no"
                             /\ outcome[t] = "none")
  PROVE  IInv'
<1>1. jobs' \in Seq(Job)
  BY DEF JobsOK
<1>2. TypeOK'
  BY <1>1 DEF IInv, TypeOK
<1>3. Exclusive'
  BY TaskIsNotNoTask DEF IInv, TypeOK, Exclusive
<1>4. RunReached'
  BY DEF IInv, RunReached
<1>5. JobsOK(jobs', repeated', (mode' = "HALTED"))
  BY MoreRepeated
<1>6. QED
  BY <1>2, <1>3, <1>4, <1>5 DEF IInv

\* startBuild, by the drives or from the review of a parked build.
LEMMA StartStep ==
  ASSUME IInv, mode # "HALTED", NEW t \in Task, NEW kind \in {"fresh"} \union Resumes,
         \/ Free /\ BeginBuild(t, kind) /\ UNCHANGED jobs
         \/ Enqueue(t, kind) /\ ModeTypeOK' /\ (mode' # "HALTED") /\ UNCHANGED active,
         UNCHANGED <<queued, pending, outcome, closed>>, handed' \in Seq(Task),
         parked' \in [Task -> {"no"} \union Resumes],
         \A x \in Task : x # t => parked'[x] = parked[x],
         repeated \subseteq repeated', repeated' \subseteq Task,
         t \in repeated' \/ (/\ t # building /\ t \notin TasksOf(jobs) /\ t # pending
                             /\ parked'[t] = "no" /\ outcome[t] = "none")
  PROVE  IInv'
<1>1. queued' \in [Task -> Nat] /\ active \in Task \union {NoTask} /\ jobs \in Seq(Job)
  BY DEF IInv, TypeOK
<1>2. JobsOK(jobs, repeated', FALSE)
  BY MoreRepeated DEF IInv
<1>3. CASE Free /\ BeginBuild(t, kind) /\ UNCHANGED jobs
  <2>1. /\ building = NoTask /\ building' = t /\ at' \in {"workspace", "screen"} /\ autoRetry' = TRUE
        /\ heard' = TRUE /\ aborted' = FALSE /\ active' = t
        /\ mode' = "BUILD_IN_PROGRESS" /\ haltedFrom' = haltedFrom
    BY <1>3 DEF Free, BeginBuild, BeginPipeline
  <2>2. ModeTypeOK'
    BY <2>1 DEF IInv, TypeOK, ModeTypeOK, Modes, ActiveModes
  <2>3. JobsOK(jobs', repeated', mode' = "HALTED") /\ TasksOf(jobs') = TasksOf(jobs)
    <3>1. (mode' = "HALTED") = FALSE /\ jobs' = jobs
      BY <1>3, <2>1
    <3>2. QED
      BY <1>2, <3>1
  <2>4. at' \in Awaits \ {"nothing"}
    BY <2>1 DEF Awaits
  <2>5. mode' # "HALTED"
    BY <2>1
  <2>6. QED
    BY <1>1, <2>1, <2>2, <2>3, <2>4, <2>5, BeginStep
<1>4. CASE Enqueue(t, kind) /\ ModeTypeOK' /\ (mode' # "HALTED") /\ UNCHANGED active
  <2> DEFINE e == [task |-> t, kind |-> kind, heard |-> FALSE, aborted |-> FALSE]
  <2>1. kind # "retry"
    BY DEF Resumes
  <2>2. /\ jobs' = Append(jobs, e) /\ UNCHANGED <<building, at, autoRetry, aborted>>
        /\ heard' = (heard /\ TRUE)
    BY <1>4, <2>1 DEF Enqueue
  <2>3. e \in Job /\ e.task = t /\ e.kind # "retry"
    BY <2>1 DEF Job
  <2> HIDE DEF e
  <2>4. JobsOK(jobs', repeated', FALSE) /\ TasksOf(jobs') = TasksOf(jobs) \union {t}
    BY <1>2, <2>2, <2>3, AppendJob
  <2>5. heard' = heard /\ heard' \in BOOLEAN
    BY <2>2 DEF IInv, TypeOK
  <2>6. QED
    BY <1>1, <1>4, <2>2, <2>4, <2>5, BehindStep
<1>5. QED
  BY <1>3, <1>4

\* What the history says of a task that is handed over.
LEMMA RepeatFacts ==
  ASSUME IInv, NEW t \in Task, Repeat(t)
  PROVE  /\ repeated \subseteq repeated' /\ repeated' \subseteq Task
         /\ t \in repeated' \/ (/\ t # building /\ t \notin TasksOf(jobs) /\ t # pending
                                /\ parked[t] = "no" /\ outcome[t] = "none")
<1>1. repeated \subseteq repeated' /\ repeated' \subseteq Task
  BY DEF Repeat, IInv, TypeOK
<1>2. ASSUME t \notin repeated'  PROVE PlacesOf(t) = {}
  BY <1>2 DEF Repeat, Placed
<1>3. Waiting = TasksOf(jobs)
  BY DEF Waiting, TasksOf
<1>4. PlacesOf(t) = {} =>
        /\ t # building /\ t \notin TasksOf(jobs) /\ t # pending
        /\ parked[t] = "no" /\ outcome[t] = "none"
  BY <1>3 DEF PlacesOf
<1>5. QED
  BY <1>1, <1>2, <1>4

LEMMA DrainStep ==
  ASSUME IInv, NEW t \in Task, Drain(t)
  PROVE  IInv'
<1>1. /\ mode # "HALTED" /\ Repeat(t) /\ UNCHANGED <<queued, pending, parked, outcome, closed>>
      /\ handed' = IF Len(handed) < HandedMax THEN Append(handed, t) ELSE Append(Tail(handed), t)
  BY DEF Drain
<1>2. handed' \in Seq(Task)
  <2>1. handed \in Seq(Task) /\ HandedMax \in Nat \ {0}
    BY TaskAssumption DEF IInv, TypeOK
  <2>2. CASE Len(handed) < HandedMax
    BY <1>1, <2>1, <2>2, AppendProperties
  <2>3. CASE ~(Len(handed) < HandedMax)
    <3>1. handed # <<>>
      BY <2>1, <2>3, EmptySeq
    <3>2. Tail(handed) \in Seq(Task)
      BY <2>1, <3>1, HeadTailProperties
    <3>3. QED
      BY <1>1, <2>3, <3>2, AppendProperties
  <2>4. QED
    BY <2>2, <2>3
<1>3. \/ Free /\ BeginBuild(t, "fresh") /\ UNCHANGED jobs
      \/ Enqueue(t, "fresh") /\ ModeTypeOK' /\ (mode' # "HALTED") /\ UNCHANGED active
  <2>1. \/ Free /\ BeginBuild(t, "fresh") /\ UNCHANGED jobs
        \/ Enqueue(t, "fresh") /\ Transition("BUILD_IN_PROGRESS") /\ UNCHANGED active
    BY DEF Drain, StartBuild
  <2>2. Transition("BUILD_IN_PROGRESS") => ModeTypeOK' /\ mode' # "HALTED"
    BY <1>1 DEF Transition, IInv, TypeOK, ModeTypeOK, Modes, ActiveModes
  <2>3. QED
    BY <2>1, <2>2
<1>4. parked \in [Task -> {"no"} \union Resumes]
  BY DEF IInv, TypeOK
<1>5. QED
  BY <1>1, <1>2, <1>3, <1>4, RepeatFacts, StartStep

LEMMA DriveStep ==
  ASSUME IInv, NEW t \in Task, Drive(t)
  PROVE  IInv'
<1>1. /\ mode # "HALTED" /\ Repeat(t)
      /\ UNCHANGED <<queued, handed, pending, parked, outcome, closed>>
  BY DEF Drive
<1>2. \/ Free /\ BeginBuild(t, "fresh") /\ UNCHANGED jobs
      \/ Enqueue(t, "fresh") /\ ModeTypeOK' /\ (mode' # "HALTED") /\ UNCHANGED active
  <2>1. \/ Free /\ BeginBuild(t, "fresh") /\ UNCHANGED jobs
        \/ /\ Enqueue(t, "fresh") /\ UNCHANGED active
           /\ Transition("BUILD_IN_PROGRESS") \/ UNCHANGED modeVars
    BY DEF Drive, StartBuild
  <2>2. Transition("BUILD_IN_PROGRESS") \/ UNCHANGED modeVars => ModeTypeOK' /\ mode' # "HALTED"
    BY <1>1 DEF Transition, modeVars, IInv, TypeOK, ModeTypeOK, Modes, ActiveModes
  <2>3. QED
    BY <2>1, <2>2
<1>3. parked \in [Task -> {"no"} \union Resumes] /\ handed' \in Seq(Task)
  BY <1>1 DEF IInv, TypeOK
<1>4. QED
  BY <1>1, <1>2, <1>3, RepeatFacts, StartStep

LEMMA ApproveStep ==
  ASSUME IInv, NEW t \in Task, Approve(t)
  PROVE  IInv'
<1>1. /\ parked[t] \in Resumes /\ parked' = [parked EXCEPT ![t] = "no"] /\ mode # "HALTED"
      /\ UNCHANGED <<queued, handed, pending, outcome, repeated, closed>>
  BY DEF Approve, IInv, TypeOK
<1>2. t \in repeated \/ (t # building /\ t # pending /\ t \notin TasksOf(jobs) /\ outcome[t] = "none")
  BY <1>1 DEF IInv, Exclusive, Resumes
<1>3. /\ parked' \in [Task -> {"no"} \union Resumes] /\ parked'[t] = "no"
      /\ \A x \in Task : x # t => parked'[x] = parked[x]
      /\ handed' \in Seq(Task) /\ repeated' \subseteq Task /\ repeated \subseteq repeated'
  BY <1>1 DEF IInv, TypeOK
<1>4. \/ Free /\ BeginBuild(t, parked[t]) /\ UNCHANGED jobs
      \/ Enqueue(t, parked[t]) /\ ModeTypeOK' /\ (mode' # "HALTED") /\ UNCHANGED active
  <2>1. \/ Free /\ BeginBuild(t, parked[t]) /\ UNCHANGED jobs
        \/ Enqueue(t, parked[t]) /\ UNCHANGED modeVars /\ UNCHANGED active
    BY DEF Approve, StartBuild
  <2>2. UNCHANGED modeVars => ModeTypeOK' /\ mode' # "HALTED"
    BY <1>1 DEF modeVars, IInv, TypeOK, ModeTypeOK
  <2>3. QED
    BY <2>1, <2>2
<1>5. QED
  BY <1>1, <1>2, <1>3, <1>4, StartStep

LEMMA RetryStep ==
  ASSUME IInv, NEW t \in Task, Retry(t)
  PROVE  IInv'
<1>1. /\ pending = t /\ pending' = NoTask /\ mode # "HALTED" /\ active' = t
      /\ UNCHANGED <<modeVars, queued, handed, parked, outcome, repeated, closed>>
  BY DEF Retry, ClearDecision
<1>2. t \in repeated \/ (/\ t # building /\ t \notin TasksOf(jobs) /\ parked[t] = "no"
                         /\ outcome[t] = "none")
  BY <1>1 DEF IInv, Exclusive
<1>3. /\ parked' \in [Task -> {"no"} \union Resumes] /\ handed' \in Seq(Task)
      /\ queued' \in [Task -> Nat] /\ repeated' \subseteq Task /\ repeated \subseteq repeated'
      /\ ModeTypeOK' /\ mode' # "HALTED" /\ JobsOK(jobs, repeated', FALSE)
  <2>1. JobsOK(jobs, repeated, FALSE)
    BY <1>1, MoreRepeated DEF IInv
  <2>2. QED
    BY <1>1, <2>1 DEF modeVars, IInv, TypeOK, ModeTypeOK
<1>4. CASE Free
  <2>1. /\ building = NoTask /\ building' = t /\ at' = "workspace" /\ autoRetry' = FALSE
        /\ heard' = TRUE /\ aborted' = FALSE /\ jobs' = jobs
    BY <1>4 DEF Retry, Free, BeginPipeline
  <2>2. JobsOK(jobs', repeated', mode' = "HALTED")
    <3>1. (mode' = "HALTED") = FALSE
      BY <1>3
    <3>2. QED
      BY <1>3, <2>1, <3>1
  <2>3. at' \in Awaits \ {"nothing"}
    BY <2>1 DEF Awaits
  <2>4. QED
    BY <1>1, <1>2, <1>3, <2>1, <2>2, <2>3, TaskIsNotNoTask, BeginStep
<1>5. CASE ~Free
  <2> DEFINE e == [task |-> t, kind |-> "retry", heard |-> TRUE, aborted |-> FALSE]
  <2>1. /\ jobs' = Append(Unheard(t), e) /\ UNCHANGED <<building, at, autoRetry, aborted>>
        /\ heard' = (heard /\ ~(TRUE /\ building = t))
    BY <1>5 DEF Retry, Enqueue
  <2>2. e \in Job /\ e.task = t /\ e.heard
    BY DEF Job
  <2> HIDE DEF e
  <2>3. JobsOK(Unheard(t), repeated', FALSE) /\ TasksOf(Unheard(t)) = TasksOf(jobs)
    BY <1>1, <1>2, <1>3, UnheardJobs
  <2>4. JobsOK(jobs', repeated', FALSE) /\ TasksOf(jobs') = TasksOf(jobs) \union {t}
    BY <1>1, <1>2, <2>1, <2>2, <2>3, AppendJob
  <2>5. heard' \in BOOLEAN /\ (heard' = heard \/ building = t)
    BY <2>1 DEF IInv, TypeOK
  <2>6. QED
    BY <1>1, <1>2, <1>3, <2>1, <2>4, <2>5, TaskIsNotNoTask, BehindStep
<1>6. QED
  BY <1>4, <1>5

\* The job p-queue takes next, and what is left behind it.
LEMMA HeadFacts ==
  ASSUME IInv, jobs # <<>>
  PROVE  LET t == Head(jobs).task IN
         /\ Head(jobs) \in Job /\ t \in Task /\ t # NoTask
         /\ Reached(Head(jobs), repeated, mode = "HALTED")
         /\ t \in repeated \/ (/\ t # building /\ t # pending /\ parked[t] = "no"
                               /\ outcome[t] = "none" /\ t \notin TasksOf(Tail(jobs)))
         /\ JobsOK(Tail(jobs), repeated, mode = "HALTED")
         /\ TasksOf(Tail(jobs)) \subseteq TasksOf(jobs)
<1> DEFINE t == Head(jobs).task
<1>1. JobsOK(jobs, repeated, mode = "HALTED") /\ jobs \in Seq(Job)
  BY DEF IInv, JobsOK
<1>2. /\ Head(jobs) \in Job /\ t \in TasksOf(jobs) /\ Reached(Head(jobs), repeated, mode = "HALTED")
      /\ JobsOK(Tail(jobs), repeated, mode = "HALTED") /\ TasksOf(Tail(jobs)) \subseteq TasksOf(jobs)
      /\ t \in repeated \/ t \notin TasksOf(Tail(jobs))
  BY <1>1, TailJobs
<1>3. t \in Task /\ t # NoTask
  BY <1>1, <1>2, JobsAre, TaskIsNotNoTask
<1> HIDE DEF t
<1>4. t \in repeated \/ (t # building /\ t # pending /\ parked[t] = "no" /\ outcome[t] = "none")
  BY <1>2, <1>3 DEF IInv, Exclusive
<1>5. QED
  BY <1>2, <1>3, <1>4 DEF t

\* The same of a job that begins, or is refused: its task's other controllers are replaced,
\* or unregistered.
LEMMA UnheardHead ==
  ASSUME IInv, jobs # <<>>
  PROVE  LET t == Head(jobs).task
             b == Tail(Unheard(t))
         IN  /\ JobsOK(b, repeated, mode = "HALTED") /\ TasksOf(b) \subseteq TasksOf(jobs)
             /\ t \in repeated \/ t \notin TasksOf(b)
<1> DEFINE t == Head(jobs).task
           u == Unheard(t)
<1>1. jobs \in Seq(Job) /\ JobsOK(jobs, repeated, mode = "HALTED")
  BY DEF IInv, JobsOK
<1>2. DOMAIN jobs = 1..Len(jobs) /\ Len(jobs) \in Nat \ {0}
  BY <1>1, LenProperties, EmptySeq
<1>3. jobs \in Seq(Job) /\ \A k \in DOMAIN jobs : jobs[k] \in Job
  BY <1>1, JobsAre
<1>4. DOMAIN u = DOMAIN jobs /\ u = [k \in DOMAIN jobs |-> u[k]]
  BY DEF Unheard
<1>5. \A k \in DOMAIN jobs :
        u[k] = IF jobs[k].task = t THEN [jobs[k] EXCEPT !.heard = FALSE] ELSE jobs[k]
  BY DEF Unheard
<1>6. Head(jobs) = jobs[1] /\ t = jobs[1].task
  BY <1>1
<1> HIDE DEF u, t
<1>7. \A k \in DOMAIN jobs :
        /\ u[k] \in Job /\ u[k].task = jobs[k].task /\ u[k].kind = jobs[k].kind
        /\ jobs[k].task # t => u[k] = jobs[k]
  BY <1>3, <1>5 DEF Job
<1>8. /\ u \in Seq(Job) /\ TasksOf(u) = TasksOf(jobs) /\ u # <<>> /\ Distinct(u, repeated)
  BY <1>1, <1>3, <1>4, <1>7, MappedJobs DEF JobsOK
<1>9. \A k \in DOMAIN u : u[k].task # t => Reached(u[k], repeated, mode = "HALTED")
  BY <1>1, <1>4, <1>7 DEF JobsOK
<1>10. /\ Tail(u) \in Seq(Job) /\ DOMAIN Tail(u) = 1..(Len(u) - 1) /\ DOMAIN u = 1..Len(u)
       /\ Len(u) \in Nat \ {0} /\ \A k \in DOMAIN Tail(u) : Tail(u)[k] = u[k + 1]
  BY <1>8, HeadTailProperties, LenProperties, EmptySeq
<1>11. \A k \in DOMAIN Tail(u) : k + 1 \in DOMAIN u /\ k + 1 # 1 /\ k \in Int
  BY <1>10
<1>12. \A k \in DOMAIN Tail(u) : Tail(u)[k].task = t => t \in repeated
  BY <1>2, <1>4, <1>6, <1>7, <1>8, <1>10, <1>11 DEF Distinct
<1>13. \A k \in DOMAIN Tail(u) : Reached(Tail(u)[k], repeated, mode = "HALTED")
  BY <1>9, <1>10, <1>11, <1>12 DEF Reached
<1>14. Distinct(Tail(u), repeated)
  <2> SUFFICES ASSUME NEW j \in DOMAIN Tail(u), NEW k \in DOMAIN Tail(u),
                      Tail(u)[j].task = Tail(u)[k].task, Tail(u)[j].task \notin repeated
               PROVE  j = k
    BY DEF Distinct
  <2>1. j + 1 = k + 1
    BY <1>8, <1>10, <1>11 DEF Distinct
  <2>2. QED
    BY <1>11, <2>1
<1>15. TasksOf(Tail(u)) \subseteq TasksOf(jobs)
  BY <1>8, <1>10, <1>11 DEF TasksOf
<1>16. t \in repeated \/ t \notin TasksOf(Tail(u))
  BY <1>12 DEF TasksOf
<1>17. QED
  BY <1>10, <1>13, <1>14, <1>15, <1>16 DEF JobsOK, u, t

LEMMA NextJobStep ==
  ASSUME IInv, NextJob
  PROVE  IInv'
<1> DEFINE t == Head(jobs).task
<1>1. jobs # <<>> /\ building = NoTask
  BY DEF NextJob, NextRetry, NextBuild, NextRefused
<1>2. /\ Head(jobs) \in Job /\ t \in Task /\ t # NoTask
      /\ Reached(Head(jobs), repeated, mode = "HALTED")
      /\ t \in repeated \/ (/\ t # pending /\ parked[t] = "no"
                            /\ outcome[t] = "none" /\ t \notin TasksOf(Tail(jobs)))
      /\ JobsOK(Tail(jobs), repeated, mode = "HALTED")
      /\ TasksOf(Tail(jobs)) \subseteq TasksOf(jobs)
  BY <1>1, HeadFacts
<1>3. /\ JobsOK(Tail(Unheard(t)), repeated, mode = "HALTED")
      /\ TasksOf(Tail(Unheard(t))) \subseteq TasksOf(jobs)
      /\ t \in repeated \/ t \notin TasksOf(Tail(Unheard(t)))
  BY <1>1, UnheardHead
<1>4. /\ parked \in [Task -> {"no"} \union Resumes] /\ handed \in Seq(Task)
      /\ queued \in [Task -> Nat] /\ active \in Task \union {NoTask} /\ repeated \subseteq Task
      /\ ModeTypeOK
  BY DEF IInv, TypeOK
<1>5. Head(jobs).heard \in BOOLEAN /\ Head(jobs).aborted \in BOOLEAN
      /\ Head(jobs).kind \in {"fresh", "retry"} \union Resumes
  BY <1>2 DEF Job
<1>6. CASE NextRetry
  <2>1. /\ Head(jobs).kind = "retry" /\ building' = t /\ at' = "workspace" /\ autoRetry' = FALSE
        /\ heard' = Head(jobs).heard /\ aborted' = Head(jobs).aborted /\ jobs' = Tail(jobs)
        /\ UNCHANGED <<modeVars, queued, handed, active, pending, parked, outcome, repeated, closed>>
    BY <1>6 DEF NextRetry
  <2>2. at' \in Awaits \ {"nothing"}
    BY <2>1 DEF Awaits
  <2>3. t \in repeated \/ ((heard' \/ aborted') /\ (mode = "HALTED" => aborted'))
    BY <1>2, <2>1 DEF Reached
  <2>4. ModeTypeOK' /\ mode' = mode
    BY <1>4, <2>1 DEF ModeTypeOK, modeVars
  <2>5. JobsOK(jobs', repeated', mode' = "HALTED")
    BY <1>2, <2>1, <2>4
  <2> HIDE DEF t
  <2>6. QED
    BY <1>1, <1>2, <1>4, <1>5, <2>1, <2>2, <2>3, <2>4, <2>5, BeginStep
<1>7. CASE NextBuild
  <2>1. /\ mode # "HALTED" /\ BeginBuild(t, Head(jobs).kind) /\ jobs' = Tail(Unheard(t))
        /\ UNCHANGED <<queued, handed, pending, parked, outcome, repeated, closed>>
    BY <1>7 DEF NextBuild
  <2>2. /\ building' = t /\ at' \in {"workspace", "screen"} /\ autoRetry' = TRUE
        /\ heard' = TRUE /\ aborted' = FALSE /\ active' = t
        /\ mode' = "BUILD_IN_PROGRESS" /\ haltedFrom' = haltedFrom
    BY <2>1 DEF BeginBuild, BeginPipeline
  <2>3. ModeTypeOK' /\ mode' # "HALTED"
    BY <1>4, <2>1, <2>2 DEF ModeTypeOK, Modes, ActiveModes
  <2>4. JobsOK(jobs', repeated', mode' = "HALTED")
    <3>1. (mode' = "HALTED") = (mode = "HALTED")
      BY <2>1, <2>3
    <3>2. QED
      BY <1>3, <2>1, <3>1
  <2>5. at' \in Awaits \ {"nothing"}
    BY <2>2 DEF Awaits
  <2> HIDE DEF t
  <2>6. QED
    BY <1>1, <1>2, <1>3, <1>4, <2>1, <2>2, <2>3, <2>4, <2>5, BeginStep
<1>8. CASE NextRefused
  <2>1. /\ mode = "HALTED" /\ outcome' = [outcome EXCEPT ![t] = "dropped"]
        /\ queued' = [queued EXCEPT ![t] = IF queued[t] = 0 THEN 0 ELSE queued[t] - 1]
        /\ active' = NoTask /\ jobs' = Tail(Unheard(t))
        /\ UNCHANGED <<modeVars, handed, pipeline, pending, parked, repeated, closed>>
    BY <1>8 DEF NextRefused
  <2>2. UNCHANGED <<mode, haltedFrom, building, at, autoRetry, heard, aborted>>
    BY <2>1 DEF modeVars, pipeline
  <2> HIDE DEF t
  <2>3. queued' \in [Task -> Nat]
    <3>1. queued \in [Task -> Nat]
      BY DEF IInv, TypeOK
    <3>2. (IF queued[t] = 0 THEN 0 ELSE queued[t] - 1) \in Nat
      BY <1>2, <3>1
    <3>3. QED
      BY <2>1, <3>1, <3>2
  <2>4. JobsOK(jobs', repeated', mode' = "HALTED") /\ jobs' \in Seq(Job)
    BY <1>3, <2>1, <2>2 DEF JobsOK
  <2>5. TypeOK'
    BY <1>2, <2>1, <2>2, <2>3, <2>4 DEF IInv, TypeOK, ModeTypeOK, Outcomes
  <2>6. Exclusive'
    BY <1>1, <1>2, <1>3, <2>1, <2>2, TaskIsNotNoTask DEF IInv, TypeOK, Exclusive
  <2>7. RunReached'
    BY <1>1, <2>2 DEF RunReached
  <2>8. QED
    BY <2>4, <2>5, <2>6, <2>7 DEF IInv
<1>9. QED
  BY <1>6, <1>7, <1>8 DEF NextJob

-------------------------------------------------------------------------------
(***************************************************************************)
(* The streamer and the rest of the show                                   *)
(***************************************************************************)

LEMMA QueueStep ==
  ASSUME IInv, NEW t \in Task, Queue(t)
  PROVE  IInv'
<1>1. /\ queued' = [queued EXCEPT ![t] = queued[t] + 1]
      /\ UNCHANGED <<mode, haltedFrom, handed, jobs, building, at, autoRetry, heard, aborted,
                     active, pending, parked, outcome, repeated, closed>>
  BY DEF Queue, modeVars, pipeline
<1>2. queued \in [Task -> Nat]
  BY DEF IInv, TypeOK
<1>3. TypeOK'
  BY <1>1, <1>2 DEF IInv, TypeOK, ModeTypeOK
<1>4. Exclusive' /\ RunReached' /\ JobsOK(jobs', repeated', mode' = "HALTED")
  BY <1>1 DEF IInv, Exclusive, RunReached
<1>5. QED
  BY <1>3, <1>4 DEF IInv

LEMMA SkipStep ==
  ASSUME IInv, NEW t \in Task, Skip(t)
  PROVE  IInv'
<1>1. /\ pending = t /\ pending' = NoTask /\ outcome' = [outcome EXCEPT ![t] = "dropped"]
      /\ heard' = (heard /\ building # t) /\ Leave(t)
      /\ UNCHANGED <<building, at, autoRetry, aborted, parked, closed>>
  BY DEF Skip
<1>2. /\ JobsOK(jobs', repeated, mode' = "HALTED") /\ TasksOf(jobs') = TasksOf(jobs)
      /\ jobs' \in Seq(Job) /\ ModeTypeOK' /\ active' = NoTask /\ queued' \in [Task -> Nat]
      /\ mode' = "HALTED" => mode = "HALTED"
      /\ UNCHANGED <<handed, repeated>>
  BY <1>1, LeaveFacts
<1>3. heard' \in BOOLEAN /\ (building # t => heard' = heard)
  BY <1>1 DEF IInv, TypeOK
<1>4. TypeOK'
  BY <1>1, <1>2, <1>3 DEF IInv, TypeOK, Outcomes
<1>5. t \in repeated \/ (t # building /\ t \notin TasksOf(jobs) /\ parked[t] = "no")
  BY <1>1 DEF IInv, Exclusive
<1>6. Exclusive'
  BY <1>1, <1>2, <1>5, TaskIsNotNoTask DEF IInv, TypeOK, Exclusive
<1>7. RunReached'
  BY <1>1, <1>2, <1>3, <1>5 DEF IInv, RunReached
<1>8. QED
  BY <1>2, <1>4, <1>6, <1>7 DEF IInv

LEMMA DeclineStep ==
  ASSUME IInv, NEW t \in Task, Decline(t)
  PROVE  IInv'
<1>1. /\ parked[t] # "no" /\ parked' = [parked EXCEPT ![t] = "no"]
      /\ outcome' = [outcome EXCEPT ![t] = "dropped"]
      /\ UNCHANGED <<mode, haltedFrom, queued, handed, jobs, building, at, autoRetry, heard,
                     aborted, active, pending, repeated, closed>>
  BY DEF Decline, modeVars, pipeline
<1>2. TypeOK'
  BY <1>1 DEF IInv, TypeOK, ModeTypeOK, Outcomes
<1>3. Exclusive' /\ RunReached' /\ JobsOK(jobs', repeated', mode' = "HALTED")
  BY <1>1 DEF IInv, TypeOK, Exclusive, RunReached
<1>4. QED
  BY <1>2, <1>3 DEF IInv

\* The halt aborts every controller in the registry, and IInv says whose is there.
LEMMA HaltStep ==
  ASSUME IInv, Halt
  PROVE  IInv'
<1>1. /\ mode' = "HALTED" /\ haltedFrom' = mode /\ mode # "HALTED" /\ aborted' = (aborted \/ heard)
      /\ jobs' = [k \in DOMAIN jobs |-> [jobs[k] EXCEPT !.aborted = jobs[k].aborted \/ jobs[k].heard]]
      /\ UNCHANGED <<queued, handed, building, at, autoRetry, heard, active, pending, parked,
                     outcome, repeated, closed>>
  BY DEF Halt, ForceHalt
<1>2. jobs \in Seq(Job) /\ \A k \in DOMAIN jobs : jobs[k] \in Job
  BY JobsAre DEF IInv, TypeOK
<1>3. DOMAIN jobs' = DOMAIN jobs /\ jobs' = [k \in DOMAIN jobs |-> jobs'[k]]
  BY <1>1
<1>4. \A k \in DOMAIN jobs :
        /\ jobs'[k] \in Job /\ jobs'[k].task = jobs[k].task /\ jobs'[k].kind = jobs[k].kind
        /\ jobs[k].heard \/ jobs[k].aborted => jobs'[k].aborted
  BY <1>1, <1>2 DEF Job
<1>5. jobs' \in Seq(Job) /\ TasksOf(jobs') = TasksOf(jobs) /\ Distinct(jobs', repeated)
  BY <1>2, <1>3, <1>4, MappedJobs DEF IInv, JobsOK
<1>6. \A k \in DOMAIN jobs' : Reached(jobs'[k], repeated, TRUE)
  BY <1>3, <1>4 DEF IInv, JobsOK, Reached
<1>7. JobsOK(jobs', repeated', mode' = "HALTED")
  <2>1. (mode' = "HALTED") = TRUE
    BY <1>1
  <2>2. QED
    BY <1>1, <1>5, <1>6, <2>1 DEF JobsOK
<1>8. TypeOK'
  BY <1>1, <1>5 DEF IInv, TypeOK, ModeTypeOK, Modes, ActiveModes, NoMode
<1>9. Exclusive'
  BY <1>1, <1>5 DEF IInv, Exclusive
<1>10. RunReached'
  BY <1>1 DEF IInv, RunReached
<1>11. QED
  BY <1>7, <1>8, <1>9, <1>10 DEF IInv

\* A mode change that is no halt leaves the session as it is.
LEMMA ModeStep ==
  ASSUME IInv, ModeTypeOK', mode' # "HALTED", UNCHANGED <<session, closed>>
  PROVE  IInv'
<1>1. UNCHANGED <<queued, handed, jobs, building, at, autoRetry, heard, aborted, active, pending,
                  parked, outcome, repeated, closed>>
  BY DEF session, pipeline
<1>2. TypeOK' /\ Exclusive' /\ RunReached'
  BY <1>1 DEF IInv, TypeOK, Exclusive, RunReached
<1>3. JobsOK(jobs', repeated', mode' = "HALTED")
  BY <1>1, MoreRepeated DEF IInv
<1>4. QED
  BY <1>2, <1>3 DEF IInv

LEMMA RecoverStep ==
  ASSUME IInv, NEW a \in RecoveryActions, RecoverBuild(a)
  PROVE  IInv'
<1>1. ModeTypeOK' /\ mode' # "HALTED"
  BY DEF RecoverBuild, Recover, RecoveryTarget, RecoveryActions, IInv, TypeOK, ModeTypeOK,
         Modes, ActiveModes
<1>2. QED
  BY <1>1, ModeStep DEF RecoverBuild

LEMMA OtherTransitionStep ==
  ASSUME IInv, NEW to \in Modes, OtherTransition(to)
  PROVE  IInv'
<1>1. ModeTypeOK' /\ mode' # "HALTED"
  BY DEF OtherTransition, Transition, Transitions, IInv, TypeOK, ModeTypeOK, Modes, ActiveModes
<1>2. QED
  BY <1>1, ModeStep DEF OtherTransition

LEMMA CloseStep ==
  ASSUME IInv, Close
  PROVE  IInv'
<1>1. /\ closed' = TRUE /\ jobs' = <<>> /\ pending' = NoTask /\ active' = NoTask
      /\ aborted' = (aborted \/ (heard /\ active = building)) /\ heard' = (heard /\ active # building)
      /\ UNCHANGED <<mode, haltedFrom, queued, handed, building, at, autoRetry, parked, outcome,
                     repeated>>
  BY DEF Close, modeVars
<1>2. JobsOK(jobs', repeated', mode' = "HALTED") /\ TasksOf(jobs') = {} /\ jobs' \in Seq(Job)
  BY <1>1, NoJobs DEF JobsOK
<1>3. TypeOK'
  BY <1>1, <1>2 DEF IInv, TypeOK, ModeTypeOK
<1>4. Exclusive'
  BY <1>1, <1>2, TaskIsNotNoTask DEF IInv, Exclusive
<1>5. RunReached'
  BY <1>1 DEF IInv, RunReached
<1>6. QED
  BY <1>2, <1>3, <1>4, <1>5 DEF IInv

LEMMA NextStep ==
  ASSUME IInv, [Next]_vars
  PROVE  IInv'
<1>1. CASE UNCHANGED vars
  <2>1. UNCHANGED <<mode, haltedFrom, session, closed>>
    BY <1>1 DEF vars
  <2>2. UNCHANGED <<queued, handed, jobs, building, at, autoRetry, heard, aborted, active, pending,
                    parked, outcome, repeated>>
    BY <2>1 DEF session, pipeline
  <2>3. QED
    BY <2>1, <2>2 DEF IInv, TypeOK, ModeTypeOK, Exclusive, RunReached
<1>2. CASE \E t \in Task : \/ Queue(t) \/ Drain(t) \/ Drive(t) \/ Approve(t) \/ Decline(t)
                          \/ Retry(t) \/ Skip(t) \/ Pipeline(t)
  BY <1>2, QueueStep, DrainStep, DriveStep, ApproveStep, DeclineStep, RetryStep, SkipStep,
     PipelineStep
<1>3. CASE NextJob \/ Halt \/ Close
  BY <1>3, NextJobStep, HaltStep, CloseStep
<1>4. CASE \E a \in RecoveryActions : RecoverBuild(a)
  BY <1>4, RecoverStep
<1>5. CASE \E to \in Modes : OtherTransition(to)
  BY <1>5, OtherTransitionStep
<1>6. QED
  BY <1>1, <1>2, <1>3, <1>4, <1>5 DEF Next

-------------------------------------------------------------------------------
(***************************************************************************)
(* The theorems                                                            *)
(***************************************************************************)

LEMMA Invariance == Spec => []IInv
<1>1. IInv /\ [Next]_vars => IInv'
  BY NextStep
<1>2. QED
  BY <1>1, InitIInv, PTL DEF Spec

\* Type correctness of the session: its place and its running task go together.
THEOREM TypeCorrect == Spec => []TypeOK
<1>1. IInv => TypeOK
  BY DEF IInv
<1>2. QED
  BY <1>1, Invariance, PTL

LEMMA ExclusiveIsOnePlace == IInv => OnePlace
<1> SUFFICES ASSUME IInv PROVE OnePlace
  OBVIOUS
<1>1. \A j, k \in DOMAIN jobs :
         jobs[j].task = jobs[k].task => j = k \/ jobs[j].task \in repeated
  BY DEF IInv, JobsOK, Distinct
<1>2. ASSUME NEW t \in Task \ repeated
      PROVE  Cardinality(PlacesOf(t)) <= 1
  <2>1. Waiting = TasksOf(jobs)
    BY DEF Waiting, TasksOf
  <2>2. PlacesOf(t) = {} \/ \E p : PlacesOf(t) = {p}
    BY <2>1 DEF PlacesOf, IInv, Exclusive
  <2>3. \A p : Cardinality({p}) = 1
    BY FS_Singleton
  <2>4. Cardinality({}) = 0
    BY FS_EmptySet
  <2>5. CASE PlacesOf(t) = {}
    BY <2>4, <2>5
  <2>6. ASSUME NEW p, PlacesOf(t) = {p}
        PROVE  Cardinality(PlacesOf(t)) <= 1
    <3>1. Cardinality(PlacesOf(t)) = 1
      BY <2>3, <2>6
    <3>2. QED
      BY <3>1
  <2>7. QED
    BY <2>2, <2>5, <2>6
<1>3. QED
  BY <1>1, <1>2 DEF OnePlace

\* No task is run twice, ended twice, or run and decided at once, whatever is clicked, unless
\* it was handed over again while the session had it.
THEOREM EachTaskHasOnePlace == Spec => []OnePlace
BY ExclusiveIsOnePlace, Invariance, PTL

\* Whatever runs while HALTED has been aborted, unless its task is run a second time.
THEOREM HaltReaches == Spec => []HaltReachesBuild
<1>1. IInv => HaltReachesBuild
  BY DEF IInv, RunReached, HaltReachesBuild
<1>2. QED
  BY <1>1, Invariance, PTL

\* The step that leaves the session nothing to do gives BUILD_IN_PROGRESS back.
THEOREM StageIsGivenBack == Spec => StageGivenBack
<1>1. ASSUME IInv, [Next]_vars, Busy, ~Busy'
      PROVE  mode' # "BUILD_IN_PROGRESS" \/ closed'
  <2>1. UNCHANGED <<building, jobs, pending>> => FALSE
    BY <1>1 DEF Busy
  <2>2. building' = NoTask /\ jobs' = <<>> /\ pending' = NoTask
    BY <1>1 DEF Busy
  <2>3. CASE UNCHANGED vars \/ \E a \in RecoveryActions : RecoverBuild(a)
    BY <2>1, <2>3 DEF vars, session, pipeline, RecoverBuild
  <2>13. CASE Halt
    BY <2>13 DEF Halt, ForceHalt
  <2>4. CASE \E to \in Modes : OtherTransition(to)
    BY <2>1, <2>4 DEF OtherTransition, session, pipeline
  <2>5. CASE \E t \in Task : Queue(t) \/ Decline(t)
    BY <2>1, <2>5 DEF Queue, Decline, pipeline
  <2>6. ASSUME NEW t \in Task, Drain(t) \/ Drive(t) \/ Approve(t) \/ Retry(t)
        PROVE  FALSE
    <3>1. \E kind \in {"fresh", "retry"} \union Resumes :
             building' = t \/ Enqueue(t, kind)
      BY <1>1, <2>6 DEF Drain, Drive, Approve, Retry, StartBuild, BeginBuild, BeginPipeline,
                        Resumes, IInv, TypeOK
    <3>2. \A kind : Enqueue(t, kind) => Len(jobs') > 0
      <4> SUFFICES ASSUME NEW kind, Enqueue(t, kind)  PROVE Len(jobs') > 0
        OBVIOUS
      <4> DEFINE s == IF kind = "retry" THEN Unheard(t) ELSE jobs
                 e == [task |-> t, kind |-> kind, heard |-> (kind = "retry"), aborted |-> FALSE]
      <4>1. jobs' = Append(s, e)
        BY DEF Enqueue
      <4>2. jobs \in Seq(Job) /\ DOMAIN jobs = 1..Len(jobs) /\ Len(jobs) \in Nat
        BY <1>1, LenProperties DEF IInv, TypeOK
      <4>3. Unheard(t) \in Seq(Job)
        <5>1. JobsOK(jobs, Task, FALSE)
          BY <1>1, MoreRepeated DEF IInv, TypeOK
        <5>2. QED
          BY <2>6, <5>1, UnheardJobs DEF JobsOK
      <4>4. s \in Seq(Job)
        BY <4>2, <4>3
      <4> HIDE DEF s, e
      <4>5. QED
        BY <4>1, <4>4
    <3>3. QED
      BY <2>2, <3>1, <3>2, TaskIsNotNoTask
  <2>7. ASSUME NEW t \in Task, Skip(t)
        PROVE  mode' # "BUILD_IN_PROGRESS"
    BY <1>1, <2>7, ReturnToIdleFacts DEF Skip, Leave, IInv
  <2>8. ASSUME NEW t \in Task, Pipeline(t)
        PROVE  mode' # "BUILD_IN_PROGRESS"
    <3>1. building = t /\ t # NoTask
      BY <2>8, TaskIsNotNoTask
         DEF Pipeline, ScreenReturns, WorkspaceReady, TurnReturns, TurnAborted,
             TurnTimesOut, TeardownReturns, ProbeReturns
    <3>2. \/ \E phase \in Resumes : Park(t, phase)
          \/ \E how \in Outcomes : Finalize(t, how)
          \/ Decide(t)
          \/ \E next \in Awaits, retry \in BOOLEAN : WaitAt(next, retry)
      BY <1>1, <2>8
         DEF Pipeline, ScreenReturns, WorkspaceReady, TurnReturns, TurnAborted,
             TurnTimesOut, TeardownReturns, ProbeReturns, FailAttempt, RetryOnce,
             Resumes, Outcomes, Awaits, IInv, TypeOK
    <3>3. ~Decide(t) /\ \A next \in Awaits, retry \in BOOLEAN : ~WaitAt(next, retry)
      BY <2>2, <3>1 DEF Decide, WaitAt
    <3>4. QED
      BY <1>1, <3>2, <3>3, ReturnToIdleFacts DEF Park, Finalize, Leave, IInv
  <2>9. CASE NextRetry \/ NextBuild
    <3>1. jobs # <<>>
      BY <2>9 DEF NextRetry, NextBuild
    <3>2. Head(jobs).task \in Task
      BY <1>1, <3>1, HeadFacts
    <3>3. building' = Head(jobs).task
      BY <2>9 DEF NextRetry, NextBuild, BeginBuild, BeginPipeline
    <3>4. QED
      BY <2>2, <3>2, <3>3, TaskIsNotNoTask
  <2>10. CASE NextRefused
    BY <2>10 DEF NextRefused, modeVars
  <2>12. CASE Close
    BY <2>12 DEF Close
  <2>11. QED
    BY <1>1, <2>3, <2>4, <2>5, <2>6, <2>7, <2>8, <2>9, <2>10, <2>12, <2>13
       DEF Next, NextJob
<1>2. IInv /\ [Next]_vars =>
        [Busy /\ ~Busy' => mode' # "BUILD_IN_PROGRESS" \/ closed']_vars
  BY <1>1
<1>3. QED
  BY <1>2, Invariance, PTL DEF Spec, StageGivenBack

-------------------------------------------------------------------------------
(***************************************************************************)
(* The operator's console                                                  *)
(***************************************************************************)

\* What the page enables is what the server would accept, field by field of the state.
LEMMA AcceptsWhatItShows ==
  ASSUME seen = State
  PROVE  /\ "round" \in Buttons(seen) => MayStartRound
         /\ "chaos" \in Buttons(seen) /\ ~chaos => "CHAOS_MODE" \in Transitions[mode]
         /\ "project" \in Buttons(seen) => mode \notin {"BUILD_IN_PROGRESS", "HALTED"}
         /\ "revoke" \in Buttons(seen) => window # NoWindow \/ banked # NoWindow
         /\ {"retry", "skip"} \intersect Buttons(seen) # {} => build = "failed"
<1>1. /\ seen.mode = mode /\ seen.chaos = chaos /\ seen.round = round /\ seen.enough = enough
      /\ seen.window = (window # NoWindow \/ banked # NoWindow)
      /\ seen.build = IF build = "screening" THEN "none" ELSE build
  BY DEF State
<1>2. \A b \in {"round", "chaos", "project", "revoke", "retry", "skip"} :
         b \in Buttons(seen) =>
            b \in RoundButtons(seen) \union DecisionButtons(seen) \union WindowButtons(seen)
  BY DEF Buttons, TriageButtons, RecoveryActions
<1>3. "round" \in Buttons(seen) => MayStartRound
  BY <1>1, <1>2 DEF RoundButtons, DecisionButtons, WindowButtons, RoundReason, MayStartRound
<1>4. "chaos" \in Buttons(seen) /\ ~chaos => "CHAOS_MODE" \in Transitions[mode]
  <2>1. "chaos" \in Buttons(seen) /\ ~chaos => mode = "IDLE"
    BY <1>1, <1>2 DEF RoundButtons, DecisionButtons, WindowButtons, ChaosReason
  <2>2. "CHAOS_MODE" \in Transitions["IDLE"]
    BY DEF Transitions, Modes, ActiveModes
  <2>3. QED
    BY <2>1, <2>2
<1>5. "project" \in Buttons(seen) => mode \notin {"BUILD_IN_PROGRESS", "HALTED"}
  BY <1>1, <1>2 DEF RoundButtons, DecisionButtons, WindowButtons, ProjectReason
<1>6. "revoke" \in Buttons(seen) => window # NoWindow \/ banked # NoWindow
  BY <1>1, <1>2 DEF RoundButtons, DecisionButtons, WindowButtons
<1>7. {"retry", "skip"} \intersect Buttons(seen) # {} => build = "failed"
  BY <1>1, <1>2 DEF RoundButtons, DecisionButtons, WindowButtons
<1>8. QED
  BY <1>3, <1>4, <1>5, <1>6, <1>7

\* A button the page enables on a state that is still true is accepted by its route (the
\* disabled reasons of console.js against the routes of the console's server).
THEOREM ButtonsAreAccepted == ConsoleSpec => []EnabledIsAccepted
<1>1. EnabledIsAccepted
  BY AcceptsWhatItShows DEF EnabledIsAccepted
<1>2. QED
  BY <1>1, PTL

\* What becomes of the windows and of the timer of the 30-second line.
BeatMoves ==
    \/ UNCHANGED <<window, beat>>
    \/ beat' \in {window', NoWindow}

LEMMA GoIdleBeat ==
  ASSUME GoIdle \/ LeaveBuild
  PROVE  BeatMoves
<1>1. GoIdle => BeatMoves
  BY DEF GoIdle, Promote, ArmBeat, BeatMoves
<1>2. QED
  BY <1>1 DEF LeaveBuild, BeatMoves

LEMMA RecoverShowBeat ==
  ASSUME BeatIsOfTheWindow, NEW a \in RecoveryActions, RecoverShow(a)
  PROVE  BeatIsOfTheWindow'
  BY DEF RecoverShow, ClearBeat, BeatIsOfTheWindow

LEMMA NextBeat ==
  ASSUME BeatIsOfTheWindow, ConsoleNext
  PROVE  BeatIsOfTheWindow'
<1>1. BeatMoves => BeatIsOfTheWindow'
  BY DEF BeatMoves, BeatIsOfTheWindow
<1>2. CASE Tip
  BY <1>1, <1>2 DEF Tip, ArmBeat, BeatMoves, BeatIsOfTheWindow
<1>3. CASE BeatFires \/ Expire
  BY <1>1, <1>3 DEF BeatFires, Expire, ClearBeat, BeatMoves
<1>4. CASE RoundCloses
  BY <1>1, <1>4, GoIdleBeat DEF RoundCloses, BeatMoves
<1>5. CASE BuildEnds
  BY <1>1, <1>5, GoIdleBeat DEF BuildEnds
<1>6. CASE Approved \/ RoundOpens \/ BuildStarts \/ BuildBegins \/ BuildFails
  BY <1>1, <1>6 DEF Approved, RoundOpens, BuildStarts, BuildBegins, BuildFails, Stages, BeatMoves
<1>7. CASE Tap \/ TapLapses \/ SocketCloses \/ Reconnect
  BY <1>1, <1>7 DEF Tap, TapLapses, SocketCloses, Reconnect, show, BeatMoves
<1>8. CASE HaltRoute \/ RoundRoute \/ ProjectRoute \/ RetryRoute
  BY <1>1, <1>8 DEF HaltRoute, RoundRoute, ProjectRoute, RetryRoute, show, BeatMoves
<1>9. ASSUME NEW a \in RecoveryActions, RecoverRoute(a)  PROVE BeatIsOfTheWindow'
  BY <1>1, <1>9, RecoverShowBeat DEF RecoverRoute, BeatMoves
<1>10. CASE RevokeRoute
  BY <1>1, <1>10 DEF RevokeRoute, RevokeWindow, ClearBeat, BeatMoves
<1>11. CASE ChaosRoute
  BY <1>1, <1>11, GoIdleBeat DEF ChaosRoute, BeatMoves
<1>12. CASE SkipRoute
  BY <1>1, <1>12, GoIdleBeat DEF SkipRoute, BeatMoves
<1>13. QED
  BY <1>2, <1>3, <1>4, <1>5, <1>6, <1>7, <1>8, <1>9, <1>10, <1>11, <1>12 DEF ConsoleNext, Routes

\* The 30-second line is only ever said of the window that is live (clearWindowBeat in
\* main.ts), whether it expires, is revoked, is discarded or gives way to a banked one.
THEOREM BeatFollowsTheWindow == ConsoleSpec => []BeatIsOfTheWindow
<1>1. ConsoleInit => BeatIsOfTheWindow
  BY DEF ConsoleInit, BeatIsOfTheWindow
<1>2. BeatIsOfTheWindow /\ [ConsoleNext]_consoleVars => BeatIsOfTheWindow'
  <2>1. UNCHANGED consoleVars => UNCHANGED <<window, beat>>
    BY DEF consoleVars, show
  <2>2. QED
    BY <2>1, NextBeat DEF BeatIsOfTheWindow
<1>3. QED
  BY <1>1, <1>2, PTL DEF ConsoleSpec

\* What the console is told at once: not the stages of a build, the pool, or the windows.
ShowsTheMode == seen.mode = mode /\ seen.chaos = chaos /\ seen.round = round

PageShowsTheMode == online => ShowsTheMode

LEMMA NextShown ==
  ASSUME PageShowsTheMode, ConsoleNext
  PROVE  PageShowsTheMode'
<1>1. State'.mode = mode' /\ State'.chaos = chaos' /\ State'.round = round'
  BY DEF State
<1>2. [State' EXCEPT !.window = TRUE].mode = mode' /\ [State' EXCEPT !.window = TRUE].chaos = chaos'
      /\ [State' EXCEPT !.window = TRUE].round = round'
  BY DEF State
<1>3. ASSUME Push \/ Send([State' EXCEPT !.window = TRUE])  PROVE PageShowsTheMode'
  BY <1>1, <1>2, <1>3 DEF Push, Send, PageShowsTheMode, ShowsTheMode
<1>4. ASSUME NoPush \/ UNCHANGED socket, UNCHANGED <<mode, chaos, round>>  PROVE PageShowsTheMode'
  BY <1>4 DEF NoPush, socket, PageShowsTheMode, ShowsTheMode
<1>5. ASSUME NEW told \in BOOLEAN, PushIf(told), ~told => UNCHANGED <<mode, chaos, round>>
      PROVE  PageShowsTheMode'
  BY <1>3, <1>4, <1>5 DEF PushIf
<1>6. CASE Tip \/ RoundOpens \/ RoundCloses \/ BuildStarts \/ RetryRoute \/ SkipRoute
  BY <1>3, <1>6 DEF Tip, RoundOpens, RoundCloses, BuildStarts, RetryRoute, SkipRoute
<1>7. CASE BeatFires \/ Approved \/ BuildBegins \/ BuildFails
  BY <1>4, <1>7 DEF BeatFires, Approved, BuildBegins, BuildFails, Stages, modeVars
<1>8. CASE Expire
  BY <1>3, <1>4, <1>8 DEF Expire
<1>9. CASE BuildEnds
  BY <1>5, <1>9 DEF BuildEnds, LeaveBuild
<1>10. CASE Tap
  BY <1>5, <1>10 DEF Tap, HaltShow, modeVars
<1>11. CASE TapLapses
  BY <1>4, <1>11 DEF TapLapses, show, modeVars
<1>12. CASE SocketCloses
  BY <1>12 DEF SocketCloses, PageShowsTheMode
<1>13. CASE Reconnect
  <2>1. seen' = State /\ UNCHANGED <<mode, chaos, round>>
    BY <1>13 DEF Reconnect, show, modeVars
  <2>2. QED
    BY <2>1 DEF State, PageShowsTheMode, ShowsTheMode
<1>14. CASE HaltRoute
  BY <1>5, <1>14 DEF HaltRoute, HaltShow, modeVars
<1>15. ASSUME NEW a \in RecoveryActions, RecoverRoute(a)  PROVE PageShowsTheMode'
  BY <1>5, <1>15 DEF RecoverRoute, modeVars
<1>16. CASE RevokeRoute
  BY <1>5, <1>16 DEF RevokeRoute, modeVars
<1>17. CASE RoundRoute
  BY <1>5, <1>17 DEF RoundRoute, MayStartRound, modeVars
<1>18. CASE ChaosRoute
  <2> DEFINE allowed == (IF chaos THEN "IDLE" ELSE "CHAOS_MODE") \in Transitions[mode]
  <2>1. PushIf(allowed) /\ round' = round /\ (~allowed => UNCHANGED <<mode, chaos>>)
    BY <1>18 DEF ChaosRoute, modeVars
  <2>2. allowed \in BOOLEAN
    OBVIOUS
  <2> HIDE DEF allowed
  <2>3. QED
    BY <1>5, <2>1, <2>2
<1>19. CASE ProjectRoute
  BY <1>5, <1>19 DEF ProjectRoute, show, modeVars
<1>20. QED
  BY <1>6, <1>7, <1>8, <1>9, <1>10, <1>11, <1>12, <1>13, <1>14, <1>15, <1>16, <1>17, <1>18, <1>19
     DEF ConsoleNext, Routes

\* A connected page that no message is under way to never draws an old mode, chaos mode or
\* round: whatever changes one of them pushes (the subscriptions of the console's server).
THEOREM ModeIsPushed == ConsoleSpec => []PageShowsTheMode
<1>1. ConsoleInit => PageShowsTheMode
  BY DEF ConsoleInit, State, PageShowsTheMode, ShowsTheMode
<1>2. PageShowsTheMode /\ [ConsoleNext]_consoleVars => PageShowsTheMode'
  <2>1. UNCHANGED consoleVars => UNCHANGED <<online, seen, mode, chaos, round>>
    BY DEF consoleVars, show, modeVars, socket
  <2>2. QED
    BY <2>1, NextShown DEF PageShowsTheMode, ShowsTheMode
<1>3. QED
  BY <1>1, <1>2, PTL DEF ConsoleSpec

===============================================================================

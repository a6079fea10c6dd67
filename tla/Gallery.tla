------------------------------- MODULE Gallery -------------------------------
(***************************************************************************)
(* The persistent workspace and the gallery publisher: every finished      *)
(* build is snapshotted into a git mirror and pushed to one public repo    *)
(* per project, and the vote arms that move between projects (a new        *)
(* project, a swap, a revert) wait for the publisher.  A project is a      *)
(* generation of the workspace.  What a directory or a commit holds is a   *)
(* set of files; every exec and file operation may fail.                   *)
(***************************************************************************)
EXTENDS Naturals, Sequences, SequencesExt, FiniteSets

CONSTANTS Files,            \* the committable files of a project
          MaxGeneration,    \* bound: projects
          MaxWinners,       \* bound: builds, new projects, swaps and reverts begun
          MaxFaults,        \* bound: failures of git, gh or a file system
          MaxJobs           \* bound: calls in the publisher at once

GalleryAssumption ==
    /\ MaxGeneration \in Nat \ {0}
    /\ MaxWinners \in Nat /\ MaxFaults \in Nat /\ MaxJobs \in Nat

ASSUME GalleryAssumption

Generations == 1..MaxGeneration

VARIABLES
    generation,     \* workspace_state: the project on stage
    top,            \* workspace_state: the highest generation ever
    scaffolded,     \* workspace_state: the project on stage has a build
    work,           \* the files of each generation's workspace directory
    repo,           \* project_repos: the generations bound to a repo
    created,        \* repos that exist on the host
    remote,         \* their commits
    mirror,         \* the local mirrors: working tree, index, commits
    chain,          \* the publisher's calls, the first one running
    at,             \* where the running call stands
    onStage,        \* BUILD_IN_PROGRESS
    building,       \* the generation a build writes to, 0 for none
    announcing,     \* generations whose play link waits for Pages
    playable,       \* the generation whose play link is shown, 0 for none
    winners, faults  \* the bounded counters

durable == <<generation, top, scaffolded, repo>>
hosted  == <<created, remote>>
show    == <<onStage, building, announcing, playable>>
vars    == <<durable, hosted, show, work, mirror, chain, at, winners, faults>>

NoMirror == [git |-> FALSE, tree |-> {}, index |-> {}, commits |-> <<>>]
Kinds    == {"done", "ship", "swap", "revert"}
Steps    == {"start", "create", "init", "open", "refresh", "add", "commit", "push",
             "count", "copy", "prune", "pushRevert"}

\* The tree of the last commit.
HeadTree(m) == IF m.commits = <<>> THEN {} ELSE Last(m.commits)

Init ==
    /\ generation = 1 /\ top = 1 /\ scaffolded = FALSE
    /\ work = [g \in Generations |-> {}]
    /\ repo = {} /\ created = {}
    /\ remote = [g \in Generations |-> <<>>]
    /\ mirror = [g \in Generations |-> NoMirror]
    /\ chain = <<>> /\ at = "start"
    /\ onStage = FALSE /\ building = 0
    /\ announcing = {} /\ playable = 0
    /\ winners = 0 /\ faults = 0

-----------------------------------------------------------------------------
(* The workspace pointer.                                                  *)

\* Mutant of NewProject: allocated above the pointer, as before swaps existed.
NewProjectOffPointer ==
    /\ generation' = generation + 1
    /\ top' = IF generation = top THEN top + 1 ELSE top
    /\ scaffolded' = FALSE

\* newProject allocates above the all-time top, never above the pointer.
NewProject ==
    /\ top' = top + 1
    /\ generation' = top + 1
    /\ scaffolded' = FALSE

\* activateExisting moves the pointer; it throws before writing on a bad target.
Activate(target) ==
    IF target \in 1..top \ {generation}
    THEN generation' = target /\ scaffolded' = TRUE /\ UNCHANGED top
    ELSE UNCHANGED <<generation, scaffolded, top>>

-----------------------------------------------------------------------------
(* The show around the publisher.                                          *)

Call(kind, target) ==
    /\ Len(chain) < MaxJobs
    /\ chain' = Append(chain, [kind |-> kind, gen |-> generation, target |-> target])

\* Entering BUILD_IN_PROGRESS takes the last play link down.
TakeStage == onStage' = TRUE /\ playable' = 0
\* Mutant of LeaveStage: nobody returns to IDLE.
KeepStage == UNCHANGED onStage

LeaveStage == onStage' = FALSE

\* A winner, a pick or a paid instruction is handed to the agent.
StartBuild ==
    /\ ~onStage /\ building = 0 /\ winners < MaxWinners
    /\ TakeStage
    /\ building' = generation
    /\ winners' = winners + 1
    /\ UNCHANGED <<durable, hosted, work, mirror, chain, at, announcing, faults>>

BuildWrites ==
    /\ building # 0
    /\ \E content \in SUBSET Files \ {{}, work[building]} :
          work' = [work EXCEPT ![building] = content]
    /\ UNCHANGED <<durable, hosted, show, mirror, chain, at, winners, faults>>

\* finalize(done): the project counts as built and its publish is called, fire and forget.
BuildDone ==
    /\ building # 0
    /\ scaffolded' = TRUE
    /\ Call("done", 0)
    /\ building' = 0
    /\ LeaveStage
    /\ UNCHANGED <<generation, top, repo, hosted, work, mirror, at, announcing, playable,
                   winners, faults>>

\* Refused, failed and skipped, or aborted.
BuildFails ==
    /\ building # 0
    /\ building' = 0
    /\ LeaveStage
    /\ UNCHANGED <<durable, hosted, work, mirror, chain, at, announcing, playable, winners, faults>>

\* A halt and a reset take the stage away; an arm that waits for the publisher goes on.
HaltAndReset ==
    /\ onStage
    /\ building' = 0
    /\ LeaveStage
    /\ UNCHANGED <<durable, hosted, work, mirror, chain, at, announcing, playable, winners, faults>>

\* The bound on projects leaves room for the ships under way.
Room == top + Cardinality({i \in DOMAIN chain : chain[i].kind = "ship"}) < MaxGeneration

\* shipThenRotate, up to its await.  Without a built project it is an ordinary build.
StartShip ==
    /\ ~onStage /\ scaffolded /\ winners < MaxWinners /\ Room
    /\ TakeStage
    /\ Call("ship", 0)
    /\ winners' = winners + 1
    /\ UNCHANGED <<durable, hosted, work, mirror, at, building, announcing, faults>>

\* runSwapWinner, up to its await; an unbuilt canvas is left behind without a publish.
StartSwap ==
    /\ ~onStage /\ winners < MaxWinners
    /\ winners' = winners + 1
    /\ \E target \in repo \ {generation} :
          IF scaffolded
          THEN /\ TakeStage /\ Call("swap", target)
               /\ UNCHANGED <<generation, top, scaffolded>>
          ELSE /\ Activate(target)
               /\ playable' = 0 /\ UNCHANGED <<onStage, chain>>
    /\ UNCHANGED <<repo, hosted, work, mirror, at, building, announcing, faults>>

\* runRevertWinner, up to its await.
StartRevert ==
    /\ ~onStage /\ winners < MaxWinners
    /\ TakeStage
    /\ Call("revert", 0)
    /\ winners' = winners + 1
    /\ UNCHANGED <<durable, hosted, work, mirror, at, building, announcing, faults>>

\* The console's New project, and a wipe-intent winner that saves and closes.
Rotate ==
    /\ ~onStage /\ Room
    /\ NewProject
    /\ UNCHANGED <<repo, hosted, show, work, mirror, chain, at, winners, faults>>

\* Mutant of Announce: the mode is not looked at when the poll ends.
AnnounceLate ==
    \E g \in announcing :
        /\ announcing' = announcing \ {g}
        /\ playable' = g
        /\ UNCHANGED <<durable, hosted, work, mirror, chain, at, onStage, building, winners, faults>>

\* awaitPagesBuilt ends, built or timed out: the link is shown unless a build has begun.
Announce ==
    \E g \in announcing :
        /\ announcing' = announcing \ {g}
        /\ playable' = IF onStage THEN playable ELSE g
        /\ UNCHANGED <<durable, hosted, work, mirror, chain, at, onStage, building, winners, faults>>

-----------------------------------------------------------------------------
(* The end of a call: what its caller does with the answer.                *)

Confirmed(status) == status \in {"published", "no-changes"}

\* onBuildDone announces, runSwapWinner activates.  shipThenRotate rotates and hands the
\* winner over, which waits behind another build, and is dropped by a halt or closed at once
\* when it asks for a wipe.
Answer(status) ==
    LET job == Head(chain) IN
    /\ chain' = Tail(chain)
    /\ at' = "start"
    /\ CASE job.kind = "done" ->
              /\ announcing' = IF Confirmed(status) /\ job.gen \in repo
                               THEN announcing \cup {job.gen} ELSE announcing
              /\ UNCHANGED <<generation, top, scaffolded, onStage, building, playable>>
         [] job.kind = "ship" /\ Confirmed(status) ->
              /\ NewProject
              /\ \/ building = 0 /\ building' = generation' /\ TakeStage
                 \/ building # 0 /\ UNCHANGED <<onStage, building, playable>>
                 \/ LeaveStage /\ UNCHANGED <<building, playable>>
              /\ UNCHANGED announcing
         [] job.kind = "swap" /\ Confirmed(status) ->
              /\ Activate(job.target)
              /\ LeaveStage
              /\ UNCHANGED <<building, announcing, playable>>
         [] OTHER ->
              /\ LeaveStage
              /\ UNCHANGED <<generation, top, scaffolded, building, announcing, playable>>

Fault == faults < MaxFaults /\ faults' = faults + 1
NoFault == UNCHANGED faults

Fails == Fault /\ Answer("failed")

At(step) == chain # <<>> /\ at = step
Gen == Head(chain).gen
GoTo(step) == at' = step /\ UNCHANGED <<chain, generation, top, scaffolded, show>>

-----------------------------------------------------------------------------
(* publishNow: one action per await that another actor can tell apart.     *)

\* An empty workspace publishes and creates nothing; the routing table picks the repo.
Preflight ==
    /\ At("start") /\ Head(chain).kind # "revert"
    /\ \/ Fails
       \/ NoFault /\ work[Gen] = {} /\ Answer("no-changes")
       \/ NoFault /\ work[Gen] # {} /\ GoTo(IF Gen \in repo THEN "open" ELSE "create")
    /\ UNCHANGED <<repo, hosted, work, mirror, winners>>

\* gh repo create; an existing repo is taken over.
CreateRepo ==
    /\ At("create")
    /\ \/ Fails /\ UNCHANGED created
       \/ NoFault /\ GoTo("init") /\ created' = created \cup {Gen}
    /\ UNCHANGED <<repo, remote, work, mirror, winners>>

\* git init unless the mirror has a repo already; then the routing row.
InitMirror ==
    /\ At("init")
    /\ \/ Fails /\ UNCHANGED <<mirror, repo>>
       \/ /\ NoFault /\ GoTo("refresh")
          /\ mirror' = [mirror EXCEPT ![Gen].git = TRUE]
          /\ repo' = repo \cup {Gen}
    /\ UNCHANGED <<hosted, work, winners>>

\* Mutant of Cloned: a missing mirror is made anew instead of cloned.
ClonedEmpty(g) == [NoMirror EXCEPT !.git = TRUE]

Cloned(g) ==
    [git |-> TRUE, commits |-> remote[g],
     tree |-> IF remote[g] = <<>> THEN {} ELSE Last(remote[g]),
     index |-> IF remote[g] = <<>> THEN {} ELSE Last(remote[g])]

\* continueRepo: a missing mirror is cloned again, after clearing what is in its place.
OpenMirror(next) ==
    \/ /\ mirror[Gen].git /\ NoFault /\ GoTo(next) /\ UNCHANGED mirror
    \/ /\ ~mirror[Gen].git
       /\ \/ Fails /\ mirror' = [mirror EXCEPT ![Gen] = NoMirror]
          \/ NoFault /\ GoTo(next) /\ mirror' = [mirror EXCEPT ![Gen] = Cloned(Gen)]

Open ==
    /\ At("open") /\ OpenMirror("refresh")
    /\ UNCHANGED <<repo, hosted, work, winners>>

\* The mirror's tree is cleared, then the workspace copied in; either may stop half way.
Refresh ==
    /\ At("refresh")
    /\ \/ /\ Fails
          /\ \E left \in (SUBSET mirror[Gen].tree) \cup (SUBSET work[Gen]) :
                mirror' = [mirror EXCEPT ![Gen].tree = left]
       \/ NoFault /\ GoTo("add") /\ mirror' = [mirror EXCEPT ![Gen].tree = work[Gen]]
    /\ UNCHANGED <<repo, hosted, work, winners>>

\* git add -A; a porcelain status that is empty ends the call.
Add ==
    /\ At("add")
    /\ \/ Fails /\ UNCHANGED mirror
       \/ /\ NoFault
          /\ mirror' = [mirror EXCEPT ![Gen].index = mirror[Gen].tree]
          /\ IF mirror[Gen].tree = HeadTree(mirror[Gen])
             THEN Answer("no-changes") ELSE GoTo("commit")
    /\ UNCHANGED <<repo, hosted, work, winners>>

Commit ==
    /\ At("commit")
    /\ \/ Fails /\ UNCHANGED mirror
       \/ /\ NoFault /\ GoTo("push")
          /\ mirror' = [mirror EXCEPT ![Gen].commits = Append(@, mirror[Gen].index)]
    /\ UNCHANGED <<repo, hosted, work, winners>>

\* git push: only a fast-forward is accepted, and the answer to one may be lost.
Pushed == IsPrefix(remote[Gen], mirror[Gen].commits)
          /\ remote' = [remote EXCEPT ![Gen] = mirror[Gen].commits]

Push(step, ok) ==
    /\ At(step)
    /\ \/ Fails /\ (Pushed \/ UNCHANGED remote)
       \/ ~IsPrefix(remote[Gen], mirror[Gen].commits) /\ NoFault /\ Answer("failed") /\ UNCHANGED remote
       \/ NoFault /\ Pushed /\ Answer(ok)
    /\ UNCHANGED <<repo, created, work, mirror, winners>>

PushSnapshot == Push("push", "published")

-----------------------------------------------------------------------------
(* revertLast.                                                             *)

\* No repo, no history to revert.
StartRevertCall ==
    /\ At("start") /\ Head(chain).kind = "revert"
    /\ \/ Gen \notin repo /\ NoFault /\ Answer("nothing-to-revert") /\ UNCHANGED mirror
       \/ Gen \in repo /\ OpenMirror("count")
    /\ UNCHANGED <<repo, hosted, work, winners>>

\* What git revert HEAD leaves in the working tree: only the files that the last commit
\* touched are looked at or changed.  git refuses when the index is not HEAD, or when a
\* file it would bring back lies there untracked.
Touched(m)   == LET c == m.commits n == Len(m.commits) IN (c[n] \ c[n-1]) \cup (c[n-1] \ c[n])
Before(m)    == m.commits[Len(m.commits) - 1]
Revertable(m) == m.index = HeadTree(m) /\ (Before(m) \ HeadTree(m)) \cap m.tree = {}
Reverted(m) ==
    [m EXCEPT !.commits = Append(@, Before(m)),
              !.index = Before(m),
              !.tree = (@ \ Touched(m)) \cup (Before(m) \cap Touched(m))]

\* The revert commit comes before the workspace is touched.
RevertCommit ==
    /\ At("count")
    /\ \/ Len(mirror[Gen].commits) < 2 /\ NoFault /\ Answer("nothing-to-revert") /\ UNCHANGED mirror
       \/ /\ Len(mirror[Gen].commits) >= 2
          /\ \/ Fails /\ UNCHANGED mirror
             \/ ~Revertable(mirror[Gen]) /\ NoFault /\ Answer("failed") /\ UNCHANGED mirror
             \/ /\ Revertable(mirror[Gen]) /\ NoFault /\ GoTo("copy")
                /\ mirror' = [mirror EXCEPT ![Gen] = Reverted(@)]
    /\ UNCHANGED <<repo, hosted, work, winners>>

\* Mutant of CopyBack: the workspace is removed before it is copied.
CopyBackOverNothing ==
    /\ At("copy")
    /\ \/ Fails /\ \E part \in SUBSET mirror[Gen].tree : work' = [work EXCEPT ![Gen] = part]
       \/ NoFault /\ GoTo("prune") /\ work' = [work EXCEPT ![Gen] = mirror[Gen].tree]
    /\ UNCHANGED <<repo, hosted, mirror, winners>>

\* The mirror's files are copied over the workspace; a failed copy is a part of it.
CopyBack ==
    /\ At("copy")
    /\ \/ Fails /\ \E part \in SUBSET mirror[Gen].tree :
                      work' = [work EXCEPT ![Gen] = @ \cup part]
       \/ NoFault /\ GoTo("prune") /\ work' = [work EXCEPT ![Gen] = @ \cup mirror[Gen].tree]
    /\ UNCHANGED <<repo, hosted, mirror, winners>>

\* Then the entries that the mirror's tree does not have are removed.
Prune ==
    /\ At("prune")
    /\ \/ Fails /\ \E part \in SUBSET (work[Gen] \ mirror[Gen].tree) :
                      work' = [work EXCEPT ![Gen] = @ \ part]
       \/ NoFault /\ GoTo("pushRevert") /\ work' = [work EXCEPT ![Gen] = @ \cap mirror[Gen].tree]
    /\ UNCHANGED <<repo, hosted, mirror, winners>>

PushRevert == Push("pushRevert", "reverted")

-----------------------------------------------------------------------------

\* The process dies; a restart finds the tables, the workspaces and, perhaps, the mirrors.
Crash ==
    /\ Fault
    /\ chain' = <<>> /\ at' = "start"
    /\ onStage' = FALSE /\ building' = 0 /\ announcing' = {} /\ playable' = 0
    /\ \/ UNCHANGED mirror
       \/ mirror' = [g \in Generations |-> NoMirror]
    /\ UNCHANGED <<durable, hosted, work, winners>>

Publisher ==
    \/ Preflight \/ CreateRepo \/ InitMirror \/ Open \/ Refresh \/ Add \/ Commit \/ PushSnapshot
    \/ StartRevertCall \/ RevertCommit \/ CopyBack \/ Prune \/ PushRevert

Next ==
    \/ Publisher
    \/ StartBuild \/ BuildWrites \/ BuildDone \/ BuildFails \/ HaltAndReset
    \/ StartShip \/ StartSwap \/ StartRevert \/ Rotate \/ Announce
    \/ Crash

\* Every exec, copy and poll returns, and a build ends.
Fairness == WF_vars(Publisher) /\ WF_vars(Announce) /\ WF_vars(BuildDone \/ BuildFails)

Spec == Init /\ [][Next]_vars
LiveSpec == Spec /\ Fairness

-----------------------------------------------------------------------------

Jobs    == [kind : Kinds, gen : Generations, target : {0} \cup Generations]
Mirrors == [git : BOOLEAN, tree : SUBSET Files, index : SUBSET Files,
            commits : Seq(SUBSET Files)]

PointerType == generation \in Generations /\ top \in Generations /\ generation <= top
ChainType   == chain \in Seq(Jobs) /\ at \in Steps /\ (chain = <<>> => at = "start")
FilesType   == /\ work \in [Generations -> SUBSET Files]
               /\ remote \in [Generations -> Seq(SUBSET Files)]
               /\ mirror \in [Generations -> Mirrors]
ReposType   == repo \subseteq created /\ created \subseteq Generations
LinksType   == announcing \subseteq repo /\ playable \in {0} \cup repo
StageType   == scaffolded \in BOOLEAN /\ onStage \in BOOLEAN /\ building \in {0} \cup Generations
CountsType  == winners \in 0..MaxWinners /\ faults \in 0..MaxFaults

TypeOK == PointerType /\ ChainType /\ FilesType /\ ReposType /\ LinksType /\ StageType /\ CountsType

\* Whatever fails and whenever the process dies or loses its mirrors, a mirror only ever
\* adds to what was pushed: no push is refused for not being a fast-forward.
MirrorExtendsRemote ==
    \A g \in Generations : mirror[g].git => IsPrefix(remote[g], mirror[g].commits)

\* A generation without a build has no repo: after any swaps back and rotations a new
\* project never lands on one that was published before.
NewProjectIsNew == ~scaffolded => generation \notin repo

\* A play link is never on screen during a build, however late the poll that brings it.
NoLinkUnderBuild == onStage => playable = 0

\* Copy first: outside a build no step takes a file from a workspace that the mirror's
\* tree has, so a revert that fails half way leaves a superset of the project.
RevertKeepsFiles ==
    [][\A g \in Generations :
          building # g => (work[g] \ work'[g]) \cap mirror[g].tree = {}]_vars

\* A ship, a swap or a revert that holds the stage gives it back, or begins its build.
ArmGivesStageBack == (onStage /\ building = 0) ~> (~onStage \/ building # 0)
=============================================================================

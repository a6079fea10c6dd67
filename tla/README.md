# Formal model of the vibecoding stream

The repository runs a live show: chat suggests changes to an app, votes on them, and an
agent builds the winner on stream while the streamer holds a kill switch, a console, and
a queue of paid "free-reign" windows. One Node process (`src/src/main.ts`) composes about
twenty components that talk through synchronous events and share one stream mode, and a
SQLite file survives it. This directory holds TLA+ models of those components, TLC runs
over small instances, and proofs checked by TLAPS.

All paths below are inside the repository; `main.ts` stands for `src/src/main.ts`, and
the other names likewise.

## Inventory

How components interact: Node runs one callback at a time, so a handler is atomic up to
its first `await`; `EventEmitter` listeners run synchronously inside the call that emits,
in subscription order; timers and settled promises are later callbacks. The models put
their step boundaries there. Browser pages talk to their servers over sockets that may be
down.

| Component | State | Operations | What makes it hard | Correct when | Module |
|---|---|---|---|---|---|
| Stream mode, halt and recovery (`state-machine/stream-mode.ts`, `halt.ts`) | mode, halt context | transition, triggerHalt, recover | reachable from every mode; listeners run inside the transition | HALTED is left only by a recovery, into the mode halted from or IDLE | `StreamMode` |
| Voting round (`state-machine/round.ts`, `pipeline/round.ts`) and pool (`queue/pool.ts`) | round, tally, timer, pool; three tables | start, vote, close, freeze, resume, discard, restore | rounds run under builds; halts, crashes and restarts anywhere; eviction and re-admission | tally = ledger, plurality winner, no voting time lost, nothing in two places but a pick under a second look | `VotingRound`, `PublicBallot` |
| Paid windows (`control-window/*.ts`) | active and banked window, timer, cooldowns; one table | open, bank, promote, expire, revoke, freeze, resume, discard, restore | promotion inside another component's transition, absolute deadlines, restarts | exact paid time, cooldown kept, a live window ends | `ControlWindow` |
| Auto-cycle (`state-machine/auto-cycle.ts`) | phase, timer, owed vote | begin, phase end, early close, park, toggle | re-entrancy; parking on conditions whose end emits no event | one phase at a time; the cadence never stalls while eligible | `Cadence` |
| Drain, drives, chaos (`main.ts`, `chaos/*.ts`, `pipeline/chaos.ts`, `pipeline/paid-window.ts`) | task queue, started marks, chaos flag | drain, drive, toggle, pick | synchronous re-entry, continuations after a build | a task that is done with is gone before anyone hears of it; no winner stranded | `Show` |
| Build session (`orchestrator/build-session.ts`) and abort registry (`kill-switch/*.ts`) | active build, pending decision, p-queue | start, attempt, decide, retry, skip, park, abort, close | a halt, a recovery and another build may pass during every `await` | one place per task not handed over twice, a halt reaches it, the stage is given back, it settles | `BuildSession` |
| Review queue and parked builds (`state-machine/review-queue.ts`, `main.ts`) | review rows, retained tasks, timers | hold, approve, reject, expire, sweep, start-up expiry | a timer, a sweep, a restart and the streamer race | a hold ends once, and ends | `HeldReview` |
| Preview supervisor, holdover and taint (`preview/dev-server-supervisor.ts`, `main.ts`) | served directory, reroots in flight, holdover | reroot, start, stop, withhold | reroots queue up and read the project when they run | the project on stage, or darkness over a held batch | `HeldReview` |
| Preview page (`preview/public/preview.js`, `preview/server.ts`) | two frames, polls, timers | poll, answer, load, swap, time out | overlapping polls, left-over handlers | never blank; the newest app ends on screen | `Preview` |
| Workspace pointer and gallery publisher (`orchestrator/workspace.ts`, `gallery-publisher.ts`) | pointer, mirrors, remote repos, publish chain | snapshot, ship, swap, revert, rotate, announce | every exec and file operation may fail, crashes between two | pushes fast-forward, new projects are new, nothing is lost | `Gallery` |
| Intake and gate (`pipeline/submit.ts`, `compliance/*.ts`, `ingestion/narration.ts`) | per-chatter limits, calls in flight, reply buffer | submit, classify, time out, retry, admit, hold | answers after timeouts, after halts, after windows close | fails closed, one fate per idea, every text decided | `Intake` |
| Operator console (`operator-console/*`) | last state sent, reason tag row | push, click, tag, reconnect, panic key | clicks on a stale page, a lost socket | enabled means accepted, a halt is seen | `Console` |
| Overlay (`overlay/*`) | last state sent, two beats, tally debounce | push, draw, beat ends, reconnect | beats live in the page only; missed pushes | screen agrees with the show, every vote is seen | `Overlay` |
| Audit ledger, builder feed, history, donation and redemption sources, sign-in, gallery index, configuration | projections and inputs | - | I/O and wording | see "Not modelled" | - |

`PROJECT.json` lists every component with its sources and status, and the hazards with
the line where each one bites and the property that would catch it.

## How the project is laid out

`StreamMode` is the mode table; `VotingRound`, `ControlWindow`, `BuildSession`, `Cadence`,
`Console` and `Overlay` extend it, so each meets halts and recoveries at every point.
`Show` extends `Cadence` and composes it with the drain and the drives, over short forms
of the round, the windows and the build session. `HeldReview`, `Intake`, `Gallery` and
`Preview` need only some of the modes, or none, and declare those. `PublicBallot` is an
abstract specification that `VotingRound` implements. `X_proofs` holds the theorems of
`X`, `BuildSession_proofs` also those of `Console`, and `Pages_proofs` those of `Overlay` and
`Preview`; `MCX` instantiates it for TLC, with the values its `.cfg` files take from it.
A definition named in `PROJECT.json` as a mutant stands beside the one it mutates.

### VotingRound

Process memory (`loaded`, `frozen`, `choice`, `tally`, `timer`, `pool`, `queue`) and the
tables (`status`, `options`, `left`, `frozenLeft`, `winner`, `ballots`) are separate
variables, so a crash is an action that resets the former and keeps the latter. Every
method of `RoundManager` is one action with the listeners it triggers: `StartRound`,
`RecordVote`, `CloseRound` (by `TimerFires`), `Halt` (with `#freeze`), `RecoverRound`
(with `#resume` or `#discard`). `startRound` writes its rows in separate statements:
`CrashInStart` dies between them. `Boot*` are the four outcomes of the restoration in
`main.ts`. Time is relative: `left` and `timer` count ticks, and a timer at 0 may fire
late. The other users of the mode are one action, `OtherTransition`, which makes any legal
transition except the one into VOTING_ROUND, which only this component makes, and the one
from a build straight into a window, which `driveWindowBuild` makes only from IDLE.

`gate` counts what the gate has of each suggestion. `Submit` sends a new one, `Pick` is what
the cadence and console chaos take without a vote, and each pick or winner is fresh or
stale: a fresh pick leaves the pool for `queue` (`PickFresh`), a stale one goes back to the
gate and stays pooled (`PickStale`), so that it may be drawn, or picked again, before
`GateAnswers` pools it wherever it is by then. `rechecked` is history: the picks this has
happened to. `queue` counts entries, since one suggestion may then be queued twice.

Abstractions: text, usernames and audit rows are dropped; whether an approval is stale, and
what the gate answers, are choices; vote tie-breaking (`Math.random`) is a nondeterministic
choice among the leaders; the reconciliation on an EventSub reconnect re-reads the ledger
and is covered by `TallyMatchesLedger`, which says it never has anything to repair.

### ControlWindow

`window`, `pending`, `frozen`, `timer`, `sinceGrant` are memory; `status`, `donor`,
`duration`, `left`, `age` are the `control_windows` table; `sincePaid` is a history
variable (time since the donor's last grant in any process) that only properties read.
`OpenNow` and `Bank` are the two successful ends of `open()`; `OtherTransition` carries
the `STATE_CHANGED` listener that promotes a banked window; `ReturnToWindow` is the mode
change at the end of a paid build; `Boot` is `restore()`, run after the round's.
`AmountToDuration` is `duration.ts`: a linear map, clamped, with an amount that is not a
number going to the floor; a donor pays any of `Amounts` and gets one of `PaidTimes`.
Fractions of a second are rounded away. `DurationAssumption` does not order floor and cap,
as the code does not: with the floor above the cap a payment buys the floor, or the shorter
cap once it is worth the floor. `Longest` is the larger of the two.

### BuildSession

The pipeline is asynchronous, so its place is state: `building` is the task of the running
pipeline and `at` the await it stands at (screen, workspace checks, agent turn, output
probe, or the teardown of a sandbox). Each action of `Pipeline` is the code from the end of
one await to the next, or to one of the four exits: `Finalize`, `Decide` (the decision the
streamer owes, `pending`), `Park` (held for review, `parked`), or a new attempt. Everything
else may happen at any await. `jobs` is p-queue with a concurrency of 1: `StartBuild` and
`Retry` run up to the first await at once when nothing is before them and otherwise append,
and `NextRetry`, `NextBuild` and `NextRefused` are what p-queue does when the pipeline before
has settled.

`queued` counts the queue's entries of each task. `Drain` hands over a head it has not
stamped and stamps it in `handed`, which forgets its oldest stamp past `HandedMax` (the
code's 128). `Drive` is the window's and the console's: it hands over any queued task, also
one that is running, waits, or stands on a decision. `repeated` is history: what was handed
over while the session had it. The abort registry has one controller per task. `heard` says
that a run's controller is the one in it, for the run under way and for each retry that
waits; registering a second one, or unregistering the task, makes the first unheard
(`Unheard`). `aborted` is a controller's signal, and `Halt` aborts what is heard.
`OtherTransition` lets the chaos toggle leave BUILD_IN_PROGRESS under a build, as the mode
table does. The answers of the screen, the agent and the probe are nondeterministic, and of
an outcome only `built` and `dropped` are told apart.

### Cadence and Show

The scheduler's methods are called from listeners that run inside other components' methods,
and call back into them. `calls` is the stack of the one thread: a method is a step that
replaces the top call by the calls it makes (`Then`), so the order in which listeners
subscribed and the re-entry of `#maybeBegin` from inside `#onPhaseEnd` are both in the
model, and properties are asked when the stack is empty (`InLoop`). `Cadence` has the
scheduler; what it reads of the rest is a parameter. `Show` has the rest: `queue` and
`started` (the drain's marks, a FIFO of `StartedMax`, the code's 128), `drainDue` (the
`setImmediate`), the drives and their continuations (`line`, `building`), chaos mode and the
voted chaos window, and the short forms of round (`round`, `roundFrozen`), window (`window`,
`armed`) and build (`BuildEnds`, `BuildNeedsDecision`, `Retry`, `Skip`).

A winner or a pick may be stale: `Recheck` sends it to the gate (`asked`), which refuses it
or pools it (`GateRefuses`, `Repooled`), and a pick stays pooled meanwhile.

Abstractions: a frozen window keeps no time; the weights of the random pick, ships, swaps,
reverts and parked holds are left to `Gallery`, `HeldReview` and `Intake`. `rechecked`,
`over` (what was built, skipped, vetoed or dropped), `uncapped`, `unheard` and `undrained`
are history variables.

### HeldReview

`rows` is the review table, `parked` the rows with a retained task and a timer in memory,
`job`/`waiting` the build session as far as a hold can meet it, `ship` a switch of project
that waits for its publish. `Park` is the end of the teardown that follows a hold found
before or in the middle of a build; `ApproveParked`, `RejectParked`, `TimerFires`, `Sweep`
and `Restart` are the ways a row is resolved. `serving`, `reroots` and `cycle` are the
supervisor: reroots run one after the other and read `generation` and `holdover` when they
run. `previewParked` is the taint of a workspace that may hold a held batch.

Abstractions: modes other than BUILD and HALTED count as IDLE; what a batch contains is only
held or not; a move of the project is `NewProject`, `Swap` or a ship.

### Gallery

A project is a generation of the workspace; what a directory, an index or a commit holds is
a set of files. `chain` is the publisher's promise chain and `at` where the running call
stands: each of `CreateRepo`, `InitMirror`, `Open`, `Refresh`, `Add`, `Commit`,
`PushSnapshot`, and of the revert's count, `CopyBack`, `Prune` and `PushRevert`, is one exec
or file operation that may fail, and the process may die, or a mirror be lost, between any
two. `StartShip`, `StartSwap`, `StartRevert` take BUILD_IN_PROGRESS and wait for the
publisher; `Rotate` and `LeaveStage` are what they do after. `announcing` is the poll for
the published page, and `playable` the link on screen.

### Intake

`call[n]` is where the classification of submission `n` stands: asking (with the number of
the attempt), backing off, or decided; `abandoned` are requests that timed out and may
still answer. `Answer` carries everything that happens in one callback: the decision, the
route (pool, review row, queue), the reply. `Suggest`, `Instruct` and `Pick` (a stale
winner sent back) are the three ways in. `buffer` and `timer` are the coalescing replies.
`sanctioned` is history: what the gate or the streamer approved.

Abstractions: the pool is a set (its order is in `VotingRound`); the prefilter is an answer
of the gate; staleness is a choice; the throttle of the outage notice and the sender's
queue are left out.

### Console

`seen` is the state the page last drew; `Send` is `pushState`. An event that the server
does not subscribe to changes the show without a push, so a page may be stale while it is
online. `Buttons(seen)` is the page's table of disabled reasons, and each action of
`Routes` is a click on what the page enables, handled by the route against the state of
that moment. `reason` is the row of reason tags, which send a second request. `beat` is the
composition root's timer for the line that 30 seconds are left. `Tap` is the panic key.

### Overlay

`page` is the page: the latest state, the two beats, and what each panel shows. `State` is
what `buildOverlayState` builds; a push is drawn by the operators named for the page's
render functions or lost when `online` is false. The page's own callbacks (`WinnerBeatEnds`,
`DoneBeatEnds`) draw only what the code draws there. `current` is the stage
`build.snapshot()` holds, which `finalize` forgets after it has pushed.

### Preview

Polls (`asked`, `answers`) overlap and may be answered out of order. A frame has its src,
its document, a navigation under way and whether its load handler is hooked; the handler
and the timeout look at whichever frame is the buffer when they run. `StopServer`,
`StartServer` and `BuildWrites` are the dev server. A navigation and its load event are one
step; OBS's reload of the page is `ReloadPage`.

## Runs

| Run | Question | Bounds | Distinct states |
|---|---|---|---|
| `voting_ledger` | tally = ledger, no suggestion in two places, halts cost no voting time, refinement of `PublicBallot` | 3 candidates, 3 voters, 2 options, pool of 2, one round of 2 ticks | 350,794 |
| `voting_two_rounds` | no suggestion in two places; every open round is decided or frozen | 2 candidates, nobody votes, pool of 2, two rounds of 1 tick, 1 extra copy by picks | 671,860 |
| `window_grants` | cooldown, exact paid time, a live window ends | 2 donors, 2 windows, durations 1-2, cooldown 3, amounts from none to above the cap | 55,076 |
| `build` | one place per task, a halt reaches the build, the stage is given back, a build settles | 2 tasks queued once, 1 waiting job, 1 task handed over again, 1 stamp | 901,124 |
| `gallery` | mirrors fast-forward, new projects are new, reverts lose nothing, links, stage given back | 2 files, 3 projects, 3 winners, 2 faults, 2 calls in the publisher | 833,568 |
| `held_review` | a hold ends once and ends, the preview shows the right project or nothing | 2 tasks, 2 holds, 2 projects, 1 move, 1 halt or restart | 458,481 |
| `show` | one phase timer, what is done with is gone, bounded queue, no stall, no stranded winner | 2 suggestions, 1 chaos request, 1 paid instruction, queue of 1, 1 stamp, 3 acts | 5,404,271 |
| `intake` | the gate fails closed, one fate per idea, every text decided | 2 chatters, 2 texts, 2 submissions, 2 attempts, pool of 2 | 561,054 |
| `console` | enabled buttons are accepted, the 30-second line, a halt is seen | 2 windows | 1,112,532 |
| `overlay` | page agrees with the show, panels agree, votes are seen | 2 votes | 346,218 |
| `preview` | never blank; the newest app ends on screen | 2 versions, 2 polls, 2 timeouts, 1 fault, 1 reload | 129,040 |
| `killed_build_recorded_built` | a killed build is never recorded as built: violated | 2 tasks | - |

### Why the bounds are enough

- Voting: three voters over two options give ties, majorities and revotes, and the third
  candidate overflows the pool; two rounds let a round meet the leftovers of the one before
  it (a stale timer, a suggestion pooled again, a winner still queued), and nobody needs to
  vote for that, as a round without votes closes for the earliest; two ticks let a freeze
  fall at the start, in the middle and at the end of a round. `MaxCopies` bounds what one
  pick after the other may leave at the gate and in the queue: one is enough for a stale
  pick to be drawn while it is asked about. Crashes, halts and recoveries are unbounded.
- Windows: two donors and a cooldown longer than a window let a payment be refused and
  accepted before and after a restart; two windows let one be banked behind the other.
- Build: a task's code looks at no more than one other task, so two give every pair of
  places. One waiting job is behind a running one, one repeat gives the second run of a task
  beside its first and beside another task's, and one stamp makes the eviction happen at the
  second head. Halts, recoveries, retries, skips and holds are unbounded.
- Gallery: three winners let a project be published, another opened, and the first swapped
  back to; a fault is a failed operation or a crash (with or without its mirrors), and two
  of them put a second failure into the recovery from the first. Two calls in the publisher
  make one wait behind the other.
- HeldReview: two holds race each other and their timers; two projects and one move let the
  project change between a reroot's call and its run; the halt or restart falls anywhere.
- Show: with one place in the vote queue the cap is met by every second winner, one stamp is
  forgotten at the second head, and three acts (halt, pause, toggle, window, revocation,
  retry, skip, veto, manual round, stale pick) can put a halt under a window under chaos. A
  chaos request and a paid instruction reach each drive.
- Intake: a chatter needs two submissions to meet the limits and an idea two to be
  reconsidered; a second attempt lets a late answer of the first arrive during it.
- Console, Overlay, Preview: the page keeps one previous state, so two windows, two votes
  and two versions tell "old" from "current"; two polls can pass each other, and two
  timeouts can outlive the load they were for.

The bounds are constants (`MaxRounds`, `MaxWindows`, `MaxGeneration`, `MaxWinners`,
`MaxFaults`, `MaxJobs`, `MaxCopies`, `MaxRepeats`, `MaxTasks`, `MaxRows`, `MaxMoves`,
`MaxOutages`, `MaxActs`, `MaxSubmissions`, `MaxVotes`, `MaxVersion`, `MaxPolls`,
`MaxTimers`, `MaxReloads`) that appear in guards only. `MaxAttempts`, `MaxPool`,
`MaxOptions`, `VoteQueueMax`, `EarlyCloseSize`, `HandedMax` and `StartedMax` are limits of
the code, the last two small. In `Cadence`, `MaxTimers` is 2 so that a second timer, an
orphan, can be seen.

Deadlock is checked except in `gallery`, `held_review`, `show` and `intake`. The first
three stop when every winner, hold and act within the bounds has come and gone, as the
show does when nobody sends anything. In `intake` the show may stop by itself too: a window
revoked under a halt, then resumed, leaves FREE_REIGN_WINDOW with no window to end it, and
once the submissions are used up nothing moves.

### Fairness

Only the runs with a liveness property assume any, and `show` assumes none: its
properties are invariants.

- `VotingRound`, `ControlWindow`: time passes, an expired `setTimeout` fires while the
  process runs, and a dead process is restarted (the operator's promise). Nobody is assumed
  to vote, start a round, recover or pay, and crashes are not assumed to stop.
- `BuildSession`: every await returns (the stall watchdog ends a turn that hangs; the
  screen, the probes and the teardown are bounded calls) and p-queue starts its next job;
  which way an await returns is not assumed, and the streamer owes nothing.
- `Gallery`: the publisher's calls return (an `exec` has a timeout), the poll for the page
  ends, and a build ends (`BuildEventuallySettles` of `BuildSession`).
- `HeldReview`: a teardown ends and a row's timer fires.
- `Intake`: a call times out and a backoff ends, per submission.
- `Console`, `Overlay`: a page reconnects (its script retries for ever), and the debounced
  push of a tally fires.
- `Preview`: `setInterval` polls and refreshes, a timeout fires, a probe is answered. Strong
  fairness for the answers of polls and for loads of an app, because newer polls and stops
  of the server may keep interrupting them: an app that is loaded again and again is loaded
  once.

## What the checks show

Every property in the table above holds but one.

`killed_build_recorded_built`: a halt while the output probe is awaited is not looked at
when the probe answers, and a probe that fails because the sandbox was terminated counts as
output (`build-session.ts:1199`), so the killed build is finalized as done, with a built
row, `markBuilt` and the publish hook. The comment at `build-session.ts:664` says "the
compliance ledger never records a force-killed build as completed".

The models show more behaviours a reader may not expect. They are modelled as they are,
and the properties above are stated so as to hold with them.

Rounds, windows and builds:
- A round opened under a build, frozen by a halt while a window has the show, stays frozen
  after Resume, and later rounds are refused (`round.ts:233`). Resume of a halt that came
  in IDLE discards a live round (`round.ts:234`).
- A process that dies HALTED without a frozen round boots IDLE (`main.ts:713`).
- A crash between the inserts of `startRound` restores a round of fewer than two options.
- A revoke under HALTED leaves FREE_REIGN_WINDOW as the mode Resume goes back to. A window
  restored into HALTED expires there. A window frozen during its build and resumed into
  the build is never re-armed, which is why `WindowEventuallyEnds` excepts a frozen window;
  a halt recovered elsewhere leaves a live window without a timer.
- A build that settles under HALTED leaves the mode alone, so Resume restores
  BUILD_IN_PROGRESS with nothing building (`build-session.ts:700`); a second build that
  reaches a decision, or parks, while one is owed overwrites or drops it (`:997`); a reset
  or the chaos toggle takes the mode from under a pending decision, which can then be
  retried outside BUILD_IN_PROGRESS; a halt during the workspace checks starts the turn
  with its signal already aborted.
- The drives of a window and of console chaos hand over whatever is queued, without the
  drain's stamps (`main.ts:2473`, `:2515`): a task that stands on a decision is built again
  beside it, and Retry then runs it twice. The second run's controller takes the first one's
  place (`abort.ts:44`), so a halt misses the first. `OnePlace` and `HaltReachesBuild` except
  the tasks this happened to (`repeated`).
- The drain remembers 128 stamps (`main.ts:2351`): a head that outlives them is handed over
  again.
- A stale pick is asked about again but stays pooled (`main.ts:948`, `:1003`, `:1060`). It may
  be drawn onto a ballot, or picked once more, and when the gate approves it, it is pooled a
  second time (`submit.ts:93`). `NoSuggestionTwice` and `OverIsGone` except it (`rechecked`).

Cadence, drain and drives:
- The cadence is not told that chaos went off (`main.ts:916` emits before the flag is
  cleared), nor of a veto, a skip outside BUILD or the drain of a chaos winner: it stays
  parked until the next mode change (`unheard` in `CadenceRuns`).
- A winner stays queued after a halt, or a window that expires in IDLE, until the next
  drain (`undrained` in `WinnersNotStranded`).
- The chaos toggle takes BUILD mode; a halt in CHAOS_MODE and a reset leave `chaosOn` true;
  stale chaos picks recurse; a retried paid build never returns to FREE_REIGN_WINDOW; the
  continuation of a window may dispatch whatever heads the queue.

Holds and preview:
- A recovery serves a workspace with a held batch on it (`main.ts` ~2607 against `:1752`).
  A restart loses the taint, approving one hold clears another's, and the holdover of a
  tainted project is served.
- A ship that confirms after a halt, a reset and a move of the project holds over the
  project it left (`overtaken`).
- A reroot under way when a build parks still serves; a ship publishes held content; the
  rejection tag of an expired row is recorded as a rejection; an intake hold can be approved
  while HALTED.
- The load event of a browser error page, when the server has just gone down, is shown
  under LIVE until the next poll; a load slower than the refresh is never swapped in.

Gallery:
- An unpushed mirror counts as shipped (`main.ts:2057`), and a failed push followed by
  "no changes" announces a link to a repo without the commit.
- A refresh that failed half way leaves the mirror's working tree short of files, and git
  reverts all the same when the last commit did not touch them: the prune of that revert,
  which compares with the working tree, then drops committed files from the workspace.
  `RevertKeepsFiles` therefore speaks of the mirror's tree, not of its commits.

Intake:
- The instruction of a window is queued although the window was closed or the show halted
  while the gate was answering (`paid-window.ts:42` against `:61`). A held one is announced
  as looked at but has no row.
- Two identical texts in flight both enter the pool, and a chatter can hold two pooled
  ideas; the cooldown (60 s) is shorter than the worst classification (62 s).
- A stale solo or chaos pick that is rejected on its second look stays pooled, which is why
  `OneFate` excepts reconsidered ideas.

Console and overlay:
- The reason tags send a second halt or revoke request (`server.ts:589`, `:846`): sent late
  they halt a recovered show or revoke the next window, although `console.js` calls them
  append-only follow-ups. The routes are not keyed by what the first click was about.
- The 30-second line fires while HALTED; several changes push nothing to the console (a
  window that expires during a build, build stages).
- A build refused under HALTED, or outside BUILD, leaves "Skipping this one" on the
  overlay; a killed build that is recorded as built shows "BUILT IT"; NEXT UP may be stale
  since the queue emits nothing.

## Proofs

Each theorem is proved for all values of the constants under the module's one named
assumption. Every invariant and every action property of the passing runs is one. Every
`TypeCorrect` comes from the same inductive invariant as the rest.

`VotingRound_proofs`: every checked invariant, `NoVotingTimeLost`, and that the round
implements `PublicBallot`. The inductive invariant is the conjunction of the facts
themselves, which need one another: that the tally is the ledger needs `OneOpenRound` (the
row a boot loads is the row memory had); `TimerMatchesDeadline` needs `HaltFreezesRound` (or
a timer would survive the halt); `VotingModeHasLiveRound` is about the mode a resume will
restore, so it carries `haltedFrom` through a halt; `BallotsAreValid` makes the elected
option exist, and `RowsFitStatus` makes a fresh row start at a zero tally. The refinement
maps `StartRound`, `RecordVote`, freeze, resume, close and discard to the actions of
`PublicBallot` and everything else to stuttering, through `BallotPhase`. `NoSuggestionTwice`
stands on an invariant of its own, `Places`: the pool repeats nothing, every ballot ever
drawn has distinct options, so the one that a boot loads has, a dead process keeps nothing
elsewhere, and outside `rechecked` a suggestion is in one of four places (`Apart`): at the
gate, pooled, drawn, queued. Lemmas about stretches and concatenations of sequences carry it
through eviction, the draw and the discard.

`ControlWindow_proofs`: `OneWindow`, timers, banking, cooldown, exact paid time, and that no
window opens out of a halt. `PaidTimesBounded` says what an amount can buy: a time from the
floor to the cap, or one of the two when the floor is above the cap. `Slots` states
`OneWindow` row by row instead of by cardinality. `LastGrantIsOnDisk` relates the table to
history: for a donor granted a window less than a cooldown ago some row is at least as
young as that grant, so the memory a boot rebuilds from the rows can only overstate how
recent it was, although promotion rewrites `opened_at`. The youngest row exists because
`<` is well-founded on the naturals.

`BuildSession_proofs`: `OnePlace`, `HaltReachesBuild`, `StageGivenBack`. `Exclusive` states
`OnePlace` place by place, for the tasks that were not handed over again. `JobsOK` says that
no other task waits twice, and that every waiting retry is heard by the registry or was
aborted (`Reached`); `RunReached` says so of the run under way. Both are needed, since the
head of `jobs` becomes the run with the controller it was given.

`Gallery_proofs`: all safety properties of the run. The invariant has two halves that meet
in `Stands` (what the running call has found out still holds: nobody else binds a repo). For
the pointer: `Below` (nothing names a project above `top`) and `Built` (while the project on
stage has no build, no waiting call could bind it to a repo), which is what
`NewProjectIsNew` needs across an await. For the mirrors: `Published` (an unbound project
has an empty remote), so a fresh mirror extends it. That `top` stays in range counts the
ships under way, a cardinality that lemmas carry through Append and Tail by bijections.

`HeldReview_proofs`: `ResolvedOnce` and `ParkedInOnePlace` from `HandedOnce` (no task waits
twice or is both running and shipping), `Numbered` (a new task is new to every row) and
`RoomIsKept`. `ScreenShowsProject` from `Screen`, which says what a reroot that is the last
one under way will serve, so that it holds when the count drops to 0.

`Intake_proofs`: `GateFailsClosed`, `OneFate`, and `LinesGoOut` (a waiting line has a flush
armed). `Apart` states `OneFate` pair by pair, and `IdeasAreSubmissions`,
`CallsAreSubmissions`, `RetriesLeft` tie the ideas in a place to the calls.

`Pages_proofs`, of the overlay: `OverlayCurrent`, `PanelsAgree` and `OneSlot` (the two panels
that share a corner never show together). `IsDrawn` says the page is what
a full render draws; each push and each beat that ends keeps it because drawing is
idempotent. Of the preview: `NeverBlank` from `VisibleFrameIsLoaded`, which every swap
establishes and no other handler touches.

The console, in `BuildSession_proofs`: `BeatIsOfTheWindow` is inductive as it stands, over
all the ways a window ends. `EnabledIsAccepted` follows from the two tables, the page's
reasons and the routes' conditions, in any state. `PageShowsTheMode` is not a property of a
run: a page that is connected and that no message is under way to draws the mode, chaos mode
and the round as they are, though other events change the show without a push.

`Show_proofs`: every invariant of the show. The properties hold only between cascades, so
each is the end of an invariant of the call stack, which holds inside them too.

- `Sound`: types, with a stack of `Frame`s, and `Origins`, where tasks come from. Outside
  `rechecked` a round is disjoint from the queue except while it is being closed: its winner
  is queued before the call that unloads it runs. Every step is shown to replace the top
  call by calls from a set (`Pushes`), so the parts below reason about sets of calls, and
  only `ChaosTail` about order.
- `Timers` (for `OnePhaseTimer`): a call that ends or begins a phase is never under another;
  the timer is gone when it runs, and what made the phase possible still holds.
- `Room` (for `QueueBounded`): a loaded round that is not closing leaves a place for its
  winner. The cap is asked when a round begins, and nothing else can fill the place.
- `Poked` (for `CadenceRuns`): when nothing keeps a phase from beginning, a call on the
  stack will begin it. Each mutation that makes a phase possible pushes such a call.
- `Halts`, `ChaosTail`, `Winners` (for `WinnersNotStranded`): a winner that nothing keeps
  from being built has a drain on the stack, due, or coming with a listener. The listener
  drains only if it did not last hear of a halt (`Halts`). Chaos mode moves the mode before
  it sets its flag, and in between only listeners run (`ChaosTail`).
- `Gone` (for `OverIsGone`): a task that is queued, on its way there, in the session or done
  with is neither pooled nor at the gate, and on a ballot only while its round closes
  (`Away`); the queue holds no task twice (`Distinct`), so the end of a task leaves none of
  it behind. All of it outside `rechecked`.

Only model-checked: liveness, since fairness and ENABLED are beyond the prover, and
`KilledIsNeverBuilt`, which is false.

## Not modelled

- The verdicts of prefilter and model, prompts, narration texts and pacing, wording of
  pages, the audit ledger (append-only, never read back by the show), history and builder
  feed: no control depends on them.
- Donations, redemptions and sign-in: payload validation and a token file; a payment that
  is valid is `OpenNow` or `Bank` in `ControlWindow`.
- The gallery index repository and Pages enablement, and how names avoid each other.
- The double tap's comparison of two times (`hotkey.ts`): one subtraction; the key is armed
  or not in `Console`.
- Of the console: review cards, the tags of veto, skip and reject, tally, audit and sign-in
  panels. Of the overlay: chaos badge, countdown, queue strip, pool, playable links.
- Of the dev server: a port still held by the old process; of the preview, CEF's cache.
- Sandbox environment, configuration, preflight, purge jobs, server shutdown.

## What is left

1. The index repository of `Gallery`, whose failed push is not retried when the page does
   not change.
2. A composition of `HeldReview` and `Gallery` for ships that publish while a build parks.

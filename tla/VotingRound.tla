------------------------------ MODULE VotingRound ------------------------------
(***************************************************************************)
(* The voting round: RoundManager (src/state-machine/round.ts), the        *)
(* candidate pool it draws from (src/queue/pool.ts), its three SQLite      *)
(* tables, the funnel that promotes a winner (src/pipeline/round.ts) and   *)
(* its restoration at boot (src/main.ts).                                  *)
(*                                                                         *)
(* Durable state (status, options, left, frozenLeft, winner, ballots) is   *)
(* what the rounds / round_candidates / round_votes tables hold and        *)
(* survives Crash.  Everything else is process memory.  What startRound    *)
(* writes once and nothing rewrites (the option list) is kept once, in the *)
(* table; what memory and tables both keep and must agree on (votes and    *)
(* tally, frozen) is kept twice.                                           *)
(*                                                                         *)
(* Time is relative: left[i] is ends_at_ms - now and timer is the delay    *)
(* left on the armed setTimeout, both in ticks and floored at 0; a timer   *)
(* may fire late.  A row's ends_at_ms keeps running while it is frozen,    *)
(* and while the process is down.                                          *)
(***************************************************************************)
EXTENDS StreamMode, Integers, Sequences, SequencesExt, FiniteSets

CONSTANTS
  Candidate,    \* suggestions
  Voter,        \* Twitch user ids
  SubmittedAt,  \* [Candidate -> Nat], candidate.submittedAtMs
  MaxOptions,   \* ROUND_MAX_OPTIONS
  MaxPool,      \* CandidatePool's maxSize
  Duration,     \* ROUND_DURATION in ticks
  MaxRounds,    \* bound: rows the rounds table may hold
  MaxCopies     \* bound: a pick leaves a suggestion at the gate or queued so often

ASSUME RoundAssumption ==
  /\ IsFiniteSet(Voter)
  /\ SubmittedAt \in [Candidate -> Nat]
  /\ MaxOptions \in Nat \ {0}
  /\ MaxPool \in Nat \ {0}
  /\ Duration \in Nat \ {0}
  /\ MaxRounds \in Nat
  /\ MaxCopies \in Nat

RoundId == 1..MaxRounds
Statuses == {"none", "open", "closed", "discarded"}

NotFrozen == Duration + 1   \* frozen_remaining_ms IS NULL
NoTimer == Duration + 1     \* #timer === null
NoRound == 0                \* #round === null

VARIABLES
  up,          \* the process is running
  gate,        \* how often the gate has each: calls out and rows held for review
  pool,        \* CandidatePool: Seq(Candidate), oldest first
  queue,       \* how many tasks of each the TaskQueue holds
  rechecked,   \* history: what the gate was asked again about while it stayed pooled
  loaded,      \* #round.roundId, or NoRound
  frozen,      \* #round.frozen
  choice,      \* #round.votesByUser: [Voter -> 0 or option]
  tally,       \* #round.options[o].votes: [1..MaxOptions -> Nat]
  timer,       \* delay left on #timer, or NoTimer
  status,      \* rounds.status; "none" when there is no such row
  options,     \* round_candidates: [RoundId -> Seq(Candidate)]
  left,        \* rounds.ends_at_ms, relative to now
  frozenLeft,  \* rounds.frozen_remaining_ms
  winner,      \* rounds.winner_option; 0 for NULL
  ballots      \* round_votes: [RoundId -> [Voter -> 0 or option]]

places == <<gate, pool, queue, rechecked>>
memory == <<places, loaded, frozen, choice, tally, timer>>
tables == <<status, options, left, frozenLeft, winner, ballots>>
vars == <<mode, haltedFrom, up, memory, tables>>

NoVotes == [v \in Voter |-> 0]
NoTally == [o \in 1..MaxOptions |-> 0]

InPool(c) == \E k \in DOMAIN pool : pool[k] = c
OpenRows == {i \in RoundId : status[i] = "open"}
LatestOpen == CHOOSE i \in OpenRows : \A j \in OpenRows : j <= i

\* #round.options of the loaded round.
Opts == options[loaded]
InRound(c) == loaded # NoRound /\ \E o \in DOMAIN Opts : Opts[o] = c

-------------------------------------------------------------------------------
(***************************************************************************)
(* Pure parts                                                              *)
(***************************************************************************)

\* pool.add past maxSize drops the oldest entry, so a run of adds keeps the newest.
KeepNewest(s) ==
  IF Len(s) <= MaxPool THEN s ELSE SubSeq(s, Len(s) - MaxPool + 1, Len(s))

\* Mutant of PoolAdd: an entry already pooled is added a second time.
PoolAddAgain(p, c) == KeepNewest(Append(p, c))

\* pool.add of an entry already pooled keeps its place.
PoolAdd(p, c) ==
  IF \E k \in DOMAIN p : p[k] = c THEN p ELSE KeepNewest(Append(p, c))

\* Adding the entries of s one after the other.
PoolAddAll(p, s) ==
  LET after[k \in 0..Len(s)] == IF k = 0 THEN p ELSE PoolAdd(after[k - 1], s[k])
  IN  after[Len(s)]

\* How many options startRound draws: the first min(ROUND_MAX_OPTIONS, pool size).
DrawSize == IF Len(pool) < MaxOptions THEN Len(pool) ELSE MaxOptions

\* The tally restore() rebuilds from the vote rows of a round.
Count(b) == [o \in 1..MaxOptions |-> Cardinality({v \in Voter : b[v] = o})]

\* The option closeRound may pick: a leader of the tally (a random one of several),
\* or the earliest submission, lowest index first, when nobody voted; 0 for none.
WinnerChoices(opts, t) ==
  LET idx == DOMAIN opts
      Earlier(o, p) ==
        \/ SubmittedAt[opts[o]] < SubmittedAt[opts[p]]
        \/ SubmittedAt[opts[o]] = SubmittedAt[opts[p]] /\ o <= p
  IN  IF idx = {} THEN {0}
      ELSE IF \E o \in idx : t[o] > 0
        THEN {o \in idx : \A p \in idx : t[p] <= t[o]}
        ELSE {o \in idx : \A p \in idx : Earlier(o, p)}

-------------------------------------------------------------------------------
Init ==
  /\ ModeInit
  /\ up = TRUE
  /\ gate = [c \in Candidate |-> 0]
  /\ pool = <<>>
  /\ queue = [c \in Candidate |-> 0]
  /\ rechecked = {}
  /\ loaded = NoRound
  /\ frozen = FALSE
  /\ choice = NoVotes
  /\ tally = NoTally
  /\ timer = NoTimer
  /\ status = [i \in RoundId |-> "none"]
  /\ options = [i \in RoundId |-> <<>>]
  /\ left = [i \in RoundId |-> 0]
  /\ frozenLeft = [i \in RoundId |-> NotFrozen]
  /\ winner = [i \in RoundId |-> 0]
  /\ ballots = [i \in RoundId |-> NoVotes]

(***************************************************************************)
(* Intake, the picks that need no vote, and the consumers of the queue.    *)
(*                                                                         *)
(* A pick, and the end of a round, find the approval of what they promote  *)
(* fresh or stale.  A stale one is asked about again, and the gate's answer*)
(* pools it: a round's winner has left the pool by then, a pick has not,   *)
(* so it may be drawn or queued from there while the gate still has it.    *)
(***************************************************************************)

\* A new suggestion reaches the gate; its id is in use nowhere.
Submit(c) ==
  /\ up /\ mode # "HALTED"
  /\ gate[c] = 0 /\ ~InPool(c) /\ ~InRound(c) /\ queue[c] = 0
  /\ gate' = [gate EXCEPT ![c] = 1]
  /\ rechecked' = rechecked \ {c}
  /\ UNCHANGED <<modeVars, up, pool, queue, loaded, frozen, choice, tally, timer, tables>>

\* A call of the classifier ends, or a held row is resolved: c is approved into the
\* pool or rejected.
GateAnswers(c) ==
  /\ up
  /\ gate[c] > 0
  /\ gate' = [gate EXCEPT ![c] = @ - 1]
  /\ pool' \in {pool, PoolAdd(pool, c)}
  /\ UNCHANGED <<modeVars, up, queue, rechecked, loaded, frozen, choice, tally, timer, tables>>

\* The cadence picks at the end of a phase, console chaos when it is switched on and
\* after each of its builds.
MayPick ==
  \/ mode \in {"IDLE", "BUILD_IN_PROGRESS"} /\ loaded = NoRound
  \/ mode = "CHAOS_MODE"

\* A fresh pick leaves the pool for the queue, whose drain may start its build at once.
PickFresh(c) ==
  /\ queue[c] < MaxCopies
  /\ queue' = [queue EXCEPT ![c] = @ + 1]
  /\ \E k \in DOMAIN pool : pool[k] = c /\ pool' = RemoveAt(pool, k)
  /\ \/ mode \in {"IDLE", "CHAOS_MODE"} /\ Transition("BUILD_IN_PROGRESS")
     \/ UNCHANGED modeVars
  /\ UNCHANGED <<gate, rechecked>>

\* A stale pick goes back to the gate and stays pooled.
PickStale(c) ==
  /\ gate[c] < MaxCopies
  /\ gate' = [gate EXCEPT ![c] = @ + 1]
  /\ rechecked' = rechecked \union {c}
  /\ UNCHANGED <<modeVars, pool, queue>>

Pick(c) ==
  /\ up
  /\ MayPick
  /\ InPool(c)
  /\ PickFresh(c) \/ PickStale(c)
  /\ UNCHANGED <<up, loaded, frozen, choice, tally, timer, tables>>

\* A queued task is built, skipped or vetoed and leaves the queue.
TaskLeaves(c) ==
  /\ up
  /\ queue[c] > 0
  /\ queue' = [queue EXCEPT ![c] = @ - 1]
  /\ UNCHANGED <<modeVars, up, gate, pool, rechecked, loaded, frozen, choice, tally, timer,
                 tables>>

\* The other drivers of the stream mode (windows, chaos, builds) make any legal
\* transition but the one into VOTING_ROUND, RoundManager's own, and the one from a
\* build straight into a window, which no caller makes.
OtherTransition(to) ==
  /\ up
  /\ to # "VOTING_ROUND"
  /\ to = "FREE_REIGN_WINDOW" => mode = "IDLE"
  /\ Transition(to)
  /\ UNCHANGED <<up, memory, tables>>

\* Time passes for every deadline alike, whether or not the process runs.
Tick ==
  /\ \E i \in OpenRows : left[i] > 0
  /\ left' = [i \in RoundId |-> IF left[i] > 0 THEN left[i] - 1 ELSE 0]
  /\ timer' = IF timer \in 1..Duration THEN timer - 1 ELSE timer
  /\ UNCHANGED <<modeVars, up, places, loaded, frozen, choice, tally,
                 status, options, frozenLeft, winner, ballots>>

-------------------------------------------------------------------------------
(***************************************************************************)
(* RoundManager's operations                                               *)
(***************************************************************************)

MayStart ==
  /\ up
  /\ loaded = NoRound
  /\ mode \in {"IDLE", "BUILD_IN_PROGRESS"}
  /\ Len(pool) >= 2

\* Mutant of Undrawn: the last drawn candidate stays in the pool.
UndrawnOffByOne == SubSeq(pool, DrawSize, Len(pool))

\* The pool once the drawn candidates are removed from it.
Undrawn == SubSeq(pool, DrawSize + 1, Len(pool))

\* The rows startRound inserts for round i when it gets as far as k candidates.
InsertRound(i, k) ==
  /\ status[i] = "none"
  /\ \A j \in 1..(i - 1) : status[j] # "none"
  /\ status' = [status EXCEPT ![i] = "open"]
  /\ options' = [options EXCEPT ![i] = SubSeq(pool, 1, k)]
  /\ left' = [left EXCEPT ![i] = Duration]
  /\ UNCHANGED <<frozenLeft, winner, ballots>>

\* Opened from IDLE the round owns the mode; opened during a build it does not.
StartRound(i) ==
  /\ MayStart
  /\ InsertRound(i, DrawSize)
  /\ pool' = Undrawn
  /\ loaded' = i
  /\ frozen' = FALSE
  /\ choice' = NoVotes
  /\ tally' = NoTally
  /\ timer' = Duration
  /\ IF mode = "IDLE" THEN Transition("VOTING_ROUND") ELSE UNCHANGED modeVars
  /\ UNCHANGED <<up, gate, queue, rechecked>>

\* Mutant of VoteCounts: a frozen round still takes votes.
VoteCountsWhileFrozen == up /\ loaded # NoRound

VoteCounts ==
  /\ up
  /\ loaded # NoRound /\ ~frozen
  /\ mode # "HALTED"

\* Mutant of TallyAfter: a revote is counted without retracting the first vote.
TallyWithoutRetraction(v, o) == [tally EXCEPT ![o] = @ + 1]

\* A revote moves the voter's vote; the same vote again changes nothing.
TallyAfter(v, o) ==
  LET retracted == IF choice[v] = 0 THEN tally ELSE [tally EXCEPT ![choice[v]] = @ - 1]
  IN  [retracted EXCEPT ![o] = @ + 1]

\* recordVote: the ledger row is written first, then the tally moves.
RecordVote(v, o) ==
  /\ VoteCounts
  /\ o \in DOMAIN Opts
  /\ ballots' = [ballots EXCEPT ![loaded] = [@ EXCEPT ![v] = o]]
  /\ choice' = [choice EXCEPT ![v] = o]
  /\ tally' = TallyAfter(v, o)
  /\ UNCHANGED <<modeVars, up, places, loaded, frozen, timer,
                 status, options, left, frozenLeft, winner>>

\* The rows of round i once it is decided for w (0: no option to pick).
CloseRow(i, w) ==
  /\ status' = [status EXCEPT ![i] = "closed"]
  /\ winner' = [winner EXCEPT ![i] = w]
  /\ frozenLeft' = [frozenLeft EXCEPT ![i] = NotFrozen]
  /\ UNCHANGED <<options, left, ballots>>

\* enqueueWinner: refused and repooled while HALTED, re-classified by the gate when
\* the approval is stale, queued otherwise.  The losers are dropped.
Promoted(w, stale) == w # 0 /\ mode # "HALTED" /\ ~stale

Promote(w, stale) ==
  /\ queue' = IF Promoted(w, stale) THEN [queue EXCEPT ![Opts[w]] = @ + 1] ELSE queue
  /\ pool' = IF w # 0 /\ mode = "HALTED" THEN PoolAdd(pool, Opts[w]) ELSE pool
  /\ gate' = IF w # 0 /\ mode # "HALTED" /\ stale
               THEN [gate EXCEPT ![Opts[w]] = @ + 1] ELSE gate

\* A close can never fight a halt: it only leaves VOTING_ROUND.
LeaveVoting == IF mode = "VOTING_ROUND" THEN Transition("IDLE") ELSE UNCHANGED modeVars

\* closeRound.  A winner that reached the queue may start its build before the
\* round leaves VOTING_ROUND: the queue's drain runs inside enqueueWinner.
CloseRound ==
  /\ up
  /\ loaded # NoRound /\ ~frozen
  /\ timer' = NoTimer
  /\ \E w \in WinnerChoices(Opts, tally), stale \in BOOLEAN :
       /\ CloseRow(loaded, w)
       /\ Promote(w, stale)
       /\ \/ /\ Promoted(w, stale)
             /\ mode \in {"VOTING_ROUND", "IDLE"}
             /\ Transition("BUILD_IN_PROGRESS")
          \/ LeaveVoting
  /\ loaded' = NoRound
  /\ frozen' = FALSE
  /\ choice' = NoVotes
  /\ tally' = NoTally
  /\ UNCHANGED <<up, rechecked>>

TimerFires == timer = 0 /\ CloseRound

\* #freeze, of an open round: cancel the timer, persist the remainder.
Freeze ==
  /\ timer' = NoTimer
  /\ frozenLeft' = [frozenLeft EXCEPT ![loaded] = left[loaded]]
  /\ frozen' = TRUE

\* The halt, with RoundManager's HALT_TRIGGERED listener.
Halt ==
  /\ up
  /\ ForceHalt
  /\ IF loaded # NoRound /\ ~frozen
       THEN Freeze
       ELSE UNCHANGED <<timer, frozenLeft, frozen>>
  /\ UNCHANGED <<up, places, loaded, choice, tally,
                 status, options, left, winner, ballots>>

\* Mutant of Resume: the round restarts its clock.
ResumeAnew ==
  /\ left' = [left EXCEPT ![loaded] = Duration]
  /\ timer' = Duration
  /\ frozenLeft' = [frozenLeft EXCEPT ![loaded] = NotFrozen]
  /\ frozen' = FALSE
  /\ UNCHANGED <<places, loaded, choice, tally, status, options, winner, ballots>>

\* #resume: re-arm for the frozen remainder.
Resume ==
  /\ left' = [left EXCEPT ![loaded] = frozenLeft[loaded]]
  /\ timer' = frozenLeft[loaded]
  /\ frozenLeft' = [frozenLeft EXCEPT ![loaded] = NotFrozen]
  /\ frozen' = FALSE
  /\ UNCHANGED <<places, loaded, choice, tally, status, options, winner, ballots>>

\* #discard: drop the round, return its candidates to the pool one by one.
Discard ==
  /\ status' = [status EXCEPT ![loaded] = "discarded"]
  /\ frozenLeft' = [frozenLeft EXCEPT ![loaded] = NotFrozen]
  /\ pool' = PoolAddAll(pool, Opts)
  /\ loaded' = NoRound
  /\ frozen' = FALSE
  /\ choice' = NoVotes
  /\ tally' = NoTally
  /\ timer' = NoTimer
  /\ UNCHANGED <<gate, queue, rechecked, options, left, winner, ballots>>

\* Recovery, with RoundManager's STATE_CHANGED listener: a frozen round resumes
\* into VOTING_ROUND or BUILD_IN_PROGRESS, is discarded into IDLE, and is left
\* alone when recovery lands anywhere else.
RecoverRound(action) ==
  LET target == RecoveryTarget(action, haltedFrom) IN
  /\ up
  /\ Recover(action)
  /\ CASE loaded # NoRound /\ frozen /\ target \in {"VOTING_ROUND", "BUILD_IN_PROGRESS"}
            -> Resume
       [] loaded # NoRound /\ frozen /\ target = "IDLE" -> Discard
       [] OTHER -> UNCHANGED <<memory, tables>>
  /\ UNCHANGED up

-------------------------------------------------------------------------------
(***************************************************************************)
(* Crash and boot.  The process may die between any two statements.  Every *)
(* operation but startRound writes the tables in one statement, before it  *)
(* touches memory, so dying inside it leaves what dying just before or     *)
(* just after it leaves.  startRound inserts the round's row and then one  *)
(* row per candidate, each committed on its own.                           *)
(***************************************************************************)

\* mode keeps the mode the process died in until Boot replaces it.  What the gate held
\* for review is a row of a table and is still there to be approved.
LoseMemory ==
  /\ up' = FALSE
  /\ UNCHANGED <<modeVars, rechecked>>
  /\ gate' \in [Candidate -> UNION {0..gate[c] : c \in Candidate}]
  /\ \A c \in Candidate : gate'[c] <= gate[c]
  /\ pool' = <<>>
  /\ queue' = [c \in Candidate |-> 0]
  /\ loaded' = NoRound
  /\ frozen' = FALSE
  /\ choice' = NoVotes
  /\ tally' = NoTally
  /\ timer' = NoTimer

Crash == up /\ LoseMemory /\ UNCHANGED tables

\* The process dies inside startRound with k of the candidates inserted.
CrashInStart(i, k) ==
  /\ MayStart
  /\ k < DrawSize
  /\ InsertRound(i, k)
  /\ LoseMemory

\* Boot with no open row to restore.
BootEmpty ==
  /\ ~up /\ OpenRows = {}
  /\ up' = TRUE
  /\ mode' = "IDLE" /\ haltedFrom' = NoMode
  /\ UNCHANGED <<memory, tables>>

\* restore() loads the latest open row: options, votes, tally, frozen.
Load(i) ==
  /\ up' = TRUE
  /\ loaded' = i
  /\ choice' = ballots[i]
  /\ tally' = Count(ballots[i])
  /\ frozen' = (frozenLeft[i] # NotFrozen)
  /\ UNCHANGED <<places, tables>>

\* A frozen row: re-enter HALTED, as if the halt had hit VOTING_ROUND.
BootFrozen ==
  /\ ~up /\ OpenRows # {}
  /\ frozenLeft[LatestOpen] # NotFrozen
  /\ Load(LatestOpen)
  /\ mode' = "HALTED" /\ haltedFrom' = "VOTING_ROUND"
  /\ UNCHANGED timer

\* A live row with time left: re-arm for the remainder, re-enter VOTING_ROUND.
BootLive ==
  /\ ~up /\ OpenRows # {}
  /\ frozenLeft[LatestOpen] = NotFrozen
  /\ left[LatestOpen] > 0
  /\ Load(LatestOpen)
  /\ timer' = left[LatestOpen]
  /\ mode' = "VOTING_ROUND" /\ haltedFrom' = NoMode

\* A live row that expired while the process was down closes during boot.
BootExpired ==
  /\ ~up /\ OpenRows # {}
  /\ frozenLeft[LatestOpen] = NotFrozen
  /\ left[LatestOpen] = 0
  /\ up' = TRUE
  /\ mode' = "IDLE" /\ haltedFrom' = NoMode
  /\ LET i == LatestOpen IN
       \E w \in WinnerChoices(options[i], Count(ballots[i])), stale \in BOOLEAN :
          /\ CloseRow(i, w)
          /\ queue' = IF w # 0 /\ ~stale THEN [queue EXCEPT ![options[i][w]] = @ + 1] ELSE queue
          /\ gate' = IF w # 0 /\ stale THEN [gate EXCEPT ![options[i][w]] = @ + 1] ELSE gate
  /\ UNCHANGED <<pool, rechecked, loaded, frozen, choice, tally, timer>>

\* Mutant of Boot: a row that expired while the process was down is left as it is.
BootSkipsExpired ==
  \/ BootEmpty \/ BootFrozen \/ BootLive
  \/ /\ ~up /\ OpenRows # {}
     /\ up' = TRUE
     /\ mode' = "IDLE" /\ haltedFrom' = NoMode
     /\ UNCHANGED <<memory, tables>>

Boot == BootEmpty \/ BootFrozen \/ BootLive \/ BootExpired

-------------------------------------------------------------------------------
Next ==
  \/ \E c \in Candidate : Submit(c) \/ GateAnswers(c) \/ Pick(c) \/ TaskLeaves(c)
  \/ \E to \in Modes : OtherTransition(to)
  \/ Tick
  \/ \E i \in RoundId : StartRound(i)
  \/ \E v \in Voter, o \in 1..MaxOptions : RecordVote(v, o)
  \/ TimerFires
  \/ Halt
  \/ \E a \in RecoveryActions : RecoverRound(a)
  \/ Crash
  \/ \E i \in RoundId, k \in 0..MaxOptions : CrashInStart(i, k)
  \/ Boot

Spec == Init /\ [][Next]_vars

(***************************************************************************)
(* What the runtime guarantees: time passes, an expired setTimeout fires   *)
(* while the process runs, and a process that died is started again.       *)
(* Nobody is obliged to vote, to open a round or to recover from a halt.   *)
(***************************************************************************)
Fairness == WF_vars(Tick) /\ WF_vars(TimerFires) /\ WF_vars(Boot)

FairSpec == Spec /\ Fairness

-------------------------------------------------------------------------------
(***************************************************************************)
(* Properties                                                              *)
(***************************************************************************)

TypeOK ==
  /\ ModeTypeOK
  /\ up \in BOOLEAN
  /\ gate \in [Candidate -> Nat]
  /\ pool \in Seq(Candidate) /\ Len(pool) <= MaxPool
  /\ queue \in [Candidate -> Nat]
  /\ rechecked \subseteq Candidate
  /\ loaded \in RoundId \union {NoRound}
  /\ frozen \in BOOLEAN
  /\ choice \in [Voter -> 0..MaxOptions]
  /\ tally \in [1..MaxOptions -> Int]
  /\ timer \in 0..Duration \union {NoTimer}
  /\ status \in [RoundId -> Statuses]
  /\ options \in [RoundId -> Seq(Candidate)]
  /\ \A i \in RoundId : Len(options[i]) <= MaxOptions
  /\ left \in [RoundId -> 0..Duration]
  /\ frozenLeft \in [RoundId -> 0..Duration \union {NotFrozen}]
  /\ winner \in [RoundId -> 0..MaxOptions]
  /\ ballots \in [RoundId -> [Voter -> 0..MaxOptions]]

\* The round in memory is the one open row: startRound never strands an open row
\* (CR-01), and whatever row a crash leaves open is the one boot picks up.
OneOpenRound ==
  /\ \A i, j \in OpenRows : i = j
  /\ up => \A i \in OpenRows : loaded = i
  /\ loaded # NoRound => up /\ loaded \in OpenRows

\* The tally viewers see is the count of the vote ledger, whatever the order of
\* votes, revotes, halts and restarts (D2-14, D2-15); hence the reconciliation on an
\* EventSub reconnect never finds a divergence to repair.
TallyMatchesLedger ==
  loaded # NoRound => choice = ballots[loaded] /\ tally = Count(ballots[loaded])

\* The armed timer always stands at the deadline the row persists, and there is no
\* timer to close a round that is frozen or gone (WR-01, D2-16).
TimerMatchesDeadline ==
  timer = IF loaded # NoRound /\ ~frozen THEN left[loaded] ELSE NoTimer

\* A round under a halt is frozen, in memory and in its row, so that neither its
\* timer nor a restart can close it before the streamer decides (D2-16).
HaltFreezesRound ==
  loaded # NoRound =>
    /\ frozen <=> frozenLeft[loaded] # NotFrozen
    /\ mode = "HALTED" => frozen

\* VOTING_ROUND always has a live round under it that will leave the mode, also
\* when the mode is only the one a halt will resume to: the show cannot be stuck
\* in a vote nobody can cast.
VotingModeHasLiveRound ==
  up => /\ mode = "VOTING_ROUND" => loaded # NoRound /\ ~frozen
        /\ haltedFrom = "VOTING_ROUND" => loaded # NoRound

\* Every closed row names the winner its own vote rows elect: the most votes, or,
\* with no votes at all, the earliest submission (D2-03, D-03).
DecidedByPlurality ==
  \A i \in RoundId : status[i] = "closed" /\ options[i] # <<>> =>
    /\ winner[i] \in DOMAIN options[i]
    /\ \A p \in DOMAIN options[i] :
         /\ Count(ballots[i])[p] <= Count(ballots[i])[winner[i]]
         /\ ballots[i] = NoVotes =>
              SubmittedAt[options[i][winner[i]]] <= SubmittedAt[options[i][p]]

\* Votes are recorded only for options the round has.
BallotsAreValid ==
  \A i \in RoundId, v \in Voter : ballots[i][v] \in 0..Len(options[i])

\* What a row holds fits how far its round got: no vote before it is opened, a frozen
\* remainder only while it is open, a winner only once it is closed.
RowsFitStatus ==
  \A i \in RoundId :
    /\ status[i] = "none" => ballots[i] = NoVotes
    /\ frozenLeft[i] # NotFrozen => status[i] = "open"
    /\ winner[i] # 0 => status[i] = "closed"

\* A suggestion is in one place at a time: it cannot win a round and still be drawn into
\* the next one, or be repooled while it waits to be built.  A stale pick is the
\* exception, for it stays pooled while it is asked about again; but even then the pool
\* holds it once.
NoSuggestionTwice ==
  /\ \A j, k \in DOMAIN pool : pool[j] = pool[k] => j = k
  /\ \A c \in Candidate \ rechecked :
       /\ gate[c] <= 1 /\ queue[c] <= 1
       /\ InPool(c)  => ~InRound(c) /\ queue[c] = 0 /\ gate[c] = 0
       /\ InRound(c) => queue[c] = 0 /\ gate[c] = 0
       /\ queue[c] > 0 => gate[c] = 0

\* A halt costs the round no voting time: the remainder persisted at the halt is
\* kept, through restarts too, and is what the round gets back when it resumes.
HaltCostsNoVotingTime ==
  [][\A i \in RoundId : frozenLeft[i] # NotFrozen =>
       \/ frozenLeft'[i] = frozenLeft[i] /\ status'[i] = "open"
       \/ frozenLeft'[i] = NotFrozen /\ (status'[i] = "open" => left'[i] = frozenLeft[i])]_vars

\* Every open row is decided or frozen by a halt, even if the process keeps dying:
\* an expired round closes at boot.
RoundEventuallyDecided ==
  \A i \in RoundId :
    (status[i] = "open" /\ frozenLeft[i] = NotFrozen)
      ~> (status[i] # "open" \/ frozenLeft[i] # NotFrozen)

\* The round implements the public ballot of its viewers.
PhaseOf(st, remainder) ==
  CASE st = "none"      -> "none"
    [] st = "open"      -> IF remainder = NotFrozen THEN "open" ELSE "paused"
    [] st = "closed"    -> "decided"
    [] st = "discarded" -> "dropped"

BallotPhase == [i \in RoundId |-> PhaseOf(status[i], frozenLeft[i])]

Ballot == INSTANCE PublicBallot WITH
            Option <- Candidate, BallotId <- RoundId, phase <- BallotPhase

ImplementsPublicBallot == Ballot!Spec

\* The strengthening of the safety invariants that is inductive.
IInv ==
  /\ TypeOK
  /\ OneOpenRound
  /\ TallyMatchesLedger
  /\ TimerMatchesDeadline
  /\ HaltFreezesRound
  /\ VotingModeHasLiveRound
  /\ DecidedByPlurality
  /\ BallotsAreValid
  /\ RowsFitStatus
===============================================================================

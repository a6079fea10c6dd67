-------------------------------- MODULE Intake --------------------------------
(***************************************************************************)
(* From a chat line to the pool, the review table or the build queue.      *)
(*                                                                         *)
(* Outside a window a chatter's idea passes the per-chatter limits, is     *)
(* classified in the background and, approved, waits in the pool for a     *)
(* vote.  While a window is live an instruction passes the same gate and   *)
(* goes straight to the build queue.  The gate asks a remote model, with   *)
(* a bound on each call and on the number of calls, and fails closed.      *)
(* What a chatter is told goes through a coalescing buffer.                *)
(***************************************************************************)
EXTENDS Naturals, Sequences, FiniteSets

CONSTANTS Chatters,         \* who writes in the chat
          Texts,            \* what an idea says, normalized
          MaxSubmissions,   \* bound: texts handed to the gate
          MaxAttempts,      \* 1 + GATE_MAX_RETRIES
          MaxPool           \* POOL_MAX_SIZE

IntakeAssumption == {MaxSubmissions, MaxAttempts, MaxPool} \subseteq Nat \ {0}

ASSUME IntakeAssumption

VARIABLES
    mode,           \* the modes that matter here; rounds and chaos count as IDLE
    haltedFrom,     \* the mode a halt interrupted, IDLE when there is none
    window,         \* a control window is live, or frozen by a halt
    submissions,    \* texts handed to the gate so far
    call,           \* what each submission's classification is doing
    abandoned,      \* timed-out requests whose answer may still come
    cooling,        \* chatters whose last idea is younger than the cooldown
    mine,           \* pendingCandidateIds of each chatter
    pool,           \* the ideas in the candidate pool, whatever their order
    drawn,          \* the ideas on the ballot
    held,           \* pending rows of the review table
    queue,          \* the build queue
    buffer,         \* lines wait in the coalescing buffer
    timer,          \* the buffer's flush: none or armed
    sanctioned      \* history: ideas the gate or the streamer approved

show   == <<mode, haltedFrom, window>>
gate   == <<submissions, call, abandoned>>
limits == <<cooling, mine>>
places == <<pool, drawn, held, queue>>
news   == <<buffer, timer>>
vars   == <<show, gate, limits, places, news, sanctioned>>

Numbers == 1..MaxSubmissions
Ideas   == Numbers      \* an idea carries the number of its first submission
Paths   == {"chat", "paid", "again"}
Modes   == {"IDLE", "FREE_REIGN_WINDOW", "BUILD_IN_PROGRESS", "HALTED"}

Unasked == [at |-> "none", attempt |-> 0]
Decided == [at |-> "decided", attempt |-> 0]

Init ==
    /\ mode = "IDLE" /\ haltedFrom = "IDLE" /\ window = FALSE
    /\ submissions = <<>> /\ abandoned = {}
    /\ call = [n \in Numbers |-> Unasked]
    /\ cooling = {} /\ mine = [c \in Chatters |-> {}]
    /\ pool = {} /\ drawn = {} /\ held = {} /\ queue = {}
    /\ buffer = FALSE /\ timer = "null"
    /\ sanctioned = {}

\* pool.add: a Map holds an id once; past the bound the oldest, which may be any, is dropped.
PoolAdd(p, i) ==
    IF i \in p \/ Cardinality(p) < MaxPool THEN {p \union {i}}
    ELSE {(p \ {j}) \union {i} : j \in p}

-----------------------------------------------------------------------------
(* What a chatter is told.                                                 *)

\* narrator.feedback: the line is buffered and a flush armed unless one is.
Feedback ==
    /\ buffer' = TRUE
    /\ timer' = IF timer = "null" THEN "armed" ELSE timer

\* Everything buffered goes to the sender, which drops what it cannot send.
Flush ==
    /\ timer = "armed"
    /\ timer' = "null"
    /\ buffer' = FALSE
    /\ UNCHANGED <<show, gate, limits, places, sanctioned>>

-----------------------------------------------------------------------------
(* Handing a text to the gate.                                             *)

Room == Len(submissions) < MaxSubmissions

\* submitCandidate and submitDuringWindow return at once; the gate's answer comes later.
Ask(i, c, t, path) ==
    /\ submissions' = Append(submissions, [idea |-> i, who |-> c, text |-> t, path |-> path])
    /\ call' = [call EXCEPT ![Len(submissions) + 1] = [at |-> "asking", attempt |-> 1]]
    /\ UNCHANGED abandoned

\* resubmit of an idea whose approval is stale, through the same funnel.
AskAgain(i) == Ask(i, submissions[i].who, submissions[i].text, "again")

Text(i) == submissions[i].text

\* What intake.check still counts of a chatter's ideas: the pooled ones.
StillMine(c) == mine[c] \intersect pool

\* intake.check, in its order: one idea per cooldown, one pooled idea per chatter,
\* no text that is pooled already.
Refusal(c, t) ==
    IF c \in cooling THEN "cooldown"
    ELSE IF StillMine(c) # {} THEN "pending-exists"
    ELSE IF \E i \in pool : Text(i) = t THEN "duplicate"
    ELSE "none"

\* The check forgets the ideas that left the pool, unless the cooldown ends it first.
Prune(c) == mine' = IF c \in cooling THEN mine ELSE [mine EXCEPT ![c] = StillMine(c)]

\* A chat command refused by the limits: its author hears why.
Refuse(c, t) ==
    /\ Refusal(c, t) # "none"
    /\ Prune(c)
    /\ Feedback
    /\ UNCHANGED <<cooling, show, gate, places, sanctioned>>

\* A halted show takes no input, and a refused attempt costs no cooldown.
RefuseHalted(c, t) ==
    /\ Refusal(c, t) = "none" /\ mode = "HALTED"
    /\ Prune(c)
    /\ UNCHANGED <<cooling, show, gate, places, news, sanctioned>>

\* registerAccepted: the cooldown starts and the pending slot is taken before the verdict.
RegisterAccepted(c, i) ==
    /\ cooling' = cooling \union {c}
    /\ mine' = [mine EXCEPT ![c] = StillMine(c) \union {i}]

\* handleMessage for a suggestion, a new project, a swap, a revert or a chaos request.
Suggest(c, t) ==
    /\ Refusal(c, t) = "none" /\ mode # "HALTED" /\ Room
    /\ LET i == Len(submissions) + 1 IN
       /\ Ask(i, c, t, "chat")
       /\ RegisterAccepted(c, i)
    /\ UNCHANGED <<show, places, news, sanctioned>>

\* The cooldown may end before the answer comes: the calls of one classification can
\* take longer.
CoolsDown(c) ==
    /\ c \in cooling
    /\ cooling' = cooling \ {c}
    /\ UNCHANGED <<mine, show, gate, places, news, sanctioned>>

\* Anybody's instruction while a window is live; the limits of the intake do not apply.
Instruct(c, t) ==
    /\ window /\ mode # "HALTED" /\ Room
    /\ Ask(Len(submissions) + 1, c, t, "paid")
    /\ UNCHANGED <<show, limits, places, news, sanctioned>>

-----------------------------------------------------------------------------
(* The gate's answer.                                                      *)

\* D-10 routing: the pool, the review table, or nothing but the audit row.
Route(i, decision) ==
    /\ pool' \in IF decision = "approved" THEN PoolAdd(pool, i) ELSE {pool}
    /\ held' = IF decision = "held" THEN held \union {i} ELSE held
    /\ UNCHANGED <<drawn, queue, mode>>

\* submitDuringWindow after its await, and driveWindowBuild: an approved instruction is
\* queued in whatever mode the show is by now, and starts a build unless one is running.
Enqueue(i, decision) ==
    /\ queue' = IF decision = "approved" THEN queue \union {i} ELSE queue
    /\ mode' = IF decision = "approved" /\ mode # "HALTED" THEN "BUILD_IN_PROGRESS" ELSE mode
    /\ UNCHANGED <<pool, drawn, held>>

\* A chat idea's rejection or hold is buffered.  Approvals stay silent, a second look is not
\* announced, and an instruction's outcome goes to the sender at once.
Report(s, decision) ==
    IF s.path = "chat" /\ decision # "approved" THEN Feedback ELSE UNCHANGED news

\* classify() resolves: one audit row, then its caller's continuation.
Decide(n, decision) ==
    LET s == submissions[n] IN
    /\ call' = [call EXCEPT ![n] = Decided]
    /\ IF s.path = "paid" THEN Enqueue(s.idea, decision) ELSE Route(s.idea, decision)
    /\ Report(s, decision)
    /\ UNCHANGED <<haltedFrom, window>>

Asking(n) == call[n].at = "asking"

\* What a call brings back, in a run that ended in success or not.
Answers == {"approved", "rejected", "held", "held-ineligible", "unreadable"}

\* Mutant of Readable: the text of a failed run is trusted.
ReadableAnyRun(answer, success) == answer # "unreadable"

\* Only a successful run's answer is read at all (WR-01).
Readable(answer, success) == success /\ answer # "unreadable"

\* An escalation outside the eligible categories is a rejection (D-12).
Judge(answer) == IF answer \in {"approved", "held"} THEN answer ELSE "rejected"

\* A failed attempt is retried after a pause; with none left the candidate is rejected,
\* as classifier-unavailable.
Fail(n) ==
    IF call[n].attempt < MaxAttempts
      THEN call' = [call EXCEPT ![n].at = "backoff"] /\ UNCHANGED <<show, places, news>>
      ELSE Decide(n, "rejected")

\* The prefilter's rejection, which needs no call, counts as an answer.
Answer(n, answer, success) ==
    /\ Asking(n)
    /\ IF Readable(answer, success) THEN Decide(n, Judge(answer)) ELSE Fail(n)
    /\ sanctioned' = IF success /\ answer = "approved"
                       THEN sanctioned \union {submissions[n].idea} ELSE sanctioned
    /\ UNCHANGED <<submissions, abandoned, limits>>

\* The race is lost to the timer; the aborted query may answer all the same.
TimesOut(n) ==
    /\ Asking(n)
    /\ Fail(n)
    /\ abandoned' = abandoned \union {n}
    /\ UNCHANGED <<submissions, limits, sanctioned>>

\* Mutant of LateAnswer: an answer counts whenever it comes.
LateAnswerHeard(n) ==
    /\ n \in abandoned
    /\ abandoned' = abandoned \ {n}
    /\ Decide(n, "approved")
    /\ UNCHANGED <<submissions, limits, sanctioned>>

\* Nobody listens to a race that is over.
LateAnswer(n) ==
    /\ n \in abandoned
    /\ abandoned' = abandoned \ {n}
    /\ UNCHANGED <<submissions, call, show, limits, places, news, sanctioned>>

\* Mutant of BackoffEnds: the attempts are not counted.
BackoffEndsUncounted(n) ==
    /\ call[n].at = "backoff"
    /\ call' = [call EXCEPT ![n].at = "asking"]
    /\ UNCHANGED <<submissions, abandoned, show, limits, places, news, sanctioned>>

BackoffEnds(n) ==
    /\ call[n].at = "backoff"
    /\ call' = [call EXCEPT ![n] = [at |-> "asking", attempt |-> @.attempt + 1]]
    /\ UNCHANGED <<submissions, abandoned, show, limits, places, news, sanctioned>>

-----------------------------------------------------------------------------
(* The streamer's decisions on held ideas.                                 *)

\* Allowed in every mode, HALTED included.
ReviewApproves(i) ==
    /\ i \in held
    /\ held' = held \ {i} /\ pool' \in PoolAdd(pool, i)
    /\ sanctioned' = sanctioned \union {i}
    /\ UNCHANGED <<drawn, queue, show, gate, limits, news>>

ReviewRejects(i) ==
    /\ i \in held
    /\ held' = held \ {i}
    /\ UNCHANGED <<pool, drawn, queue, sanctioned, show, gate, limits, news>>

-----------------------------------------------------------------------------
(* Votes, picks, builds, windows and halts, as far as ideas move in them.  *)

\* A ballot takes ideas out of the pool.
Draw(ballot) ==
    /\ mode \in {"IDLE", "BUILD_IN_PROGRESS"} /\ drawn = {}
    /\ Cardinality(ballot) >= 2
    /\ drawn' = ballot /\ pool' = pool \ ballot
    /\ UNCHANGED <<held, queue, show, gate, limits, news, sanctioned>>

\* The winner is queued, or asked about again when its approval is stale; losers drop.
Wins(i) ==
    /\ mode \in {"IDLE", "BUILD_IN_PROGRESS"} /\ i \in drawn
    /\ drawn' = {}
    /\ \/ queue' = queue \union {i} /\ UNCHANGED gate
       \/ Room /\ AskAgain(i) /\ UNCHANGED queue
    /\ UNCHANGED <<pool, held, show, limits, news, sanctioned>>

\* A halted show's ballot is discarded: its ideas return to the pool.
Discard ==
    LET all == pool \union drawn IN
    /\ pool' \in IF Cardinality(all) <= MaxPool THEN {all}
                 ELSE {p \in SUBSET all : Cardinality(p) = MaxPool}
    /\ drawn' = {}

\* A lone or random pick of the pool leaves it only when it is queued; a stale one
\* stays there while the gate looks again.
Pick(i) ==
    /\ mode \in {"IDLE", "BUILD_IN_PROGRESS"} /\ i \in pool
    /\ \/ queue' = queue \union {i} /\ pool' = pool \ {i} /\ UNCHANGED gate
       \/ Room /\ AskAgain(i) /\ UNCHANGED <<queue, pool>>
    /\ UNCHANGED <<drawn, held, show, limits, news, sanctioned>>

BuildStarts ==
    /\ mode \in {"IDLE", "FREE_REIGN_WINDOW"} /\ queue # {}
    /\ mode' = "BUILD_IN_PROGRESS"
    /\ UNCHANGED <<haltedFrom, window, gate, limits, places, news, sanctioned>>

\* A build is over, or skipped or vetoed, and its task leaves the queue.
BuildEnds(i) ==
    /\ mode = "BUILD_IN_PROGRESS" /\ i \in queue
    /\ queue' = queue \ {i}
    /\ mode' = IF window THEN "FREE_REIGN_WINDOW" ELSE "IDLE"
    /\ UNCHANGED <<haltedFrom, window, pool, drawn, held, gate, limits, news, sanctioned>>

WindowOpens ==
    /\ mode = "IDLE" /\ ~window
    /\ mode' = "FREE_REIGN_WINDOW" /\ window' = TRUE
    /\ UNCHANGED <<haltedFrom, gate, limits, places, news, sanctioned>>

\* Expired, or revoked by the console, which works while the show is halted too.
WindowCloses ==
    /\ window
    /\ window' = FALSE
    /\ mode' = IF mode = "FREE_REIGN_WINDOW" THEN "IDLE" ELSE mode
    /\ UNCHANGED <<haltedFrom, gate, limits, places, news, sanctioned>>

Halt ==
    /\ mode # "HALTED"
    /\ mode' = "HALTED" /\ haltedFrom' = mode
    /\ UNCHANGED <<window, gate, limits, places, news, sanctioned>>

\* The show goes back to what it did, or to IDLE without its window and its ballot.
Recover ==
    /\ mode = "HALTED"
    /\ \/ mode' = haltedFrom /\ UNCHANGED <<window, places>>
       \/ /\ mode' = "IDLE" /\ window' = FALSE
          /\ Discard
          /\ UNCHANGED <<held, queue>>
    /\ haltedFrom' = "IDLE"
    /\ UNCHANGED <<gate, limits, news, sanctioned>>

-----------------------------------------------------------------------------
Next ==
    \/ \E c \in Chatters, t \in Texts :
         Refuse(c, t) \/ RefuseHalted(c, t) \/ Suggest(c, t) \/ Instruct(c, t)
    \/ \E c \in Chatters : CoolsDown(c)
    \/ Flush
    \/ \E n \in Numbers :
         \/ \E answer \in Answers, success \in BOOLEAN : Answer(n, answer, success)
         \/ TimesOut(n) \/ LateAnswer(n) \/ BackoffEnds(n)
    \/ \E i \in Ideas : ReviewApproves(i) \/ ReviewRejects(i) \/ Wins(i) \/ Pick(i) \/ BuildEnds(i)
    \/ \E ballot \in SUBSET pool : Draw(ballot)
    \/ BuildStarts \/ WindowOpens \/ WindowCloses \/ Halt \/ Recover

Spec == Init /\ [][Next]_vars

\* A call is answered or times out.
Fairness ==
    \A n \in Numbers : WF_vars(TimesOut(n)) /\ WF_vars(BackoffEnds(n))

LiveSpec == Spec /\ Fairness

-----------------------------------------------------------------------------
(* Properties.                                                             *)

Submission == [idea : Ideas, who : Chatters, text : Texts, path : Paths]
CallState  == [at : {"none", "asking", "backoff", "decided"}, attempt : 0..MaxAttempts]

ShowType   == mode \in Modes /\ haltedFrom \in Modes \ {"HALTED"} /\ window \in BOOLEAN
GateType   == /\ submissions \in Seq(Submission) /\ Len(submissions) <= MaxSubmissions
              /\ call \in [Numbers -> CallState] /\ abandoned \subseteq Numbers
LimitsType == cooling \subseteq Chatters /\ mine \in [Chatters -> SUBSET Ideas]
PlacesType == /\ pool \subseteq Ideas /\ Cardinality(pool) <= MaxPool /\ drawn \subseteq Ideas
              /\ held \subseteq Ideas /\ queue \subseteq Ideas /\ sanctioned \subseteq Ideas
NewsType   == buffer \in BOOLEAN /\ timer \in {"null", "armed"}

TypeOK == ShowType /\ GateType /\ LimitsType /\ PlacesType /\ NewsType

\* No line stays behind in the buffer: while one waits, a flush is armed.
LinesGoOut == buffer => timer = "armed"

\* The gate fails closed: nothing waits for a vote, is on a ballot or is queued without an
\* approval that came in time, from a run that ended well, or from the streamer.
GateFailsClosed == pool \union drawn \union queue \subseteq sanctioned

Waiting(n)   == call[n].at \in {"asking", "backoff"}
Reconsidered == {i \in Ideas : \E n \in DOMAIN submissions :
                                 submissions[n].path = "again" /\ submissions[n].idea = i}
Classifying  == {i \in Ideas : \E n \in DOMAIN submissions :
                                 Waiting(n) /\ submissions[n].idea = i}
Places       == <<Classifying, pool, drawn, held, queue>>

\* Until a stale pick has the gate look again, an idea is in one place: being classified,
\* pooled, on the ballot, held or queued, whatever answers come and however late.
OneFate ==
    \A i \in Ideas \ Reconsidered, p, q \in DOMAIN Places :
        i \in Places[p] /\ i \in Places[q] => p = q

\* Every text handed to the gate gets a decision, though calls fail, hang and answer late.
EveryTextDecided == \A n \in Numbers : Asking(n) ~> call[n] = Decided
=============================================================================

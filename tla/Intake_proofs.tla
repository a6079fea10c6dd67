------------------------------ MODULE Intake_proofs ------------------------------
(***************************************************************************)
(* What holds of the intake for every set of chatters and texts, every     *)
(* number of submissions and attempts and every size of the pool.          *)
(***************************************************************************)
EXTENDS Intake, FiniteSetTheorems, SequenceTheorems, TLAPS

-------------------------------------------------------------------------------
(***************************************************************************)
(* The inductive invariant                                                 *)
(***************************************************************************)

\* A first submission is its own idea, and an idea is known once it is submitted.
IdeasAreSubmissions ==
    /\ \A n \in DOMAIN submissions :
          /\ submissions[n].idea \in DOMAIN submissions
          /\ submissions[n].path # "again" => submissions[n].idea = n
    /\ pool \union drawn \union held \union queue \subseteq DOMAIN submissions

\* Only what was submitted is classified.
CallsAreSubmissions == \A n \in Numbers : call[n].at # "none" => n \in DOMAIN submissions

\* A call that pauses has an attempt left.
RetriesLeft == \A n \in Numbers : call[n].at = "backoff" => call[n].attempt < MaxAttempts

\* OneFate, pair by pair.
Apart ==
    \A i \in Ideas \ Reconsidered :
        /\ i \in Classifying => i \notin pool \union drawn \union held \union queue
        /\ i \in pool => i \notin drawn \union held \union queue
        /\ i \in drawn => i \notin held \union queue
        /\ i \in held => i \notin queue

IInv ==
    /\ TypeOK
    /\ IdeasAreSubmissions /\ CallsAreSubmissions /\ RetriesLeft
    /\ GateFailsClosed /\ LinesGoOut /\ Apart

-------------------------------------------------------------------------------
(***************************************************************************)
(* The pool's operators                                                    *)
(***************************************************************************)

LEMMA PoolIsFinite ==
  ASSUME PlacesType
  PROVE  /\ IsFiniteSet(pool) /\ Cardinality(pool) \in Nat /\ IsFiniteSet(Ideas)
         /\ IsFiniteSet(pool \union drawn)
<1>1. IsFiniteSet(Ideas)
  BY FS_Interval, IntakeAssumption DEF Ideas, Numbers, IntakeAssumption
<1>2. pool \subseteq Ideas /\ pool \union drawn \subseteq Ideas
  BY DEF PlacesType
<1>3. IsFiniteSet(pool) /\ IsFiniteSet(pool \union drawn)
  BY <1>1, <1>2, FS_Subset
<1>4. QED
  BY <1>1, <1>3, FS_CardinalityType

\* What enters the pool is the idea, what leaves it is another one, and its bound is kept.
LEMMA PoolAddType ==
  ASSUME PlacesType, NEW i \in Ideas, NEW p \in PoolAdd(pool, i)
  PROVE  i \in p /\ p \subseteq pool \union {i} /\ Cardinality(p) <= MaxPool
<1>0. MaxPool \in Nat
  BY IntakeAssumption DEF IntakeAssumption
<1>1. CASE i \in pool
  <2>1. p = pool
    BY <1>1 DEF PoolAdd
  <2>2. QED
    BY <1>1, <2>1 DEF PlacesType
<1>2. CASE i \notin pool /\ Cardinality(pool) < MaxPool
  <2>1. p = pool \union {i}
    BY <1>2 DEF PoolAdd
  <2>2. Cardinality(pool \union {i}) = Cardinality(pool) + 1
    BY <1>2, PoolIsFinite, FS_AddElement
  <2>3. QED
    BY <1>0, <1>2, <2>1, <2>2, PoolIsFinite
<1>3. CASE i \notin pool /\ ~(Cardinality(pool) < MaxPool)
  <2>1. PICK j \in pool : p = (pool \ {j}) \union {i}
    BY <1>3 DEF PoolAdd
  <2>2. IsFiniteSet(pool \ {j}) /\ Cardinality(pool \ {j}) = Cardinality(pool) - 1
    BY PoolIsFinite, FS_RemoveElement
  <2>3. Cardinality((pool \ {j}) \union {i}) = Cardinality(pool \ {j}) + 1
    BY <1>3, <2>2, FS_AddElement
  <2>4. QED
    BY <1>0, <2>1, <2>2, <2>3, PoolIsFinite DEF PlacesType
<1>4. QED
  BY <1>1, <1>2, <1>3

\* A subset of the pool is within the bound.
LEMMA SmallerPool ==
  ASSUME PlacesType, NEW p \in SUBSET pool
  PROVE  Cardinality(p) <= MaxPool
<1>1. Cardinality(p) \in Nat /\ Cardinality(p) <= Cardinality(pool)
  BY PoolIsFinite, FS_Subset, FS_CardinalityType
<1>2. QED
  BY <1>1, PoolIsFinite, IntakeAssumption DEF PlacesType, IntakeAssumption

-------------------------------------------------------------------------------
(***************************************************************************)
(* Handing a text to the gate                                              *)
(***************************************************************************)

LEMMA GateFacts ==
  ASSUME GateType
  PROVE  /\ Len(submissions) \in Nat /\ DOMAIN submissions = 1..Len(submissions)
         /\ DOMAIN submissions \subseteq Ideas
         /\ \A n \in DOMAIN submissions : submissions[n] \in Submission
<1>1. submissions \in Seq(Submission) /\ Len(submissions) <= MaxSubmissions
  BY DEF GateType
<1>2. Len(submissions) \in Nat /\ DOMAIN submissions = 1..Len(submissions)
  BY <1>1, LenProperties
<1>3. \A n \in DOMAIN submissions : submissions[n] \in Submission
  BY <1>1, <1>2, ElementOfSeq
<1>4. QED
  BY <1>1, <1>2, <1>3, IntakeAssumption DEF Ideas, Numbers, IntakeAssumption

\* The submission is the next one, and being asked about.
LEMMA AskFacts ==
  ASSUME GateType, Room, NEW i \in Ideas, NEW c \in Chatters, NEW t \in Texts, NEW path \in Paths,
         Ask(i, c, t, path)
  PROVE  LET k == Len(submissions) + 1 IN
         /\ k \in Ideas /\ k \notin DOMAIN submissions
         /\ DOMAIN submissions' = DOMAIN submissions \union {k}
         /\ \A n \in DOMAIN submissions : submissions'[n] = submissions[n]
         /\ submissions'[k] = [idea |-> i, who |-> c, text |-> t, path |-> path]
         /\ call' = [call EXCEPT ![k] = [at |-> "asking", attempt |-> 1]]
         /\ GateType'
<1> DEFINE k == Len(submissions) + 1
           new == [idea |-> i, who |-> c, text |-> t, path |-> path]
<1>1. /\ Len(submissions) \in Nat /\ DOMAIN submissions = 1..Len(submissions)
      /\ submissions \in Seq(Submission)
  BY GateFacts DEF GateType
<1>2. new \in Submission
  BY DEF Submission
<1>3. submissions' = Append(submissions, new)
  BY DEF Ask
<1> HIDE DEF new
<1>4. /\ submissions' \in Seq(Submission) /\ Len(submissions') = k
      /\ submissions'[k] = new
      /\ \A n \in 1..Len(submissions) : submissions'[n] = submissions[n]
  BY <1>1, <1>2, <1>3, AppendProperties
<1>5. DOMAIN submissions' = 1..k
  BY <1>4, LenProperties
<1>6. k \in 1..MaxSubmissions
  BY <1>1, IntakeAssumption DEF Room, IntakeAssumption
<1>7. [at |-> "asking", attempt |-> 1] \in CallState
  BY IntakeAssumption DEF CallState, IntakeAssumption
<1>8. call' \in [Numbers -> CallState] /\ abandoned' \subseteq Numbers
  BY <1>7 DEF Ask, GateType
<1>9. GateType'
  BY <1>4, <1>6, <1>8 DEF GateType, CallState, Submission
<1>10. 1..k = (1..Len(submissions)) \union {k} /\ k \notin 1..Len(submissions)
  BY <1>1
<1>11. QED
  BY <1>1, <1>4, <1>5, <1>6, <1>9, <1>10 DEF Ask, new, Ideas, Numbers

\* Only the call of one submission moves, and it stays a submission's.
LEMMA CallMoves ==
  ASSUME GateType, NEW n \in Numbers, NEW to \in CallState,
         submissions' = submissions, call' = [call EXCEPT ![n] = to],
         abandoned' \subseteq Numbers
  PROVE  GateType'
BY DEF GateType, CallState, Submission, Ideas, Numbers

LEMMA CallStates ==
  /\ Decided \in CallState
  /\ \A s \in CallState : [s EXCEPT !.at = "backoff"] \in CallState
  /\ \A s \in CallState : [s EXCEPT !.at = "asking"] \in CallState
  /\ \A s \in CallState :
        s.attempt < MaxAttempts => [at |-> "asking", attempt |-> s.attempt + 1] \in CallState
BY IntakeAssumption DEF Decided, CallState, IntakeAssumption

-------------------------------------------------------------------------------
(***************************************************************************)
(* What the steps of the gate do                                           *)
(***************************************************************************)

\* A call in progress belongs to a submission.
LEMMA WaitingFacts ==
  ASSUME IInv, NEW n \in Numbers, call[n].at # "none"
  PROVE  /\ n \in DOMAIN submissions /\ submissions[n] \in Submission
         /\ submissions[n].idea \in DOMAIN submissions /\ submissions[n].idea \in Ideas
         /\ submissions[n].path # "again" => submissions[n].idea = n
         /\ submissions[n].path = "again" => submissions[n].idea \in Reconsidered
<1>1. n \in DOMAIN submissions
  BY DEF IInv, CallsAreSubmissions
<1>2. submissions[n] \in Submission /\ DOMAIN submissions \subseteq Ideas
  BY <1>1, GateFacts DEF IInv, TypeOK
<1>3. submissions[n].idea \in DOMAIN submissions
      /\ (submissions[n].path # "again" => submissions[n].idea = n)
  BY <1>1 DEF IInv, IdeasAreSubmissions
<1>4. QED
  BY <1>1, <1>2, <1>3 DEF Reconsidered

Pauses(n) == /\ call[n].attempt < MaxAttempts
             /\ call' = [call EXCEPT ![n].at = "backoff"]

\* An answer, or a timeout, ends the call or pauses it; only an approval that is sanctioned
\* reaches the pool or the queue.
LEMMA AnswerFacts ==
  ASSUME IInv, NEW n \in Numbers,
         \/ \E answer \in Answers, success \in BOOLEAN : Answer(n, answer, success)
         \/ TimesOut(n)
  PROVE  LET i == submissions[n].idea IN
         /\ call[n].at = "asking" /\ submissions' = submissions /\ drawn' = drawn
         /\ sanctioned \subseteq sanctioned' /\ sanctioned' \subseteq sanctioned \union {i}
         /\ \/ Pauses(n) /\ UNCHANGED places
            \/ /\ call' = [call EXCEPT ![n] = Decided]
               /\ \/ UNCHANGED places
                  \/ pool' \in PoolAdd(pool, i) /\ UNCHANGED <<held, queue>> /\ i \in sanctioned'
                  \/ held' = held \union {i} /\ UNCHANGED <<pool, queue>>
                  \/ queue' = queue \union {i} /\ UNCHANGED <<pool, held>> /\ i \in sanctioned'
<1> DEFINE i == submissions[n].idea
<1>1. ASSUME Decide(n, "rejected")
      PROVE  call' = [call EXCEPT ![n] = Decided] /\ UNCHANGED places
  BY <1>1 DEF Decide, Enqueue, Route, places
<1>2. ASSUME Fail(n)
      PROVE  \/ Pauses(n) /\ UNCHANGED places
             \/ call' = [call EXCEPT ![n] = Decided] /\ UNCHANGED places
  BY <1>1, <1>2 DEF Fail, Pauses
<1>3. CASE TimesOut(n)
  <2>1. /\ call[n].at = "asking" /\ submissions' = submissions /\ sanctioned' = sanctioned
        /\ Fail(n)
    BY <1>3 DEF TimesOut, Asking
  <2>2. drawn' = drawn
    BY <1>2, <2>1 DEF places
  <2>3. QED
    BY <1>2, <2>1, <2>2
<1>4. ASSUME NEW answer \in Answers, NEW success \in BOOLEAN, Answer(n, answer, success)
      PROVE  /\ call[n].at = "asking" /\ submissions' = submissions /\ drawn' = drawn
             /\ sanctioned \subseteq sanctioned' /\ sanctioned' \subseteq sanctioned \union {i}
             /\ \/ Pauses(n) /\ UNCHANGED places
                \/ /\ call' = [call EXCEPT ![n] = Decided]
                   /\ \/ UNCHANGED places
                      \/ pool' \in PoolAdd(pool, i) /\ UNCHANGED <<held, queue>>
                         /\ i \in sanctioned'
                      \/ held' = held \union {i} /\ UNCHANGED <<pool, queue>>
                      \/ queue' = queue \union {i} /\ UNCHANGED <<pool, held>>
                         /\ i \in sanctioned'
  <2>1. /\ call[n].at = "asking" /\ submissions' = submissions
        /\ sanctioned' = IF success /\ answer = "approved" THEN sanctioned \union {i}
                         ELSE sanctioned
    BY <1>4 DEF Answer, Asking
  <2>2. CASE ~Readable(answer, success)
    <3>1. Fail(n)
      BY <1>4, <2>2 DEF Answer
    <3>2. QED
      BY <1>2, <2>1, <3>1 DEF places
  <2>3. CASE Readable(answer, success)
    <3>1. Decide(n, Judge(answer)) /\ success
      BY <1>4, <2>3 DEF Answer, Readable
    <3>2. CASE Judge(answer) = "rejected"
      BY <1>1, <2>1, <3>1, <3>2 DEF places
    <3>3. CASE Judge(answer) = "held"
      <4>1. Decide(n, "held")
        BY <3>1, <3>3
      <4>2. /\ call' = [call EXCEPT ![n] = Decided]
            /\ \/ UNCHANGED places
               \/ held' = held \union {i} /\ UNCHANGED <<pool, queue, drawn>>
        BY <4>1 DEF Decide, Enqueue, Route, places
      <4>3. QED
        BY <2>1, <4>2 DEF places
    <3>4. CASE answer = "approved"
      <4>1. Decide(n, "approved") /\ i \in sanctioned'
        BY <2>1, <3>1, <3>4 DEF Judge
      <4>2. /\ call' = [call EXCEPT ![n] = Decided]
            /\ \/ queue' = queue \union {i} /\ UNCHANGED <<pool, drawn, held>>
               \/ pool' \in PoolAdd(pool, i) /\ UNCHANGED <<queue, drawn, held>>
        BY <4>1 DEF Decide, Enqueue, Route
      <4>3. QED
        BY <2>1, <4>1, <4>2
    <3>5. QED
      BY <3>2, <3>3, <3>4 DEF Judge
  <2>4. QED
    BY <2>2, <2>3
<1>5. QED
  BY <1>3, <1>4

-------------------------------------------------------------------------------
(***************************************************************************)
(* Where an idea is                                                        *)
(***************************************************************************)

\* An idea the gate never looked at again is classified by its own submission only.
LEMMA OwnCall ==
  ASSUME IInv, NEW i \in Ideas \ Reconsidered
  PROVE  /\ \A n \in DOMAIN submissions : submissions[n].idea = i => n = i
         /\ i \in Classifying => i \in DOMAIN submissions /\ Waiting(i) /\ submissions[i].idea = i
<1>1. \A n \in DOMAIN submissions : submissions[n].idea = i => n = i
  BY DEF Reconsidered, IInv, IdeasAreSubmissions
<1>2. QED
  BY <1>1 DEF Classifying

\* The gate's steps that move no idea.
LEMMA GateStands ==
  ASSUME submissions' = submissions, \A n \in DOMAIN submissions : Waiting(n)' = Waiting(n)
  PROVE  Classifying' = Classifying /\ Reconsidered' = Reconsidered
BY DEF Classifying, Reconsidered, Ideas, Numbers

LEMMA PlacesStand ==
  ASSUME IInv, Classifying' = Classifying, Reconsidered' = Reconsidered, UNCHANGED places
  PROVE  Apart'
BY DEF IInv, Apart, places, Ideas, Numbers

\* A new text is in the hands of the gate and nowhere else; a second look exempts its idea.
LEMMA AskKeepsApart ==
  ASSUME IInv, Room, NEW i \in Ideas, NEW c \in Chatters, NEW t \in Texts, NEW path \in Paths,
         Ask(i, c, t, path),
         \/ path # "again" /\ i = Len(submissions) + 1 /\ UNCHANGED places
         \/ /\ path = "again" /\ queue' = queue /\ held' = held
            /\ pool' = pool /\ (drawn' = drawn \/ drawn' = {})
  PROVE  Apart'
<1> DEFINE k == Len(submissions) + 1
<1>0. GateType
  BY DEF IInv, TypeOK
<1>1. /\ k \in Ideas /\ k \notin DOMAIN submissions
      /\ DOMAIN submissions' = DOMAIN submissions \union {k}
      /\ \A n \in DOMAIN submissions : submissions'[n] = submissions[n]
      /\ submissions'[k] = [idea |-> i, who |-> c, text |-> t, path |-> path]
      /\ call' = [call EXCEPT ![k] = [at |-> "asking", attempt |-> 1]]
  BY <1>0, AskFacts
<1> HIDE DEF k
<1>9. submissions'[k].idea = i /\ submissions'[k].path = path
  BY <1>1
<1>2. \A n \in DOMAIN submissions : n # k /\ call'[n] = call[n]
  BY <1>0, <1>1, GateFacts DEF GateType, Ideas
<1>3. Ideas' = Ideas
  BY DEF Ideas, Numbers
<1>4. Reconsidered \subseteq Reconsidered' /\ (path = "again" => i \in Reconsidered')
  BY <1>1, <1>3, <1>9 DEF Reconsidered
<1>5. Classifying' \subseteq Classifying \union {i}
  BY <1>1, <1>2, <1>3, <1>9 DEF Classifying, Waiting
<1>6. CASE path # "again" /\ i = k /\ UNCHANGED places
  <2>1. i \notin pool \union drawn \union held \union queue \union Classifying
    BY <1>1, <1>6 DEF IInv, IdeasAreSubmissions, Classifying
  <2>2. QED
    BY <1>3, <1>4, <1>5, <1>6, <2>1 DEF IInv, Apart, places
<1>7. CASE /\ path = "again" /\ queue' = queue /\ held' = held
           /\ pool' = pool /\ (drawn' = drawn \/ drawn' = {})
  BY <1>3, <1>4, <1>5, <1>7 DEF IInv, Apart
<1>8. QED
  BY <1>6, <1>7 DEF k

\* A decision takes the idea out of the gate's hands and puts it in one place at most.
LEMMA DecisionKeepsApart ==
  ASSUME IInv, NEW n \in Numbers, call[n].at = "asking", submissions' = submissions,
         drawn' = drawn, call' = [call EXCEPT ![n] = Decided],
         LET i == submissions[n].idea IN
           \/ UNCHANGED places
           \/ pool' \in PoolAdd(pool, i) /\ UNCHANGED <<held, queue>>
           \/ held' = held \union {i} /\ UNCHANGED <<pool, queue>>
           \/ queue' = queue \union {i} /\ UNCHANGED <<pool, held>>
  PROVE  Apart'
<1> DEFINE i == submissions[n].idea
<1>1. /\ i \in Ideas /\ n \in DOMAIN submissions
      /\ i \notin Reconsidered => i = n
  BY WaitingFacts
<1>2. Ideas' = Ideas /\ Reconsidered' = Reconsidered
  BY DEF Ideas, Numbers, Reconsidered
<1>3. call \in [Numbers -> CallState] /\ PlacesType
  BY DEF IInv, TypeOK, GateType
<1>4. Classifying' \subseteq Classifying
  BY <1>2, <1>3 DEF Classifying, Waiting, Decided
<1>5. i \notin Reconsidered => i \in Classifying /\ i \notin Classifying'
  <2> SUFFICES ASSUME i \notin Reconsidered
               PROVE  i \in Classifying /\ i \notin Classifying'
    OBVIOUS
  <2>1. i = n /\ \A m \in DOMAIN submissions : submissions[m].idea = i => m = n
    BY <1>1, OwnCall
  <2>2. ~Waiting(n)' /\ Waiting(n)
    BY <1>3 DEF Waiting, Decided
  <2>3. QED
    BY <1>1, <1>2, <2>1, <2>2 DEF Classifying
<1>6. CASE pool' \in PoolAdd(pool, i) /\ UNCHANGED <<held, queue>>
  <2>1. pool' \subseteq pool \union {i}
    BY <1>1, <1>3, <1>6, PoolAddType
  <2>2. QED
    BY <1>2, <1>4, <1>5, <1>6, <2>1 DEF IInv, Apart
<1>7. CASE held' = held \union {i} /\ UNCHANGED <<pool, queue>>
  BY <1>2, <1>4, <1>5, <1>7 DEF IInv, Apart
<1>8. CASE queue' = queue \union {i} /\ UNCHANGED <<pool, held>>
  BY <1>2, <1>4, <1>5, <1>8 DEF IInv, Apart
<1>9. CASE UNCHANGED places
  BY <1>2, <1>4, <1>9 DEF IInv, Apart, places
<1>10. QED
  BY <1>6, <1>7, <1>8, <1>9

-------------------------------------------------------------------------------
(***************************************************************************)
(* The shapes of a step, as far as ideas and calls are concerned           *)
(***************************************************************************)

Quiet == UNCHANGED <<submissions, call, places, sanctioned>>

Asked(i, c, t, path) ==
    /\ Room /\ Ask(i, c, t, path) /\ sanctioned' = sanctioned
    /\ \/ path # "again" /\ i = Len(submissions) + 1 /\ UNCHANGED places
       \/ /\ path = "again" /\ i \in DOMAIN submissions
          /\ queue' = queue /\ held' = held /\ pool' = pool /\ (drawn' = drawn \/ drawn' = {})

Answered(n) ==
    \/ \E answer \in Answers, success \in BOOLEAN : Answer(n, answer, success)
    \/ TimesOut(n)

Moved ==
    /\ UNCHANGED <<submissions, call>>
    /\ \/ \E i \in held : ReviewApproves(i) \/ ReviewRejects(i)
       \/ \E ballot \in SUBSET pool : Draw(ballot)
       \/ \E i \in drawn : /\ queue' = queue \union {i} /\ drawn' = {}
                           /\ UNCHANGED <<pool, held, sanctioned>>
       \/ \E i \in pool : /\ queue' = queue \union {i} /\ pool' = pool \ {i}
                          /\ UNCHANGED <<drawn, held, sanctioned>>
       \/ \E i \in queue : queue' = queue \ {i} /\ UNCHANGED <<pool, drawn, held, sanctioned>>
       \/ Discard /\ UNCHANGED <<held, queue, sanctioned>>

LEMMA AskAgainShape ==
  ASSUME IInv, Room, NEW i \in pool \union drawn, AskAgain(i), sanctioned' = sanctioned,
         queue' = queue, held' = held, pool' = pool, drawn' = drawn \/ drawn' = {}
  PROVE  \E c \in Chatters, t \in Texts : Asked(i, c, t, "again")
<1>1. i \in DOMAIN submissions
  BY DEF IInv, IdeasAreSubmissions
<1>2. submissions[i].who \in Chatters /\ submissions[i].text \in Texts
  BY <1>1, GateFacts DEF IInv, TypeOK, Submission
<1>3. Asked(i, submissions[i].who, submissions[i].text, "again")
  BY <1>1 DEF Asked, AskAgain
<1>4. QED
  BY <1>2, <1>3

LEMMA Shapes ==
  ASSUME IInv, [Next]_vars
  PROVE  \/ Quiet \/ Moved
         \/ \E i \in Ideas, c \in Chatters, t \in Texts, path \in Paths : Asked(i, c, t, path)
         \/ \E n \in Numbers : Answered(n) \/ BackoffEnds(n)
<1>0. pool \union drawn \subseteq Ideas
  BY DEF IInv, TypeOK, PlacesType
<1>1. CASE UNCHANGED vars
  BY <1>1 DEF vars, gate, Quiet
<1>2. CASE \E c \in Chatters, t \in Texts : Refuse(c, t) \/ RefuseHalted(c, t)
  BY <1>2 DEF Refuse, RefuseHalted, gate, Quiet
<1>3. ASSUME NEW c \in Chatters, NEW t \in Texts, Suggest(c, t) \/ Instruct(c, t)
      PROVE  \E i \in Ideas, path \in Paths : Asked(i, c, t, path)
  <2>1. PICK path \in {"chat", "paid"} :
          Room /\ Ask(Len(submissions) + 1, c, t, path) /\ UNCHANGED places /\ sanctioned' = sanctioned
    BY <1>3 DEF Suggest, Instruct
  <2>2. Len(submissions) + 1 \in Ideas
    BY <2>1, GateFacts, IntakeAssumption
       DEF Room, IInv, TypeOK, Ideas, Numbers, IntakeAssumption
  <2>3. Asked(Len(submissions) + 1, c, t, path) /\ path \in Paths
    BY <2>1 DEF Asked, Paths
  <2>4. QED
    BY <2>2, <2>3
<1>4. CASE \E c \in Chatters : CoolsDown(c)
  BY <1>4 DEF CoolsDown, gate, Quiet
<1>5. CASE Flush
  BY <1>5 DEF Flush, gate, Quiet
<1>6. CASE \E n \in Numbers : LateAnswer(n)
  BY <1>6 DEF LateAnswer, Quiet
<1>7. CASE \E i \in Ideas : ReviewApproves(i) \/ ReviewRejects(i)
  BY <1>7 DEF ReviewApproves, ReviewRejects, gate, Moved
<1>8. ASSUME NEW i \in Ideas, Wins(i)
      PROVE  Moved \/ \E c \in Chatters, t \in Texts : Asked(i, c, t, "again")
  <2>1. i \in drawn /\ drawn' = {} /\ UNCHANGED <<pool, held, sanctioned>>
    BY <1>8 DEF Wins
  <2>2. CASE queue' = queue \union {i} /\ UNCHANGED gate
    BY <2>1, <2>2 DEF gate, Moved
  <2>3. CASE Room /\ AskAgain(i) /\ UNCHANGED queue
    BY <2>1, <2>3, AskAgainShape
  <2>4. QED
    BY <1>8, <2>2, <2>3 DEF Wins
<1>9. ASSUME NEW i \in Ideas, Pick(i)
      PROVE  Moved \/ \E c \in Chatters, t \in Texts : Asked(i, c, t, "again")
  <2>1. i \in pool /\ UNCHANGED <<drawn, held, sanctioned>>
    BY <1>9 DEF Pick
  <2>2. CASE queue' = queue \union {i} /\ pool' = pool \ {i} /\ UNCHANGED gate
    BY <2>1, <2>2 DEF gate, Moved
  <2>3. CASE Room /\ AskAgain(i) /\ UNCHANGED <<queue, pool>>
    BY <2>1, <2>3, AskAgainShape
  <2>4. QED
    BY <1>9, <2>2, <2>3 DEF Pick
<1>10. CASE \E i \in Ideas : BuildEnds(i)
  BY <1>10 DEF BuildEnds, gate, Moved
<1>11. CASE \E ballot \in SUBSET pool : Draw(ballot)
  BY <1>11 DEF Draw, gate, Moved
<1>12. CASE BuildStarts \/ WindowOpens \/ WindowCloses \/ Halt
  BY <1>12 DEF BuildStarts, WindowOpens, WindowCloses, Halt, gate, Quiet
<1>13. CASE Recover
  BY <1>13 DEF Recover, gate, places, Quiet, Moved
<1>14. QED
  BY <1>1, <1>2, <1>3, <1>4, <1>5, <1>6, <1>7, <1>8, <1>9, <1>10, <1>11, <1>12, <1>13
     DEF Next, Answered, Paths

-------------------------------------------------------------------------------
(***************************************************************************)
(* Every step keeps the invariant, part by part                            *)
(***************************************************************************)

LEMMA InitHolds == Init => IInv
<1> SUFFICES ASSUME Init PROVE IInv
  OBVIOUS
<1>0. MaxSubmissions \in Nat /\ MaxAttempts \in Nat /\ MaxPool \in Nat
  BY IntakeAssumption DEF IntakeAssumption
<1>1. submissions = <<>> /\ Len(<<>>) = 0 /\ DOMAIN submissions = {}
      /\ submissions \in Seq(Submission)
  BY DEF Init
<1>2. GateType
  <2>1. Unasked \in CallState
    BY <1>0 DEF Unasked, CallState
  <2>2. QED
    BY <1>0, <1>1, <2>1 DEF Init, GateType
<1>3. ShowType /\ NewsType
  BY DEF Init, ShowType, Modes, NewsType
<1>4. LimitsType
  BY DEF Init, LimitsType
<1>5. PlacesType
  BY <1>0, FS_EmptySet DEF Init, PlacesType
<1>6. IdeasAreSubmissions
  BY <1>1 DEF Init, IdeasAreSubmissions
<1>7. CallsAreSubmissions
  BY DEF Init, CallsAreSubmissions, Unasked
<1>11. RetriesLeft
  BY DEF Init, RetriesLeft, Unasked
<1>8. GateFailsClosed /\ LinesGoOut
  BY DEF Init, GateFailsClosed, LinesGoOut
<1>9. Apart
  BY <1>1 DEF Init, Apart, Classifying
<1>10. QED
  BY <1>2, <1>3, <1>4, <1>5, <1>6, <1>7, <1>8, <1>9, <1>11 DEF IInv, TypeOK

LEMMA ShowKept ==
  ASSUME IInv, [Next]_vars
  PROVE  ShowType'
<1>0. ShowType
  BY DEF IInv, TypeOK
<1>1. CASE UNCHANGED show
  BY <1>0, <1>1, Zenon DEF show, ShowType, Modes
<1>2. ASSUME NEW n \in Numbers, NEW decision, Decide(n, decision)
      PROVE  ShowType'
  BY <1>0, <1>2, Zenon DEF Decide, Enqueue, Route, ShowType, Modes
<1>3. ASSUME NEW n \in Numbers, Answered(n)
      PROVE  ShowType'
  BY <1>1, <1>2, <1>3 DEF Answered, Answer, TimesOut, Fail, show
<1>4. CASE \E i \in Ideas : BuildEnds(i)
  BY <1>0, <1>4, Zenon DEF BuildEnds, ShowType, Modes
<1>5. CASE BuildStarts \/ WindowOpens
  BY <1>0, <1>5, Zenon DEF BuildStarts, WindowOpens, ShowType, Modes
<1>6. CASE WindowCloses
  BY <1>0, <1>6, Zenon DEF WindowCloses, ShowType, Modes
<1>7. CASE Halt
  BY <1>0, <1>7, Zenon DEF Halt, ShowType, Modes
<1>8. CASE Recover
  BY <1>0, <1>8, Zenon DEF Recover, ShowType, Modes
<1>9. QED
  BY <1>1, <1>3, <1>4, <1>5, <1>6, <1>7, <1>8
     DEF Next, vars, Answered, Refuse, RefuseHalted, Suggest, Instruct, CoolsDown, Flush,
         LateAnswer, BackoffEnds, ReviewApproves, ReviewRejects, Wins, Pick, Draw

LEMMA GateKept ==
  ASSUME IInv, [Next]_vars
  PROVE  GateType' /\ CallsAreSubmissions' /\ RetriesLeft'
<1>0. GateType /\ CallsAreSubmissions /\ RetriesLeft
  BY DEF IInv, TypeOK
<1>1. abandoned' \subseteq Numbers
  BY <1>0
     DEF Next, vars, gate, Refuse, RefuseHalted, Suggest, Instruct, CoolsDown, Flush, LateAnswer,
         BackoffEnds, ReviewApproves, ReviewRejects, Wins, Pick, Draw, Answer, TimesOut, AskAgain,
         Ask, BuildStarts, BuildEnds, WindowOpens, WindowCloses, Halt, Recover, GateType
<1>2. CASE UNCHANGED <<submissions, call>>
  BY <1>0, <1>1, <1>2
     DEF GateType, CallsAreSubmissions, RetriesLeft, CallState, Submission, Ideas, Numbers
<1>3. ASSUME NEW i \in Ideas, NEW c \in Chatters, NEW t \in Texts, NEW path \in Paths,
             Asked(i, c, t, path)
      PROVE  GateType' /\ CallsAreSubmissions' /\ RetriesLeft'
  <2> DEFINE k == Len(submissions) + 1
  <2>1. /\ DOMAIN submissions' = DOMAIN submissions \union {k} /\ k \in Ideas
        /\ call' = [call EXCEPT ![k] = [at |-> "asking", attempt |-> 1]]
        /\ GateType'
    BY <1>0, <1>3, AskFacts DEF Asked
  <2> HIDE DEF k
  <2>2. CallsAreSubmissions'
    BY <1>0, <2>1 DEF CallsAreSubmissions, GateType, Numbers
  <2>3. RetriesLeft'
    BY <1>0, <2>1 DEF RetriesLeft, GateType, Ideas, Numbers
  <2>4. QED
    BY <2>1, <2>2, <2>3
<1>4. ASSUME NEW n \in Numbers, NEW to \in CallState, submissions' = submissions,
             call[n].at # "none", call' = [call EXCEPT ![n] = to],
             to.at = "backoff" => to.attempt < MaxAttempts
      PROVE  GateType' /\ CallsAreSubmissions' /\ RetriesLeft'
  <2>1. CallsAreSubmissions'
    BY <1>0, <1>4 DEF CallsAreSubmissions, GateType, Numbers
  <2>2. RetriesLeft'
    BY <1>0, <1>4 DEF RetriesLeft, GateType, Numbers
  <2>3. QED
    BY <1>0, <1>1, <1>4, <2>1, <2>2, CallMoves
<1>5. ASSUME NEW n \in Numbers, Answered(n)
      PROVE  GateType' /\ CallsAreSubmissions' /\ RetriesLeft'
  <2>1. /\ submissions' = submissions /\ call[n].at # "none" /\ call[n] \in CallState
        /\ \/ call' = [call EXCEPT ![n] = Decided]
           \/ /\ call' = [call EXCEPT ![n] = [call[n] EXCEPT !.at = "backoff"]]
              /\ call[n].attempt < MaxAttempts
    BY <1>0, <1>5, AnswerFacts DEF Answered, GateType, Pauses
  <2>2. Decided \in CallState /\ [call[n] EXCEPT !.at = "backoff"] \in CallState
    BY <2>1, CallStates
  <2>3. Decided.at # "backoff"
        /\ [call[n] EXCEPT !.at = "backoff"].attempt = call[n].attempt
    BY <2>1 DEF Decided, CallState
  <2>4. QED
    BY <1>4, <2>1, <2>2, <2>3
<1>6. ASSUME NEW n \in Numbers, BackoffEnds(n)
      PROVE  GateType' /\ CallsAreSubmissions' /\ RetriesLeft'
  <2> DEFINE to == [at |-> "asking", attempt |-> call[n].attempt + 1]
  <2>1. submissions' = submissions /\ call[n].at = "backoff" /\ call[n] \in CallState
        /\ call' = [call EXCEPT ![n] = to]
    BY <1>0, <1>6 DEF BackoffEnds, GateType
  <2>2. call[n].attempt < MaxAttempts
    BY <1>0, <2>1 DEF RetriesLeft
  <2>3. to \in CallState
    BY <2>1, <2>2, CallStates
  <2>4. QED
    BY <1>4, <2>1, <2>3
<1>7. QED
  BY <1>2, <1>3, <1>5, <1>6, Shapes DEF Quiet, Moved

LEMMA LimitsKept ==
  ASSUME IInv, [Next]_vars
  PROVE  LimitsType'
<1>0. cooling \subseteq Chatters /\ mine \in [Chatters -> SUBSET Ideas]
  BY DEF IInv, TypeOK, LimitsType
<1>1. CASE UNCHANGED limits
  BY <1>0, <1>1 DEF limits, LimitsType, Ideas, Numbers
<1>2. ASSUME NEW c \in Chatters, cooling' = cooling, Prune(c)
      PROVE  LimitsType'
  BY <1>0, <1>2 DEF Prune, StillMine, LimitsType, Ideas, Numbers
<1>3. ASSUME NEW c \in Chatters, NEW t \in Texts, Suggest(c, t)
      PROVE  LimitsType'
  <2> DEFINE k == Len(submissions) + 1
  <2>1. k \in Ideas /\ RegisterAccepted(c, k)
    BY <1>3, GateFacts, IntakeAssumption
       DEF Suggest, Room, IInv, TypeOK, Ideas, Numbers, IntakeAssumption
  <2> HIDE DEF k
  <2>2. QED
    BY <1>0, <2>1 DEF RegisterAccepted, StillMine, LimitsType, Ideas, Numbers
<1>4. CASE \E c \in Chatters : CoolsDown(c)
  BY <1>0, <1>4 DEF CoolsDown, LimitsType, Ideas, Numbers
<1>5. QED
  BY <1>1, <1>2, <1>3, <1>4
     DEF Next, vars, Refuse, RefuseHalted, Instruct, Flush, Answer, TimesOut, LateAnswer,
         BackoffEnds, ReviewApproves, ReviewRejects, Wins, Pick, BuildEnds, Draw, BuildStarts,
         WindowOpens, WindowCloses, Halt, Recover

LEMMA NewsKept ==
  ASSUME IInv, [Next]_vars
  PROVE  NewsType' /\ LinesGoOut'
<1>0. NewsType /\ LinesGoOut
  BY DEF IInv, TypeOK
<1>1. CASE UNCHANGED news
  BY <1>0, <1>1, Zenon DEF news, NewsType, LinesGoOut
<1>2. CASE Feedback
  BY <1>0, <1>2 DEF Feedback, NewsType, LinesGoOut
<1>3. CASE Flush
  BY <1>3, Zenon DEF Flush, NewsType, LinesGoOut
<1>4. ASSUME NEW n \in Numbers, Answered(n)
      PROVE  UNCHANGED news \/ Feedback
  BY <1>4 DEF Answered, Answer, TimesOut, Fail, Decide, Report
<1>5. QED
  BY <1>1, <1>2, <1>3, <1>4
     DEF Next, vars, Answered, Refuse, RefuseHalted, Suggest, Instruct, CoolsDown, LateAnswer,
         BackoffEnds, ReviewApproves, ReviewRejects, Wins, Pick, BuildEnds, Draw, BuildStarts,
         WindowOpens, WindowCloses, Halt, Recover

\* The ideas that moved were known, and the pool keeps its bound.
LEMMA MovedFacts ==
  ASSUME IInv, Moved
  PROVE  /\ pool' \union drawn' \union held' \union queue' \subseteq
              pool \union drawn \union held \union queue
         /\ Cardinality(pool') <= MaxPool /\ sanctioned' \subseteq sanctioned \union held
         /\ sanctioned \subseteq sanctioned'
         /\ pool' \union drawn' \union queue' \subseteq sanctioned' \union pool \union drawn \union queue
         /\ Apart'
<1>0. PlacesType /\ Apart
  BY DEF IInv, TypeOK
<1>1. Classifying' = Classifying /\ Reconsidered' = Reconsidered /\ Ideas' = Ideas
  BY DEF Moved, Classifying, Reconsidered, Waiting, Ideas, Numbers
<1>2. Cardinality(pool) <= MaxPool
  BY <1>0 DEF PlacesType
<1>3. ASSUME NEW i \in held, ReviewApproves(i)
      PROVE  /\ held' = held \ {i} /\ pool' \subseteq pool \union {i}
             /\ drawn' = drawn /\ queue' = queue /\ sanctioned' = sanctioned \union {i}
             /\ Cardinality(pool') <= MaxPool
  BY <1>0, <1>3, PoolAddType DEF ReviewApproves, PlacesType
<1>4. CASE \E i \in held : ReviewApproves(i)
  BY <1>0, <1>1, <1>3, <1>4 DEF Apart
<1>5. CASE \E i \in held : ReviewRejects(i)
  BY <1>0, <1>1, <1>2, <1>5 DEF ReviewRejects, Apart
<1>6. ASSUME NEW ballot \in SUBSET pool, Draw(ballot)
      PROVE  /\ drawn = {} /\ drawn' = ballot /\ pool' = pool \ ballot
             /\ held' = held /\ queue' = queue /\ sanctioned' = sanctioned
             /\ Cardinality(pool') <= MaxPool
  <2>1. pool \ ballot \in SUBSET pool
    OBVIOUS
  <2>2. QED
    BY <1>0, <1>6, <2>1, SmallerPool DEF Draw
<1>7. CASE \E ballot \in SUBSET pool : Draw(ballot)
  BY <1>0, <1>1, <1>6, <1>7 DEF Apart
<1>8. ASSUME NEW i \in drawn, queue' = queue \union {i}, drawn' = {},
             UNCHANGED <<pool, held, sanctioned>>
      PROVE  /\ Cardinality(pool') <= MaxPool /\ Apart'
  BY <1>0, <1>1, <1>2, <1>8 DEF Apart
<1>9. ASSUME NEW i \in pool, queue' = queue \union {i}, pool' = pool \ {i},
             UNCHANGED <<drawn, held, sanctioned>>
      PROVE  /\ Cardinality(pool') <= MaxPool /\ Apart'
  <2>1. pool \ {i} \in SUBSET pool
    OBVIOUS
  <2>2. Cardinality(pool') <= MaxPool
    BY <1>0, <1>9, <2>1, SmallerPool
  <2>3. QED
    BY <1>0, <1>1, <1>9, <2>2 DEF Apart
<1>10. ASSUME NEW i \in queue, queue' = queue \ {i}, UNCHANGED <<pool, drawn, held, sanctioned>>
       PROVE  /\ Cardinality(pool') <= MaxPool /\ Apart'
  BY <1>0, <1>1, <1>2, <1>10 DEF Apart
<1>11. ASSUME Discard, UNCHANGED <<held, queue, sanctioned>>
       PROVE  /\ pool' \subseteq pool \union drawn /\ drawn' = {}
              /\ Cardinality(pool') <= MaxPool /\ Apart'
  <2>1. pool' \subseteq pool \union drawn /\ drawn' = {} /\ Cardinality(pool') <= MaxPool
    BY <1>11, IntakeAssumption DEF Discard, IntakeAssumption
  <2>2. QED
    BY <1>0, <1>1, <1>11, <2>1 DEF Apart
<1>12. QED
  BY <1>4, <1>5, <1>7, <1>8, <1>9, <1>10, <1>11 DEF Moved

LEMMA PlacesKept ==
  ASSUME IInv, [Next]_vars
  PROVE  PlacesType' /\ IdeasAreSubmissions' /\ GateFailsClosed' /\ Apart'
<1>0. PlacesType /\ GateType /\ IdeasAreSubmissions /\ GateFailsClosed
  BY DEF IInv, TypeOK
<1>1. DOMAIN submissions \subseteq Ideas
  BY <1>0, GateFacts
<1>2. CASE Quiet
  <2>1. Classifying' = Classifying /\ Reconsidered' = Reconsidered
    BY <1>2 DEF Quiet, Classifying, Reconsidered, Waiting, Ideas, Numbers
  <2>2. Apart'
    BY <1>2, <2>1, PlacesStand DEF Quiet
  <2>3. QED
    BY <1>0, <1>2, <2>2
       DEF Quiet, places, PlacesType, IdeasAreSubmissions, GateFailsClosed, Ideas, Numbers
<1>3. CASE Moved
  <2>1. submissions' = submissions
    BY <1>3 DEF Moved
  <2>2. QED
    BY <1>0, <1>3, <2>1, MovedFacts
       DEF PlacesType, IdeasAreSubmissions, GateFailsClosed, Ideas, Numbers
<1>4. ASSUME NEW i \in Ideas, NEW c \in Chatters, NEW t \in Texts, NEW path \in Paths,
             Asked(i, c, t, path)
      PROVE  PlacesType' /\ IdeasAreSubmissions' /\ GateFailsClosed' /\ Apart'
  <2> DEFINE k == Len(submissions) + 1
  <2>1. /\ DOMAIN submissions' = DOMAIN submissions \union {k}
        /\ \A n \in DOMAIN submissions : submissions'[n] = submissions[n]
        /\ submissions'[k] = [idea |-> i, who |-> c, text |-> t, path |-> path]
    BY <1>0, <1>4, AskFacts DEF Asked
  <2>2. /\ (path # "again" /\ i = k) \/ (path = "again" /\ i \in DOMAIN submissions)
        /\ pool' = pool /\ held' = held /\ queue' = queue /\ sanctioned' = sanctioned
        /\ drawn' \subseteq drawn
    <3>0. sanctioned' = sanctioned
      BY <1>4 DEF Asked
    <3>1. CASE path # "again" /\ i = k /\ UNCHANGED places
      BY <3>0, <3>1 DEF places
    <3>2. CASE path = "again" /\ i \in DOMAIN submissions
               /\ queue' = queue /\ held' = held /\ pool' = pool
               /\ (drawn' = drawn \/ drawn' = {})
      BY <3>0, <3>2
    <3>3. QED
      BY <1>4, <3>1, <3>2 DEF Asked
  <2> HIDE DEF k
  <2>3. IdeasAreSubmissions'
    <3>1. submissions'[k].idea = i /\ submissions'[k].path = path
      BY <2>1
    <3>2. QED
      BY <1>0, <2>1, <2>2, <3>1 DEF IdeasAreSubmissions
  <2>4. PlacesType' /\ GateFailsClosed'
    BY <1>0, <2>2 DEF PlacesType, GateFailsClosed, Ideas, Numbers
  <2>5. Apart'
    BY <1>4, AskKeepsApart DEF Asked
  <2>6. QED
    BY <2>3, <2>4, <2>5
<1>5. ASSUME NEW n \in Numbers, Answered(n)
      PROVE  PlacesType' /\ IdeasAreSubmissions' /\ GateFailsClosed' /\ Apart'
  <2> DEFINE i == submissions[n].idea
  <2>1. /\ call[n].at = "asking" /\ submissions' = submissions /\ drawn' = drawn
        /\ sanctioned \subseteq sanctioned' /\ sanctioned' \subseteq sanctioned \union {i}
        /\ \/ Pauses(n) /\ UNCHANGED places
           \/ /\ call' = [call EXCEPT ![n] = Decided]
              /\ \/ UNCHANGED places
                 \/ pool' \in PoolAdd(pool, i) /\ UNCHANGED <<held, queue>> /\ i \in sanctioned'
                 \/ held' = held \union {i} /\ UNCHANGED <<pool, queue>>
                 \/ queue' = queue \union {i} /\ UNCHANGED <<pool, held>> /\ i \in sanctioned'
    BY <1>5, AnswerFacts DEF Answered
  <2>2. i \in DOMAIN submissions /\ i \in Ideas
    BY <2>1, WaitingFacts
  <2>3. \A p \in PoolAdd(pool, i) : p \subseteq pool \union {i} /\ Cardinality(p) <= MaxPool
    BY <1>0, <2>2, PoolAddType
  <2>4. Apart'
    <3>1. CASE Pauses(n) /\ UNCHANGED places
      <4>1. \A m \in DOMAIN submissions : Waiting(m)' = Waiting(m)
        BY <1>0, <1>1, <2>1, <3>1 DEF Pauses, Waiting, GateType, Ideas, Numbers
      <4>2. QED
        BY <2>1, <3>1, <4>1, GateStands, PlacesStand
    <3>2. CASE call' = [call EXCEPT ![n] = Decided]
      BY <2>1, <3>2, DecisionKeepsApart DEF places
    <3>3. QED
      BY <2>1, <3>1, <3>2
  <2> HIDE DEF i
  <2>5. PlacesType' /\ GateFailsClosed' /\ IdeasAreSubmissions'
    <3>1. CASE UNCHANGED places
      BY <1>0, <2>1, <2>2, <3>1
         DEF places, PlacesType, GateFailsClosed, IdeasAreSubmissions, Ideas, Numbers
    <3>2. CASE pool' \in PoolAdd(pool, i) /\ UNCHANGED <<held, queue>> /\ i \in sanctioned'
      BY <1>0, <2>1, <2>2, <2>3, <3>2
         DEF PlacesType, GateFailsClosed, IdeasAreSubmissions, Ideas, Numbers
    <3>3. CASE held' = held \union {i} /\ UNCHANGED <<pool, queue>>
      BY <1>0, <2>1, <2>2, <3>3
         DEF PlacesType, GateFailsClosed, IdeasAreSubmissions, Ideas, Numbers
    <3>4. CASE queue' = queue \union {i} /\ UNCHANGED <<pool, held>> /\ i \in sanctioned'
      BY <1>0, <2>1, <2>2, <3>4
         DEF PlacesType, GateFailsClosed, IdeasAreSubmissions, Ideas, Numbers
    <3>5. QED
      BY <2>1, <3>1, <3>2, <3>3, <3>4
  <2>6. QED
    BY <2>4, <2>5
<1>6. ASSUME NEW n \in Numbers, BackoffEnds(n)
      PROVE  PlacesType' /\ IdeasAreSubmissions' /\ GateFailsClosed' /\ Apart'
  <2>1. /\ submissions' = submissions /\ UNCHANGED places /\ sanctioned' = sanctioned
        /\ call[n].at = "backoff"
        /\ call' = [call EXCEPT ![n] = [at |-> "asking", attempt |-> call[n].attempt + 1]]
    BY <1>6 DEF BackoffEnds
  <2>2. \A m \in DOMAIN submissions : Waiting(m)' = Waiting(m)
    BY <1>0, <1>1, <2>1 DEF Waiting, GateType, Ideas, Numbers
  <2>3. Apart'
    BY <2>1, <2>2, GateStands, PlacesStand
  <2>4. QED
    BY <1>0, <2>1, <2>3
       DEF places, PlacesType, GateFailsClosed, IdeasAreSubmissions, Ideas, Numbers
<1>7. QED
  BY <1>2, <1>3, <1>4, <1>5, <1>6, Shapes

LEMMA Invariance == Spec => []IInv
<1>1. IInv /\ [Next]_vars => IInv'
  BY ShowKept, GateKept, LimitsKept, PlacesKept, NewsKept DEF IInv, TypeOK
<1>2. QED
  BY <1>1, InitHolds, PTL DEF Spec

-------------------------------------------------------------------------------
(***************************************************************************)
(* The theorems                                                            *)
(***************************************************************************)

\* The intake's state is well typed: the pool keeps its bound, and a call the number of its
\* attempts.
THEOREM TypeCorrect == Spec => []TypeOK
<1>1. IInv => TypeOK
  BY DEF IInv
<1>2. QED
  BY <1>1, Invariance, PTL

\* Whatever calls fail, hang or answer late, and whatever the show does meanwhile, nothing is
\* pooled, on a ballot or queued without an approval.
THEOREM NothingPassesUnapproved == Spec => []GateFailsClosed
<1>1. IInv => GateFailsClosed
  BY DEF IInv
<1>2. QED
  BY <1>1, Invariance, PTL

\* No line a chatter is owed stays behind in the buffer without a flush to come.
THEOREM NoLineStaysBehind == Spec => []LinesGoOut
<1>1. IInv => LinesGoOut
  BY DEF IInv
<1>2. QED
  BY <1>1, Invariance, PTL

\* An idea is in one place at a time, until a stale pick has the gate look again.
THEOREM OnePlaceAtATime == Spec => []OneFate
<1>1. Apart => OneFate
  <2> SUFFICES ASSUME Apart, NEW i \in Ideas \ Reconsidered,
                      NEW p \in 1..5, NEW q \in 1..5, i \in Places[p], i \in Places[q]
               PROVE  p = q
    BY DEF OneFate, Places
  <2> QED
    BY DEF Apart, Places
<1>2. IInv => OneFate
  BY <1>1 DEF IInv
<1>3. QED
  BY <1>2, Invariance, PTL
=================================================================================

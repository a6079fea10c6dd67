-------------------------- MODULE VotingRound_proofs --------------------------
(***************************************************************************)
(* What holds of VotingRound for every set of voters and candidates, every *)
(* duration, option count, pool bound and number of rounds.                *)
(***************************************************************************)
EXTENDS VotingRound, FiniteSetTheorems, SequenceTheorems, WellFoundedInduction, TLAPS

-------------------------------------------------------------------------------
(***************************************************************************)
(* The pool's operators                                                    *)
(***************************************************************************)

\* Eviction yields a pool within its bound.
LEMMA KeepNewestType ==
  ASSUME NEW s \in Seq(Candidate)
  PROVE  KeepNewest(s) \in Seq(Candidate) /\ Len(KeepNewest(s)) <= MaxPool
<1>0. Len(s) \in Nat /\ MaxPool \in Nat \ {0}
  BY LenProperties, RoundAssumption
<1>1. CASE Len(s) <= MaxPool
  BY <1>1 DEF KeepNewest
<1>2. CASE ~(Len(s) <= MaxPool)
  <2> DEFINE m == Len(s) - MaxPool + 1
  <2>1. m \in Int /\ m >= 1 /\ \A i \in m..Len(s) : s[i] \in Candidate
    BY <1>0, <1>2, ElementOfSeq
  <2>2. KeepNewest(s) = SubSeq(s, m, Len(s))
    BY <1>2 DEF KeepNewest
  <2> HIDE DEF m
  <2>3. /\ SubSeq(s, m, Len(s)) \in Seq(Candidate)
        /\ Len(SubSeq(s, m, Len(s))) = IF m <= Len(s) THEN Len(s) - m + 1 ELSE 0
    BY <2>1, <1>0, SubSeqProperties
  <2>4. QED
    BY <1>0, <2>2, <2>3 DEF m
<1>3. QED
  BY <1>1, <1>2

LEMMA PoolAddType ==
  ASSUME NEW p \in Seq(Candidate), Len(p) <= MaxPool, NEW c \in Candidate
  PROVE  PoolAdd(p, c) \in Seq(Candidate) /\ Len(PoolAdd(p, c)) <= MaxPool
<1>1. Append(p, c) \in Seq(Candidate)
  BY AppendProperties
<1>2. QED
  BY <1>1, KeepNewestType DEF PoolAdd

LEMMA LeastNat ==
  ASSUME NEW S, S \subseteq Nat, S # {}
  PROVE  \E a \in S : \A b \in S : a <= b
<1>1. IsWellFoundedOn(OpToRel(<, Nat), Nat)
  BY NatLessThanWellFounded
<1>2. PICK a \in S : \A b \in S : ~(<<b, a>> \in OpToRel(<, Nat))
  BY <1>1, WFMin
<1>3. \A b \in S : ~(b < a)
  BY <1>2 DEF OpToRel
<1>4. QED
  BY <1>3

\* Adding entries one after the other keeps whatever each addition keeps: a set of pools
\* that PoolAdd of an entry of s does not leave holds the result if it holds the start.
LEMMA PoolAddAllStays ==
  ASSUME NEW s \in Seq(Candidate), NEW Good, NEW p \in Good,
         \A q \in Good, k \in 1..Len(s) : PoolAdd(q, s[k]) \in Good
  PROVE  PoolAddAll(p, s) \in Good
<1> DEFINE n == Len(s)
           Step(g, k) == IF k = 0 THEN p ELSE PoolAdd(g[k - 1], s[k])
           Run(m, g) == /\ g \in [0..m -> Good]
                        /\ \A k \in 0..m : g[k] = Step(g, k)
           Without == {m \in 0..n : ~\E g : Run(m, g)}
           after == CHOOSE g : g = [k \in 0..n |-> IF k = 0 THEN p ELSE PoolAdd(g[k - 1], s[k])]
<1>0. n \in Nat
  BY LenProperties
<1>1. ASSUME NEW m \in 0..n, m > 0, NEW g, Run(m - 1, g)
      PROVE  \E h : Run(m, h)
  <2> DEFINE h == [k \in 0..m |-> IF k = m THEN PoolAdd(g[m - 1], s[m]) ELSE g[k]]
  <2>1. m - 1 \in 0..(m - 1) /\ m \in 1..Len(s) /\ \A k \in 0..m : k # m => k \in 0..(m - 1)
    BY <1>0, <1>1
  <2>2. g[m - 1] \in Good /\ PoolAdd(g[m - 1], s[m]) \in Good
    BY <1>1, <2>1
  <2>3. h \in [0..m -> Good]
    BY <1>1, <2>1, <2>2
  <2>4. ASSUME NEW k \in 0..m  PROVE h[k] = Step(h, k)
    <3>1. CASE k = m
      <4>1. h[m - 1] = g[m - 1] /\ m # 0
        BY <1>0, <1>1, <2>1
      <4>2. QED
        BY <3>1, <4>1
    <3>2. CASE k # m /\ k = 0
      BY <1>1, <2>1, <3>2
    <3>3. CASE k # m /\ k # 0
      <4>1. k \in 0..(m - 1) /\ k - 1 \in 0..m /\ k - 1 # m
        BY <1>0, <1>1, <2>1, <3>3
      <4>2. h[k] = g[k] /\ h[k - 1] = g[k - 1] /\ g[k] = PoolAdd(g[k - 1], s[k])
        BY <1>1, <3>3, <4>1
      <4>3. QED
        BY <3>3, <4>2
    <3>4. QED
      BY <3>1, <3>2, <3>3
  <2>5. QED
    BY <2>3, <2>4
<1>2. Without = {}
  <2> SUFFICES ASSUME Without # {} PROVE FALSE
    OBVIOUS
  <2>1. Without \subseteq Nat
    BY <1>0
  <2>2. PICK m \in Without : \A k \in Without : m <= k
    BY <2>1, LeastNat
  <2>3. m # 0
    <3>1. Run(0, [k \in 0..0 |-> p])
      OBVIOUS
    <3>2. QED
      BY <2>2, <3>1
  <2>4. m \in 0..n /\ m > 0 /\ m - 1 \in 0..n /\ ~(m <= m - 1)
    BY <1>0, <2>2, <2>3
  <2>5. \E g : Run(m - 1, g)
    <3> HIDE DEF Run
    <3>1. m - 1 \notin Without
      BY <2>2, <2>4
    <3>2. QED
      BY <2>4, <3>1
  <2>6. \E h : Run(m, h)
    <3>1. PICK g : Run(m - 1, g)
      BY <2>5
    <3>2. QED
      BY <1>1, <2>4, <3>1
  <2>7. QED
    <3> HIDE DEF Run
    <3>1. QED
      BY <2>2, <2>6
<1>3. PICK g : Run(n, g)
  <2>1. n \in 0..n
    BY <1>0
  <2>2. QED
    BY <1>2, <2>1
<1>4. g = [k \in 0..n |-> IF k = 0 THEN p ELSE PoolAdd(g[k - 1], s[k])]
  BY <1>3
<1>5. after = [k \in 0..n |-> IF k = 0 THEN p ELSE PoolAdd(after[k - 1], s[k])]
  BY <1>4
<1>6. PoolAddAll(p, s) = after[n]
  BY DEF PoolAddAll
<1> HIDE DEF after
<1> DEFINE Bad == {k \in 0..n : after[k] \notin Good}
<1>7. Bad = {}
  <2> SUFFICES ASSUME Bad # {} PROVE FALSE
    OBVIOUS
  <2>1. Bad \subseteq Nat
    BY <1>0
  <2>2. PICK m \in Bad : \A k \in Bad : m <= k
    BY <2>1, LeastNat
  <2>3. CASE m = 0
    BY <1>5, <2>2, <2>3
  <2>4. CASE m # 0
    <3>1. m - 1 \in 0..n /\ m - 1 \notin Bad /\ m \in 1..Len(s)
      BY <1>0, <2>2, <2>4
    <3>2. after[m] = PoolAdd(after[m - 1], s[m])
      BY <1>5, <2>2, <2>4
    <3>3. QED
      BY <2>2, <3>1, <3>2
  <2>5. QED
    BY <2>3, <2>4
<1>8. QED
  BY <1>0, <1>6, <1>7

LEMMA PoolAddAllType ==
  ASSUME NEW p \in Seq(Candidate), Len(p) <= MaxPool, NEW s \in Seq(Candidate)
  PROVE  PoolAddAll(p, s) \in Seq(Candidate) /\ Len(PoolAddAll(p, s)) <= MaxPool
<1> DEFINE Good == {q \in Seq(Candidate) : Len(q) <= MaxPool}
<1>1. \A q \in Good, k \in 1..Len(s) : PoolAdd(q, s[k]) \in Good
  BY ElementOfSeq, PoolAddType
<1>2. p \in Good
  OBVIOUS
<1> HIDE DEF Good
<1>3. PoolAddAll(p, s) \in Good
  BY <1>1, <1>2, PoolAddAllStays
<1>4. QED
  BY <1>3 DEF Good

\* What is left of a pool when an entry is taken out.
LEMMA RemoveAtType ==
  ASSUME NEW s \in Seq(Candidate), NEW k \in DOMAIN s
  PROVE  /\ RemoveAt(s, k) \in Seq(Candidate) /\ Len(RemoveAt(s, k)) = Len(s) - 1
         /\ \A i \in 1..Len(s) - 1 : RemoveAt(s, k)[i] = IF i < k THEN s[i] ELSE s[i + 1]
<1> DEFINE a == SubSeq(s, 1, k - 1)
           b == SubSeq(s, k + 1, Len(s))
<1>1. Len(s) \in Nat /\ k \in 1..Len(s) /\ \A i \in 1..Len(s) : s[i] \in Candidate
  BY LenProperties, ElementOfSeq
<1>2. a \in Seq(Candidate) /\ Len(a) = k - 1 /\ \A i \in 1..k - 1 : a[i] = s[i]
  <2>1. \A i \in 1..k - 1 : s[i] \in Candidate
    BY <1>1
  <2>2. QED
    BY <1>1, <2>1, SubSeqProperties
<1>3. b \in Seq(Candidate) /\ Len(b) = Len(s) - k /\ \A i \in 1..Len(s) - k : b[i] = s[k + i]
  <2>1. k + 1 \in Int /\ Len(s) \in Int /\ \A i \in k + 1..Len(s) : s[i] \in Candidate
    BY <1>1
  <2>2. /\ b \in Seq(Candidate)
        /\ Len(b) = IF k + 1 <= Len(s) THEN Len(s) - (k + 1) + 1 ELSE 0
        /\ \A i \in 1..Len(s) - (k + 1) + 1 : b[i] = s[k + 1 + i - 1]
    BY <2>1, SubSeqProperties
  <2>3. QED
    BY <1>1, <2>2
<1>4. RemoveAt(s, k) = a \o b
  BY DEF RemoveAt
<1> HIDE DEF a, b
<1>8. Len(a) + Len(b) = Len(s) - 1
  BY <1>1, <1>2, <1>3
<1>5. /\ a \o b \in Seq(Candidate) /\ Len(a \o b) = Len(a) + Len(b)
      /\ \A i \in 1..Len(a) + Len(b) : (a \o b)[i] = IF i <= Len(a) THEN a[i] ELSE b[i - Len(a)]
  BY <1>2, <1>3, ConcatProperties
<1>6. ASSUME NEW i \in 1..Len(s) - 1
      PROVE  RemoveAt(s, k)[i] = IF i < k THEN s[i] ELSE s[i + 1]
  <2>1. CASE i < k
    BY <1>1, <1>2, <1>3, <1>4, <1>5, <2>1
  <2>2. CASE ~(i < k)
    <3>1. i - (k - 1) \in 1..Len(s) - k /\ k + (i - (k - 1)) = i + 1 /\ ~(i <= k - 1)
      BY <1>1, <2>2
    <3>2. (a \o b)[i] = b[i - Len(a)] /\ b[i - (k - 1)] = s[k + (i - (k - 1))]
      BY <1>1, <1>2, <1>3, <1>5, <1>8, <3>1
    <3>3. QED
      BY <1>2, <1>4, <2>2, <3>1, <3>2
  <2>3. QED
    BY <2>1, <2>2
<1>7. QED
  BY <1>4, <1>5, <1>6, <1>8

\* What startRound draws and what it leaves are both prefixes or suffixes of the pool.
LEMMA DrawType ==
  ASSUME pool \in Seq(Candidate), Len(pool) <= MaxPool
  PROVE  /\ DrawSize \in 0..MaxOptions /\ DrawSize <= Len(pool)
         /\ Undrawn \in Seq(Candidate) /\ Len(Undrawn) <= MaxPool
         /\ \A k \in 0..DrawSize :
              SubSeq(pool, 1, k) \in Seq(Candidate) /\ Len(SubSeq(pool, 1, k)) = k
<1>0. Len(pool) \in Nat /\ MaxOptions \in Nat \ {0} /\ MaxPool \in Nat
  BY LenProperties, RoundAssumption
<1>1. DrawSize \in 0..MaxOptions /\ DrawSize <= Len(pool)
  BY <1>0 DEF DrawSize
<1>2. \A i \in 1..Len(pool) : pool[i] \in Candidate
  BY ElementOfSeq
<1>3. Undrawn \in Seq(Candidate) /\ Len(Undrawn) <= MaxPool
  <2> DEFINE m == DrawSize + 1
  <2>1. m \in Int /\ m >= 1 /\ \A i \in m..Len(pool) : pool[i] \in Candidate
    BY <1>0, <1>1, <1>2
  <2>2. Undrawn = SubSeq(pool, m, Len(pool))
    BY DEF Undrawn
  <2> HIDE DEF m
  <2>3. /\ SubSeq(pool, m, Len(pool)) \in Seq(Candidate)
        /\ Len(SubSeq(pool, m, Len(pool))) = IF m <= Len(pool) THEN Len(pool) - m + 1 ELSE 0
    BY <2>1, <1>0, SubSeqProperties
  <2>4. QED
    BY <1>0, <2>1, <2>2, <2>3
<1>4. ASSUME NEW k \in 0..DrawSize
      PROVE  SubSeq(pool, 1, k) \in Seq(Candidate) /\ Len(SubSeq(pool, 1, k)) = k
  <2>1. k \in Nat /\ k <= Len(pool) /\ \A i \in 1..k : pool[i] \in Candidate
    BY <1>0, <1>1, <1>2, <1>4
  <2>2. /\ SubSeq(pool, 1, k) \in Seq(Candidate)
        /\ Len(SubSeq(pool, 1, k)) = IF 1 <= k THEN k - 1 + 1 ELSE 0
    BY <2>1, SubSeqProperties
  <2>3. QED
    BY <2>1, <2>2
<1>5. QED
  BY <1>1, <1>3, <1>4

-------------------------------------------------------------------------------
(***************************************************************************)
(* Counting votes                                                          *)
(***************************************************************************)

LEMMA CountType ==
  ASSUME NEW b
  PROVE  Count(b) \in [1..MaxOptions -> Nat]
<1>1. ASSUME NEW o \in 1..MaxOptions
      PROVE  Cardinality({v \in Voter : b[v] = o}) \in Nat
  <2>1. IsFiniteSet(Voter)
    BY RoundAssumption
  <2>2. IsFiniteSet({v \in Voter : b[v] = o})
    BY <2>1, FS_Subset
  <2>3. QED
    BY <2>2, FS_CardinalityType
<1>2. QED
  BY <1>1 DEF Count

\* Nobody voted: every option has no vote.
LEMMA CountNoVotes == Count(NoVotes) = NoTally
<1>1. ASSUME NEW o \in 1..MaxOptions
      PROVE  Cardinality({v \in Voter : NoVotes[v] = o}) = 0
  <2>1. {v \in Voter : NoVotes[v] = o} = {}
    BY RoundAssumption DEF NoVotes
  <2>2. QED
    BY <2>1, FS_EmptySet
<1>2. QED
  BY <1>1 DEF Count, NoTally

\* The heart of the tally: moving one vote changes the count of the option it left
\* and of the option it went to, each by one, and of no other.
LEMMA CountAfterVote ==
  ASSUME NEW b \in [Voter -> 0..MaxOptions], NEW v \in Voter, NEW o \in 1..MaxOptions
  PROVE  Count([b EXCEPT ![v] = o]) =
           [p \in 1..MaxOptions |->
              IF b[v] = o THEN Count(b)[p]
              ELSE IF p = o THEN Count(b)[p] + 1
              ELSE IF p = b[v] THEN Count(b)[p] - 1
              ELSE Count(b)[p]]
<1> DEFINE c == [b EXCEPT ![v] = o]
           For(f, p) == {w \in Voter : f[w] = p}
<1>1. \A w \in Voter : c[w] = IF w = v THEN o ELSE b[w]
  OBVIOUS
<1>2. \A p \in 1..MaxOptions : IsFiniteSet(For(b, p))
  BY RoundAssumption, FS_Subset
<1>3. ASSUME NEW p \in 1..MaxOptions
      PROVE  Cardinality(For(c, p)) =
               IF b[v] = o THEN Cardinality(For(b, p))
               ELSE IF p = o THEN Cardinality(For(b, p)) + 1
               ELSE IF p = b[v] THEN Cardinality(For(b, p)) - 1
               ELSE Cardinality(For(b, p))
  <2>1. CASE b[v] = o
    <3>1. For(c, p) = For(b, p)
      BY <1>1, <2>1
    <3>2. QED
      BY <2>1, <3>1
  <2>2. CASE b[v] # o /\ p = o
    <3>1. For(c, p) = For(b, p) \union {v} /\ v \notin For(b, p)
      BY <1>1, <2>2
    <3> HIDE DEF For
    <3>2. Cardinality(For(b, p) \union {v}) =
            IF v \in For(b, p) THEN Cardinality(For(b, p)) ELSE Cardinality(For(b, p)) + 1
      BY <1>2, FS_AddElement
    <3>3. QED
      BY <2>2, <3>1, <3>2
  <2>3. CASE b[v] # o /\ p # o /\ p = b[v]
    <3>1. For(c, p) = For(b, p) \ {v} /\ v \in For(b, p)
      BY <1>1, <2>3
    <3> HIDE DEF For
    <3>2. Cardinality(For(b, p) \ {v}) =
            IF v \in For(b, p) THEN Cardinality(For(b, p)) - 1 ELSE Cardinality(For(b, p))
      BY <1>2, FS_RemoveElement
    <3>3. QED
      BY <2>3, <3>1, <3>2
  <2>4. CASE b[v] # o /\ p # o /\ p # b[v]
    <3>1. For(c, p) = For(b, p)
      BY <1>1, <2>4
    <3>2. QED
      BY <2>4, <3>1
  <2>5. QED
    BY <2>1, <2>2, <2>3, <2>4
<1>4. QED
  BY <1>3 DEF Count

-------------------------------------------------------------------------------
(***************************************************************************)
(* Picking the winner                                                      *)
(***************************************************************************)

\* Whatever the tally of a ballot elects is an option of the ballot (0 only for an
\* empty list), has the most votes, and is the earliest submission when nobody voted.
LEMMA WinnerSound ==
  ASSUME NEW opts \in Seq(Candidate), Len(opts) <= MaxOptions,
         NEW b \in [Voter -> 0..MaxOptions], NEW w \in WinnerChoices(opts, Count(b))
  PROVE  /\ w \in 0..MaxOptions
         /\ opts # <<>> =>
              /\ w \in DOMAIN opts
              /\ \A p \in DOMAIN opts :
                   /\ Count(b)[p] <= Count(b)[w]
                   /\ b = NoVotes => SubmittedAt[opts[w]] <= SubmittedAt[opts[p]]
<1> DEFINE t == Count(b)
<1>0. /\ Len(opts) \in Nat /\ DOMAIN opts = 1..Len(opts)
      /\ MaxOptions \in Nat \ {0}
      /\ \A p \in DOMAIN opts : opts[p] \in Candidate
  BY LenProperties, ElementOfSeq, RoundAssumption
<1>1. t \in [1..MaxOptions -> Nat]
  BY CountType
<1>2. DOMAIN opts \subseteq 1..MaxOptions
  BY <1>0
<1>3. b = NoVotes => \A p \in DOMAIN opts : t[p] = 0
  BY <1>2, CountNoVotes DEF NoTally
<1>4. \A p \in DOMAIN opts : SubmittedAt[opts[p]] \in Nat
  BY <1>0, RoundAssumption
<1> HIDE DEF t
<1>5. w \in WinnerChoices(opts, t)
  BY DEF t
<1>6. CASE DOMAIN opts = {}
  <2>1. w = 0 /\ opts = <<>>
    BY <1>0, <1>5, <1>6, EmptySeq DEF WinnerChoices
  <2>2. QED
    BY <1>0, <2>1
<1>7. CASE DOMAIN opts # {} /\ \E o \in DOMAIN opts : t[o] > 0
  <2>1. w \in DOMAIN opts /\ \A p \in DOMAIN opts : t[p] <= t[w]
    BY <1>5, <1>7 DEF WinnerChoices
  <2>2. b # NoVotes
    BY <1>3, <1>7
  <2>3. QED
    BY <1>0, <1>2, <2>1, <2>2 DEF t
<1>8. CASE DOMAIN opts # {} /\ ~(\E o \in DOMAIN opts : t[o] > 0)
  <2>1. w \in DOMAIN opts
    BY <1>5, <1>8 DEF WinnerChoices
  <2>2. \A p \in DOMAIN opts : SubmittedAt[opts[w]] <= SubmittedAt[opts[p]]
    BY <1>4, <1>5, <1>8, <2>1 DEF WinnerChoices
  <2>3. \A p \in DOMAIN opts : t[p] <= t[w]
    BY <1>1, <1>2, <1>8, <2>1
  <2>4. QED
    BY <1>0, <1>2, <2>1, <2>2, <2>3 DEF t
<1>9. QED
  BY <1>6, <1>7, <1>8

\* The row boot restores is the one open row.
LEMMA LatestOpenIsTheOpenRow ==
  ASSUME OneOpenRound, OpenRows # {}
  PROVE  LatestOpen \in OpenRows /\ OpenRows = {LatestOpen}
<1>1. PICK i \in OpenRows : TRUE
  OBVIOUS
<1>2. i \in Int /\ \A j \in OpenRows : j = i
  BY <1>1 DEF OneOpenRound, OpenRows, RoundId
<1>3. i \in OpenRows /\ \A j \in OpenRows : j <= i
  BY <1>1, <1>2
<1>4. LatestOpen \in OpenRows
  BY <1>3 DEF LatestOpen
<1>5. QED
  BY <1>2, <1>4

-------------------------------------------------------------------------------
(***************************************************************************)
(* IInv is inductive: one lemma per action                                 *)
(***************************************************************************)

\* Where suggestions are is nothing to the rounds, and neither is a build that begins.
LEMMA PlacesOnlyStep ==
  ASSUME IInv, UNCHANGED <<haltedFrom, up, loaded, frozen, choice, tally, timer, tables>>,
         (mode' = mode) \/ (mode # "HALTED" /\ mode' = "BUILD_IN_PROGRESS"),
         pool' \in Seq(Candidate), Len(pool') <= MaxPool,
         gate' \in [Candidate -> Nat], queue' \in [Candidate -> Nat],
         rechecked' \subseteq Candidate
  PROVE  IInv'
<1>1. TypeOK'
  BY DEF IInv, TypeOK, ModeTypeOK, Modes, ActiveModes, tables
<1>2. OneOpenRound' /\ TallyMatchesLedger' /\ TimerMatchesDeadline' /\ HaltFreezesRound'
  BY DEF IInv, OneOpenRound, OpenRows, TallyMatchesLedger, TimerMatchesDeadline,
         HaltFreezesRound, tables
<1>3. VotingModeHasLiveRound' /\ DecidedByPlurality' /\ BallotsAreValid'
      /\ RowsFitStatus'
  BY DEF IInv, VotingModeHasLiveRound, DecidedByPlurality, BallotsAreValid,
         RowsFitStatus, tables
<1>4. QED
  BY <1>1, <1>2, <1>3 DEF IInv

LEMMA NoRoundIsNoId == \A i \in RoundId : i \in Int /\ i # NoRound
BY DEF RoundId, NoRound

LEMMA GateStep ==
  ASSUME IInv, NEW c \in Candidate, Submit(c) \/ GateAnswers(c)
  PROVE  IInv'
<1>1. pool' \in Seq(Candidate) /\ Len(pool') <= MaxPool
  BY PoolAddType DEF IInv, TypeOK, Submit, GateAnswers
<1>2. gate' \in [Candidate -> Nat] /\ queue' \in [Candidate -> Nat] /\ rechecked' \subseteq Candidate
  BY DEF IInv, TypeOK, Submit, GateAnswers
<1>3. UNCHANGED <<mode, haltedFrom, up, loaded, frozen, choice, tally, timer, tables>>
  BY DEF Submit, GateAnswers, modeVars
<1>4. QED
  BY <1>1, <1>2, <1>3, PlacesOnlyStep

LEMMA PickStep ==
  ASSUME IInv, NEW c \in Candidate, Pick(c)
  PROVE  IInv'
<1>1. pool' \in Seq(Candidate) /\ Len(pool') <= MaxPool
  <2>1. pool \in Seq(Candidate) /\ Len(pool) <= MaxPool /\ Len(pool) \in Nat /\ MaxPool \in Nat
    BY LenProperties, RoundAssumption DEF IInv, TypeOK
  <2>2. CASE PickStale(c)
    BY <2>1, <2>2 DEF PickStale
  <2>3. CASE PickFresh(c)
    <3>1. PICK k \in DOMAIN pool : pool' = RemoveAt(pool, k)
      BY <2>3 DEF PickFresh
    <3>2. QED
      BY <2>1, <3>1, RemoveAtType
  <2>4. QED
    BY <2>2, <2>3 DEF Pick
<1>2. gate' \in [Candidate -> Nat] /\ queue' \in [Candidate -> Nat] /\ rechecked' \subseteq Candidate
  <2>1. gate \in [Candidate -> Nat] /\ queue \in [Candidate -> Nat] /\ rechecked \subseteq Candidate
    BY DEF IInv, TypeOK
  <2>2. gate' = [gate EXCEPT ![c] = gate[c] + 1] \/ gate' = gate
    BY DEF Pick, PickFresh, PickStale
  <2>3. queue' = [queue EXCEPT ![c] = queue[c] + 1] \/ queue' = queue
    BY DEF Pick, PickFresh, PickStale
  <2>4. rechecked' \subseteq rechecked \union {c}
    BY DEF Pick, PickFresh, PickStale
  <2>5. QED
    BY <2>1, <2>2, <2>3, <2>4
<1>3. /\ UNCHANGED <<haltedFrom, up, loaded, frozen, choice, tally, timer, tables>>
      /\ (mode' = mode) \/ (mode # "HALTED" /\ mode' = "BUILD_IN_PROGRESS")
  <2>1. UNCHANGED <<up, loaded, frozen, choice, tally, timer, tables>>
    BY DEF Pick
  <2>2. UNCHANGED modeVars \/ (mode \in {"IDLE", "CHAOS_MODE"} /\ Transition("BUILD_IN_PROGRESS"))
    BY DEF Pick, PickFresh, PickStale
  <2>3. CASE UNCHANGED modeVars
    BY <2>1, <2>3 DEF modeVars
  <2>4. CASE mode \in {"IDLE", "CHAOS_MODE"} /\ Transition("BUILD_IN_PROGRESS")
    BY <2>1, <2>4 DEF Transition
  <2>5. QED
    BY <2>2, <2>3, <2>4
<1>4. QED
  BY <1>1, <1>2, <1>3, PlacesOnlyStep

LEMMA TaskLeavesStep ==
  ASSUME IInv, NEW c \in Candidate, TaskLeaves(c)
  PROVE  IInv'
<1>1. queue' \in [Candidate -> Nat]
  BY DEF IInv, TypeOK, TaskLeaves
<1>2. UNCHANGED <<mode, haltedFrom, up, gate, pool, rechecked, loaded, frozen, choice, tally,
                  timer, tables>>
  BY DEF TaskLeaves, modeVars
<1>3. QED
  BY <1>1, <1>2, PlacesOnlyStep DEF IInv, TypeOK

LEMMA OtherTransitionStep ==
  ASSUME IInv, NEW to \in Modes, OtherTransition(to)
  PROVE  IInv'
<1>1. /\ UNCHANGED <<haltedFrom, up, memory, tables>>
      /\ mode # "HALTED" /\ mode' \in ActiveModes \ {"VOTING_ROUND"}
  BY DEF OtherTransition, Transition, Transitions, IInv, TypeOK, ModeTypeOK, Modes,
         ActiveModes
<1>2. TypeOK'
  BY <1>1 DEF IInv, TypeOK, ModeTypeOK, Modes, ActiveModes, memory, places, tables
<1>3. OneOpenRound' /\ TallyMatchesLedger' /\ TimerMatchesDeadline' /\ HaltFreezesRound'
  BY <1>1 DEF IInv, OneOpenRound, OpenRows, TallyMatchesLedger, TimerMatchesDeadline,
         HaltFreezesRound, ActiveModes, memory, tables
<1>4. VotingModeHasLiveRound' /\ DecidedByPlurality' /\ BallotsAreValid'
      /\ RowsFitStatus'
  BY <1>1 DEF IInv, VotingModeHasLiveRound, DecidedByPlurality, BallotsAreValid,
         RowsFitStatus, memory, tables
<1>5. QED
  BY <1>2, <1>3, <1>4 DEF IInv

LEMMA TickStep ==
  ASSUME IInv, Tick
  PROVE  IInv'
<1>0. Duration \in Nat
  BY RoundAssumption
<1>1. TypeOK'
  BY <1>0 DEF Tick, IInv, TypeOK, ModeTypeOK, modeVars, places, NoTimer
<1>2. TimerMatchesDeadline'
  BY <1>0 DEF Tick, IInv, TypeOK, OneOpenRound, OpenRows, TimerMatchesDeadline, NoTimer
<1>3. OneOpenRound' /\ TallyMatchesLedger' /\ HaltFreezesRound'
  BY DEF Tick, IInv, OneOpenRound, OpenRows, TallyMatchesLedger, HaltFreezesRound, modeVars
<1>4. VotingModeHasLiveRound' /\ DecidedByPlurality' /\ BallotsAreValid'
      /\ RowsFitStatus'
  BY DEF Tick, IInv, VotingModeHasLiveRound, DecidedByPlurality, BallotsAreValid,
         RowsFitStatus, modeVars
<1>5. QED
  BY <1>1, <1>2, <1>3, <1>4 DEF IInv

LEMMA StartRoundStep ==
  ASSUME IInv, NEW i \in RoundId, StartRound(i)
  PROVE  IInv'
<1> DEFINE drawn == SubSeq(pool, 1, DrawSize)
<1>0. /\ Duration \in Nat \ {0} /\ i \in Int /\ i # NoRound
      /\ drawn \in Seq(Candidate) /\ Len(drawn) <= MaxOptions
      /\ Undrawn \in Seq(Candidate) /\ Len(Undrawn) <= MaxPool
  BY DrawType, RoundAssumption DEF IInv, TypeOK, RoundId, NoRound
<1> HIDE DEF drawn
<1>1. /\ up /\ up' = up /\ pool' = Undrawn /\ UNCHANGED <<gate, queue, rechecked>>
      /\ loaded = NoRound /\ loaded' = i /\ frozen' = FALSE
      /\ choice' = NoVotes /\ tally' = NoTally /\ timer' = Duration
      /\ status[i] = "none" /\ status' = [status EXCEPT ![i] = "open"]
      /\ options' = [options EXCEPT ![i] = drawn]
      /\ left' = [left EXCEPT ![i] = Duration]
      /\ UNCHANGED <<frozenLeft, winner, ballots>>
  BY DEF StartRound, MayStart, InsertRound, drawn
<1>2. /\ haltedFrom' = haltedFrom /\ haltedFrom = NoMode
      /\ mode' \in {"VOTING_ROUND", "BUILD_IN_PROGRESS"}
  BY DEF StartRound, MayStart, Transition, IInv, TypeOK, ModeTypeOK, modeVars
<1>3. OpenRows = {} /\ OpenRows' = {i}
  <2>1. OpenRows = {}
    BY <1>1, NoRoundIsNoId DEF IInv, OneOpenRound, OpenRows
  <2>2. \A j \in RoundId : status'[j] = "open" <=> j = i
    BY <1>1, <2>1 DEF IInv, TypeOK, OpenRows
  <2>3. QED
    BY <2>1, <2>2 DEF OpenRows
<1>4. NoVotes \in [Voter -> 0..MaxOptions] /\ NoTally \in [1..MaxOptions -> Int]
  BY RoundAssumption DEF NoVotes, NoTally
<1>5. TypeOK'
  <2>1. status' \in [RoundId -> Statuses] /\ left' \in [RoundId -> 0..Duration]
    BY <1>0, <1>1 DEF IInv, TypeOK, Statuses
  <2>2. options' \in [RoundId -> Seq(Candidate)] /\ \A j \in RoundId : Len(options'[j]) <= MaxOptions
    BY <1>0, <1>1 DEF IInv, TypeOK
  <2>3. ModeTypeOK'
    BY <1>2 DEF ModeTypeOK, Modes, ActiveModes, NoMode
  <2>4. QED
    BY <1>0, <1>1, <1>4, <2>1, <2>2, <2>3 DEF IInv, TypeOK
<1>6. OneOpenRound'
  BY <1>0, <1>1, <1>3 DEF OneOpenRound
<1>7. ballots'[i] = NoVotes /\ frozenLeft'[i] = NotFrozen /\ left'[i] = Duration
  BY <1>1 DEF IInv, RowsFitStatus, TypeOK
<1>8. TallyMatchesLedger' /\ TimerMatchesDeadline'
  BY <1>0, <1>1, <1>7, CountNoVotes DEF TallyMatchesLedger, TimerMatchesDeadline
<1>9. HaltFreezesRound' /\ VotingModeHasLiveRound'
  BY <1>0, <1>1, <1>2, <1>7 DEF HaltFreezesRound, VotingModeHasLiveRound, NoMode
<1>10. DecidedByPlurality' /\ RowsFitStatus'
  BY <1>1 DEF IInv, TypeOK, DecidedByPlurality, RowsFitStatus
<1>11. BallotsAreValid'
  <2>1. Len(drawn) \in Nat
    BY <1>0, LenProperties
  <2>2. ASSUME NEW j \in RoundId, NEW v \in Voter
        PROVE  ballots'[j][v] \in 0..Len(options'[j])
    <3>1. CASE j = i
      BY <1>0, <1>1, <1>7, <2>1, <3>1 DEF NoVotes, IInv, TypeOK
    <3>2. CASE j # i
      BY <1>1, <3>2 DEF IInv, TypeOK, BallotsAreValid
    <3>3. QED
      BY <3>1, <3>2
  <2>3. QED
    BY <2>2 DEF BallotsAreValid
<1>12. QED
  BY <1>5, <1>6, <1>8, <1>9, <1>10, <1>11 DEF IInv

LEMMA RecordVoteStep ==
  ASSUME IInv, NEW v \in Voter, NEW o \in 1..MaxOptions, RecordVote(v, o)
  PROVE  IInv'
<1>0. /\ loaded \in RoundId /\ loaded # NoRound /\ status[loaded] = "open"
      /\ o \in DOMAIN options[loaded] /\ ballots[loaded] \in [Voter -> 0..MaxOptions]
  BY DEF RecordVote, VoteCounts, Opts, IInv, TypeOK, OneOpenRound, OpenRows
<1>1. /\ UNCHANGED <<mode, haltedFrom, up, gate, pool, queue, rechecked, loaded, frozen, timer>>
      /\ UNCHANGED <<status, options, left, frozenLeft, winner>>
      /\ ballots' = [ballots EXCEPT ![loaded] = [ballots[loaded] EXCEPT ![v] = o]]
      /\ choice' = [choice EXCEPT ![v] = o]
      /\ tally' = TallyAfter(v, o)
  BY DEF RecordVote, modeVars, places
<1>2. ballots'[loaded] = [ballots[loaded] EXCEPT ![v] = o]
  BY <1>0, <1>1 DEF IInv, TypeOK
<1>3. tally' = Count([ballots[loaded] EXCEPT ![v] = o])
  <2> DEFINE b == ballots[loaded]
  <2>1. choice = b /\ tally = Count(b) /\ b \in [Voter -> 0..MaxOptions]
    BY <1>0 DEF IInv, TallyMatchesLedger
  <2>2. tally \in [1..MaxOptions -> Nat] /\ MaxOptions \in Nat
    BY <2>1, CountType, RoundAssumption
  <2> HIDE DEF b
  <2>3. TallyAfter(v, o) =
          [p \in 1..MaxOptions |->
              IF b[v] = o THEN Count(b)[p]
              ELSE IF p = o THEN Count(b)[p] + 1
              ELSE IF p = b[v] THEN Count(b)[p] - 1
              ELSE Count(b)[p]]
    <3> DEFINE r == IF choice[v] = 0 THEN tally ELSE [tally EXCEPT ![choice[v]] = @ - 1]
    <3>1. r \in [1..MaxOptions -> Int]
      BY <2>1, <2>2
    <3>2. \A p \in 1..MaxOptions : r[p] = IF p = choice[v] THEN tally[p] - 1 ELSE tally[p]
      BY <2>1, <2>2
    <3>3. TallyAfter(v, o) = [r EXCEPT ![o] = r[o] + 1]
      BY DEF TallyAfter
    <3> HIDE DEF r
    <3>4. TallyAfter(v, o) = [p \in 1..MaxOptions |-> IF p = o THEN r[p] + 1 ELSE r[p]]
      BY <3>1, <3>3
    <3>5. QED
      BY <2>1, <2>2, <3>2, <3>4
  <2>4. Count([b EXCEPT ![v] = o]) =
          [p \in 1..MaxOptions |->
              IF b[v] = o THEN Count(b)[p]
              ELSE IF p = o THEN Count(b)[p] + 1
              ELSE IF p = b[v] THEN Count(b)[p] - 1
              ELSE Count(b)[p]]
    BY <2>1, CountAfterVote
  <2>5. tally' = Count([b EXCEPT ![v] = o])
    BY <1>1, <2>3, <2>4
  <2>6. QED
    BY <2>5 DEF b
<1>4. TypeOK'
  <2>1. [ballots[loaded] EXCEPT ![v] = o] \in [Voter -> 0..MaxOptions]
    BY <1>0
  <2>2. ballots' \in [RoundId -> [Voter -> 0..MaxOptions]]
    BY <1>0, <1>1, <2>1 DEF IInv, TypeOK
  <2>3. choice' \in [Voter -> 0..MaxOptions]
    BY <1>1, RoundAssumption DEF IInv, TypeOK
  <2>4. tally' \in [1..MaxOptions -> Int]
    BY <1>3, CountType
  <2>5. QED
    BY <1>1, <2>2, <2>3, <2>4 DEF IInv, TypeOK, ModeTypeOK
<1>5. TallyMatchesLedger'
  BY <1>0, <1>1, <1>2, <1>3 DEF IInv, TallyMatchesLedger
<1>6. OneOpenRound' /\ TimerMatchesDeadline' /\ HaltFreezesRound' /\ VotingModeHasLiveRound'
  BY <1>1 DEF IInv, OneOpenRound, OpenRows, TimerMatchesDeadline, HaltFreezesRound,
              VotingModeHasLiveRound
<1>7. \A i \in RoundId : i # loaded => ballots'[i] = ballots[i]
  BY <1>1 DEF IInv, TypeOK
<1>8. DecidedByPlurality' /\ RowsFitStatus'
  BY <1>0, <1>1, <1>7 DEF IInv, DecidedByPlurality, RowsFitStatus
<1>9. BallotsAreValid'
  <2>1. DOMAIN options[loaded] = 1..Len(options[loaded]) /\ Len(options[loaded]) \in Nat
    BY <1>0, LenProperties DEF IInv, TypeOK
  <2>2. \A w \in Voter : ballots'[loaded][w] \in 0..Len(options[loaded])
    BY <1>0, <1>2, <2>1 DEF IInv, BallotsAreValid
  <2>3. QED
    BY <1>1, <1>7, <2>2 DEF IInv, BallotsAreValid
<1>10. QED
  BY <1>4, <1>5, <1>6, <1>8, <1>9 DEF IInv

\* Every open row is the loaded one while a round is loaded.
LEMMA LoadedIsTheOpenRow ==
  ASSUME IInv, loaded # NoRound
  PROVE  /\ up /\ loaded \in RoundId /\ status[loaded] = "open"
         /\ \A i \in RoundId : status[i] = "open" <=> i = loaded
BY DEF IInv, TypeOK, OneOpenRound, OpenRows

\* Deciding an open row, at the timer or at boot, for an option its tally elects.
LEMMA CloseRowStep ==
  ASSUME IInv, NEW i \in RoundId, status[i] = "open",
         \A j \in RoundId : status[j] = "open" => j = i,
         NEW w \in WinnerChoices(options[i], Count(ballots[i])), CloseRow(i, w)
  PROVE  /\ OpenRows' = {}
         /\ status' \in [RoundId -> Statuses]
         /\ winner' \in [RoundId -> 0..MaxOptions]
         /\ frozenLeft' \in [RoundId -> 0..Duration \union {NotFrozen}]
         /\ UNCHANGED <<options, left, ballots>>
         /\ DecidedByPlurality' /\ BallotsAreValid' /\ RowsFitStatus'
<1>0. /\ options[i] \in Seq(Candidate) /\ Len(options[i]) <= MaxOptions
      /\ ballots[i] \in [Voter -> 0..MaxOptions]
  BY DEF IInv, TypeOK
<1>1. /\ w \in 0..MaxOptions
      /\ options[i] # <<>> =>
           /\ w \in DOMAIN options[i]
           /\ \A p \in DOMAIN options[i] :
                /\ Count(ballots[i])[p] <= Count(ballots[i])[w]
                /\ ballots[i] = NoVotes =>
                     SubmittedAt[options[i][w]] <= SubmittedAt[options[i][p]]
  BY <1>0, WinnerSound
<1>2. /\ status' = [status EXCEPT ![i] = "closed"]
      /\ winner' = [winner EXCEPT ![i] = w]
      /\ frozenLeft' = [frozenLeft EXCEPT ![i] = NotFrozen]
      /\ UNCHANGED <<options, left, ballots>>
  BY DEF CloseRow
<1>3. OpenRows' = {}
  BY <1>2 DEF OpenRows, IInv, TypeOK
<1>4. /\ status' \in [RoundId -> Statuses]
      /\ winner' \in [RoundId -> 0..MaxOptions]
      /\ frozenLeft' \in [RoundId -> 0..Duration \union {NotFrozen}]
  BY <1>1, <1>2 DEF IInv, TypeOK, Statuses
<1>5. DecidedByPlurality'
  <2>1. ASSUME NEW j \in RoundId, status'[j] = "closed", options[j] # <<>>
        PROVE  /\ winner'[j] \in DOMAIN options[j]
               /\ \A p \in DOMAIN options[j] :
                    /\ Count(ballots[j])[p] <= Count(ballots[j])[winner'[j]]
                    /\ ballots[j] = NoVotes =>
                         SubmittedAt[options[j][winner'[j]]] <= SubmittedAt[options[j][p]]
    <3>1. CASE j = i
      <4>1. winner'[j] = w
        BY <1>2, <3>1 DEF IInv, TypeOK
      <4>2. QED
        BY <1>1, <2>1, <3>1, <4>1
    <3>2. CASE j # i
      <4>1. winner'[j] = winner[j] /\ status[j] = "closed"
        BY <1>2, <2>1, <3>2 DEF IInv, TypeOK
      <4>2. QED
        BY <2>1, <4>1 DEF IInv, DecidedByPlurality
    <3>3. QED
      BY <3>1, <3>2
  <2>2. UNCHANGED <<options, ballots>>
    BY <1>2
  <2>3. QED
    BY <2>1, <2>2 DEF DecidedByPlurality
<1>6. BallotsAreValid' /\ RowsFitStatus'
  BY <1>2 DEF IInv, TypeOK, BallotsAreValid, RowsFitStatus
<1>7. QED
  BY <1>2, <1>3, <1>4, <1>5, <1>6

LEMMA BlankVotes == NoVotes \in [Voter -> 0..MaxOptions] /\ NoTally \in [1..MaxOptions -> Int]
BY RoundAssumption DEF NoVotes, NoTally

LEMMA CloseRoundStep ==
  ASSUME IInv, CloseRound
  PROVE  IInv'
<1>0. /\ up /\ up' = up /\ loaded \in RoundId /\ loaded # NoRound /\ ~frozen
      /\ status[loaded] = "open" /\ \A j \in RoundId : status[j] = "open" => j = loaded
      /\ tally = Count(ballots[loaded]) /\ mode # "HALTED" /\ haltedFrom = NoMode
      /\ options[loaded] \in Seq(Candidate) /\ Len(options[loaded]) <= MaxOptions
  BY LoadedIsTheOpenRow DEF CloseRound, IInv, TypeOK, ModeTypeOK, TallyMatchesLedger,
     HaltFreezesRound
<1>1. /\ timer' = NoTimer /\ loaded' = NoRound /\ frozen' = FALSE
      /\ choice' = NoVotes /\ tally' = NoTally
  BY DEF CloseRound
<1>2. PICK w \in WinnerChoices(options[loaded], Count(ballots[loaded])), stale \in BOOLEAN :
           /\ CloseRow(loaded, w)
           /\ Promote(w, stale)
           /\ \/ Promoted(w, stale) /\ mode \in {"VOTING_ROUND", "IDLE"}
                /\ Transition("BUILD_IN_PROGRESS")
              \/ LeaveVoting
  BY <1>0 DEF CloseRound, Opts
<1>3. /\ OpenRows' = {}
      /\ status' \in [RoundId -> Statuses]
      /\ winner' \in [RoundId -> 0..MaxOptions]
      /\ frozenLeft' \in [RoundId -> 0..Duration \union {NotFrozen}]
      /\ UNCHANGED <<options, left, ballots>>
      /\ DecidedByPlurality' /\ BallotsAreValid' /\ RowsFitStatus'
  BY <1>0, <1>2, CloseRowStep
<1>4. haltedFrom' = NoMode /\ mode' \in ActiveModes \ {"VOTING_ROUND"}
  BY <1>0, <1>2 DEF Transition, LeaveVoting, modeVars, IInv, TypeOK, ModeTypeOK, Modes,
     ActiveModes
<1>5. /\ pool' \in Seq(Candidate) /\ Len(pool') <= MaxPool
      /\ gate' \in [Candidate -> Nat] /\ queue' \in [Candidate -> Nat]
      /\ rechecked' \subseteq Candidate
  <2>1. pool' = pool /\ rechecked' = rechecked
    BY <1>0, <1>2 DEF Promote, CloseRound
  <2>2. w # 0 => Opts[w] \in Candidate
    <3>1. w # 0 => options[loaded] # <<>>
      BY <1>0, <1>2, EmptySeq DEF WinnerChoices
    <3>2. w # 0 => w \in DOMAIN options[loaded]
      BY <1>0, <1>2, <3>1, WinnerSound DEF IInv, TypeOK
    <3>3. QED
      BY <1>0, <3>2, ElementOfSeq, LenProperties DEF Opts
  <2>3. QED
    BY <1>2, <2>1, <2>2 DEF Promote, Promoted, IInv, TypeOK
<1>6. TypeOK'
  BY <1>0, <1>1, <1>3, <1>4, <1>5, BlankVotes
     DEF IInv, TypeOK, ModeTypeOK, Modes, ActiveModes, NoMode
<1>7. OneOpenRound' /\ TallyMatchesLedger' /\ HaltFreezesRound'
  BY <1>1, <1>3 DEF OneOpenRound, TallyMatchesLedger, HaltFreezesRound
<1>8. TimerMatchesDeadline' /\ VotingModeHasLiveRound'
  BY <1>1, <1>4 DEF TimerMatchesDeadline, VotingModeHasLiveRound, NoMode
<1>9. QED
  BY <1>3, <1>6, <1>7, <1>8 DEF IInv

LEMMA HaltStep ==
  ASSUME IInv, Halt
  PROVE  IInv'
<1>1. /\ mode # "HALTED" /\ mode' = "HALTED" /\ haltedFrom' = mode
      /\ up' = up /\ UNCHANGED <<gate, pool, queue, rechecked, loaded, choice, tally>>
      /\ UNCHANGED <<status, options, left, winner, ballots>>
      /\ haltedFrom' \in ActiveModes
  BY DEF Halt, ForceHalt, IInv, TypeOK, ModeTypeOK, Modes, places
<1>2. CASE loaded # NoRound /\ ~frozen
  <2>1. /\ timer' = NoTimer /\ frozen' = TRUE
        /\ frozenLeft' = [frozenLeft EXCEPT ![loaded] = left[loaded]]
        /\ up /\ loaded \in RoundId /\ status[loaded] = "open"
    BY <1>2, LoadedIsTheOpenRow DEF Halt, Freeze
  <2>2. left[loaded] \in 0..Duration /\ left[loaded] # NotFrozen
    BY <2>1, RoundAssumption DEF IInv, TypeOK, NotFrozen
  <2>3. TypeOK'
    BY <1>1, <2>1, <2>2 DEF IInv, TypeOK, ModeTypeOK, Modes, ActiveModes, NoMode
  <2>4. OneOpenRound' /\ TallyMatchesLedger' /\ TimerMatchesDeadline' /\ HaltFreezesRound'
    BY <1>1, <2>1, <2>2 DEF IInv, TypeOK, OneOpenRound, OpenRows, TallyMatchesLedger,
       TimerMatchesDeadline, HaltFreezesRound
  <2>5. VotingModeHasLiveRound' /\ DecidedByPlurality' /\ BallotsAreValid'
        /\ RowsFitStatus'
    BY <1>1, <1>2, <2>1 DEF IInv, TypeOK, VotingModeHasLiveRound, DecidedByPlurality,
       BallotsAreValid, RowsFitStatus
  <2>6. QED
    BY <2>3, <2>4, <2>5 DEF IInv
<1>3. CASE ~(loaded # NoRound /\ ~frozen)
  <2>1. UNCHANGED <<timer, frozenLeft, frozen>>
    BY <1>3 DEF Halt
  <2>2. TypeOK'
    BY <1>1, <2>1 DEF IInv, TypeOK, ModeTypeOK, Modes, ActiveModes, NoMode
  <2>3. OneOpenRound' /\ TallyMatchesLedger' /\ TimerMatchesDeadline' /\ HaltFreezesRound'
    BY <1>1, <1>3, <2>1 DEF IInv, TypeOK, OneOpenRound, OpenRows, TallyMatchesLedger,
       TimerMatchesDeadline, HaltFreezesRound
  <2>4. VotingModeHasLiveRound'
    BY <1>1, <1>3, <2>1 DEF IInv, VotingModeHasLiveRound
  <2>5. DecidedByPlurality' /\ BallotsAreValid' /\ RowsFitStatus'
    BY <1>1, <2>1 DEF IInv, DecidedByPlurality, BallotsAreValid, RowsFitStatus
  <2>6. QED
    BY <2>2, <2>3, <2>4, <2>5 DEF IInv
<1>4. QED
  BY <1>2, <1>3

\* Where recovery lands: never HALTED, and VOTING_ROUND only if a round was halted there.
LEMMA RecoveryLands ==
  ASSUME IInv, NEW a \in RecoveryActions, Recover(a)
  PROVE  /\ mode = "HALTED" /\ haltedFrom' = NoMode
         /\ mode' \in ActiveModes /\ mode' = RecoveryTarget(a, haltedFrom)
         /\ mode' = "VOTING_ROUND" => haltedFrom = "VOTING_ROUND"
BY DEF Recover, RecoveryTarget, RecoveryActions, IInv, TypeOK, ModeTypeOK, ActiveModes,
       NoMode

LEMMA RecoverRoundStep ==
  ASSUME IInv, NEW a \in RecoveryActions, RecoverRound(a)
  PROVE  IInv'
<1> DEFINE target == RecoveryTarget(a, haltedFrom)
<1>1. /\ mode = "HALTED" /\ haltedFrom' = NoMode /\ mode' \in ActiveModes
      /\ mode' = target /\ (mode' = "VOTING_ROUND" => haltedFrom = "VOTING_ROUND")
      /\ up /\ up' = up
  BY RecoveryLands DEF RecoverRound
<1> HIDE DEF target
<1>2. loaded # NoRound => frozen
  BY <1>1 DEF IInv, HaltFreezesRound
<1>3. mode' = "VOTING_ROUND" => loaded # NoRound
  BY <1>1 DEF IInv, VotingModeHasLiveRound
<1>4. \/ loaded # NoRound /\ target \in {"VOTING_ROUND", "BUILD_IN_PROGRESS"} /\ Resume
      \/ loaded # NoRound /\ target = "IDLE" /\ Discard
      \/ /\ loaded # NoRound => target \notin {"VOTING_ROUND", "BUILD_IN_PROGRESS", "IDLE"}
         /\ UNCHANGED <<memory, tables>>
  <2>1. \/ (loaded # NoRound /\ frozen /\ target \in {"VOTING_ROUND", "BUILD_IN_PROGRESS"}) /\ Resume
        \/ (loaded # NoRound /\ frozen /\ target = "IDLE") /\ Discard
        \/ /\ ~(loaded # NoRound /\ frozen /\ target \in {"VOTING_ROUND", "BUILD_IN_PROGRESS"})
           /\ ~(loaded # NoRound /\ frozen /\ target = "IDLE")
           /\ UNCHANGED <<memory, tables>>
    BY DEF RecoverRound, target
  <2>2. QED
    BY <1>2, <2>1
<1>5. ModeTypeOK'
  BY <1>1 DEF ModeTypeOK, Modes, ActiveModes, NoMode
<1>6. CASE loaded # NoRound /\ target \in {"VOTING_ROUND", "BUILD_IN_PROGRESS"} /\ Resume
  <2>1. /\ loaded \in RoundId /\ status[loaded] = "open" /\ frozen
        /\ frozenLeft[loaded] \in 0..Duration
    BY <1>2, <1>6, LoadedIsTheOpenRow DEF IInv, TypeOK, HaltFreezesRound
  <2>2. /\ left' = [left EXCEPT ![loaded] = frozenLeft[loaded]]
        /\ timer' = frozenLeft[loaded]
        /\ frozenLeft' = [frozenLeft EXCEPT ![loaded] = NotFrozen]
        /\ frozen' = FALSE
        /\ UNCHANGED <<gate, pool, queue, rechecked, loaded, choice, tally>>
        /\ UNCHANGED <<status, options, winner, ballots>>
    BY <1>6 DEF Resume, places
  <2>3. TypeOK'
    BY <1>1, <1>5, <2>1, <2>2 DEF IInv, TypeOK
  <2>4. OneOpenRound' /\ TallyMatchesLedger' /\ TimerMatchesDeadline'
    <3>1. OneOpenRound'
      BY <1>1, <2>2 DEF IInv, OneOpenRound, OpenRows
    <3>2. TallyMatchesLedger'
      BY <2>2 DEF IInv, TallyMatchesLedger
    <3>3. left'[loaded] = frozenLeft[loaded]
      BY <2>1, <2>2 DEF IInv, TypeOK
    <3>4. TimerMatchesDeadline'
      BY <1>6, <2>2, <3>3 DEF TimerMatchesDeadline
    <3>5. QED
      BY <3>1, <3>2, <3>4
  <2>5. HaltFreezesRound' /\ VotingModeHasLiveRound'
    BY <1>1, <1>6, <2>1, <2>2 DEF IInv, TypeOK, HaltFreezesRound, VotingModeHasLiveRound,
       ActiveModes, NoMode
  <2>6. DecidedByPlurality' /\ BallotsAreValid' /\ RowsFitStatus'
    BY <2>1, <2>2 DEF IInv, TypeOK, DecidedByPlurality, BallotsAreValid, RowsFitStatus
  <2>7. QED
    BY <2>3, <2>4, <2>5, <2>6 DEF IInv
<1>7. CASE loaded # NoRound /\ target = "IDLE" /\ Discard
  <2>1. /\ loaded \in RoundId /\ status[loaded] = "open"
        /\ \A i \in RoundId : status[i] = "open" => i = loaded
        /\ options[loaded] \in Seq(Candidate) /\ pool \in Seq(Candidate)
    BY <1>7, LoadedIsTheOpenRow DEF IInv, TypeOK
  <2>2. /\ status' = [status EXCEPT ![loaded] = "discarded"]
        /\ frozenLeft' = [frozenLeft EXCEPT ![loaded] = NotFrozen]
        /\ pool' = PoolAddAll(pool, options[loaded])
        /\ loaded' = NoRound /\ frozen' = FALSE
        /\ choice' = NoVotes /\ tally' = NoTally /\ timer' = NoTimer
        /\ UNCHANGED <<gate, queue, rechecked, options, left, winner, ballots>>
    BY <1>7 DEF Discard, Opts
  <2>3. pool' \in Seq(Candidate) /\ Len(pool') <= MaxPool
    BY <2>1, <2>2, PoolAddAllType DEF IInv, TypeOK
  <2>4. TypeOK'
    BY <1>1, <1>5, <2>1, <2>2, <2>3, BlankVotes DEF IInv, TypeOK, Statuses
  <2>5. OpenRows' = {}
    BY <2>1, <2>2 DEF OpenRows, IInv, TypeOK
  <2>6. /\ OneOpenRound' /\ TallyMatchesLedger' /\ TimerMatchesDeadline'
        /\ HaltFreezesRound' /\ VotingModeHasLiveRound'
    BY <1>1, <1>7, <2>2, <2>5 DEF OneOpenRound, TallyMatchesLedger, TimerMatchesDeadline,
       HaltFreezesRound, VotingModeHasLiveRound, NoMode
  <2>7. DecidedByPlurality' /\ BallotsAreValid' /\ RowsFitStatus'
    BY <2>1, <2>2 DEF IInv, TypeOK, DecidedByPlurality, BallotsAreValid, RowsFitStatus
  <2>8. QED
    BY <2>4, <2>6, <2>7 DEF IInv
<1>8. CASE /\ loaded # NoRound => target \notin {"VOTING_ROUND", "BUILD_IN_PROGRESS", "IDLE"}
           /\ UNCHANGED <<memory, tables>>
  <2>1. TypeOK'
    BY <1>1, <1>5, <1>8 DEF IInv, TypeOK, memory, places, tables
  <2>2. OneOpenRound' /\ TallyMatchesLedger' /\ TimerMatchesDeadline' /\ HaltFreezesRound'
    BY <1>1, <1>8 DEF IInv, OneOpenRound, OpenRows, TallyMatchesLedger,
       TimerMatchesDeadline, HaltFreezesRound, ActiveModes, memory, tables
  <2>3. VotingModeHasLiveRound'
    BY <1>1, <1>3, <1>8 DEF VotingModeHasLiveRound, NoMode, memory
  <2>4. DecidedByPlurality' /\ BallotsAreValid' /\ RowsFitStatus'
    BY <1>8 DEF IInv, DecidedByPlurality, BallotsAreValid, RowsFitStatus, tables
  <2>5. QED
    BY <2>1, <2>2, <2>3, <2>4 DEF IInv
<1>9. QED
  BY <1>4, <1>6, <1>7, <1>8

LEMMA EmptyPool == <<>> \in Seq(Candidate) /\ Len(<<>>) <= MaxPool
<1>1. MaxPool \in Nat /\ <<>> \in Seq(Candidate) /\ Len(<<>>) = 0
  BY EmptySeq, RoundAssumption
<1>2. QED
  BY <1>1

\* What is left at the gate and in the queue of a process that died.
LEMMA LostMemory ==
  ASSUME IInv, LoseMemory
  PROVE  /\ gate' \in [Candidate -> Nat] /\ queue' \in [Candidate -> Nat]
         /\ rechecked' \subseteq Candidate
         /\ \A c \in Candidate : gate'[c] <= gate[c] /\ queue'[c] = 0
<1>1. gate \in [Candidate -> Nat] /\ rechecked \subseteq Candidate
  BY DEF IInv, TypeOK
<1>2. gate' \in [Candidate -> UNION {0..gate[c] : c \in Candidate}]
      /\ UNION {0..gate[c] : c \in Candidate} \subseteq Nat
  BY <1>1 DEF LoseMemory
<1>3. gate' \in [Candidate -> Nat]
  BY <1>2
<1>4. QED
  BY <1>1, <1>3 DEF LoseMemory

LEMMA CrashStep ==
  ASSUME IInv, Crash
  PROVE  IInv'
<1>1. /\ up' = FALSE /\ UNCHANGED <<mode, haltedFrom>> /\ pool' = <<>>
      /\ loaded' = NoRound /\ frozen' = FALSE /\ choice' = NoVotes /\ tally' = NoTally
      /\ timer' = NoTimer /\ UNCHANGED tables
  BY DEF Crash, LoseMemory, modeVars
<1>2. TypeOK'
  <2>1. ModeTypeOK'
    BY <1>1 DEF IInv, TypeOK, ModeTypeOK
  <2>2. pool' \in Seq(Candidate) /\ Len(pool') <= MaxPool
    BY <1>1, EmptyPool
  <2>3. QED
    BY <1>1, <2>1, <2>2, BlankVotes, LostMemory DEF Crash, IInv, TypeOK, tables
<1>3. /\ OneOpenRound' /\ TallyMatchesLedger' /\ TimerMatchesDeadline'
      /\ HaltFreezesRound' /\ VotingModeHasLiveRound'
  BY <1>1 DEF IInv, OneOpenRound, OpenRows, TallyMatchesLedger, TimerMatchesDeadline,
     HaltFreezesRound, VotingModeHasLiveRound, tables
<1>4. DecidedByPlurality' /\ BallotsAreValid' /\ RowsFitStatus'
  BY <1>1 DEF IInv, DecidedByPlurality, BallotsAreValid, RowsFitStatus, tables
<1>5. QED
  BY <1>2, <1>3, <1>4 DEF IInv

LEMMA CrashInStartStep ==
  ASSUME IInv, NEW i \in RoundId, NEW k \in 0..MaxOptions, CrashInStart(i, k)
  PROVE  IInv'
<1> DEFINE drawn == SubSeq(pool, 1, k)
<1>0. drawn \in Seq(Candidate) /\ Len(drawn) = k /\ k <= MaxOptions
  <2>1. k \in 0..DrawSize
    BY DrawType, RoundAssumption DEF CrashInStart, IInv, TypeOK
  <2>2. QED
    BY <2>1, DrawType, RoundAssumption DEF IInv, TypeOK
<1> HIDE DEF drawn
<1>1. /\ up' = FALSE /\ UNCHANGED <<mode, haltedFrom>> /\ pool' = <<>>
      /\ loaded' = NoRound /\ frozen' = FALSE /\ choice' = NoVotes /\ tally' = NoTally
      /\ timer' = NoTimer
      /\ up /\ loaded = NoRound /\ status[i] = "none"
      /\ status' = [status EXCEPT ![i] = "open"]
      /\ options' = [options EXCEPT ![i] = drawn]
      /\ left' = [left EXCEPT ![i] = Duration]
      /\ UNCHANGED <<frozenLeft, winner, ballots>>
  BY DEF CrashInStart, MayStart, InsertRound, LoseMemory, modeVars, drawn
<1>2. OpenRows' = {i}
  <2>1. OpenRows = {}
    BY <1>1, NoRoundIsNoId DEF IInv, OneOpenRound, OpenRows
  <2>2. \A j \in RoundId : status'[j] = "open" <=> j = i
    BY <1>1, <2>1 DEF IInv, TypeOK, OpenRows
  <2>3. QED
    BY <2>2 DEF OpenRows
<1>3. TypeOK'
  <2>1. ModeTypeOK' /\ pool' \in Seq(Candidate) /\ Len(pool') <= MaxPool
    BY <1>1, EmptyPool DEF IInv, TypeOK, ModeTypeOK
  <2>2. status' \in [RoundId -> Statuses] /\ left' \in [RoundId -> 0..Duration]
    BY <1>1, RoundAssumption DEF IInv, TypeOK, Statuses
  <2>3. options' \in [RoundId -> Seq(Candidate)] /\ \A j \in RoundId : Len(options'[j]) <= MaxOptions
    BY <1>0, <1>1 DEF IInv, TypeOK
  <2>4. QED
    BY <1>1, <2>1, <2>2, <2>3, BlankVotes, LostMemory DEF CrashInStart, IInv, TypeOK
<1>4. /\ OneOpenRound' /\ TallyMatchesLedger' /\ TimerMatchesDeadline'
      /\ HaltFreezesRound' /\ VotingModeHasLiveRound'
  BY <1>1, <1>2 DEF OneOpenRound, TallyMatchesLedger, TimerMatchesDeadline,
     HaltFreezesRound, VotingModeHasLiveRound
<1>5. DecidedByPlurality' /\ RowsFitStatus'
  BY <1>1 DEF IInv, TypeOK, DecidedByPlurality, RowsFitStatus
<1>6. BallotsAreValid'
  <2>1. ASSUME NEW j \in RoundId, NEW v \in Voter
        PROVE  ballots'[j][v] \in 0..Len(options'[j])
    <3>1. CASE j = i
      <4>1. ballots'[j][v] = 0 /\ options'[j] = drawn
        BY <1>1, <3>1 DEF IInv, RowsFitStatus, NoVotes, TypeOK
      <4>2. QED
        BY <1>0, <4>1
    <3>2. CASE j # i
      BY <1>1, <3>2 DEF IInv, TypeOK, BallotsAreValid
    <3>3. QED
      BY <3>1, <3>2
  <2>2. QED
    BY <2>1 DEF BallotsAreValid
<1>7. QED
  BY <1>3, <1>4, <1>5, <1>6 DEF IInv

LEMMA BootEmptyStep ==
  ASSUME IInv, BootEmpty
  PROVE  IInv'
<1>1. /\ ~up /\ OpenRows = {} /\ up' = TRUE /\ mode' = "IDLE" /\ haltedFrom' = NoMode
      /\ UNCHANGED <<memory, tables>> /\ loaded = NoRound
  BY DEF BootEmpty, IInv, OneOpenRound
<1>2. TypeOK'
  BY <1>1 DEF IInv, TypeOK, ModeTypeOK, Modes, ActiveModes, NoMode, memory, places, tables
<1>3. /\ OneOpenRound' /\ TallyMatchesLedger' /\ TimerMatchesDeadline'
      /\ HaltFreezesRound' /\ VotingModeHasLiveRound'
  BY <1>1 DEF IInv, OneOpenRound, OpenRows, TallyMatchesLedger, TimerMatchesDeadline,
     HaltFreezesRound, VotingModeHasLiveRound, NoMode, memory, tables
<1>4. DecidedByPlurality' /\ BallotsAreValid' /\ RowsFitStatus'
  BY <1>1 DEF IInv, DecidedByPlurality, BallotsAreValid, RowsFitStatus, tables
<1>5. QED
  BY <1>2, <1>3, <1>4 DEF IInv

\* Boot with an open row: the row is loaded as it is, whatever the mode boot enters.
LEMMA BootLoadsStep ==
  ASSUME IInv, BootFrozen \/ BootLive
  PROVE  IInv'
<1> DEFINE i == LatestOpen
<1>0. i \in RoundId /\ OpenRows = {i} /\ status[i] = "open"
  <2>1. OpenRows # {}
    BY DEF BootFrozen, BootLive
  <2>2. QED
    BY <2>1, LatestOpenIsTheOpenRow DEF IInv, OpenRows
<1> HIDE DEF i
<1>1. /\ ~up /\ up' = TRUE /\ loaded' = i /\ choice' = ballots[i]
      /\ tally' = Count(ballots[i]) /\ frozen' = (frozenLeft[i] # NotFrozen)
      /\ UNCHANGED <<gate, pool, queue, rechecked, tables>>
  BY DEF BootFrozen, BootLive, Load, places, i
<1>2. timer = NoTimer
  BY <1>1 DEF IInv, TypeOK, OneOpenRound, TimerMatchesDeadline
<1>3. \/ /\ frozenLeft[i] # NotFrozen /\ timer' = NoTimer
         /\ mode' = "HALTED" /\ haltedFrom' = "VOTING_ROUND"
      \/ /\ frozenLeft[i] = NotFrozen /\ timer' = left[i]
         /\ mode' = "VOTING_ROUND" /\ haltedFrom' = NoMode
  BY <1>2 DEF BootFrozen, BootLive, i
<1>4. TypeOK'
  <2>1. Count(ballots[i]) \in [1..MaxOptions -> Int]
    BY CountType
  <2>2. timer' \in 0..Duration \union {NoTimer} /\ ballots[i] \in [Voter -> 0..MaxOptions]
    BY <1>0, <1>3 DEF IInv, TypeOK
  <2>3. ModeTypeOK'
    BY <1>3 DEF ModeTypeOK, Modes, ActiveModes, NoMode
  <2>4. QED
    BY <1>0, <1>1, <2>1, <2>2, <2>3 DEF IInv, TypeOK, tables
<1>5. OneOpenRound' /\ TallyMatchesLedger' /\ TimerMatchesDeadline'
  <2>1. OpenRows' = {i}
    BY <1>0, <1>1 DEF OpenRows, tables
  <2>2. QED
    BY <1>0, <1>1, <1>3, <2>1, NoRoundIsNoId
       DEF OneOpenRound, TallyMatchesLedger, TimerMatchesDeadline, tables
<1>6. HaltFreezesRound' /\ VotingModeHasLiveRound'
  BY <1>0, <1>1, <1>3, NoRoundIsNoId DEF HaltFreezesRound, VotingModeHasLiveRound, NoMode,
     tables
<1>7. DecidedByPlurality' /\ BallotsAreValid' /\ RowsFitStatus'
  BY <1>1 DEF IInv, DecidedByPlurality, BallotsAreValid, RowsFitStatus, tables
<1>8. QED
  BY <1>4, <1>5, <1>6, <1>7 DEF IInv

LEMMA BootExpiredStep ==
  ASSUME IInv, BootExpired
  PROVE  IInv'
<1> DEFINE i == LatestOpen
<1>0. i \in RoundId /\ OpenRows = {i} /\ status[i] = "open"
      /\ \A j \in RoundId : status[j] = "open" => j = i
  <2>1. OpenRows # {}
    BY DEF BootExpired
  <2>2. QED
    BY <2>1, LatestOpenIsTheOpenRow DEF IInv, OpenRows
<1> HIDE DEF i
<1>1. /\ ~up /\ up' = TRUE /\ mode' = "IDLE" /\ haltedFrom' = NoMode
      /\ UNCHANGED <<pool, rechecked, loaded, frozen, choice, tally, timer>>
  BY DEF BootExpired
<1>2. PICK w \in WinnerChoices(options[i], Count(ballots[i])), stale \in BOOLEAN :
           /\ CloseRow(i, w)
           /\ queue' = IF w # 0 /\ ~stale THEN [queue EXCEPT ![options[i][w]] = @ + 1] ELSE queue
           /\ gate' = IF w # 0 /\ stale THEN [gate EXCEPT ![options[i][w]] = @ + 1] ELSE gate
  BY DEF BootExpired, i
<1>3. /\ OpenRows' = {}
      /\ status' \in [RoundId -> Statuses]
      /\ winner' \in [RoundId -> 0..MaxOptions]
      /\ frozenLeft' \in [RoundId -> 0..Duration \union {NotFrozen}]
      /\ UNCHANGED <<options, left, ballots>>
      /\ DecidedByPlurality' /\ BallotsAreValid' /\ RowsFitStatus'
  BY <1>0, <1>2, CloseRowStep
<1>4. gate' \in [Candidate -> Nat] /\ queue' \in [Candidate -> Nat]
  <2>1. options[i] \in Seq(Candidate) /\ Len(options[i]) <= MaxOptions
        /\ ballots[i] \in [Voter -> 0..MaxOptions]
    BY <1>0 DEF IInv, TypeOK
  <2>2. w # 0 => options[i] # <<>>
    BY <1>2, <2>1, EmptySeq DEF WinnerChoices
  <2>3. w # 0 => w \in DOMAIN options[i]
    BY <1>2, <2>1, <2>2, WinnerSound
  <2>4. w # 0 => options[i][w] \in Candidate
    BY <2>1, <2>3, ElementOfSeq, LenProperties
  <2>5. queue \in [Candidate -> Nat] /\ gate \in [Candidate -> Nat]
    BY DEF IInv, TypeOK
  <2>6. QED
    BY <1>2, <2>4, <2>5
<1>5. TypeOK'
  BY <1>1, <1>3, <1>4 DEF IInv, TypeOK, ModeTypeOK, Modes, ActiveModes, NoMode
<1>6. loaded' = NoRound /\ timer' = NoTimer
  BY <1>1 DEF IInv, OneOpenRound, TimerMatchesDeadline
<1>7. /\ OneOpenRound' /\ TallyMatchesLedger' /\ TimerMatchesDeadline'
      /\ HaltFreezesRound' /\ VotingModeHasLiveRound'
  BY <1>1, <1>3, <1>6 DEF OneOpenRound, TallyMatchesLedger, TimerMatchesDeadline,
     HaltFreezesRound, VotingModeHasLiveRound, NoMode
<1>8. QED
  BY <1>3, <1>5, <1>7 DEF IInv

-------------------------------------------------------------------------------
(***************************************************************************)
(* The theorems                                                            *)
(***************************************************************************)

LEMMA InitIInv == Init => IInv
<1> SUFFICES ASSUME Init PROVE IInv
  OBVIOUS
<1>1. <<>> \in Seq(Candidate) /\ Len(<<>>) = 0
  BY EmptySeq
<1>2. TypeOK
  <2>1. ModeTypeOK
    BY DEF Init, ModeInit, ModeTypeOK, Modes, ActiveModes, NoMode
  <2>2. pool \in Seq(Candidate) /\ Len(pool) <= MaxPool
    BY EmptyPool DEF Init
  <2>3. options \in [RoundId -> Seq(Candidate)] /\ \A i \in RoundId : Len(options[i]) <= MaxOptions
    BY <1>1, RoundAssumption DEF Init
  <2>4. /\ status \in [RoundId -> Statuses]
        /\ left \in [RoundId -> 0..Duration]
        /\ frozenLeft \in [RoundId -> 0..Duration \union {NotFrozen}]
        /\ winner \in [RoundId -> 0..MaxOptions]
        /\ ballots \in [RoundId -> [Voter -> 0..MaxOptions]]
    BY BlankVotes, RoundAssumption DEF Init, Statuses
  <2>5. QED
    BY <2>1, <2>2, <2>3, <2>4, BlankVotes DEF Init, TypeOK
<1>3. OneOpenRound /\ TallyMatchesLedger /\ TimerMatchesDeadline /\ HaltFreezesRound
  BY DEF Init, OneOpenRound, OpenRows, TallyMatchesLedger, TimerMatchesDeadline,
         HaltFreezesRound
<1>4. VotingModeHasLiveRound /\ DecidedByPlurality /\ RowsFitStatus
  BY DEF Init, ModeInit, VotingModeHasLiveRound, DecidedByPlurality, RowsFitStatus,
         NoMode
<1>5. BallotsAreValid
  BY <1>1 DEF Init, BallotsAreValid, NoVotes
<1>6. QED
  BY <1>2, <1>3, <1>4, <1>5 DEF IInv

LEMMA NextIInv == IInv /\ [Next]_vars => IInv'
<1> SUFFICES ASSUME IInv, [Next]_vars PROVE IInv'
  OBVIOUS
<1>1. CASE \E c \in Candidate : Submit(c) \/ GateAnswers(c) \/ Pick(c) \/ TaskLeaves(c)
  BY <1>1, GateStep, PickStep, TaskLeavesStep
<1>2. CASE \E to \in Modes : OtherTransition(to)
  BY <1>2, OtherTransitionStep
<1>3. CASE Tick
  BY <1>3, TickStep
<1>4. CASE \E i \in RoundId : StartRound(i)
  BY <1>4, StartRoundStep
<1>5. CASE \E v \in Voter, o \in 1..MaxOptions : RecordVote(v, o)
  BY <1>5, RecordVoteStep
<1>6. CASE TimerFires
  BY <1>6, CloseRoundStep DEF TimerFires
<1>7. CASE Halt
  BY <1>7, HaltStep
<1>8. CASE \E a \in RecoveryActions : RecoverRound(a)
  BY <1>8, RecoverRoundStep
<1>9. CASE Crash
  BY <1>9, CrashStep
<1>10. CASE \E i \in RoundId, k \in 0..MaxOptions : CrashInStart(i, k)
  BY <1>10, CrashInStartStep
<1>11. CASE Boot
  BY <1>11, BootEmptyStep, BootLoadsStep, BootExpiredStep DEF Boot
<1>12. CASE UNCHANGED vars
  <2>1. UNCHANGED <<mode, haltedFrom, up, gate, pool, queue, rechecked, loaded, frozen, choice,
                    tally, timer, tables>>
    BY <1>12 DEF vars, memory, places, modeVars
  <2>2. QED
    BY <2>1, PlacesOnlyStep DEF IInv, TypeOK
<1>13. QED
  BY <1>1, <1>2, <1>3, <1>4, <1>5, <1>6, <1>7, <1>8, <1>9, <1>10, <1>11, <1>12 DEF Next

LEMMA Invariance == Spec => []IInv
BY InitIInv, NextIInv, PTL DEF Spec

\* RoundManager, its tables and the mode machine keep their types.
THEOREM TypeCorrect == Spec => []TypeOK
<1>1. IInv => TypeOK
  BY DEF IInv
<1>2. QED
  BY <1>1, Invariance, PTL

\* At most one row is open, and it is the round in memory while the process runs:
\* neither a start during a build nor a crash inside startRound strands another one.
THEOREM OneRoundAtATime == Spec => []OneOpenRound
<1>1. IInv => OneOpenRound
  BY DEF IInv
<1>2. QED
  BY <1>1, Invariance, PTL

\* recordVote's incremental tally is the count of the vote rows, for any number of
\* voters and options and through any restart.
THEOREM TallyIsTheLedger == Spec => []TallyMatchesLedger
<1>1. IInv => TallyMatchesLedger
  BY DEF IInv
<1>2. QED
  BY <1>1, Invariance, PTL

\* The close timer is armed exactly when a live round is loaded, for its deadline.
THEOREM TimerIsTheDeadline == Spec => []TimerMatchesDeadline
<1>1. IInv => TimerMatchesDeadline
  BY DEF IInv
<1>2. QED
  BY <1>1, Invariance, PTL

\* Under a halt the round is frozen, in memory and on disk.
THEOREM HaltFreezes == Spec => []HaltFreezesRound
<1>1. IInv => HaltFreezesRound
  BY DEF IInv
<1>2. QED
  BY <1>1, Invariance, PTL

\* The show is never in VOTING_ROUND, nor halted out of it, with no round to leave it.
THEOREM NeverStuckInVoting == Spec => []VotingModeHasLiveRound
<1>1. IInv => VotingModeHasLiveRound
  BY DEF IInv
<1>2. QED
  BY <1>1, Invariance, PTL

\* Every decided round was decided by plurality of the votes on record.
THEOREM DecisionsAreFair == Spec => []DecidedByPlurality
<1>1. IInv => DecidedByPlurality
  BY DEF IInv
<1>2. QED
  BY <1>1, Invariance, PTL

-------------------------------------------------------------------------------
(***************************************************************************)
(* A suggestion is in one place                                            *)
(***************************************************************************)

Has(s, c) == \E k \in DOMAIN s : s[k] = c
Once(s)   == \A j, k \in DOMAIN s : s[j] = s[k] => j = k

\* The places of a suggestion: how often the gate and the queue have it, whether the pool
\* does, and whether an open row does (loaded or, between a crash and a boot, not).
Apart(g, q, pooled, drawn) ==
  /\ g <= 1 /\ q <= 1
  /\ pooled => ~drawn /\ q = 0 /\ g = 0
  /\ drawn => q = 0 /\ g = 0
  /\ q > 0 => g = 0

Drawn(c) == \E i \in RoundId : status[i] = "open" /\ Has(options[i], c)

OneAt(c) == Apart(gate[c], queue[c], Has(pool, c), Drawn(c))

\* Every ballot ever drawn has distinct options, so the one a boot loads has; a dead
\* process keeps nothing in memory.
Places ==
  /\ Once(pool)
  /\ \A i \in RoundId : Once(options[i])
  /\ \A c \in Candidate \ rechecked : OneAt(c)
  /\ ~up => pool = <<>> /\ \A c \in Candidate : queue[c] = 0

\* A stretch of a sequence repeats nothing and holds nothing from outside the stretch.
LEMMA StretchOnce ==
  ASSUME NEW s \in Seq(Candidate), Once(s), NEW m \in 1..(Len(s) + 1), NEW n \in 0..Len(s)
  PROVE  /\ Once(SubSeq(s, m, n))
         /\ \A c : Has(SubSeq(s, m, n), c) => \E k \in DOMAIN s : m <= k /\ k <= n /\ s[k] = c
<1> DEFINE t == SubSeq(s, m, n)
<1>1. Len(s) \in Nat /\ DOMAIN s = 1..Len(s)
  BY LenProperties
<1>2. m \in Int /\ n \in Int /\ 1 <= m /\ n <= Len(s) /\ \A i \in m..n : s[i] \in Candidate
  BY <1>1, ElementOfSeq
<1>3. /\ t \in Seq(Candidate)
      /\ Len(t) = IF m <= n THEN n - m + 1 ELSE 0
      /\ \A i \in 1..(n - m + 1) : t[i] = s[m + i - 1]
  BY <1>2, SubSeqProperties
<1>4. DOMAIN t = 1..Len(t)
  BY <1>3, LenProperties
<1> HIDE DEF t
<1>5. ASSUME NEW i \in DOMAIN t
      PROVE  m + i - 1 \in DOMAIN s /\ m <= m + i - 1 /\ m + i - 1 <= n /\ t[i] = s[m + i - 1]
  BY <1>1, <1>2, <1>3, <1>4
<1>6. Once(t)
  <2> SUFFICES ASSUME NEW j \in DOMAIN t, NEW k \in DOMAIN t, t[j] = t[k]
               PROVE  j = k
    BY DEF Once
  <2>1. m + j - 1 = m + k - 1
    BY <1>5 DEF Once
  <2>2. j \in Int /\ k \in Int
    BY <1>2, <1>3, <1>4
  <2>3. QED
    BY <1>2, <2>1, <2>2
<1>7. \A c : Has(t, c) => \E k \in DOMAIN s : m <= k /\ k <= n /\ s[k] = c
  BY <1>5 DEF Has
<1>8. QED
  BY <1>6, <1>7 DEF t

\* Eviction adds nothing and repeats nothing.
LEMMA KeepNewestOnce ==
  ASSUME NEW s \in Seq(Candidate), Once(s)
  PROVE  Once(KeepNewest(s)) /\ \A c : Has(KeepNewest(s), c) => Has(s, c)
<1>1. Len(s) \in Nat /\ MaxPool \in Nat \ {0}
  BY LenProperties, RoundAssumption
<1>2. CASE Len(s) <= MaxPool
  BY <1>2 DEF KeepNewest
<1>3. CASE ~(Len(s) <= MaxPool)
  <2>1. Len(s) - MaxPool + 1 \in 1..(Len(s) + 1) /\ Len(s) \in 0..Len(s)
    BY <1>1, <1>3
  <2>2. KeepNewest(s) = SubSeq(s, Len(s) - MaxPool + 1, Len(s))
    BY <1>3 DEF KeepNewest
  <2>3. QED
    BY <2>1, <2>2, StretchOnce DEF Has
<1>4. QED
  BY <1>2, <1>3

\* Two sequences that share nothing, one after the other.
LEMMA ConcatOnce ==
  ASSUME NEW s \in Seq(Candidate), NEW t \in Seq(Candidate), Once(s), Once(t),
         \A c : Has(s, c) => ~Has(t, c)
  PROVE  /\ s \o t \in Seq(Candidate) /\ Once(s \o t)
         /\ \A c : Has(s \o t, c) => Has(s, c) \/ Has(t, c)
<1> DEFINE u == s \o t
<1>1. /\ Len(s) \in Nat /\ DOMAIN s = 1..Len(s)
      /\ Len(t) \in Nat /\ DOMAIN t = 1..Len(t)
  BY LenProperties
<1>2. /\ u \in Seq(Candidate)
      /\ Len(u) = Len(s) + Len(t)
      /\ \A i \in 1..(Len(s) + Len(t)) : u[i] = IF i <= Len(s) THEN s[i] ELSE t[i - Len(s)]
  BY ConcatProperties
<1>3. DOMAIN u = 1..(Len(s) + Len(t))
  BY <1>2, LenProperties
<1> HIDE DEF u
<1>4. ASSUME NEW i \in DOMAIN u
      PROVE  \/ i \in DOMAIN s /\ u[i] = s[i]
             \/ i - Len(s) \in DOMAIN t /\ u[i] = t[i - Len(s)] /\ i \in Int
  BY <1>1, <1>2, <1>3
<1>5. Once(u)
  <2> SUFFICES ASSUME NEW j \in DOMAIN u, NEW k \in DOMAIN u, u[j] = u[k]
               PROVE  j = k
    BY DEF Once
  <2>1. CASE j \in DOMAIN s /\ u[j] = s[j] /\ k \in DOMAIN s /\ u[k] = s[k]
    BY <2>1 DEF Once
  <2>2. CASE j - Len(s) \in DOMAIN t /\ u[j] = t[j - Len(s)] /\ j \in Int
             /\ k - Len(s) \in DOMAIN t /\ u[k] = t[k - Len(s)] /\ k \in Int
    <3>1. j - Len(s) = k - Len(s)
      BY <2>2 DEF Once
    <3>2. QED
      BY <1>1, <2>2, <3>1
  <2>3. QED
    BY <1>4, <2>1, <2>2 DEF Has
<1>6. \A c : Has(u, c) => Has(s, c) \/ Has(t, c)
  BY <1>4 DEF Has
<1>7. QED
  BY <1>2, <1>5, <1>6 DEF u

\* The pool's add.
LEMMA PoolAddOnce ==
  ASSUME NEW p \in Seq(Candidate), Once(p), NEW c \in Candidate
  PROVE  Once(PoolAdd(p, c)) /\ \A d : Has(PoolAdd(p, c), d) => Has(p, d) \/ d = c
<1>1. CASE Has(p, c)
  BY <1>1 DEF PoolAdd, Has
<1>2. CASE ~Has(p, c)
  <2>1. /\ <<c>> \in Seq(Candidate) /\ DOMAIN <<c>> = {1} /\ <<c>>[1] = c
    OBVIOUS
  <2>2. Once(<<c>>) /\ \A d : Has(<<c>>, d) => d = c
    BY <2>1 DEF Once, Has
  <2>3. \A d : Has(p, d) => ~Has(<<c>>, d)
    BY <1>2, <2>2
  <2>4. Append(p, c) = p \o <<c>>
    BY AppendIsConcat
  <2>5. /\ Append(p, c) \in Seq(Candidate) /\ Once(Append(p, c))
        /\ \A d : Has(Append(p, c), d) => Has(p, d) \/ d = c
    BY <2>1, <2>2, <2>3, <2>4, ConcatOnce
  <2>6. PoolAdd(p, c) = KeepNewest(Append(p, c))
    BY <1>2 DEF PoolAdd, Has
  <2>7. QED
    BY <2>5, <2>6, KeepNewestOnce
<1>3. QED
  BY <1>1, <1>2

\* The option a round elects is one of its own.
LEMMA WinnerIsOption ==
  ASSUME NEW opts, NEW t, NEW w \in WinnerChoices(opts, t), w # 0
  PROVE  w \in DOMAIN opts
BY DEF WinnerChoices

LEMMA EmptyOnce == Once(<<>>) /\ \A c : ~Has(<<>>, c)
BY DEF Once, Has

\* Taking an entry out repeats nothing, adds nothing, and leaves nothing of it behind.
LEMMA RemoveAtOnce ==
  ASSUME NEW s \in Seq(Candidate), Once(s), NEW k \in DOMAIN s
  PROVE  /\ Once(RemoveAt(s, k))
         /\ \A c : Has(RemoveAt(s, k), c) => Has(s, c) /\ c # s[k]
<1> DEFINE r == RemoveAt(s, k)
<1>1. Len(s) \in Nat /\ DOMAIN s = 1..Len(s) /\ k \in 1..Len(s)
  BY LenProperties
<1>2. /\ r \in Seq(Candidate) /\ Len(r) = Len(s) - 1
      /\ \A i \in 1..Len(s) - 1 : r[i] = IF i < k THEN s[i] ELSE s[i + 1]
  BY RemoveAtType
<1>3. DOMAIN r = 1..(Len(s) - 1)
  BY <1>2, LenProperties
<1> HIDE DEF r
<1> DEFINE at(i) == IF i < k THEN i ELSE i + 1
<1>4. ASSUME NEW i \in DOMAIN r
      PROVE  i \in Int /\ at(i) \in DOMAIN s /\ at(i) # k /\ r[i] = s[at(i)]
  BY <1>1, <1>2, <1>3
<1>5. Once(r)
  <2> SUFFICES ASSUME NEW i \in DOMAIN r, NEW j \in DOMAIN r, r[i] = r[j]
               PROVE  i = j
    BY DEF Once
  <2>1. at(i) = at(j)
    <3>1. at(i) \in DOMAIN s /\ at(j) \in DOMAIN s /\ s[at(i)] = s[at(j)]
      BY <1>4
    <3> HIDE DEF at
    <3>2. QED
      BY <3>1 DEF Once
  <2>2. QED
    BY <1>1, <1>4, <2>1
<1>6. \A c : Has(r, c) => Has(s, c) /\ c # s[k]
  <2> SUFFICES ASSUME NEW i \in DOMAIN r
               PROVE  Has(s, r[i]) /\ r[i] # s[k]
    BY DEF Has
  <2>1. at(i) \in DOMAIN s /\ at(i) # k /\ r[i] = s[at(i)]
    BY <1>4
  <2> HIDE DEF at
  <2>2. QED
    BY <2>1 DEF Has, Once
<1>7. QED
  BY <1>5, <1>6 DEF r

\* Adding several.
LEMMA PoolAddAllOnce ==
  ASSUME NEW p \in Seq(Candidate), Once(p), NEW s \in Seq(Candidate)
  PROVE  Once(PoolAddAll(p, s)) /\ \A c : Has(PoolAddAll(p, s), c) => Has(p, c) \/ Has(s, c)
<1> DEFINE Good == {q \in Seq(Candidate) :
                      Once(q) /\ \A i \in DOMAIN q : Has(p, q[i]) \/ Has(s, q[i])}
<1>1. p \in Good
  BY DEF Has
<1>2. ASSUME NEW q \in Good, NEW k \in 1..Len(s)
      PROVE  PoolAdd(q, s[k]) \in Good
  <2>1. s[k] \in Candidate /\ Has(s, s[k])
    BY ElementOfSeq, LenProperties DEF Has
  <2>2. Once(PoolAdd(q, s[k])) /\ \A c : Has(PoolAdd(q, s[k]), c) => Has(q, c) \/ c = s[k]
    BY <2>1, PoolAddOnce
  <2>3. PoolAdd(q, s[k]) \in Seq(Candidate)
    BY <2>1, AppendProperties, KeepNewestType DEF PoolAdd
  <2>4. ASSUME NEW i \in DOMAIN PoolAdd(q, s[k])
        PROVE  Has(p, PoolAdd(q, s[k])[i]) \/ Has(s, PoolAdd(q, s[k])[i])
    <3>1. Has(PoolAdd(q, s[k]), PoolAdd(q, s[k])[i])
      BY DEF Has
    <3>2. Has(q, PoolAdd(q, s[k])[i]) \/ PoolAdd(q, s[k])[i] = s[k]
      BY <2>2, <3>1
    <3>3. QED
      BY <2>1, <3>2 DEF Has
  <2>5. QED
    BY <2>2, <2>3, <2>4
<1> HIDE DEF Good
<1>3. PoolAddAll(p, s) \in Good
  BY <1>1, <1>2, PoolAddAllStays
<1>4. QED
  BY <1>3 DEF Good, Has

\* A suggestion that is nowhere it was not before is apart if it was.
LEMMA StillApart ==
  ASSUME IInv, NEW c \in Candidate, OneAt(c),
         gate'[c] \in 0..gate[c], queue'[c] \in 0..queue[c],
         Has(pool', c) => Has(pool, c), Drawn(c)' => Drawn(c)
  PROVE  OneAt(c)'
<1>1. gate[c] \in Nat /\ queue[c] \in Nat
  BY DEF IInv, TypeOK
<1>2. QED
  BY <1>1 DEF OneAt, Apart

\* A round in memory has its row open, so what is on its ballot is drawn.
LEMMA InRoundIsDrawn ==
  ASSUME IInv, NEW c, InRound(c)
  PROVE  Drawn(c)
BY LoadedIsTheOpenRow DEF InRound, Opts, Drawn, Has

\* What startRound takes from the pool is no longer in it.
LEMMA DrawnApart ==
  ASSUME IInv, Places
  PROVE  /\ Once(Undrawn) /\ \A c : Has(Undrawn, c) => Has(pool, c)
         /\ \A k \in 0..DrawSize :
              /\ Once(SubSeq(pool, 1, k))
              /\ \A c : Has(SubSeq(pool, 1, k), c) => Has(pool, c) /\ ~Has(Undrawn, c)
<1>1. pool \in Seq(Candidate) /\ Len(pool) <= MaxPool /\ Once(pool)
  BY DEF IInv, TypeOK, Places
<1>2. DrawSize \in Nat /\ DrawSize <= Len(pool) /\ Len(pool) \in Nat /\ DOMAIN pool = 1..Len(pool)
  BY <1>1, DrawType, LenProperties, RoundAssumption
<1>3. /\ Once(Undrawn)
      /\ \A c : Has(Undrawn, c) => \E k \in DOMAIN pool : DrawSize + 1 <= k /\ pool[k] = c
  <2>1. DrawSize + 1 \in 1..(Len(pool) + 1) /\ Len(pool) \in 0..Len(pool)
    BY <1>2
  <2>2. QED
    BY <1>1, <2>1, StretchOnce DEF Undrawn
<1>4. ASSUME NEW k \in 0..DrawSize
      PROVE  /\ Once(SubSeq(pool, 1, k))
             /\ \A c : Has(SubSeq(pool, 1, k), c) => \E j \in DOMAIN pool : j <= DrawSize /\ pool[j] = c
  <2>1. 1 \in 1..(Len(pool) + 1) /\ k \in 0..Len(pool) /\ k <= DrawSize /\ k \in Nat
    BY <1>2
  <2>2. /\ Once(SubSeq(pool, 1, k))
        /\ \A c : Has(SubSeq(pool, 1, k), c) => \E j \in DOMAIN pool : 1 <= j /\ j <= k /\ pool[j] = c
    BY <1>1, <2>1, StretchOnce
  <2>3. \A j \in DOMAIN pool : j <= k => j <= DrawSize
    BY <1>2, <2>1
  <2>4. QED
    BY <2>2, <2>3
<1>5. \A j, k \in DOMAIN pool : j <= DrawSize /\ DrawSize + 1 <= k => pool[j] # pool[k]
  BY <1>1, <1>2 DEF Once
<1>6. ASSUME NEW k \in 0..DrawSize, NEW c, Has(SubSeq(pool, 1, k), c)
      PROVE  Has(pool, c) /\ ~Has(Undrawn, c)
  BY <1>3, <1>4, <1>5, <1>6 DEF Has
<1>7. QED
  BY <1>3, <1>4, <1>6 DEF Has

LEMMA PlacesInit == Init => Places
<1> SUFFICES ASSUME Init PROVE Places
  OBVIOUS
<1>1. \A c : ~Has(pool, c) /\ ~Drawn(c)
  BY EmptyOnce DEF Init, Drawn
<1>2. \A c \in Candidate : gate[c] = 0 /\ queue[c] = 0
  BY DEF Init
<1>3. QED
  BY <1>1, <1>2, EmptyOnce DEF Init, Places, OneAt, Apart

LEMMA PlacesAreOnce ==
  ASSUME IInv, Places
  PROVE  NoSuggestionTwice
<1>1. \A c : InPool(c) <=> Has(pool, c)
  BY DEF InPool, Has
<1>2. \A c \in Candidate \ rechecked : OneAt(c)
  BY DEF Places
<1>3. \A j, k \in DOMAIN pool : pool[j] = pool[k] => j = k
  BY DEF Places, Once
<1>4. QED
  BY <1>1, <1>2, <1>3, InRoundIsDrawn DEF NoSuggestionTwice, OneAt, Apart

\* Steps that bring no suggestion to a place it is not in already.
LEMMA PlacesStay ==
  ASSUME IInv, Places, rechecked' = rechecked,
         Once(pool'), \A c \in Candidate : Has(pool', c) => Has(pool, c),
         \A i \in RoundId : Once(options'[i]),
         \A c \in Candidate : Drawn(c)' => Drawn(c),
         \A c \in Candidate : gate'[c] \in 0..gate[c] /\ queue'[c] \in 0..queue[c],
         ~up' => pool' = <<>> /\ \A c \in Candidate : queue'[c] = 0
  PROVE  Places'
<1>1. ASSUME NEW c \in Candidate \ rechecked  PROVE OneAt(c)'
  <2>1. OneAt(c)
    BY DEF Places
  <2>2. QED
    BY <2>1, StillApart
<1>2. QED
  BY <1>1 DEF Places

LEMMA Counts ==
  ASSUME IInv, NEW c \in Candidate
  PROVE  gate[c] \in 0..gate[c] /\ queue[c] \in 0..queue[c]
BY DEF IInv, TypeOK

LEMMA PlacesSubmit ==
  ASSUME IInv, Places, NEW c \in Candidate, Submit(c)
  PROVE  Places'
<1>1. /\ up /\ gate[c] = 0 /\ ~Has(pool, c) /\ ~InRound(c) /\ queue[c] = 0
      /\ gate' = [gate EXCEPT ![c] = 1] /\ rechecked' = rechecked \ {c}
      /\ UNCHANGED <<up, pool, queue, loaded, status, options>>
  BY DEF Submit, InPool, Has, tables
<1>2. ~Drawn(c)
  <2>1. \A i \in RoundId : status[i] = "open" => loaded = i /\ loaded # NoRound
    BY <1>1, NoRoundIsNoId DEF IInv, OneOpenRound, OpenRows
  <2>2. QED
    BY <1>1, <2>1 DEF Drawn, InRound, Opts, Has
<1>3. \A d : Drawn(d)' <=> Drawn(d)
  BY <1>1 DEF Drawn
<1>4. gate'[c] = 1 /\ \A d \in Candidate : d # c => gate'[d] = gate[d]
  BY <1>1 DEF IInv, TypeOK
<1>5. ASSUME NEW d \in Candidate \ rechecked'  PROVE OneAt(d)'
  <2>1. CASE d = c
    BY <1>1, <1>2, <1>3, <1>4, <2>1 DEF OneAt, Apart
  <2>2. CASE d # c
    <3>1. OneAt(d)
      BY <1>1, <2>2 DEF Places
    <3>2. QED
      BY <1>1, <1>3, <1>4, <2>2, <3>1, Counts, StillApart
  <2>3. QED
    BY <2>1, <2>2
<1>6. QED
  BY <1>1, <1>5 DEF Places

LEMMA PlacesGateAnswers ==
  ASSUME IInv, Places, NEW c \in Candidate, GateAnswers(c)
  PROVE  Places'
<1>1. /\ up /\ gate[c] > 0 /\ gate' = [gate EXCEPT ![c] = @ - 1]
      /\ pool' \in {pool, PoolAdd(pool, c)}
      /\ UNCHANGED <<up, queue, rechecked, status, options>>
  BY DEF GateAnswers, tables
<1>2. /\ gate'[c] = gate[c] - 1 /\ gate[c] \in Nat
      /\ \A d \in Candidate : d # c => gate'[d] = gate[d]
  BY <1>1 DEF IInv, TypeOK
<1>3. Once(pool') /\ \A d : Has(pool', d) => Has(pool, d) \/ d = c
  BY <1>1, PoolAddOnce DEF Places, IInv, TypeOK
<1>4. \A d : Drawn(d)' <=> Drawn(d)
  BY <1>1 DEF Drawn
<1>5. ASSUME NEW d \in Candidate \ rechecked  PROVE OneAt(d)'
  <2>1. OneAt(d)
    BY DEF Places
  <2>2. CASE d = c
    BY <1>1, <1>2, <1>4, <2>1, <2>2 DEF OneAt, Apart, IInv, TypeOK
  <2>3. CASE d # c
    BY <1>1, <1>2, <1>3, <1>4, <2>1, <2>3, Counts, StillApart
  <2>4. QED
    BY <2>2, <2>3
<1>6. QED
  BY <1>1, <1>3, <1>5 DEF Places

LEMMA PlacesPick ==
  ASSUME IInv, Places, NEW c \in Candidate, Pick(c)
  PROVE  Places'
<1>1. up /\ UNCHANGED <<up, status, options>> /\ (PickFresh(c) \/ PickStale(c))
  BY DEF Pick, tables
<1>2. \A d : Drawn(d)' <=> Drawn(d)
  BY <1>1 DEF Drawn
<1>3. CASE PickStale(c)
  <2>1. /\ gate' = [gate EXCEPT ![c] = @ + 1] /\ rechecked' = rechecked \union {c}
        /\ UNCHANGED <<pool, queue>>
    BY <1>3 DEF PickStale
  <2>2. \A d \in Candidate : d # c => gate'[d] = gate[d]
    BY <2>1 DEF IInv, TypeOK
  <2>3. ASSUME NEW d \in Candidate \ rechecked'  PROVE OneAt(d)'
    <3>1. OneAt(d) /\ d # c
      BY <2>1 DEF Places
    <3>2. QED
      BY <1>2, <2>1, <2>2, <3>1, Counts, StillApart
  <2>4. QED
    BY <1>1, <2>1, <2>3 DEF Places
<1>4. CASE PickFresh(c)
  <2>1. PICK k \in DOMAIN pool : pool[k] = c /\ pool' = RemoveAt(pool, k)
    BY <1>4 DEF PickFresh
  <2>2. queue' = [queue EXCEPT ![c] = @ + 1] /\ UNCHANGED <<gate, rechecked>>
    BY <1>4 DEF PickFresh
  <2>3. /\ Once(pool') /\ ~Has(pool', c) /\ Has(pool, c)
        /\ \A d : Has(pool', d) => Has(pool, d)
    <3>1. pool \in Seq(Candidate) /\ Once(pool)
      BY DEF Places, IInv, TypeOK
    <3>2. Has(pool, c)
      BY <2>1 DEF Has
    <3>3. QED
      BY <2>1, <3>1, <3>2, RemoveAtOnce
  <2>4. /\ queue'[c] = queue[c] + 1 /\ queue[c] \in Nat
        /\ \A d \in Candidate : d # c => queue'[d] = queue[d]
    BY <2>2 DEF IInv, TypeOK
  <2>5. ASSUME NEW d \in Candidate \ rechecked  PROVE OneAt(d)'
    <3>1. OneAt(d)
      BY DEF Places
    <3>2. CASE d = c
      BY <1>2, <2>2, <2>3, <2>4, <3>1, <3>2 DEF OneAt, Apart
    <3>3. CASE d # c
      BY <1>2, <2>2, <2>3, <2>4, <3>1, <3>3, Counts, StillApart
    <3>4. QED
      BY <3>2, <3>3
  <2>6. QED
    BY <1>1, <2>2, <2>3, <2>5 DEF Places
<1>5. QED
  BY <1>1, <1>3, <1>4

LEMMA PlacesTaskLeaves ==
  ASSUME IInv, Places, NEW c \in Candidate, TaskLeaves(c)
  PROVE  Places'
<1>1. /\ up /\ queue[c] > 0 /\ queue' = [queue EXCEPT ![c] = @ - 1]
      /\ UNCHANGED <<up, gate, pool, rechecked, status, options>>
  BY DEF TaskLeaves, tables
<1>2. \A d \in Candidate : gate'[d] \in 0..gate[d] /\ queue'[d] \in 0..queue[d]
  BY <1>1 DEF IInv, TypeOK
<1>3. \A d : Drawn(d)' <=> Drawn(d)
  BY <1>1 DEF Drawn
<1>4. Once(pool') /\ (\A i \in RoundId : Once(options'[i])) /\ up'
  BY <1>1 DEF Places
<1>5. QED
  BY <1>1, <1>2, <1>3, <1>4, PlacesStay

\* What a draw of the first k puts on the new ballot was pooled and nowhere else.
LEMMA PlacesDraw ==
  ASSUME IInv, Places, MayStart, NEW i \in RoundId, NEW k \in 0..DrawSize, InsertRound(i, k),
         pool' \in {Undrawn, <<>>}, rechecked' = rechecked,
         \A c \in Candidate : gate'[c] \in 0..gate[c] /\ queue'[c] \in 0..queue[c],
         ~up' => pool' = <<>> /\ \A c \in Candidate : queue'[c] = 0
  PROVE  Places'
<1> DEFINE ballot == SubSeq(pool, 1, k)
<1>1. /\ status[i] = "none" /\ status' = [status EXCEPT ![i] = "open"]
      /\ options' = [options EXCEPT ![i] = ballot]
      /\ options \in [RoundId -> Seq(Candidate)] /\ status \in [RoundId -> Statuses]
  BY DEF InsertRound, IInv, TypeOK
<1>2. /\ Once(ballot) /\ Once(Undrawn)
      /\ \A c : Has(ballot, c) => Has(pool, c) /\ ~Has(Undrawn, c)
      /\ \A c : Has(Undrawn, c) => Has(pool, c)
  BY DrawnApart
<1> HIDE DEF ballot
<1>3. /\ Once(pool') /\ \A c : Has(pool', c) => Has(pool, c)
      /\ \A c : Has(ballot, c) => Has(pool, c) /\ ~Has(pool', c)
  BY <1>2, EmptyOnce
<1>4. \A j \in RoundId : status[j] # "open"
  BY NoRoundIsNoId DEF MayStart, IInv, OneOpenRound, OpenRows
<1>5. \A c : Drawn(c)' => Has(ballot, c)
  BY <1>1, <1>4 DEF Drawn
<1>6. ASSUME NEW c \in Candidate \ rechecked  PROVE OneAt(c)'
  <2>1. OneAt(c) /\ gate[c] \in Nat /\ queue[c] \in Nat
    BY DEF Places, IInv, TypeOK
  <2>2. CASE Has(ballot, c)
    BY <1>3, <2>1, <2>2 DEF OneAt, Apart
  <2>3. CASE ~Has(ballot, c)
    BY <1>3, <1>5, <2>1, <2>3, StillApart
  <2>4. QED
    BY <2>2, <2>3
<1>7. \A j \in RoundId : Once(options'[j])
  BY <1>1, <1>2 DEF Places
<1>8. QED
  BY <1>3, <1>6, <1>7 DEF Places

LEMMA PlacesStartRound ==
  ASSUME IInv, Places, NEW i \in RoundId, StartRound(i)
  PROVE  Places'
<1>1. /\ MayStart /\ InsertRound(i, DrawSize) /\ pool' = Undrawn /\ up
      /\ UNCHANGED <<up, gate, queue, rechecked>>
  BY DEF StartRound, MayStart
<1>2. DrawSize \in 0..DrawSize
  BY DrawType, RoundAssumption DEF IInv, TypeOK
<1>3. QED
  BY <1>1, <1>2, Counts, PlacesDraw

LEMMA PlacesCrashInStart ==
  ASSUME IInv, Places, NEW i \in RoundId, NEW k \in 0..MaxOptions, CrashInStart(i, k)
  PROVE  Places'
<1>1. /\ MayStart /\ k < DrawSize /\ InsertRound(i, k) /\ pool' = <<>>
      /\ rechecked' = rechecked
  BY DEF CrashInStart, LoseMemory
<1>2. k \in 0..DrawSize
  BY <1>1, DrawType, RoundAssumption DEF IInv, TypeOK
<1>3. \A c \in Candidate : gate'[c] \in 0..gate[c] /\ queue'[c] \in 0..queue[c] /\ queue'[c] = 0
  BY LostMemory DEF CrashInStart, IInv, TypeOK
<1>4. QED
  BY <1>1, <1>2, <1>3, PlacesDraw

LEMMA PlacesCrash ==
  ASSUME IInv, Places, Crash
  PROVE  Places'
<1>1. pool' = <<>> /\ rechecked' = rechecked /\ UNCHANGED <<status, options>>
  BY DEF Crash, LoseMemory, tables
<1>2. \A c \in Candidate : gate'[c] \in 0..gate[c] /\ queue'[c] \in 0..queue[c] /\ queue'[c] = 0
  BY LostMemory DEF Crash, IInv, TypeOK
<1>3. \A c : Drawn(c)' <=> Drawn(c)
  BY <1>1 DEF Drawn
<1>4. (\A i \in RoundId : Once(options'[i])) /\ Once(pool') /\ \A c : ~Has(pool', c)
  BY <1>1, EmptyOnce DEF Places
<1>5. QED
  BY <1>1, <1>2, <1>3, <1>4, PlacesStay

\* An open row is decided for an option of its own: the winner was drawn and is nowhere
\* else when it is queued, pooled again or asked about again.
LEMMA PlacesDecide ==
  ASSUME IInv, Places, NEW i \in RoundId, status[i] = "open",
         NEW w, NEW t, w \in WinnerChoices(options[i], t), CloseRow(i, w),
         \A j \in RoundId : status[j] = "open" => j = i,
         up', rechecked' = rechecked,
         \/ pool' = pool /\ queue' = queue /\ gate' = gate
         \/ w # 0 /\ pool' = pool /\ gate' = gate /\ queue' = [queue EXCEPT ![options[i][w]] = @ + 1]
         \/ w # 0 /\ pool' = pool /\ queue' = queue /\ gate' = [gate EXCEPT ![options[i][w]] = @ + 1]
         \/ w # 0 /\ queue' = queue /\ gate' = gate /\ pool' = PoolAdd(pool, options[i][w])
  PROVE  Places'
<1> DEFINE c == options[i][w]
<1>1. /\ status' = [status EXCEPT ![i] = "closed"] /\ options' = options
      /\ options[i] \in Seq(Candidate) /\ status \in [RoundId -> Statuses]
      /\ pool \in Seq(Candidate) /\ gate \in [Candidate -> Nat] /\ queue \in [Candidate -> Nat]
  BY DEF CloseRow, IInv, TypeOK
<1>2. \A d : ~Drawn(d)'
  BY <1>1 DEF Drawn
<1>3. w # 0 => c \in Candidate /\ Drawn(c)
  <2>1. w # 0 => w \in DOMAIN options[i]
    BY WinnerIsOption
  <2>2. QED
    BY <1>1, <2>1, ElementOfSeq, LenProperties DEF Drawn, Has
<1> HIDE DEF c
<1>4. /\ Once(pool')
      /\ \A d : Has(pool', d) => Has(pool, d) \/ (w # 0 /\ d = c /\ queue' = queue /\ gate' = gate)
  <2>1. Once(pool)
    BY DEF Places
  <2>2. CASE pool' = pool
    BY <2>1, <2>2
  <2>3. CASE w # 0 /\ queue' = queue /\ gate' = gate /\ pool' = PoolAdd(pool, c)
    BY <1>1, <1>3, <2>1, <2>3, PoolAddOnce
  <2>4. QED
    BY <2>2, <2>3 DEF c
<1>5. /\ \A d \in Candidate : gate'[d] \in {gate[d], gate[d] + 1} /\ queue'[d] \in {queue[d], queue[d] + 1}
      /\ \A d \in Candidate : ~(w # 0 /\ d = c) => gate'[d] = gate[d] /\ queue'[d] = queue[d]
      /\ \A d \in Candidate : \/ gate'[d] = gate[d] /\ queue'[d] = queue[d]
                              \/ gate'[d] = gate[d] /\ pool' = pool
                              \/ queue'[d] = queue[d] /\ pool' = pool
  BY <1>1 DEF c
<1>6. ASSUME NEW d \in Candidate \ rechecked  PROVE OneAt(d)'
  <2>1. OneAt(d) /\ gate[d] \in Nat /\ queue[d] \in Nat
    BY <1>1 DEF Places
  <2>2. CASE w # 0 /\ d = c
    <3>1. gate[d] = 0 /\ queue[d] = 0 /\ ~Has(pool, d)
      BY <1>3, <2>1, <2>2 DEF OneAt, Apart
    <3>2. \/ gate'[d] = 0 /\ queue'[d] = 0
          \/ gate'[d] = 0 /\ queue'[d] = 1 /\ ~Has(pool', d)
          \/ gate'[d] = 1 /\ queue'[d] = 0 /\ ~Has(pool', d)
      BY <1>5, <3>1
    <3>3. QED
      BY <1>2, <3>2 DEF OneAt, Apart
  <2>3. CASE ~(w # 0 /\ d = c)
    BY <1>2, <1>4, <1>5, <2>1, <2>3, StillApart
  <2>4. QED
    BY <2>2, <2>3
<1>7. \A j \in RoundId : Once(options'[j])
  BY <1>1 DEF Places
<1>8. QED
  BY <1>4, <1>6, <1>7 DEF Places

LEMMA PlacesCloseRound ==
  ASSUME IInv, Places, CloseRound
  PROVE  Places'
<1>1. /\ up' /\ rechecked' = rechecked /\ loaded \in RoundId /\ status[loaded] = "open"
      /\ \A j \in RoundId : status[j] = "open" => j = loaded
  BY LoadedIsTheOpenRow DEF CloseRound
<1>2. PICK w \in WinnerChoices(options[loaded], tally), stale \in BOOLEAN :
        CloseRow(loaded, w) /\ Promote(w, stale)
  BY DEF CloseRound, Opts
<1>3. \/ pool' = pool /\ queue' = queue /\ gate' = gate
      \/ w # 0 /\ pool' = pool /\ gate' = gate
           /\ queue' = [queue EXCEPT ![options[loaded][w]] = @ + 1]
      \/ w # 0 /\ pool' = pool /\ queue' = queue
           /\ gate' = [gate EXCEPT ![options[loaded][w]] = @ + 1]
      \/ w # 0 /\ queue' = queue /\ gate' = gate
           /\ pool' = PoolAdd(pool, options[loaded][w])
  BY <1>2 DEF Promote, Promoted, Opts
<1>4. QED
  BY <1>1, <1>2, <1>3, PlacesDecide

\* A discarded round's options go back to the pool.
LEMMA PlacesRecover ==
  ASSUME IInv, Places, NEW a \in RecoveryActions, RecoverRound(a)
  PROVE  Places'
<1>1. up /\ up' = up
  BY DEF RecoverRound
<1>2. CASE loaded # NoRound /\ Discard
  <2>1. /\ pool' = PoolAddAll(pool, options[loaded]) /\ options' = options
        /\ status' = [status EXCEPT ![loaded] = "discarded"]
        /\ UNCHANGED <<gate, queue, rechecked>>
    BY <1>2 DEF Discard, Opts
  <2>2. /\ loaded \in RoundId /\ options[loaded] \in Seq(Candidate) /\ status[loaded] = "open"
        /\ \A j \in RoundId : status[j] = "open" => j = loaded
        /\ pool \in Seq(Candidate) /\ Once(pool) /\ status \in [RoundId -> Statuses]
    BY <1>2, LoadedIsTheOpenRow DEF IInv, TypeOK, Places
  <2>3. \A c : Has(options[loaded], c) => Drawn(c)
    BY <2>2 DEF Drawn
  <2>4. Once(pool') /\ \A c : Has(pool', c) => Has(pool, c) \/ Drawn(c)
    BY <2>1, <2>2, <2>3, PoolAddAllOnce
  <2>5. \A c : ~Drawn(c)'
    BY <2>1, <2>2 DEF Drawn
  <2>6. ASSUME NEW c \in Candidate \ rechecked  PROVE OneAt(c)'
    <3>1. OneAt(c)
      BY DEF Places
    <3>2. QED
      BY <2>1, <2>4, <2>5, <3>1 DEF OneAt, Apart
  <2>7. QED
    BY <1>1, <2>1, <2>4, <2>6 DEF Places
<1>3. CASE ~(loaded # NoRound /\ Discard)
  <2>1. UNCHANGED <<gate, pool, queue, rechecked, status, options>>
    BY <1>3 DEF RecoverRound, Resume, memory, places, tables
  <2>2. \A c : Drawn(c)' <=> Drawn(c)
    BY <2>1 DEF Drawn
  <2>3. Once(pool') /\ (\A i \in RoundId : Once(options'[i])) /\ up'
    BY <1>1, <2>1 DEF Places
  <2>4. QED
    BY <2>1, <2>2, <2>3, Counts, PlacesStay
<1>4. QED
  BY <1>2, <1>3

LEMMA PlacesBoot ==
  ASSUME IInv, Places, Boot
  PROVE  Places'
<1>1. ~up /\ up' /\ rechecked' = rechecked
  BY DEF Boot, BootEmpty, BootFrozen, BootLive, BootExpired, Load, memory, places
<1>2. CASE BootEmpty \/ BootFrozen \/ BootLive
  <2>1. UNCHANGED <<gate, pool, queue, status, options>>
    BY <1>2 DEF BootEmpty, BootFrozen, BootLive, Load, memory, places, tables
  <2>2. \A c : Drawn(c)' <=> Drawn(c)
    BY <2>1 DEF Drawn
  <2>3. Once(pool') /\ (\A i \in RoundId : Once(options'[i]))
    BY <2>1 DEF Places
  <2>4. QED
    BY <1>1, <2>1, <2>2, <2>3, Counts, PlacesStay
<1>3. CASE BootExpired
  <2>1. LatestOpen \in RoundId /\ status[LatestOpen] = "open"
        /\ \A j \in RoundId : status[j] = "open" => j = LatestOpen
    <3>1. OpenRows # {}
      BY <1>3 DEF BootExpired
    <3>2. QED
      BY <3>1, LatestOpenIsTheOpenRow DEF IInv, OpenRows
  <2>2. PICK w \in WinnerChoices(options[LatestOpen], Count(ballots[LatestOpen])), stale \in BOOLEAN :
          /\ CloseRow(LatestOpen, w)
          /\ queue' = IF w # 0 /\ ~stale
                        THEN [queue EXCEPT ![options[LatestOpen][w]] = @ + 1] ELSE queue
          /\ gate' = IF w # 0 /\ stale
                       THEN [gate EXCEPT ![options[LatestOpen][w]] = @ + 1] ELSE gate
    BY <1>3 DEF BootExpired
  <2>3. pool' = pool
    BY <1>3 DEF BootExpired
  <2>4. QED
    BY <1>1, <2>1, <2>2, <2>3, PlacesDecide
<1>4. QED
  BY <1>2, <1>3 DEF Boot

LEMMA NextPlaces == IInv /\ Places /\ [Next]_vars => Places'
<1> SUFFICES ASSUME IInv, Places, [Next]_vars PROVE Places'
  OBVIOUS
<1>1. ASSUME NEW c \in Candidate, Submit(c) \/ GateAnswers(c) \/ Pick(c) \/ TaskLeaves(c)
      PROVE  Places'
  BY <1>1, PlacesSubmit, PlacesGateAnswers, PlacesPick, PlacesTaskLeaves
<1>2. CASE \/ \E to \in Modes : OtherTransition(to)
           \/ Tick
           \/ \E v \in Voter, o \in 1..MaxOptions : RecordVote(v, o)
           \/ Halt
           \/ UNCHANGED vars
  <2>1. UNCHANGED <<up, gate, pool, queue, rechecked, status, options>>
    BY <1>2 DEF OtherTransition, Tick, RecordVote, Halt, vars, memory, places, tables
  <2>2. \A c : Drawn(c)' <=> Drawn(c)
    BY <2>1 DEF Drawn
  <2>3. /\ Once(pool') /\ (\A i \in RoundId : Once(options'[i]))
        /\ ~up' => pool' = <<>> /\ \A c \in Candidate : queue'[c] = 0
    BY <2>1 DEF Places
  <2>4. QED
    BY <2>1, <2>2, <2>3, Counts, PlacesStay
<1>3. CASE \E i \in RoundId : StartRound(i)
  BY <1>3, PlacesStartRound
<1>4. CASE TimerFires
  BY <1>4, PlacesCloseRound DEF TimerFires
<1>5. CASE \E a \in RecoveryActions : RecoverRound(a)
  BY <1>5, PlacesRecover
<1>6. CASE Crash
  BY <1>6, PlacesCrash
<1>7. CASE \E i \in RoundId, k \in 0..MaxOptions : CrashInStart(i, k)
  BY <1>7, PlacesCrashInStart
<1>8. CASE Boot
  BY <1>8, PlacesBoot
<1>9. QED
  BY <1>1, <1>2, <1>3, <1>4, <1>5, <1>6, <1>7, <1>8 DEF Next

\* However the pool overflows, rounds are discarded and the process dies, the pool holds a
\* suggestion once, and one that was never asked about again while pooled is at the gate,
\* or in the pool, or on the ballot, or waits to be built, and never in two of these.
THEOREM NoSuggestionIsTwice == Spec => []NoSuggestionTwice
<1>1. IInv /\ Places => NoSuggestionTwice
  BY PlacesAreOnce
<1>2. QED
  BY <1>1, PlacesInit, NextPlaces, Invariance, PTL DEF Spec

-------------------------------------------------------------------------------
(***************************************************************************)
(* A halt costs the round no voting time                                   *)
(***************************************************************************)

KeepsRemainder(i) ==
  frozenLeft[i] # NotFrozen =>
    \/ frozenLeft'[i] = frozenLeft[i] /\ status'[i] = "open"
    \/ frozenLeft'[i] = NotFrozen /\ (status'[i] = "open" => left'[i] = frozenLeft[i])

LEMMA NextKeepsRemainder ==
  ASSUME IInv, Next, NEW i \in RoundId, frozenLeft[i] # NotFrozen
  PROVE  KeepsRemainder(i)
<1>0. status[i] = "open" /\ (loaded # NoRound => i = loaded)
  BY LoadedIsTheOpenRow DEF IInv, RowsFitStatus
<1>1. CASE UNCHANGED <<status, frozenLeft>>
  BY <1>0, <1>1 DEF KeepsRemainder
<1>2. ASSUME NEW j \in RoundId, NEW k, InsertRound(j, k)
      PROVE  KeepsRemainder(i)
  <2>1. j # i /\ status' = [status EXCEPT ![j] = "open"] /\ UNCHANGED frozenLeft
    BY <1>0, <1>2 DEF InsertRound
  <2>2. status'[i] = "open"
    BY <1>0, <2>1 DEF IInv, TypeOK
  <2>3. QED
    BY <2>1, <2>2 DEF KeepsRemainder
<1>3. CASE TimerFires
  BY <1>0, <1>3 DEF TimerFires, CloseRound, IInv, HaltFreezesRound
<1>4. CASE Halt
  <2>1. loaded # NoRound => frozen
    BY <1>0 DEF IInv, HaltFreezesRound
  <2>2. QED
    BY <1>1, <1>4, <2>1 DEF Halt
<1>5. ASSUME NEW a \in RecoveryActions, RecoverRound(a)
      PROVE  KeepsRemainder(i)
  <2>1. CASE loaded # NoRound /\ Resume
    <3>1. /\ left' = [left EXCEPT ![i] = frozenLeft[i]]
          /\ frozenLeft' = [frozenLeft EXCEPT ![i] = NotFrozen]
      BY <1>0, <2>1 DEF Resume
    <3>2. left'[i] = frozenLeft[i] /\ frozenLeft'[i] = NotFrozen
      BY <3>1 DEF IInv, TypeOK
    <3>3. QED
      BY <3>2 DEF KeepsRemainder
  <2>2. CASE loaded # NoRound /\ Discard
    <3>1. /\ status' = [status EXCEPT ![i] = "discarded"]
          /\ frozenLeft' = [frozenLeft EXCEPT ![i] = NotFrozen]
      BY <1>0, <2>2 DEF Discard
    <3>2. status'[i] = "discarded" /\ frozenLeft'[i] = NotFrozen
      BY <3>1 DEF IInv, TypeOK
    <3>3. QED
      BY <3>2 DEF KeepsRemainder
  <2>3. CASE UNCHANGED <<memory, tables>>
    BY <1>1, <2>3 DEF tables
  <2>4. QED
    BY <1>5, <2>1, <2>2, <2>3 DEF RecoverRound
<1>6. CASE Boot
  <2>1. OpenRows # {} => LatestOpen = i
    BY <1>0, LatestOpenIsTheOpenRow DEF IInv, OpenRows
  <2>2. CASE BootEmpty \/ BootFrozen \/ BootLive
    BY <1>1, <2>2 DEF BootEmpty, BootFrozen, BootLive, Load, tables
  <2>3. ~BootExpired
    BY <2>1 DEF BootExpired
  <2>4. QED
    BY <1>6, <2>2, <2>3 DEF Boot
<1>7. CASE \E c \in Candidate : Submit(c) \/ GateAnswers(c) \/ Pick(c) \/ TaskLeaves(c)
  BY <1>1, <1>7 DEF Submit, GateAnswers, Pick, TaskLeaves, tables
<1>8. CASE (\E to \in Modes : OtherTransition(to)) \/ Tick \/ Crash
  BY <1>1, <1>8 DEF OtherTransition, Tick, Crash, tables
<1>9. CASE \E v \in Voter, o \in 1..MaxOptions : RecordVote(v, o)
  BY <1>1, <1>9 DEF RecordVote
<1>10. CASE \E j \in RoundId : StartRound(j) \/ \E k \in 0..MaxOptions : CrashInStart(j, k)
  BY <1>2, <1>10 DEF StartRound, CrashInStart
<1>11. QED
  BY <1>3, <1>4, <1>5, <1>6, <1>7, <1>8, <1>9, <1>10 DEF Next

\* The remainder persisted at a halt is kept until it is handed back in full.
THEOREM NoVotingTimeLost == Spec => HaltCostsNoVotingTime
<1>1. IInv /\ [Next]_vars =>
        [\A i \in RoundId : frozenLeft[i] # NotFrozen =>
           \/ frozenLeft'[i] = frozenLeft[i] /\ status'[i] = "open"
           \/ frozenLeft'[i] = NotFrozen /\ (status'[i] = "open" => left'[i] = frozenLeft[i])]_vars
  BY NextKeepsRemainder DEF KeepsRemainder
<1>2. QED
  BY <1>1, Invariance, PTL DEF Spec, HaltCostsNoVotingTime

-------------------------------------------------------------------------------
(***************************************************************************)
(* The round implements the public ballot                                  *)
(***************************************************************************)

\* A step that touches one row changes the phase of one ballot.
LEMMA PhaseChange ==
  ASSUME NEW i \in RoundId,
         \A j \in RoundId : j # i => status'[j] = status[j] /\ frozenLeft'[j] = frozenLeft[j]
  PROVE  BallotPhase' = [BallotPhase EXCEPT ![i] = PhaseOf(status'[i], frozenLeft'[i])]
BY DEF BallotPhase

LEMMA PhaseReads ==
  ASSUME NEW i \in RoundId
  PROVE  BallotPhase[i] = PhaseOf(status[i], frozenLeft[i])
BY DEF BallotPhase

\* What one row has to go through for its ballot to be opened, paused and so on.
LEMMA BallotOpens ==
  ASSUME IInv, NEW i \in RoundId, status[i] = "none", OpenRows = {},
         NEW s \in Seq(Candidate),
         status' = [status EXCEPT ![i] = "open"], options' = [options EXCEPT ![i] = s],
         UNCHANGED <<frozenLeft, ballots, winner>>
  PROVE  Ballot!Open(i)
<1>1. frozenLeft[i] = NotFrozen /\ status'[i] = "open"
  BY DEF IInv, TypeOK, RowsFitStatus
<1>2. BallotPhase' = [BallotPhase EXCEPT ![i] = "open"] /\ BallotPhase[i] = "none"
  <2>1. \A j \in RoundId : j # i => status'[j] = status[j] /\ frozenLeft'[j] = frozenLeft[j]
    BY DEF IInv, TypeOK
  <2>2. PhaseOf(status'[i], frozenLeft'[i]) = "open" /\ PhaseOf(status[i], frozenLeft[i]) = "none"
    BY <1>1 DEF PhaseOf
  <2>3. QED
    BY <2>1, <2>2, PhaseChange, PhaseReads
<1>3. ASSUME NEW j \in RoundId
      PROVE  BallotPhase[j] \notin {"open", "paused"}
  <2>1. status[j] \in {"none", "closed", "discarded"}
    BY DEF OpenRows, IInv, TypeOK, Statuses
  <2>2. QED
    BY <2>1, PhaseReads DEF PhaseOf
<1>4. options'[i] = s /\ options' = [options EXCEPT ![i] = options'[i]]
  BY DEF IInv, TypeOK
<1>5. QED
  BY <1>2, <1>3, <1>4 DEF Ballot!Open

\* Closing an open row decides its ballot among the winners of the votes on record.
LEMMA BallotIsDecided ==
  ASSUME IInv, NEW i \in RoundId, status[i] = "open", frozenLeft[i] = NotFrozen,
         NEW w \in WinnerChoices(options[i], Count(ballots[i])), CloseRow(i, w)
  PROVE  Ballot!Decide(i)
<1>1. /\ options[i] \in Seq(Candidate) /\ Len(options[i]) <= MaxOptions
      /\ ballots[i] \in [Voter -> 0..MaxOptions] /\ DOMAIN options[i] \subseteq 1..MaxOptions
  <2>1. /\ options[i] \in Seq(Candidate) /\ Len(options[i]) <= MaxOptions
        /\ ballots[i] \in [Voter -> 0..MaxOptions]
    BY DEF IInv, TypeOK
  <2>2. QED
    BY <2>1, LenProperties, RoundAssumption
<1>2. BallotPhase' = [BallotPhase EXCEPT ![i] = "decided"] /\ BallotPhase[i] = "open"
  <2>1. /\ status'[i] = "closed"
        /\ \A j \in RoundId : j # i => status'[j] = status[j] /\ frozenLeft'[j] = frozenLeft[j]
    BY DEF CloseRow, IInv, TypeOK
  <2>2. PhaseOf(status'[i], frozenLeft'[i]) = "decided" /\ PhaseOf(status[i], frozenLeft[i]) = "open"
    BY <2>1 DEF PhaseOf
  <2>3. QED
    BY <2>1, <2>2, PhaseChange, PhaseReads
<1>3. winner' = [winner EXCEPT ![i] = w] /\ UNCHANGED <<options, ballots>>
  BY DEF CloseRow
<1>4. CASE options[i] = <<>>
  <2>1. w = 0
    BY <1>4, EmptySeq DEF WinnerChoices
  <2>2. winner[i] = 0
    BY DEF IInv, RowsFitStatus
  <2>3. UNCHANGED winner
    BY <1>3, <2>1, <2>2 DEF IInv, TypeOK
  <2>4. QED
    BY <1>2, <1>3, <1>4, <2>3 DEF Ballot!Decide
<1>5. CASE options[i] # <<>>
  <2>1. /\ w \in DOMAIN options[i]
        /\ \A p \in DOMAIN options[i] :
             /\ Count(ballots[i])[p] <= Count(ballots[i])[w]
             /\ ballots[i] = NoVotes =>
                  SubmittedAt[options[i][w]] <= SubmittedAt[options[i][p]]
    BY <1>1, <1>5, WinnerSound
  <2>2. \A p \in DOMAIN options[i] : Count(ballots[i])[p] = Ballot!Support(ballots[i], p)
    BY <1>1 DEF Count, Ballot!Support, Cardinality, Ballot!Cardinality
  <2>3. (\A v \in Voter : ballots[i][v] = 0) => ballots[i] = NoVotes
    BY <1>1 DEF NoVotes
  <2>4. w \in Ballot!Winners(options[i], ballots[i])
    BY <2>1, <2>2, <2>3 DEF Ballot!Winners
  <2>5. QED
    BY <1>2, <1>3, <1>5, <2>4 DEF Ballot!Decide
<1>6. QED
  BY <1>4, <1>5

\* Initial states are initial ballots.
LEMMA BallotInit == Init => Ballot!Init
<1> SUFFICES ASSUME Init PROVE Ballot!Init
  OBVIOUS
<1>1. \A i \in RoundId : PhaseOf(status[i], frozenLeft[i]) = "none"
  BY DEF Init, PhaseOf
<1>2. BallotPhase = [i \in RoundId |-> "none"]
  BY <1>1 DEF BallotPhase
<1>3. QED
  BY <1>2 DEF Init, Ballot!Init, NoVotes

\* A step that leaves the tables' phases, options, votes and winners is not seen.
LEMMA BallotStutters ==
  ASSUME UNCHANGED <<status, options, frozenLeft, winner, ballots>>
  PROVE  UNCHANGED Ballot!vars
BY DEF Ballot!vars, BallotPhase

\* A vote replaces the voter's previous one on an open ballot.
LEMMA BallotIsCast ==
  ASSUME IInv, NEW v \in Voter, NEW o \in 1..MaxOptions, RecordVote(v, o)
  PROVE  loaded \in RoundId /\ Ballot!Cast(loaded, v)
<1>1. /\ loaded \in RoundId /\ status[loaded] = "open" /\ frozenLeft[loaded] = NotFrozen
      /\ o \in DOMAIN options[loaded]
      /\ ballots' = [ballots EXCEPT ![loaded] = [ballots[loaded] EXCEPT ![v] = o]]
      /\ UNCHANGED <<status, options, frozenLeft, winner>>
  BY LoadedIsTheOpenRow DEF RecordVote, VoteCounts, Opts, IInv, HaltFreezesRound
<1>2. BallotPhase[loaded] = "open" /\ BallotPhase' = BallotPhase
  BY <1>1 DEF BallotPhase, PhaseOf
<1>3. QED
  BY <1>1, <1>2 DEF Ballot!Cast

\* A halt pauses the ballot of a live round.
LEMMA BallotIsPaused ==
  ASSUME IInv, Halt, loaded # NoRound, ~frozen
  PROVE  loaded \in RoundId /\ Ballot!Pause(loaded)
<1>1. /\ loaded \in RoundId /\ status[loaded] = "open" /\ frozenLeft[loaded] = NotFrozen
      /\ left[loaded] # NotFrozen
      /\ frozenLeft' = [frozenLeft EXCEPT ![loaded] = left[loaded]]
      /\ UNCHANGED <<status, options, ballots, winner>>
  BY LoadedIsTheOpenRow, RoundAssumption DEF Halt, Freeze, IInv, TypeOK, HaltFreezesRound,
     NotFrozen
<1>2. /\ frozenLeft'[loaded] # NotFrozen
      /\ \A j \in RoundId : j # loaded => status'[j] = status[j] /\ frozenLeft'[j] = frozenLeft[j]
  BY <1>1 DEF IInv, TypeOK
<1>3. PhaseOf(status[loaded], frozenLeft[loaded]) = "open"
      /\ PhaseOf(status'[loaded], frozenLeft'[loaded]) = "paused"
  BY <1>1, <1>2 DEF PhaseOf
<1>4. QED
  BY <1>1, <1>2, <1>3, PhaseChange, PhaseReads DEF Ballot!Pause

\* A recovery unpauses it, drops it, or does not touch it.
LEMMA BallotIsRecovered ==
  ASSUME IInv, NEW a \in RecoveryActions, RecoverRound(a)
  PROVE  \/ \E i \in RoundId : Ballot!Unpause(i) \/ Ballot!Drop(i)
         \/ UNCHANGED Ballot!vars
<1>1. \/ loaded # NoRound /\ frozen /\ Resume
      \/ loaded # NoRound /\ frozen /\ Discard
      \/ UNCHANGED <<memory, tables>>
  BY DEF RecoverRound
<1>2. CASE UNCHANGED <<memory, tables>>
  BY <1>2, BallotStutters DEF tables
<1>3. CASE loaded # NoRound /\ frozen /\ (Resume \/ Discard)
  <2>1. /\ loaded \in RoundId /\ status[loaded] = "open" /\ frozenLeft[loaded] # NotFrozen
        /\ frozenLeft' = [frozenLeft EXCEPT ![loaded] = NotFrozen]
        /\ UNCHANGED <<options, ballots, winner>>
        /\ status' = status \/ status' = [status EXCEPT ![loaded] = "discarded"]
    BY <1>3, LoadedIsTheOpenRow DEF Resume, Discard, IInv, HaltFreezesRound
  <2>2. /\ frozenLeft'[loaded] = NotFrozen /\ status'[loaded] \in {"open", "discarded"}
        /\ \A j \in RoundId : j # loaded => status'[j] = status[j] /\ frozenLeft'[j] = frozenLeft[j]
    BY <2>1 DEF IInv, TypeOK
  <2>3. PhaseOf(status[loaded], frozenLeft[loaded]) = "paused"
        /\ PhaseOf(status'[loaded], frozenLeft'[loaded]) \in {"open", "dropped"}
    BY <2>1, <2>2 DEF PhaseOf
  <2>4. BallotPhase' = [BallotPhase EXCEPT ![loaded] = PhaseOf(status'[loaded], frozenLeft'[loaded])]
        /\ BallotPhase[loaded] = "paused"
    BY <2>1, <2>2, <2>3, PhaseChange, PhaseReads
  <2>5. Ballot!Unpause(loaded) \/ Ballot!Drop(loaded)
    BY <2>1, <2>3, <2>4 DEF Ballot!Unpause, Ballot!Drop
  <2>6. QED
    BY <2>1, <2>5
<1>4. QED
  BY <1>1, <1>2, <1>3

LEMMA BallotNext ==
  ASSUME IInv, [Next]_vars
  PROVE  [Ballot!Next]_(Ballot!vars)
<1>1. CASE UNCHANGED <<status, options, frozenLeft, winner, ballots>>
  BY <1>1, BallotStutters
<1>2. CASE \E c \in Candidate : Submit(c) \/ GateAnswers(c) \/ Pick(c) \/ TaskLeaves(c)
  BY <1>1, <1>2 DEF Submit, GateAnswers, Pick, TaskLeaves, tables
<1>3. CASE (\E to \in Modes : OtherTransition(to)) \/ Tick \/ Crash \/ UNCHANGED vars
  BY <1>1, <1>3 DEF OtherTransition, Tick, Crash, tables, vars
<1>4. ASSUME NEW i \in RoundId, StartRound(i) \/ \E k \in 0..MaxOptions : CrashInStart(i, k)
      PROVE  Ballot!Open(i)
  <2>1. up /\ loaded = NoRound /\ DrawSize \in 0..MaxOptions
        /\ \A k \in 0..DrawSize : SubSeq(pool, 1, k) \in Seq(Candidate)
    BY <1>4, DrawType DEF StartRound, CrashInStart, MayStart, IInv, TypeOK
  <2>2. PICK k \in 0..DrawSize : InsertRound(i, k)
    <3>1. DrawSize \in 0..DrawSize /\ \A k \in 0..MaxOptions : k < DrawSize => k \in 0..DrawSize
      BY <2>1, RoundAssumption
    <3>2. InsertRound(i, DrawSize) \/ \E k \in 0..MaxOptions : k < DrawSize /\ InsertRound(i, k)
      BY <1>4 DEF StartRound, CrashInStart
    <3>3. QED
      BY <3>1, <3>2
  <2>3. OpenRows = {}
    BY <2>1, NoRoundIsNoId DEF IInv, OneOpenRound, OpenRows
  <2>4. /\ status[i] = "none" /\ status' = [status EXCEPT ![i] = "open"]
        /\ options' = [options EXCEPT ![i] = SubSeq(pool, 1, k)]
        /\ UNCHANGED <<frozenLeft, ballots, winner>>
    BY <2>2 DEF InsertRound
  <2>5. QED
    BY <2>1, <2>3, <2>4, BallotOpens
<1>5. CASE \E v \in Voter, o \in 1..MaxOptions : RecordVote(v, o)
  BY <1>5, BallotIsCast DEF Ballot!Next
<1>6. CASE TimerFires
  <2>1. /\ loaded \in RoundId /\ status[loaded] = "open" /\ frozenLeft[loaded] = NotFrozen
        /\ tally = Count(ballots[loaded])
    BY <1>6, LoadedIsTheOpenRow
       DEF TimerFires, CloseRound, IInv, HaltFreezesRound, TallyMatchesLedger
  <2>2. \E w \in WinnerChoices(options[loaded], Count(ballots[loaded])) : CloseRow(loaded, w)
    BY <1>6, <2>1 DEF TimerFires, CloseRound, Opts
  <2>3. Ballot!Decide(loaded)
    BY <2>1, <2>2, BallotIsDecided
  <2>4. QED
    BY <2>1, <2>3 DEF Ballot!Next
<1>7. CASE Halt
  <2>1. CASE loaded # NoRound /\ ~frozen
    BY <1>7, <2>1, BallotIsPaused DEF Ballot!Next
  <2>2. CASE ~(loaded # NoRound /\ ~frozen)
    BY <1>1, <1>7, <2>2 DEF Halt
  <2>3. QED
    BY <2>1, <2>2
<1>8. CASE \E a \in RecoveryActions : RecoverRound(a)
  BY <1>8, BallotIsRecovered DEF Ballot!Next
<1>9. CASE BootEmpty \/ BootFrozen \/ BootLive
  BY <1>1, <1>9 DEF BootEmpty, BootFrozen, BootLive, Load, tables
<1>10. CASE BootExpired
  <2>1. LatestOpen \in RoundId /\ status[LatestOpen] = "open" /\ frozenLeft[LatestOpen] = NotFrozen
    BY <1>10, LatestOpenIsTheOpenRow DEF BootExpired, IInv, OpenRows
  <2>2. \E w \in WinnerChoices(options[LatestOpen], Count(ballots[LatestOpen])) : CloseRow(LatestOpen, w)
    BY <1>10 DEF BootExpired
  <2>3. Ballot!Decide(LatestOpen)
    BY <2>1, <2>2, BallotIsDecided
  <2>4. QED
    BY <2>1, <2>3 DEF Ballot!Next
<1>11. QED
  BY <1>2, <1>3, <1>4, <1>5, <1>6, <1>7, <1>8, <1>9, <1>10 DEF Next, Boot, Ballot!Next

\* Crashes, restarts, halts and recoveries included, viewers see a public ballot.
THEOREM RoundIsPublicBallot == Spec => ImplementsPublicBallot
<1>1. Init => Ballot!Init
  BY BallotInit
<1>2. IInv /\ [Next]_vars => [Ballot!Next]_(Ballot!vars)
  BY BallotNext
<1>3. QED
  BY <1>1, <1>2, Invariance, PTL DEF Spec, ImplementsPublicBallot, Ballot!Spec
===============================================================================

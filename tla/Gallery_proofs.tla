---------------------------- MODULE Gallery_proofs ----------------------------
(***************************************************************************)
(* What holds of the workspace pointer and the publisher for every number  *)
(* of files, projects, winners, faults and calls.                          *)
(***************************************************************************)
EXTENDS Gallery, SequenceTheorems, FiniteSetTheorems, FunctionTheorems, TLAPS

-------------------------------------------------------------------------------
(***************************************************************************)
(* The inductive invariant                                                 *)
(***************************************************************************)

\* The calls that will begin a new project.
Ships(c) == {i \in DOMAIN c : c[i].kind = "ship"}

RoomKept == top + Cardinality(Ships(chain)) <= MaxGeneration

\* Nothing names a project that was never begun.
Below ==
    /\ \A g \in repo : g <= top
    /\ \A i \in DOMAIN chain : chain[i].gen <= top

\* While the project on stage has no build, no call that could bind it to a repo waits.
Built ==
    ~scaffolded =>
        /\ generation \notin repo
        /\ \A i \in DOMAIN chain : chain[i].kind # "revert" => chain[i].gen # generation

Published == \A g \in Generations : g \notin repo => remote[g] = <<>>

\* What the running call has found out still holds: nobody else binds a repo.
Stands ==
    /\ at \in {"create", "init"} => Head(chain).kind # "revert" /\ Gen \notin repo
    /\ at = "init" => Gen \in created
    /\ at \notin {"start", "create", "init"} => Gen \in repo

\* The show's half: the pointer, the calls, the stage and the links.
ShowHalf == /\ PointerType /\ ChainType /\ LinksType /\ StageType
            /\ RoomKept /\ Below /\ Built /\ NoLinkUnderBuild

\* The publisher's half: files, mirrors and repos.
RepoHalf == FilesType /\ ReposType /\ Published /\ MirrorExtendsRemote

IInv == ShowHalf /\ RepoHalf /\ Stands /\ CountsType

-------------------------------------------------------------------------------
(***************************************************************************)
(* Sequences and the room for new projects                                 *)
(***************************************************************************)

\* A sequence with one element more.
LEMMA AppendFacts ==
  ASSUME NEW S, NEW s \in Seq(S), NEW e \in S
  PROVE  /\ Append(s, e) \in Seq(S) /\ Append(s, e) # <<>>
         /\ Len(s) \in Nat /\ DOMAIN s = 1..Len(s)
         /\ DOMAIN Append(s, e) = (DOMAIN s) \cup {Len(s) + 1}
         /\ Len(s) + 1 \notin DOMAIN s
         /\ \A i \in DOMAIN s : Append(s, e)[i] = s[i]
         /\ Append(s, e)[Len(s) + 1] = e
<1>1. /\ Append(s, e) \in Seq(S) /\ Len(Append(s, e)) = Len(s) + 1
      /\ \A i \in 1..Len(s) : Append(s, e)[i] = s[i]
      /\ Append(s, e)[Len(s) + 1] = e
  BY AppendProperties
<1>2. Len(s) \in Nat /\ DOMAIN s = 1..Len(s)
      /\ DOMAIN Append(s, e) = 1..Len(Append(s, e))
  BY <1>1, LenProperties
<1>3. 1..(Len(s) + 1) = (1..Len(s)) \cup {Len(s) + 1} /\ Len(s) + 1 \notin 1..Len(s)
  BY <1>2
<1>4. Append(s, e) # <<>>
  BY <1>1, <1>2, EmptySeq
<1>5. QED
  BY <1>1, <1>2, <1>3, <1>4

\* The running call is the first one; the others move up.
LEMMA TailFacts ==
  ASSUME NEW S, NEW s \in Seq(S), s # <<>>
  PROVE  /\ Head(s) = s[1] /\ 1 \in DOMAIN s /\ Tail(s) \in Seq(S)
         /\ Len(s) \in Nat /\ DOMAIN s = 1..Len(s) /\ DOMAIN Tail(s) = 1..(Len(s) - 1)
         /\ \A i \in DOMAIN Tail(s) : i + 1 \in DOMAIN s /\ Tail(s)[i] = s[i + 1]
<1>1. /\ Head(s) = s[1] /\ Tail(s) \in Seq(S) /\ Len(Tail(s)) = Len(s) - 1
      /\ \A i \in 1..Len(Tail(s)) : Tail(s)[i] = s[i + 1]
  BY HeadTailProperties
<1>2. Len(s) \in Nat /\ DOMAIN s = 1..Len(s) /\ DOMAIN Tail(s) = 1..Len(Tail(s))
  BY <1>1, LenProperties
<1>3. Len(s) # 0
  BY EmptySeq
<1>4. QED
  BY <1>1, <1>2, <1>3

\* A commit only adds to a history.
LEMMA PrefixAppend ==
  ASSUME NEW S, NEW s \in Seq(S), NEW u \in Seq(S), NEW e \in S, IsPrefix(s, u)
  PROVE  IsPrefix(s, Append(u, e))
  BY AppendProperties, SubSeqProperties DEF IsPrefix

LEMMA PrefixSelf ==
  ASSUME NEW S, NEW s \in Seq(S)
  PROVE  IsPrefix(s, s) /\ IsPrefix(<<>>, s)
  BY SubSeqProperties, EmptySeq, LenProperties DEF IsPrefix

LEMMA ShipsFinite ==
  ASSUME NEW c \in Seq(Jobs)
  PROVE  IsFiniteSet(Ships(c)) /\ Cardinality(Ships(c)) \in Nat
<1>1. Len(c) \in Nat /\ DOMAIN c = 1..Len(c)
  BY LenProperties
<1>2. IsFiniteSet(1..Len(c))
  BY <1>1, FS_Interval
<1>3. Ships(c) \in SUBSET (1..Len(c))
  BY <1>1 DEF Ships
<1>4. IsFiniteSet(Ships(c))
  BY <1>2, <1>3, FS_Subset
<1>5. QED
  BY <1>4, FS_CardinalityType

LEMMA ShipsAppend ==
  ASSUME NEW c \in Seq(Jobs), NEW j \in Jobs
  PROVE  Cardinality(Ships(Append(c, j))) =
             Cardinality(Ships(c)) + (IF j.kind = "ship" THEN 1 ELSE 0)
<1> DEFINE n == Len(c) + 1
<1>1. /\ DOMAIN Append(c, j) = (DOMAIN c) \cup {n} /\ n \notin DOMAIN c
      /\ \A i \in DOMAIN c : Append(c, j)[i] = c[i]
      /\ Append(c, j)[n] = j
  BY AppendFacts
<1>2. IsFiniteSet(Ships(c)) /\ Cardinality(Ships(c)) \in Nat
  BY ShipsFinite
<1> HIDE DEF n
<1>3. CASE j.kind = "ship"
  <2>1. Ships(Append(c, j)) = Ships(c) \cup {n} /\ n \notin Ships(c)
    BY <1>1, <1>3 DEF Ships
  <2>2. QED
    BY <2>1, <1>2, <1>3, FS_AddElement
<1>4. CASE j.kind # "ship"
  <2>1. Ships(Append(c, j)) = Ships(c)
    BY <1>1, <1>4 DEF Ships
  <2>2. QED
    BY <2>1, <1>2, <1>4
<1>5. QED
  BY <1>3, <1>4

LEMMA ShipsTail ==
  ASSUME NEW c \in Seq(Jobs), c # <<>>
  PROVE  Cardinality(Ships(c)) =
             Cardinality(Ships(Tail(c))) + (IF Head(c).kind = "ship" THEN 1 ELSE 0)
<1> DEFINE T == Ships(Tail(c))
           R == Ships(c) \ {1}
           f == [i \in T |-> i + 1]
<1>1. /\ Head(c) = c[1] /\ 1 \in DOMAIN c /\ Tail(c) \in Seq(Jobs)
      /\ Len(c) \in Nat /\ DOMAIN c = 1..Len(c) /\ DOMAIN Tail(c) = 1..(Len(c) - 1)
      /\ \A i \in DOMAIN Tail(c) : i + 1 \in DOMAIN c /\ Tail(c)[i] = c[i + 1]
  BY TailFacts
<1>2. /\ IsFiniteSet(Ships(c)) /\ Cardinality(Ships(c)) \in Nat
      /\ IsFiniteSet(T) /\ Cardinality(T) \in Nat
  BY <1>1, ShipsFinite
<1>3. f \in Bijection(T, R)
  <2>1. \A i \in T : i \in Nat /\ i >= 1 /\ i + 1 \in R
    BY <1>1 DEF Ships
  <2>2. f \in [T -> R]
    BY <2>1
  <2>3. \A i, k \in T : f[i] = f[k] => i = k
    BY <2>1
  <2>4. \A k \in R : \E i \in T : f[i] = k
    <3> TAKE k \in R
    <3>1. k \in 2..Len(c) /\ c[k].kind = "ship"
      BY <1>1 DEF Ships
    <3>2. k - 1 \in 1..(Len(c) - 1) /\ (k - 1) + 1 = k
      BY <3>1, <1>1
    <3>3. k - 1 \in T
      BY <3>1, <3>2, <1>1 DEF Ships
    <3>4. f[k - 1] = k
      BY <3>2, <3>3
    <3>5. QED
      BY <3>3, <3>4
  <2>5. QED
    BY <2>2, <2>3, <2>4, Fun_IsBij
<1>4. Cardinality(R) = Cardinality(T)
  BY <1>2, <1>3, FS_Bijection DEF ExistsBijection
<1>5. Cardinality(R) = IF 1 \in Ships(c) THEN Cardinality(Ships(c)) - 1 ELSE Cardinality(Ships(c))
  BY <1>2, FS_RemoveElement
<1>6. 1 \in Ships(c) <=> Head(c).kind = "ship"
  BY <1>1 DEF Ships
<1> HIDE DEF R, f
<1>7. QED
  BY <1>2, <1>4, <1>5, <1>6

-------------------------------------------------------------------------------
(***************************************************************************)
(* The show's half                                                         *)
(***************************************************************************)

LEMMA Bounds ==
  ASSUME IInv
  PROVE  /\ MaxGeneration \in Nat /\ MaxWinners \in Nat /\ MaxFaults \in Nat
         /\ generation \in Nat /\ top \in Nat /\ 1 <= generation /\ 1 <= top
         /\ generation <= top /\ top <= MaxGeneration
         /\ \A g \in Generations : g \in Nat
         /\ 0 \notin Generations
  BY GalleryAssumption DEF GalleryAssumption, IInv, ShowHalf, PointerType, Generations

\* The running call ends: what is left was there before, and its room is free.
LEMMA CallLeaves ==
  ASSUME IInv, chain # <<>>, chain' = Tail(chain), at' = "start"
  PROVE  /\ ChainType' /\ Head(chain) \in Jobs /\ Head(chain) = chain[1] /\ 1 \in DOMAIN chain
         /\ \A i \in DOMAIN chain' : \E k \in DOMAIN chain : chain'[i] = chain[k]
         /\ Cardinality(Ships(chain')) \in Nat
         /\ Cardinality(Ships(chain)) =
                Cardinality(Ships(chain')) + (IF Head(chain).kind = "ship" THEN 1 ELSE 0)
<1>1. chain \in Seq(Jobs)
  BY DEF IInv, ShowHalf, ChainType
<1>2. /\ Head(chain) = chain[1] /\ 1 \in DOMAIN chain /\ Tail(chain) \in Seq(Jobs)
      /\ \A i \in DOMAIN Tail(chain) : i + 1 \in DOMAIN chain /\ Tail(chain)[i] = chain[i + 1]
  BY <1>1, TailFacts
<1>3. Head(chain) \in Jobs
  BY <1>1, HeadTailProperties
<1>4. ChainType'
  BY <1>2 DEF ChainType, Steps
<1>5. \A i \in DOMAIN chain' : \E k \in DOMAIN chain : chain'[i] = chain[k]
  BY <1>2
<1>6. Cardinality(Ships(chain')) \in Nat
  BY <1>2, ShipsFinite
<1>7. Cardinality(Ships(chain)) =
          Cardinality(Ships(chain')) + (IF Head(chain).kind = "ship" THEN 1 ELSE 0)
  BY <1>1, ShipsTail
<1>8. QED
  BY <1>2, <1>3, <1>4, <1>5, <1>6, <1>7

\* A call enters the chain behind the others.
LEMMA CallEnters ==
  ASSUME IInv, NEW kind \in Kinds, NEW target \in {0} \cup Generations,
         Call(kind, target), at' = at
  PROVE  /\ ChainType'
         /\ \A i \in DOMAIN chain' :
               \/ \E k \in DOMAIN chain : chain'[i] = chain[k]
               \/ chain'[i].kind = kind /\ chain'[i].gen = generation
         /\ Cardinality(Ships(chain)) \in Nat
         /\ Cardinality(Ships(chain')) =
                Cardinality(Ships(chain)) + (IF kind = "ship" THEN 1 ELSE 0)
         /\ chain # <<>> => Head(chain') = Head(chain)
<1> DEFINE j == [kind |-> kind, gen |-> generation, target |-> target]
<1>1. chain \in Seq(Jobs) /\ at \in Steps /\ (chain = <<>> => at = "start")
  BY DEF IInv, ShowHalf, ChainType
<1>2. j \in Jobs /\ j.kind = kind /\ j.gen = generation
  BY DEF Jobs, IInv, ShowHalf, PointerType
<1>3. chain' = Append(chain, j)
  BY DEF Call
<1> HIDE DEF j
<1>4. /\ Append(chain, j) \in Seq(Jobs) /\ Append(chain, j) # <<>>
      /\ DOMAIN Append(chain, j) = (DOMAIN chain) \cup {Len(chain) + 1}
      /\ \A i \in DOMAIN chain : Append(chain, j)[i] = chain[i]
      /\ Append(chain, j)[Len(chain) + 1] = j
  BY <1>1, <1>2, AppendFacts
<1>5. ChainType'
  BY <1>1, <1>3, <1>4 DEF ChainType
<1>6. \A i \in DOMAIN chain' :
         \/ \E k \in DOMAIN chain : chain'[i] = chain[k]
         \/ chain'[i].kind = kind /\ chain'[i].gen = generation
  BY <1>2, <1>3, <1>4
<1>7. Cardinality(Ships(chain)) \in Nat
  BY <1>1, ShipsFinite
<1>8. Cardinality(Ships(chain')) =
          Cardinality(Ships(chain)) + (IF kind = "ship" THEN 1 ELSE 0)
  BY <1>1, <1>2, <1>3, ShipsAppend
<1>9. ASSUME chain # <<>> PROVE Head(chain') = Head(chain)
  <2>1. Head(chain) = chain[1] /\ 1 \in DOMAIN chain
    BY <1>1, <1>9, TailFacts
  <2>2. Head(Append(chain, j)) = Append(chain, j)[1]
    BY <1>4, TailFacts
  <2>3. QED
    BY <2>1, <2>2, <1>3, <1>4
<1>10. QED
  BY <1>5, <1>6, <1>7, <1>8, <1>9

\* A new project is above every project and every call, and takes its room.
LEMMA NewProjectKeeps ==
  ASSUME IInv, NewProject, repo' = repo, ChainType',
         \A i \in DOMAIN chain' : \E k \in DOMAIN chain : chain'[i] = chain[k],
         Cardinality(Ships(chain')) \in Nat,
         top + 1 + Cardinality(Ships(chain')) <= MaxGeneration
  PROVE  PointerType' /\ RoomKept' /\ Below' /\ Built' /\ scaffolded' \in BOOLEAN
<1>1. top' = top + 1 /\ generation' = top + 1 /\ scaffolded' = FALSE
  BY DEF NewProject
<1>2. /\ \A g \in repo : g <= top
      /\ \A i \in DOMAIN chain : chain[i].gen <= top
      /\ \A g \in repo : g \in Nat
      /\ \A i \in DOMAIN chain : chain[i].gen \in Nat
  <2>1. /\ \A g \in repo : g <= top
        /\ \A i \in DOMAIN chain : chain[i].gen <= top
    BY DEF IInv, ShowHalf, Below
  <2>2. repo \subseteq Generations /\ chain \in Seq(Jobs)
    BY DEF IInv, RepoHalf, ReposType, ShowHalf, ChainType
  <2>3. \A i \in DOMAIN chain : chain[i] \in Jobs
    BY <2>2, ElementOfSeq, LenProperties
  <2>4. QED
    BY <2>1, <2>2, <2>3, Bounds DEF Jobs
<1>3. PointerType'
  BY <1>1, Bounds DEF PointerType, Generations
<1>4. RoomKept'
  BY <1>1, Bounds DEF RoomKept
<1>5. \A g \in repo : g <= top + 1 /\ g # top + 1
  BY <1>2, Bounds
<1>6. \A i \in DOMAIN chain' : chain'[i].gen <= top + 1 /\ chain'[i].gen # top + 1
  BY <1>2, Bounds
<1>7. Below'
  BY <1>1, <1>5, <1>6 DEF Below
<1>8. Built'
  BY <1>1, <1>5, <1>6 DEF Built
<1>9. QED
  BY <1>1, <1>3, <1>4, <1>7, <1>8

\* Moving the pointer to a project that was built, or staying where it is.
LEMMA PointerKeeps ==
  ASSUME IInv, repo' = repo, ChainType', top' = top,
         \/ generation' = generation /\ (scaffolded' = scaffolded \/ scaffolded' = TRUE)
         \/ \E target : Activate(target),
         \A i \in DOMAIN chain' :
             \/ \E k \in DOMAIN chain : chain'[i] = chain[k]
             \/ chain'[i].gen = generation /\ (scaffolded' = TRUE \/ chain'[i].kind = "revert"),
         Cardinality(Ships(chain')) \in Nat,
         top + Cardinality(Ships(chain')) <= MaxGeneration
  PROVE  PointerType' /\ RoomKept' /\ Below' /\ Built' /\ scaffolded' \in BOOLEAN
<1>1. \/ generation' = generation /\ (scaffolded' = scaffolded \/ scaffolded' = TRUE)
      \/ generation' \in 1..top /\ scaffolded' = TRUE
  BY DEF Activate
<1>2. PointerType'
  BY <1>1, Bounds DEF PointerType, Generations
<1>3. RoomKept'
  BY DEF RoomKept
<1>4. Below'
  BY Bounds DEF IInv, ShowHalf, Below
<1>5. Built'
  <2>1. CASE scaffolded' = TRUE
    BY <2>1 DEF Built
  <2>2. CASE scaffolded' # TRUE
    <3>1. generation' = generation /\ scaffolded' = scaffolded
      BY <1>1, <2>2
    <3>2. QED
      BY <2>2, <3>1 DEF IInv, ShowHalf, Built
  <2>3. QED
    BY <2>1, <2>2
<1>6. scaffolded' \in BOOLEAN
  BY <1>1 DEF IInv, ShowHalf, StageType
<1>7. QED
  BY <1>2, <1>3, <1>4, <1>5, <1>6

\* The links and the stage, when no link comes up during a build.
LEMMA LinksKeep ==
  ASSUME IInv, repo' = repo,
         announcing' \subseteq announcing \cup repo,
         \/ onStage' = FALSE /\ playable' = playable
         \/ onStage' = onStage /\ playable' = playable
         \/ playable' = 0 /\ onStage' \in BOOLEAN,
         building' \in {building, 0} \cup Generations,
         scaffolded' \in BOOLEAN
  PROVE  LinksType' /\ StageType' /\ NoLinkUnderBuild'
<1>1. announcing \subseteq repo /\ playable \in {0} \cup repo
  BY DEF IInv, ShowHalf, LinksType
<1>2. LinksType'
  BY <1>1 DEF LinksType
<1>3. onStage \in BOOLEAN /\ building \in {0} \cup Generations
  BY DEF IInv, ShowHalf, StageType
<1>4. onStage' \in BOOLEAN
  BY <1>3
<1>5. StageType'
  BY <1>3, <1>4 DEF StageType
<1>6. NoLinkUnderBuild'
  BY DEF IInv, ShowHalf, NoLinkUnderBuild
<1>7. QED
  BY <1>2, <1>5, <1>6

\* However a call ends, its caller leaves the show's half in order.
LEMMA AnswerKeeps ==
  ASSUME IInv, chain # <<>>, NEW status, Answer(status), repo' = repo
  PROVE  ShowHalf' /\ Stands'
<1> DEFINE job == Head(chain)
<1>1. chain' = Tail(chain) /\ at' = "start"
  BY DEF Answer
<1>2. /\ ChainType' /\ job \in Jobs /\ job = chain[1] /\ 1 \in DOMAIN chain
      /\ \A i \in DOMAIN chain' : \E k \in DOMAIN chain : chain'[i] = chain[k]
      /\ Cardinality(Ships(chain')) \in Nat
      /\ Cardinality(Ships(chain)) =
             Cardinality(Ships(chain')) + (IF job.kind = "ship" THEN 1 ELSE 0)
  BY <1>1, CallLeaves
<1>3. /\ top + Cardinality(Ships(chain)) <= MaxGeneration
      /\ top \in Nat /\ MaxGeneration \in Nat
  BY Bounds DEF IInv, ShowHalf, RoomKept
<1>4. top + Cardinality(Ships(chain')) <= MaxGeneration
  BY <1>2, <1>3
<1>5. Stands'
  BY <1>1 DEF Stands
<1>6. PointerType' /\ RoomKept' /\ Below' /\ Built' /\ LinksType' /\ StageType' /\ NoLinkUnderBuild'
  <2>1. CASE job.kind = "done"
    <3>1. /\ announcing' \subseteq announcing \cup repo
          /\ UNCHANGED <<generation, top, scaffolded, onStage, building, playable>>
      BY <2>1 DEF Answer
    <3>2. PointerType' /\ RoomKept' /\ Below' /\ Built' /\ scaffolded' \in BOOLEAN
      BY <3>1, <1>2, <1>4, PointerKeeps
    <3>3. LinksType' /\ StageType' /\ NoLinkUnderBuild'
      BY <3>1, <3>2, LinksKeep
    <3>4. QED
      BY <3>2, <3>3
  <2>2. CASE job.kind = "ship" /\ Confirmed(status)
    <3>1. /\ NewProject /\ UNCHANGED announcing
          /\ \/ building' = generation' /\ TakeStage
             \/ UNCHANGED <<onStage, building, playable>>
             \/ LeaveStage /\ UNCHANGED <<building, playable>>
      BY <2>2 DEF Answer
    <3>2. top + 1 + Cardinality(Ships(chain')) <= MaxGeneration
      BY <2>2, <1>2, <1>3
    <3>3. PointerType' /\ RoomKept' /\ Below' /\ Built' /\ scaffolded' \in BOOLEAN
      BY <3>1, <3>2, <1>2, NewProjectKeeps
    <3>4. generation' \in Generations
      BY <3>3 DEF PointerType, Generations
    <3>5. LinksType' /\ StageType' /\ NoLinkUnderBuild'
      BY <3>1, <3>3, <3>4, LinksKeep DEF TakeStage, LeaveStage
    <3>6. QED
      BY <3>3, <3>5
  <2>3. CASE job.kind = "swap" /\ Confirmed(status)
    <3>1. /\ Activate(job.target) /\ onStage' = FALSE
          /\ UNCHANGED <<building, announcing, playable>>
      BY <2>3 DEF Answer, LeaveStage
    <3>2. top' = top
      BY <3>1 DEF Activate
    <3>3. PointerType' /\ RoomKept' /\ Below' /\ Built' /\ scaffolded' \in BOOLEAN
      BY <3>1, <3>2, <1>2, <1>4, PointerKeeps
    <3>4. LinksType' /\ StageType' /\ NoLinkUnderBuild'
      BY <3>1, <3>3, LinksKeep
    <3>5. QED
      BY <3>3, <3>4
  <2>4. CASE /\ job.kind # "done"
             /\ ~(job.kind = "ship" /\ Confirmed(status))
             /\ ~(job.kind = "swap" /\ Confirmed(status))
    <3>1. /\ onStage' = FALSE
          /\ UNCHANGED <<generation, top, scaffolded, building, announcing, playable>>
      BY <2>4 DEF Answer, LeaveStage
    <3>2. PointerType' /\ RoomKept' /\ Below' /\ Built' /\ scaffolded' \in BOOLEAN
      BY <3>1, <1>2, <1>4, PointerKeeps
    <3>3. LinksType' /\ StageType' /\ NoLinkUnderBuild'
      BY <3>1, <3>2, LinksKeep
    <3>4. QED
      BY <3>2, <3>3
  <2>5. QED
    BY <2>1, <2>2, <2>3, <2>4
<1>7. QED
  BY <1>2, <1>5, <1>6 DEF ShowHalf

\* A call that goes on leaves the show alone.
LEMMA GoToKeeps ==
  ASSUME IInv, chain # <<>>, NEW step \in Steps, GoTo(step), repo' = repo
  PROVE  ShowHalf'
<1>1. at' = step /\ UNCHANGED <<chain, generation, top, scaffolded, onStage, building, announcing, playable>>
  BY DEF GoTo, show
<1>2. ChainType'
  BY <1>1 DEF IInv, ShowHalf, ChainType
<1>3. PointerType' /\ LinksType' /\ StageType'
  BY <1>1 DEF IInv, ShowHalf, PointerType, LinksType, StageType
<1>4. RoomKept' /\ Below' /\ Built' /\ NoLinkUnderBuild'
  BY <1>1 DEF IInv, ShowHalf, RoomKept, Below, Built, NoLinkUnderBuild
<1>5. QED
  BY <1>2, <1>3, <1>4 DEF ShowHalf

-------------------------------------------------------------------------------
(***************************************************************************)
(* The publisher's half                                                    *)
(***************************************************************************)

LEMMA RunningCall ==
  ASSUME IInv, NEW step, At(step)
  PROVE  /\ chain # <<>> /\ at = step
         /\ Head(chain) \in Jobs /\ Gen \in Generations /\ mirror[Gen] \in Mirrors
         /\ remote[Gen] \in Seq(SUBSET Files) /\ work[Gen] \in SUBSET Files
         /\ mirror[Gen].git => IsPrefix(remote[Gen], mirror[Gen].commits)
<1>1. chain # <<>> /\ at = step /\ chain \in Seq(Jobs)
  BY DEF At, IInv, ShowHalf, ChainType
<1>2. Head(chain) \in Jobs
  BY <1>1, HeadTailProperties
<1>3. Gen \in Generations
  BY <1>2 DEF Gen, Jobs
<1>4. QED
  BY <1>1, <1>2, <1>3 DEF IInv, RepoHalf, FilesType, MirrorExtendsRemote

\* A mirror and its fields.
LEMMA MirrorFields ==
  ASSUME NEW m \in Mirrors
  PROVE  /\ m.tree \in SUBSET Files /\ m.index \in SUBSET Files
         /\ m.commits \in Seq(SUBSET Files) /\ m.git \in BOOLEAN
  BY DEF Mirrors

LEMMA WithTree ==
  ASSUME NEW m \in Mirrors, NEW x \in SUBSET Files
  PROVE  /\ [m EXCEPT !.tree = x] \in Mirrors
         /\ [m EXCEPT !.tree = x].git = m.git
         /\ [m EXCEPT !.tree = x].index = m.index
         /\ [m EXCEPT !.tree = x].commits = m.commits
  BY DEF Mirrors

LEMMA WithIndex ==
  ASSUME NEW m \in Mirrors, NEW x \in SUBSET Files
  PROVE  /\ [m EXCEPT !.index = x] \in Mirrors
         /\ [m EXCEPT !.index = x].git = m.git
         /\ [m EXCEPT !.index = x].commits = m.commits
  BY DEF Mirrors

LEMMA WithGit ==
  ASSUME NEW m \in Mirrors
  PROVE  /\ [m EXCEPT !.git = TRUE] \in Mirrors
         /\ [m EXCEPT !.git = TRUE].commits = m.commits
  BY DEF Mirrors

LEMMA WithCommits ==
  ASSUME NEW m \in Mirrors, NEW x \in Seq(SUBSET Files)
  PROVE  /\ [m EXCEPT !.commits = x] \in Mirrors
         /\ [m EXCEPT !.commits = x].git = m.git
         /\ [m EXCEPT !.commits = x].commits = x
  BY DEF Mirrors

\* One mirror changes and still extends what was pushed.
LEMMA MirrorKeeps ==
  ASSUME IInv, NEW g \in Generations, NEW m \in Mirrors,
         mirror' = [mirror EXCEPT ![g] = m],
         m.git => IsPrefix(remote[g], m.commits),
         UNCHANGED <<repo, hosted, work>>
  PROVE  RepoHalf'
<1>1. UNCHANGED <<repo, created, remote, work>>
  BY DEF hosted
<1>2. mirror \in [Generations -> Mirrors]
  BY DEF IInv, RepoHalf, FilesType
<1>3. mirror' \in [Generations -> Mirrors]
  BY <1>2
<1>4. FilesType'
  BY <1>1, <1>3 DEF IInv, RepoHalf, FilesType
<1>5. MirrorExtendsRemote'
  BY <1>1, <1>2 DEF IInv, RepoHalf, MirrorExtendsRemote
<1>6. ReposType' /\ Published'
  BY <1>1 DEF IInv, RepoHalf, ReposType, Published
<1>7. QED
  BY <1>4, <1>5, <1>6 DEF RepoHalf

LEMMA RepoUntouched ==
  ASSUME IInv, UNCHANGED <<repo, hosted, mirror>>, work' \in [Generations -> SUBSET Files]
  PROVE  RepoHalf'
<1>1. UNCHANGED <<repo, created, remote, mirror>>
  BY DEF hosted
<1>2. QED
  BY <1>1 DEF IInv, RepoHalf, FilesType, ReposType, Published, MirrorExtendsRemote

\* A count of faults stays within its bound.
LEMMA CountsKeep ==
  ASSUME IInv, winners' = winners, Fault \/ NoFault
  PROVE  CountsType'
  BY Bounds DEF IInv, CountsType, Fault, NoFault

-------------------------------------------------------------------------------
(***************************************************************************)
(* The publisher's steps                                                   *)
(***************************************************************************)

\* A step that ends the call, by a fault or not.
LEMMA CallEnds ==
  ASSUME IInv, chain # <<>>, Fails \/ (NoFault /\ \E status : Answer(status)),
         UNCHANGED <<repo, winners>>, RepoHalf'
  PROVE  IInv'
<1>1. PICK status : Answer(status)
  BY DEF Fails
<1>2. CountsType'
  BY CountsKeep DEF Fails
<1>3. QED
  BY <1>1, <1>2, AnswerKeeps DEF IInv

\* A step after which the call goes on.
LEMMA CallGoesOn ==
  ASSUME IInv, chain # <<>>, NEW step \in Steps, GoTo(step), NoFault,
         UNCHANGED <<repo, winners>>, RepoHalf', Stands'
  PROVE  IInv'
<1>1. CountsType'
  BY CountsKeep
<1>2. QED
  BY <1>1, GoToKeeps DEF IInv

LEMMA PreflightKeeps ==
  ASSUME IInv, Preflight
  PROVE  IInv'
<1>1. /\ chain # <<>> /\ Head(chain).kind # "revert" /\ winners' = winners
      /\ UNCHANGED <<repo, hosted, work, mirror>>
  BY DEF Preflight, At
<1>2. RepoHalf'
  BY <1>1, RepoUntouched DEF IInv, RepoHalf, FilesType
<1>3. CASE Fails \/ (NoFault /\ Answer("no-changes"))
  BY <1>1, <1>2, <1>3, CallEnds
<1>4. CASE NoFault /\ GoTo(IF Gen \in repo THEN "open" ELSE "create")
  <2>1. chain' = chain /\ at' = IF Gen \in repo THEN "open" ELSE "create"
    BY <1>4 DEF GoTo
  <2>2. Stands'
    BY <2>1, <1>1 DEF Stands, Gen
  <2>3. QED
    BY <1>1, <1>2, <1>4, <2>2, CallGoesOn DEF Steps
<1>5. QED
  BY <1>3, <1>4 DEF Preflight

LEMMA CreateRepoKeeps ==
  ASSUME IInv, CreateRepo
  PROVE  IInv'
<1>1. /\ At("create") /\ chain # <<>> /\ at = "create" /\ winners' = winners
      /\ UNCHANGED <<repo, remote, work, mirror>>
  BY DEF CreateRepo, At
<1>2. CASE Fails /\ UNCHANGED created
  <2>1. RepoHalf'
    BY <1>1, <1>2, RepoUntouched DEF IInv, RepoHalf, FilesType, hosted
  <2>2. QED
    BY <1>1, <1>2, <2>1, CallEnds
<1>3. CASE NoFault /\ GoTo("init") /\ created' = created \cup {Gen}
  <2>1. Gen \in Generations
    BY <1>1, RunningCall
  <2>2. RepoHalf'
    BY <1>1, <1>3, <2>1 DEF IInv, RepoHalf, FilesType, ReposType, Published, MirrorExtendsRemote
  <2>3. Head(chain).kind # "revert" /\ Gen \notin repo
    BY <1>1 DEF IInv, Stands
  <2>4. chain' = chain /\ at' = "init"
    BY <1>3 DEF GoTo
  <2>5. Stands'
    BY <1>1, <1>3, <2>3, <2>4 DEF Stands, Gen
  <2>6. QED
    BY <1>1, <1>3, <2>2, <2>5, CallGoesOn DEF Steps
<1>4. QED
  BY <1>2, <1>3 DEF CreateRepo

\* The one step that binds a repo: the project has a build, and its mirror starts afresh
\* or from the commits of an earlier attempt, and nothing was pushed.
LEMMA InitMirrorKeeps ==
  ASSUME IInv, InitMirror
  PROVE  IInv'
<1>1. /\ At("init") /\ chain # <<>> /\ at = "init" /\ winners' = winners
      /\ UNCHANGED <<hosted, work>>
  BY DEF InitMirror, At
<1>2. CASE Fails /\ UNCHANGED <<mirror, repo>>
  <2>1. RepoHalf'
    BY <1>1, <1>2, RepoUntouched DEF IInv, RepoHalf, FilesType
  <2>2. QED
    BY <1>1, <1>2, <2>1, CallEnds
<1>3. CASE /\ NoFault /\ GoTo("refresh")
           /\ mirror' = [mirror EXCEPT ![Gen].git = TRUE] /\ repo' = repo \cup {Gen}
  <2> DEFINE m == [mirror[Gen] EXCEPT !.git = TRUE]
  <2>1. /\ Gen \in Generations /\ mirror[Gen] \in Mirrors /\ Head(chain) \in Jobs
    BY <1>1, RunningCall
  <2>2. m \in Mirrors /\ m.commits = mirror[Gen].commits
    BY <2>1, WithGit
  <2>3. mirror' = [mirror EXCEPT ![Gen] = m]
    BY <1>3
  <2> HIDE DEF m
  <2>4. UNCHANGED <<created, remote, work>>
    BY <1>1 DEF hosted
  <2>5. Head(chain).kind # "revert" /\ Gen \notin repo /\ Gen \in created
    BY <1>1 DEF IInv, Stands
  <2>6. remote[Gen] = <<>>
    BY <2>1, <2>5 DEF IInv, RepoHalf, Published
  <2>7. IsPrefix(remote[Gen], m.commits)
    BY <2>1, <2>2, <2>6, MirrorFields, PrefixSelf
  <2>8. MirrorExtendsRemote'
    BY <2>1, <2>3, <2>4, <2>7 DEF MirrorExtendsRemote, IInv, RepoHalf, FilesType
  <2>9. FilesType'
    BY <2>1, <2>2, <2>3, <2>4 DEF IInv, RepoHalf, FilesType
  <2>10. ReposType' /\ Published'
    BY <1>3, <2>4, <2>5 DEF IInv, RepoHalf, ReposType, Published
  <2>11. /\ at' = "refresh" /\ chain' = chain
         /\ UNCHANGED <<generation, top, scaffolded, onStage, building, announcing, playable>>
    BY <1>3 DEF GoTo, show
  <2>12. Stands'
    BY <1>3, <2>11 DEF Stands, Gen
  <2>13. ChainType'
    BY <2>11, <1>1 DEF IInv, ShowHalf, ChainType, Steps
  <2>14. PointerType' /\ StageType' /\ RoomKept' /\ NoLinkUnderBuild'
    BY <2>11 DEF IInv, ShowHalf, PointerType, StageType, RoomKept, NoLinkUnderBuild
  <2>15. LinksType'
    BY <2>11, <1>3 DEF IInv, ShowHalf, LinksType
  <2>16. 1 \in DOMAIN chain /\ Head(chain) = chain[1]
    BY <1>1, TailFacts DEF IInv, ShowHalf, ChainType
  <2>17. Below'
    BY <2>11, <1>3, <2>16 DEF IInv, ShowHalf, Below, Gen
  <2>18. Built'
    BY <2>11, <1>3, <2>16, <2>5 DEF IInv, ShowHalf, Built, Gen
  <2>19. CountsType'
    BY <1>1, <1>3, CountsKeep
  <2>20. QED
    BY <2>8, <2>9, <2>10, <2>12, <2>13, <2>14, <2>15, <2>17, <2>18, <2>19
       DEF IInv, ShowHalf, RepoHalf
<1>4. QED
  BY <1>2, <1>3 DEF InitMirror

\* A mirror cloned again holds what was pushed.
LEMMA OpenMirrorKeeps ==
  ASSUME IInv, NEW step \in Steps \ {"start", "create", "init"}, OpenMirror(step),
         NEW from, At(from), Gen \in repo,
         UNCHANGED <<repo, hosted, work, winners>>
  PROVE  IInv'
<1>1. /\ chain # <<>> /\ Gen \in Generations /\ mirror[Gen] \in Mirrors
      /\ remote[Gen] \in Seq(SUBSET Files)
  BY RunningCall
<1>2. UNCHANGED <<repo, winners>>
  OBVIOUS
<1>3. ASSUME GoTo(step) PROVE Stands'
  <2>1. chain' = chain /\ at' = step
    BY <1>3 DEF GoTo
  <2>2. QED
    BY <2>1, <1>2 DEF Stands, Gen
<1>4. CASE mirror[Gen].git /\ NoFault /\ GoTo(step) /\ UNCHANGED mirror
  <2>1. RepoHalf'
    BY <1>4, RepoUntouched DEF IInv, RepoHalf, FilesType
  <2>2. QED
    BY <1>1, <1>2, <1>3, <1>4, <2>1, CallGoesOn
<1>5. CASE Fails /\ mirror' = [mirror EXCEPT ![Gen] = NoMirror]
  <2>1. NoMirror \in Mirrors /\ NoMirror.git = FALSE
    BY DEF NoMirror, Mirrors
  <2>2. RepoHalf'
    BY <1>1, <1>5, <2>1, MirrorKeeps
  <2>3. QED
    BY <1>1, <1>2, <1>5, <2>2, CallEnds
<1>6. CASE NoFault /\ GoTo(step) /\ mirror' = [mirror EXCEPT ![Gen] = Cloned(Gen)]
  <2> DEFINE t == IF remote[Gen] = <<>> THEN {} ELSE Last(remote[Gen])
  <2>1. t \in SUBSET Files
    <3>1. CASE remote[Gen] # <<>>
      <4>1. Len(remote[Gen]) \in DOMAIN remote[Gen]
        BY <1>1, <3>1, LenProperties, EmptySeq
      <4>2. remote[Gen][Len(remote[Gen])] \in SUBSET Files
        BY <1>1, <4>1, ElementOfSeq, LenProperties
      <4>3. QED
        BY <3>1, <4>2 DEF Last
    <3>2. QED
      BY <3>1
  <2>2. Cloned(Gen) = [git |-> TRUE, commits |-> remote[Gen], tree |-> t, index |-> t]
    BY DEF Cloned
  <2> HIDE DEF t
  <2>3. Cloned(Gen) \in Mirrors /\ Cloned(Gen).commits = remote[Gen]
    BY <1>1, <2>1, <2>2 DEF Mirrors
  <2>4. IsPrefix(remote[Gen], Cloned(Gen).commits)
    BY <1>1, <2>3, PrefixSelf
  <2>5. RepoHalf'
    BY <1>1, <1>6, <2>3, <2>4, MirrorKeeps
  <2>6. QED
    BY <1>1, <1>2, <1>3, <1>6, <2>5, CallGoesOn
<1>7. QED
  BY <1>4, <1>5, <1>6 DEF OpenMirror

\* A mirror changes while its repo is bound, and the call ends or goes on.
LEMMA StepOnMirror ==
  ASSUME IInv, NEW from, from \notin {"start", "create", "init"}, At(from), NEW m \in Mirrors,
         mirror' = [mirror EXCEPT ![Gen] = m],
         m.git => IsPrefix(remote[Gen], m.commits),
         UNCHANGED <<repo, hosted, work, winners>>,
         \/ Fails
         \/ NoFault /\ \E status : Answer(status)
         \/ NoFault /\ \E step \in Steps \ {"start", "create", "init"} : GoTo(step)
  PROVE  IInv'
<1>1. chain # <<>> /\ at = from /\ Gen \in Generations
  BY RunningCall
<1>2. UNCHANGED <<repo, winners>> /\ UNCHANGED <<repo, hosted, work>>
  OBVIOUS
<1>3. RepoHalf'
  BY <1>1, <1>2, MirrorKeeps
<1>4. CASE Fails \/ (NoFault /\ \E status : Answer(status))
  BY <1>1, <1>2, <1>3, <1>4, CallEnds
<1>5. ASSUME NEW step \in Steps \ {"start", "create", "init"}, NoFault, GoTo(step) PROVE IInv'
  <2>1. chain' = chain /\ at' = step /\ Gen \in repo
    BY <1>1, <1>5 DEF GoTo, IInv, Stands
  <2>2. Stands'
    BY <1>2, <2>1 DEF Stands, Gen
  <2>3. QED
    BY <1>1, <1>2, <1>3, <1>5, <2>2, CallGoesOn
<1>6. QED
  BY <1>4, <1>5

LEMMA MirrorStays ==
  ASSUME IInv, NEW from, At(from), UNCHANGED mirror
  PROVE  /\ mirror' = [mirror EXCEPT ![Gen] = mirror[Gen]] /\ mirror[Gen] \in Mirrors
         /\ mirror[Gen].git => IsPrefix(remote[Gen], mirror[Gen].commits)
  BY RunningCall DEF IInv, RepoHalf, FilesType

LEMMA RefreshKeeps ==
  ASSUME IInv, Refresh
  PROVE  IInv'
<1>1. /\ At("refresh") /\ UNCHANGED <<repo, hosted, work, winners>>
      /\ mirror[Gen] \in Mirrors /\ work[Gen] \in SUBSET Files
      /\ mirror[Gen].git => IsPrefix(remote[Gen], mirror[Gen].commits)
  BY RunningCall DEF Refresh
<1>2. PICK x \in SUBSET Files : /\ mirror' = [mirror EXCEPT ![Gen].tree = x]
                                /\ Fails \/ (NoFault /\ GoTo("add"))
  <2>1. CASE NoFault /\ GoTo("add") /\ mirror' = [mirror EXCEPT ![Gen].tree = work[Gen]]
    BY <1>1, <2>1
  <2>2. CASE Fails /\ \E left \in (SUBSET mirror[Gen].tree) \cup (SUBSET work[Gen]) :
                          mirror' = [mirror EXCEPT ![Gen].tree = left]
    <3>1. mirror[Gen].tree \in SUBSET Files
      BY <1>1, MirrorFields
    <3>2. QED
      BY <1>1, <2>2, <3>1
  <2>3. QED
    BY <2>1, <2>2 DEF Refresh
<1> DEFINE m == [mirror[Gen] EXCEPT !.tree = x]
<1>3. m \in Mirrors /\ m.git = mirror[Gen].git /\ m.commits = mirror[Gen].commits
  BY <1>1, WithTree
<1>4. mirror' = [mirror EXCEPT ![Gen] = m]
  BY <1>2
<1> HIDE DEF m
<1>5. "add" \in Steps \ {"start", "create", "init"}
  BY DEF Steps
<1>6. QED
  BY <1>1, <1>2, <1>3, <1>4, <1>5, StepOnMirror

LEMMA AddKeeps ==
  ASSUME IInv, Add
  PROVE  IInv'
<1>1. /\ At("add") /\ UNCHANGED <<repo, hosted, work, winners>>
      /\ mirror[Gen] \in Mirrors
      /\ mirror[Gen].git => IsPrefix(remote[Gen], mirror[Gen].commits)
  BY RunningCall DEF Add
<1>2. "commit" \in Steps \ {"start", "create", "init"}
  BY DEF Steps
<1>3. CASE Fails /\ UNCHANGED mirror
  BY <1>1, <1>3, MirrorStays, StepOnMirror
<1>4. CASE /\ NoFault
           /\ mirror' = [mirror EXCEPT ![Gen].index = mirror[Gen].tree]
           /\ Answer("no-changes") \/ GoTo("commit")
  <2> DEFINE m == [mirror[Gen] EXCEPT !.index = mirror[Gen].tree]
  <2>1. m \in Mirrors /\ m.git = mirror[Gen].git /\ m.commits = mirror[Gen].commits
    BY <1>1, MirrorFields, WithIndex
  <2>2. mirror' = [mirror EXCEPT ![Gen] = m]
    BY <1>4
  <2> HIDE DEF m
  <2>3. QED
    BY <1>1, <1>2, <1>4, <2>1, <2>2, StepOnMirror
<1>5. QED
  BY <1>3, <1>4 DEF Add

LEMMA CommitKeeps ==
  ASSUME IInv, Commit
  PROVE  IInv'
<1>1. /\ At("commit") /\ UNCHANGED <<repo, hosted, work, winners>>
      /\ mirror[Gen] \in Mirrors /\ remote[Gen] \in Seq(SUBSET Files)
      /\ mirror[Gen].git => IsPrefix(remote[Gen], mirror[Gen].commits)
  BY RunningCall DEF Commit
<1>2. "push" \in Steps \ {"start", "create", "init"}
  BY DEF Steps
<1>3. CASE Fails /\ UNCHANGED mirror
  BY <1>1, <1>3, MirrorStays, StepOnMirror
<1>4. CASE /\ NoFault /\ GoTo("push")
           /\ mirror' = [mirror EXCEPT ![Gen].commits = Append(@, mirror[Gen].index)]
  <2> DEFINE c == Append(mirror[Gen].commits, mirror[Gen].index)
             m == [mirror[Gen] EXCEPT !.commits = c]
  <2>1. mirror[Gen].commits \in Seq(SUBSET Files) /\ mirror[Gen].index \in SUBSET Files
    BY <1>1, MirrorFields
  <2>2. c \in Seq(SUBSET Files) /\ (mirror[Gen].git => IsPrefix(remote[Gen], c))
    BY <1>1, <2>1, AppendProperties, PrefixAppend
  <2>3. mirror' = [mirror EXCEPT ![Gen] = m]
    BY <1>4
  <2> HIDE DEF c
  <2>4. m \in Mirrors /\ m.git = mirror[Gen].git /\ m.commits = c
    BY <1>1, <2>2, WithCommits
  <2> HIDE DEF m
  <2>5. QED
    BY <1>1, <1>2, <1>4, <2>2, <2>3, <2>4, StepOnMirror
<1>5. QED
  BY <1>3, <1>4 DEF Commit

\* A push that arrives makes the remote what the mirror is.
LEMMA PushKeeps ==
  ASSUME IInv, NEW step \in Steps \ {"start", "create", "init"}, NEW ok, Push(step, ok)
  PROVE  IInv'
<1>1. /\ At(step) /\ chain # <<>> /\ at = step /\ Gen \in Generations
      /\ mirror[Gen] \in Mirrors /\ UNCHANGED <<repo, created, work, mirror, winners>>
  BY RunningCall DEF Push
<1>2. Gen \in repo
  BY <1>1 DEF IInv, Stands
<1>3. RepoHalf'
  <2>1. CASE UNCHANGED remote
    BY <1>1, <2>1, RepoUntouched DEF IInv, RepoHalf, FilesType, hosted
  <2>2. CASE remote' = [remote EXCEPT ![Gen] = mirror[Gen].commits]
    <3>1. mirror[Gen].commits \in Seq(SUBSET Files)
      BY <1>1, MirrorFields
    <3>2. remote \in [Generations -> Seq(SUBSET Files)]
      BY DEF IInv, RepoHalf, FilesType
    <3>3. remote' \in [Generations -> Seq(SUBSET Files)]
      BY <2>2, <3>1, <3>2
    <3>4. FilesType' /\ ReposType'
      BY <1>1, <3>3 DEF IInv, RepoHalf, FilesType, ReposType
    <3>5. Published'
      BY <1>1, <1>2, <2>2, <3>2 DEF IInv, RepoHalf, Published
    <3>6. IsPrefix(mirror[Gen].commits, mirror[Gen].commits)
      BY <3>1, PrefixSelf
    <3>7. MirrorExtendsRemote'
      BY <1>1, <2>2, <3>2, <3>6 DEF IInv, RepoHalf, MirrorExtendsRemote
    <3>8. QED
      BY <3>4, <3>5, <3>7 DEF RepoHalf
  <2>3. QED
    BY <2>1, <2>2 DEF Push, Pushed
<1>4. Fails \/ (NoFault /\ \E status : Answer(status))
  BY DEF Push
<1>5. QED
  BY <1>1, <1>3, <1>4, CallEnds

LEMMA StartRevertCallKeeps ==
  ASSUME IInv, StartRevertCall
  PROVE  IInv'
<1>1. /\ At("start") /\ chain # <<>> /\ UNCHANGED <<repo, hosted, work, winners>>
  BY DEF StartRevertCall, At
<1>2. CASE NoFault /\ Answer("nothing-to-revert") /\ UNCHANGED mirror
  <2>1. RepoHalf'
    BY <1>1, <1>2, RepoUntouched DEF IInv, RepoHalf, FilesType
  <2>2. QED
    BY <1>1, <1>2, <2>1, CallEnds
<1>3. CASE Gen \in repo /\ OpenMirror("count")
  BY <1>1, <1>3, OpenMirrorKeeps DEF Steps
<1>4. QED
  BY <1>2, <1>3 DEF StartRevertCall

\* The revert is a commit like any other.
LEMMA RevertCommitKeeps ==
  ASSUME IInv, RevertCommit
  PROVE  IInv'
<1>1. /\ At("count") /\ UNCHANGED <<repo, hosted, work, winners>>
      /\ mirror[Gen] \in Mirrors /\ remote[Gen] \in Seq(SUBSET Files)
      /\ mirror[Gen].git => IsPrefix(remote[Gen], mirror[Gen].commits)
  BY RunningCall DEF RevertCommit
<1>2. "copy" \in Steps \ {"start", "create", "init"}
  BY DEF Steps
<1>3. CASE (Fails \/ (NoFault /\ \E status : Answer(status))) /\ UNCHANGED mirror
  BY <1>1, <1>3, MirrorStays, StepOnMirror
<1>4. CASE /\ Len(mirror[Gen].commits) >= 2 /\ NoFault /\ GoTo("copy")
           /\ mirror' = [mirror EXCEPT ![Gen] = Reverted(@)]
  <2> DEFINE b == Before(mirror[Gen])
             c == Append(mirror[Gen].commits, b)
             t == (mirror[Gen].tree \ Touched(mirror[Gen])) \cup (b \cap Touched(mirror[Gen]))
             m1 == [mirror[Gen] EXCEPT !.commits = c]
             m2 == [m1 EXCEPT !.index = b]
             m == [m2 EXCEPT !.tree = t]
  <2>1. mirror[Gen].commits \in Seq(SUBSET Files) /\ mirror[Gen].tree \in SUBSET Files
    BY <1>1, MirrorFields
  <2>2. b \in SUBSET Files
    <3>1. Len(mirror[Gen].commits) - 1 \in DOMAIN mirror[Gen].commits
      BY <1>4, <2>1, LenProperties
    <3>2. QED
      BY <2>1, <3>1, ElementOfSeq, LenProperties DEF Before
  <2>3. c \in Seq(SUBSET Files) /\ (mirror[Gen].git => IsPrefix(remote[Gen], c))
    BY <1>1, <2>1, <2>2, AppendProperties, PrefixAppend
  <2>4. t \in SUBSET Files
    BY <2>1, <2>2
  <2>5. Reverted(mirror[Gen]) = m
    BY <1>1 DEF Reverted, Mirrors
  <2>6. mirror' = [mirror EXCEPT ![Gen] = m]
    BY <1>4, <2>5
  <2> HIDE DEF c, t, b
  <2>7. m1 \in Mirrors /\ m1.git = mirror[Gen].git /\ m1.commits = c
    BY <1>1, <2>3, WithCommits
  <2> HIDE DEF m1
  <2>8. m2 \in Mirrors /\ m2.git = m1.git /\ m2.commits = m1.commits
    BY <2>2, <2>7, WithIndex
  <2> HIDE DEF m2
  <2>9. m \in Mirrors /\ m.git = m2.git /\ m.commits = m2.commits
    BY <2>4, <2>8, WithTree
  <2> HIDE DEF m
  <2>10. m.git => IsPrefix(remote[Gen], m.commits)
    BY <2>3, <2>7, <2>8, <2>9
  <2>11. QED
    BY <1>1, <1>2, <1>4, <2>6, <2>9, <2>10, StepOnMirror
<1>5. QED
  BY <1>3, <1>4 DEF RevertCommit

\* Copying back and pruning touch the workspace only.
LEMMA WorkspaceKeeps ==
  ASSUME IInv, NEW from \in Steps \ {"start", "create", "init"}, At(from),
         NEW x \in SUBSET Files, work' = [work EXCEPT ![Gen] = x],
         UNCHANGED <<repo, hosted, mirror, winners>>,
         \/ Fails
         \/ NoFault /\ \E step \in Steps \ {"start", "create", "init"} : GoTo(step)
  PROVE  IInv'
<1>1. chain # <<>> /\ at = from /\ Gen \in Generations /\ Gen \in repo
  BY RunningCall DEF IInv, Stands
<1>2. UNCHANGED <<repo, hosted, mirror>> /\ UNCHANGED <<repo, winners>>
  OBVIOUS
<1>3. work' \in [Generations -> SUBSET Files]
  BY DEF IInv, RepoHalf, FilesType
<1>4. RepoHalf'
  BY <1>2, <1>3, RepoUntouched
<1>5. CASE Fails
  BY <1>1, <1>2, <1>4, <1>5, CallEnds
<1>6. ASSUME NEW step \in Steps \ {"start", "create", "init"}, NoFault, GoTo(step) PROVE IInv'
  <2>1. chain' = chain /\ at' = step
    BY <1>6 DEF GoTo
  <2>2. Stands'
    BY <1>1, <1>2, <2>1 DEF Stands, Gen
  <2>3. QED
    BY <1>1, <1>2, <1>4, <1>6, <2>2, CallGoesOn
<1>7. QED
  BY <1>5, <1>6

LEMMA CopyBackKeeps ==
  ASSUME IInv, CopyBack
  PROVE  IInv'
<1>1. /\ At("copy") /\ UNCHANGED <<repo, hosted, mirror, winners>>
      /\ work[Gen] \in SUBSET Files /\ mirror[Gen].tree \in SUBSET Files
  BY RunningCall, MirrorFields DEF CopyBack
<1>2. "copy" \in Steps \ {"start", "create", "init"} /\ "prune" \in Steps \ {"start", "create", "init"}
  BY DEF Steps
<1>3. PICK part \in SUBSET mirror[Gen].tree :
         /\ work' = [work EXCEPT ![Gen] = @ \cup part]
         /\ Fails \/ (NoFault /\ GoTo("prune"))
  BY DEF CopyBack
<1> DEFINE x == work[Gen] \cup part
<1>4. x \in SUBSET Files /\ work' = [work EXCEPT ![Gen] = x]
  BY <1>1, <1>3
<1> HIDE DEF x
<1>5. \/ Fails
      \/ NoFault /\ \E step \in Steps \ {"start", "create", "init"} : GoTo(step)
  BY <1>2, <1>3
<1>6. QED
  BY <1>1, <1>2, <1>4, <1>5, WorkspaceKeeps

LEMMA PruneKeeps ==
  ASSUME IInv, Prune
  PROVE  IInv'
<1>1. /\ At("prune") /\ UNCHANGED <<repo, hosted, mirror, winners>>
      /\ work[Gen] \in SUBSET Files
  BY RunningCall DEF Prune
<1>2. /\ "prune" \in Steps \ {"start", "create", "init"}
      /\ "pushRevert" \in Steps \ {"start", "create", "init"}
  BY DEF Steps
<1>3. PICK x \in SUBSET work[Gen] :
         /\ work' = [work EXCEPT ![Gen] = x]
         /\ Fails \/ (NoFault /\ GoTo("pushRevert"))
  <2>1. CASE NoFault /\ GoTo("pushRevert") /\ work' = [work EXCEPT ![Gen] = @ \cap mirror[Gen].tree]
    BY <2>1
  <2>2. CASE Fails /\ \E part \in SUBSET (work[Gen] \ mirror[Gen].tree) :
                          work' = [work EXCEPT ![Gen] = @ \ part]
    BY <2>2
  <2>3. QED
    BY <2>1, <2>2 DEF Prune
<1>4. x \in SUBSET Files
  BY <1>1
<1>5. \/ Fails
      \/ NoFault /\ \E step \in Steps \ {"start", "create", "init"} : GoTo(step)
  BY <1>2, <1>3
<1>6. QED
  BY <1>1, <1>2, <1>3, <1>4, <1>5, WorkspaceKeeps

-------------------------------------------------------------------------------
(***************************************************************************)
(* The show's steps                                                        *)
(***************************************************************************)

\* The show leaves the running call where it stands.
LEMMA ShowLeavesPublisher ==
  ASSUME IInv, UNCHANGED <<repo, hosted, mirror, at>>,
         work' \in [Generations -> SUBSET Files],
         chain # <<>> => chain' # <<>> /\ Head(chain') = Head(chain)
  PROVE  RepoHalf' /\ Stands'
<1>1. RepoHalf'
  BY RepoUntouched
<1>2. UNCHANGED <<repo, created, at>>
  BY DEF hosted
<1>3. CASE chain = <<>>
  <2>1. at = "start"
    BY <1>3 DEF IInv, ShowHalf, ChainType
  <2>2. QED
    BY <1>1, <1>2, <2>1 DEF Stands
<1>4. CASE chain # <<>>
  BY <1>1, <1>2, <1>4 DEF IInv, Stands, Gen
<1>5. QED
  BY <1>3, <1>4

\* The pointer and the calls are what they were.
LEMMA PointerAlone ==
  ASSUME IInv, UNCHANGED <<generation, top, scaffolded, repo, chain, at>>
  PROVE  PointerType' /\ RoomKept' /\ Below' /\ Built' /\ ChainType' /\ scaffolded' \in BOOLEAN
<1>1. PointerType' /\ ChainType' /\ scaffolded' \in BOOLEAN
  BY DEF IInv, ShowHalf, PointerType, ChainType, StageType
<1>2. RoomKept' /\ Below' /\ Built'
  BY DEF IInv, ShowHalf, RoomKept, Below, Built
<1>3. QED
  BY <1>1, <1>2

\* Steps that move neither the pointer nor the calls.
LEMMA StageKeeps ==
  ASSUME IInv, UNCHANGED <<durable, hosted, mirror, chain, at, faults>>,
         work' \in [Generations -> SUBSET Files],
         announcing' \subseteq announcing,
         \/ onStage' = FALSE /\ playable' = playable
         \/ onStage' = onStage /\ playable' = playable
         \/ playable' = 0 /\ onStage' \in BOOLEAN,
         building' \in {building, 0} \cup Generations,
         winners' \in {winners} \cup 0..MaxWinners
  PROVE  IInv'
<1>1. UNCHANGED <<generation, top, scaffolded, repo>> /\ UNCHANGED <<hosted, mirror, chain, at, faults>>
  BY DEF durable
<1>2. PointerType' /\ RoomKept' /\ Below' /\ Built' /\ ChainType' /\ scaffolded' \in BOOLEAN
  BY <1>1, PointerAlone
<1>3. LinksType' /\ StageType' /\ NoLinkUnderBuild'
  BY <1>1, <1>2, LinksKeep
<1>4. RepoHalf' /\ Stands'
  BY <1>1, ShowLeavesPublisher
<1>5. CountsType'
  BY <1>1 DEF IInv, CountsType
<1>6. QED
  BY <1>2, <1>3, <1>4, <1>5 DEF IInv, ShowHalf

\* A call that enters: a snapshot of a built project, or a revert.
LEMMA CallKeeps ==
  ASSUME IInv, NEW kind \in Kinds, NEW target \in {0} \cup Generations, Call(kind, target),
         UNCHANGED <<generation, top, repo, hosted, work, mirror, at, announcing, faults>>,
         scaffolded' = scaffolded \/ scaffolded' = TRUE,
         kind = "revert" \/ scaffolded' = TRUE,
         kind = "ship" => Room,
         \/ onStage' = FALSE /\ playable' = playable
         \/ playable' = 0 /\ onStage' = TRUE,
         building' \in {building, 0},
         winners' \in {winners} \cup 0..MaxWinners
  PROVE  IInv'
<1>1. /\ ChainType'
      /\ \A i \in DOMAIN chain' :
            \/ \E k \in DOMAIN chain : chain'[i] = chain[k]
            \/ chain'[i].kind = kind /\ chain'[i].gen = generation
      /\ Cardinality(Ships(chain)) \in Nat
      /\ Cardinality(Ships(chain')) =
             Cardinality(Ships(chain)) + (IF kind = "ship" THEN 1 ELSE 0)
      /\ chain # <<>> => Head(chain') = Head(chain)
  BY CallEnters
<1>2. Cardinality(Ships(chain')) \in Nat
  BY <1>1
<1>3. top + Cardinality(Ships(chain)) <= MaxGeneration
  BY DEF IInv, ShowHalf, RoomKept
<1>4. top + Cardinality(Ships(chain')) <= MaxGeneration
  <2>1. CASE kind = "ship"
    <3>1. top + Cardinality(Ships(chain)) < MaxGeneration
      BY <2>1 DEF Room, Ships
    <3>2. QED
      BY <2>1, <3>1, <1>1, Bounds
  <2>2. CASE kind # "ship"
    BY <2>2, <1>1, <1>3, Bounds
  <2>3. QED
    BY <2>1, <2>2
<1>5. \A i \in DOMAIN chain' :
         \/ \E k \in DOMAIN chain : chain'[i] = chain[k]
         \/ chain'[i].gen = generation /\ (scaffolded' = TRUE \/ chain'[i].kind = "revert")
  BY <1>1
<1>6. PointerType' /\ RoomKept' /\ Below' /\ Built' /\ scaffolded' \in BOOLEAN
  BY <1>1, <1>2, <1>4, <1>5, PointerKeeps
<1>7. LinksType' /\ StageType' /\ NoLinkUnderBuild'
  BY <1>6, LinksKeep
<1>8. chain' # <<>>
  <2>1. /\ chain \in Seq(Jobs)
        /\ [kind |-> kind, gen |-> generation, target |-> target] \in Jobs
    BY DEF IInv, ShowHalf, ChainType, PointerType, Jobs
  <2>2. QED
    BY <2>1, AppendFacts DEF Call
<1>9. UNCHANGED <<repo, hosted, mirror, at>> /\ work' \in [Generations -> SUBSET Files]
  BY DEF IInv, RepoHalf, FilesType
<1>10. RepoHalf' /\ Stands'
  BY <1>1, <1>8, <1>9, ShowLeavesPublisher
<1>11. CountsType'
  BY DEF IInv, CountsType
<1>12. QED
  BY <1>1, <1>6, <1>7, <1>10, <1>11 DEF IInv, ShowHalf

\* A winner is counted within its bound.
LEMMA WinnerCounted ==
  ASSUME IInv, winners < MaxWinners
  PROVE  winners + 1 \in 0..MaxWinners
  BY Bounds DEF IInv, CountsType

LEMMA ShowKeeps ==
  ASSUME IInv,
         \/ StartBuild \/ BuildWrites \/ BuildFails \/ HaltAndReset \/ Announce
         \/ BuildDone \/ StartShip \/ StartRevert
  PROVE  IInv'
<1>1. work \in [Generations -> SUBSET Files]
  BY DEF IInv, RepoHalf, FilesType
<1>2. /\ generation \in Generations /\ onStage \in BOOLEAN
      /\ {"done", "ship", "swap", "revert"} \subseteq Kinds
  BY DEF IInv, ShowHalf, PointerType, StageType, Kinds
<1>3. CASE StartBuild
  <2>1. /\ UNCHANGED <<durable, hosted, mirror, chain, at, faults>> /\ work' = work
        /\ announcing' = announcing /\ playable' = 0 /\ onStage' = TRUE
        /\ building' = generation /\ winners' = winners + 1 /\ winners < MaxWinners
    BY <1>3 DEF StartBuild, TakeStage
  <2>2. QED
    BY <1>1, <1>2, <2>1, WinnerCounted, StageKeeps
<1>4. CASE BuildWrites
  <2>1. PICK content \in SUBSET Files : work' = [work EXCEPT ![building] = content]
    BY <1>4 DEF BuildWrites
  <2>2. work' \in [Generations -> SUBSET Files]
    BY <1>1, <2>1
  <2>3. /\ UNCHANGED <<durable, hosted, mirror, chain, at, faults>>
        /\ UNCHANGED <<announcing, playable, onStage, building, winners>>
    BY <1>4 DEF BuildWrites, show
  <2>4. QED
    BY <2>2, <2>3, StageKeeps
<1>5. CASE BuildFails \/ HaltAndReset
  <2>1. /\ UNCHANGED <<durable, hosted, mirror, chain, at, faults>>
        /\ UNCHANGED <<work, announcing, playable, winners>>
        /\ onStage' = FALSE /\ building' = 0
    BY <1>5 DEF BuildFails, HaltAndReset, LeaveStage
  <2>2. QED
    BY <1>1, <2>1, StageKeeps
<1>6. CASE Announce
  <2>1. PICK g \in announcing : /\ announcing' = announcing \ {g}
                                /\ playable' = IF onStage THEN playable ELSE g
                                /\ UNCHANGED <<durable, hosted, work, mirror, chain, at,
                                               onStage, building, winners, faults>>
    BY <1>6 DEF Announce
  <2>2. UNCHANGED <<generation, top, scaffolded, repo>>
    BY <2>1 DEF durable
  <2>3. PointerType' /\ RoomKept' /\ Below' /\ Built' /\ ChainType'
    BY <2>1, <2>2, PointerAlone
  <2>4. LinksType'
    BY <2>1, <2>2 DEF IInv, ShowHalf, LinksType
  <2>5. StageType'
    BY <2>1, <2>2 DEF IInv, ShowHalf, StageType
  <2>6. NoLinkUnderBuild'
    BY <2>1 DEF IInv, ShowHalf, NoLinkUnderBuild
  <2>7. RepoHalf' /\ Stands'
    BY <1>1, <2>1, <2>2, ShowLeavesPublisher
  <2>8. CountsType'
    BY <2>1 DEF IInv, CountsType
  <2>9. QED
    BY <2>3, <2>4, <2>5, <2>6, <2>7, <2>8 DEF IInv, ShowHalf
<1>7. CASE BuildDone
  <2>1. /\ scaffolded' = TRUE /\ Call("done", 0) /\ building' = 0 /\ onStage' = FALSE
        /\ UNCHANGED <<generation, top, repo, hosted, work, mirror, at, announcing, faults>>
        /\ UNCHANGED <<playable, winners>>
    BY <1>7 DEF BuildDone, LeaveStage
  <2>2. QED
    BY <1>2, <2>1, CallKeeps
<1>8. CASE StartShip
  <2>1. /\ scaffolded /\ Room /\ Call("ship", 0) /\ playable' = 0 /\ onStage' = TRUE
        /\ UNCHANGED <<generation, top, repo, hosted, work, mirror, at, announcing, faults>>
        /\ UNCHANGED <<scaffolded, building>> /\ winners < MaxWinners /\ winners' = winners + 1
    BY <1>8 DEF StartShip, TakeStage, durable
  <2>2. scaffolded' = TRUE
    BY <2>1 DEF IInv, ShowHalf, StageType
  <2>3. QED
    BY <1>2, <2>1, <2>2, WinnerCounted, CallKeeps
<1>9. CASE StartRevert
  <2>1. /\ Call("revert", 0) /\ playable' = 0 /\ onStage' = TRUE
        /\ UNCHANGED <<generation, top, repo, hosted, work, mirror, at, announcing, faults>>
        /\ UNCHANGED <<scaffolded, building>> /\ winners < MaxWinners /\ winners' = winners + 1
    BY <1>9 DEF StartRevert, TakeStage, durable
  <2>2. QED
    BY <1>2, <2>1, WinnerCounted, CallKeeps
<1>10. QED
  BY <1>3, <1>4, <1>5, <1>6, <1>7, <1>8, <1>9

LEMMA StartSwapKeeps ==
  ASSUME IInv, StartSwap
  PROVE  IInv'
<1>1. /\ winners' = winners + 1 /\ winners < MaxWinners
      /\ UNCHANGED <<repo, hosted, work, mirror, at, building, announcing, faults>>
  BY DEF StartSwap
<1>2. winners' \in 0..MaxWinners
  BY <1>1, WinnerCounted
<1>3. PICK target \in repo \ {generation} :
         IF scaffolded
         THEN /\ TakeStage /\ Call("swap", target)
              /\ UNCHANGED <<generation, top, scaffolded>>
         ELSE /\ Activate(target)
              /\ playable' = 0 /\ UNCHANGED <<onStage, chain>>
  BY DEF StartSwap
<1>4. target \in Generations /\ "swap" \in Kinds /\ scaffolded \in BOOLEAN /\ onStage \in BOOLEAN
  BY <1>3 DEF IInv, RepoHalf, ReposType, ShowHalf, StageType, Kinds
<1>5. CASE scaffolded
  <2>1. /\ Call("swap", target) /\ playable' = 0 /\ onStage' = TRUE
        /\ UNCHANGED <<generation, top, scaffolded>>
    BY <1>3, <1>5 DEF TakeStage
  <2>2. scaffolded' = TRUE
    BY <1>4, <1>5, <2>1
  <2>3. QED
    BY <1>1, <1>2, <1>4, <2>1, <2>2, CallKeeps
<1>6. CASE ~scaffolded
  <2>1. Activate(target) /\ playable' = 0 /\ UNCHANGED <<onStage, chain>> /\ top' = top
    BY <1>3, <1>6 DEF Activate
  <2>2. ChainType'
    BY <1>1, <2>1 DEF IInv, ShowHalf, ChainType
  <2>3. Cardinality(Ships(chain)) \in Nat /\ top + Cardinality(Ships(chain)) <= MaxGeneration
    BY ShipsFinite DEF IInv, ShowHalf, ChainType, RoomKept
  <2>4. PointerType' /\ RoomKept' /\ Below' /\ Built' /\ scaffolded' \in BOOLEAN
    BY <1>1, <2>1, <2>2, <2>3, PointerKeeps
  <2>5. LinksType' /\ StageType' /\ NoLinkUnderBuild'
    BY <1>1, <1>4, <2>1, <2>4, LinksKeep
  <2>6. RepoHalf' /\ Stands'
    BY <1>1, <2>1, ShowLeavesPublisher DEF IInv, RepoHalf, FilesType
  <2>7. CountsType'
    BY <1>1, <1>2 DEF IInv, CountsType
  <2>8. QED
    BY <2>2, <2>4, <2>5, <2>6, <2>7 DEF IInv, ShowHalf
<1>7. QED
  BY <1>5, <1>6

LEMMA RotateKeeps ==
  ASSUME IInv, Rotate
  PROVE  IInv'
<1>1. /\ NewProject /\ Room /\ UNCHANGED <<repo, hosted, mirror, at>>
      /\ UNCHANGED <<chain, work, onStage, building, announcing, playable, winners, faults>>
  BY DEF Rotate, show
<1>2. ChainType'
  BY <1>1 DEF IInv, ShowHalf, ChainType
<1>3. Cardinality(Ships(chain)) \in Nat
  BY ShipsFinite DEF IInv, ShowHalf, ChainType
<1>4. top + Cardinality(Ships(chain)) < MaxGeneration
  BY <1>1 DEF Room, Ships
<1>5. top + 1 + Cardinality(Ships(chain)) <= MaxGeneration
  BY <1>3, <1>4, Bounds
<1>6. PointerType' /\ RoomKept' /\ Below' /\ Built' /\ scaffolded' \in BOOLEAN
  BY <1>1, <1>2, <1>3, <1>5, NewProjectKeeps
<1>7. LinksType' /\ StageType' /\ NoLinkUnderBuild'
  BY <1>1, <1>6, LinksKeep
<1>8. RepoHalf' /\ Stands'
  BY <1>1, ShowLeavesPublisher DEF IInv, RepoHalf, FilesType
<1>9. CountsType'
  BY <1>1 DEF IInv, CountsType
<1>10. QED
  BY <1>2, <1>6, <1>7, <1>8, <1>9 DEF IInv, ShowHalf

\* A restart finds the tables; mirrors are as they were or gone.
LEMMA CrashKeeps ==
  ASSUME IInv, Crash
  PROVE  IInv'
<1>1. /\ Fault /\ chain' = <<>> /\ at' = "start" /\ onStage' = FALSE /\ building' = 0
      /\ announcing' = {} /\ playable' = 0
      /\ UNCHANGED <<generation, top, scaffolded, repo, created, remote, work, winners>>
      /\ UNCHANGED mirror \/ mirror' = [g \in Generations |-> NoMirror]
  BY DEF Crash, durable, hosted
<1>2. NoMirror \in Mirrors /\ NoMirror.git = FALSE
  BY DEF NoMirror, Mirrors
<1>3. FilesType' /\ MirrorExtendsRemote'
  BY <1>1, <1>2 DEF IInv, RepoHalf, FilesType, MirrorExtendsRemote
<1>4. ReposType' /\ Published'
  BY <1>1 DEF IInv, RepoHalf, ReposType, Published
<1>5. ChainType'
  BY <1>1, EmptySeq DEF ChainType, Steps
<1>6. PointerType' /\ LinksType' /\ NoLinkUnderBuild' /\ StageType'
  BY <1>1 DEF IInv, ShowHalf, PointerType, LinksType, NoLinkUnderBuild, StageType
<1>7. DOMAIN chain' = {}
  BY <1>1
<1>8. Below' /\ Built'
  BY <1>1, <1>7 DEF IInv, ShowHalf, Below, Built
<1>9. Ships(chain') = {}
  BY <1>7 DEF Ships
<1>10. RoomKept'
  <2>1. Cardinality(Ships(chain')) = 0
    BY <1>9, FS_EmptySet
  <2>2. top' = top
    BY <1>1
  <2>3. QED
    BY <2>1, <2>2, Bounds DEF RoomKept
<1>11. Stands'
  BY <1>1 DEF Stands
<1>12. CountsType'
  BY <1>1, CountsKeep
<1>13. QED
  BY <1>3, <1>4, <1>5, <1>6, <1>8, <1>10, <1>11, <1>12 DEF IInv, ShowHalf, RepoHalf

-------------------------------------------------------------------------------
(***************************************************************************)
(* The theorems                                                            *)
(***************************************************************************)

LEMMA InitHolds == Init => IInv
<1> SUFFICES ASSUME Init PROVE IInv
  OBVIOUS
<1>1. /\ generation = 1 /\ top = 1 /\ scaffolded = FALSE /\ repo = {} /\ created = {}
      /\ chain = <<>> /\ at = "start" /\ onStage = FALSE /\ building = 0
      /\ announcing = {} /\ playable = 0 /\ winners = 0 /\ faults = 0
      /\ work = [g \in Generations |-> {}] /\ remote = [g \in Generations |-> <<>>]
      /\ mirror = [g \in Generations |-> NoMirror]
  BY DEF Init
<1>2. NoMirror \in Mirrors /\ NoMirror.git = FALSE
  BY DEF NoMirror, Mirrors
<1>3. FilesType /\ MirrorExtendsRemote
  BY <1>1, <1>2 DEF FilesType, MirrorExtendsRemote
<1>4. ReposType /\ Published
  BY <1>1 DEF ReposType, Published
<1>5. PointerType
  BY <1>1, GalleryAssumption DEF PointerType, Generations, GalleryAssumption
<1>6. ChainType
  BY <1>1, EmptySeq DEF ChainType, Steps
<1>7. LinksType /\ StageType /\ NoLinkUnderBuild
  BY <1>1 DEF LinksType, StageType, NoLinkUnderBuild
<1>8. DOMAIN chain = {}
  BY <1>1
<1>9. Below /\ Built
  BY <1>1, <1>8 DEF Below, Built
<1>10. RoomKept
  <2>1. Ships(chain) = {}
    BY <1>8 DEF Ships
  <2>2. Cardinality(Ships(chain)) = 0
    BY <2>1, FS_EmptySet
  <2>3. QED
    BY <1>1, <2>2, GalleryAssumption DEF RoomKept, GalleryAssumption
<1>11. Stands
  BY <1>1 DEF Stands
<1>12. CountsType
  BY <1>1, GalleryAssumption DEF CountsType, GalleryAssumption
<1>13. QED
  BY <1>3, <1>4, <1>5, <1>6, <1>7, <1>9, <1>10, <1>11, <1>12 DEF IInv, ShowHalf, RepoHalf

LEMMA NextKeeps == IInv /\ [Next]_vars => IInv'
<1> SUFFICES ASSUME IInv, [Next]_vars PROVE IInv'
  OBVIOUS
<1>1. CASE Publisher
  <2>1. CASE Preflight
    BY <2>1, PreflightKeeps
  <2>2. CASE CreateRepo
    BY <2>2, CreateRepoKeeps
  <2>3. CASE InitMirror
    BY <2>3, InitMirrorKeeps
  <2>4. CASE Open
    <3>1. At("open") /\ Gen \in repo
      BY <2>4 DEF Open, At, IInv, Stands
    <3>2. OpenMirror("refresh") /\ UNCHANGED <<repo, hosted, work, winners>>
      BY <2>4 DEF Open
    <3>3. QED
      BY <3>1, <3>2, OpenMirrorKeeps DEF Steps
  <2>5. CASE Refresh
    BY <2>5, RefreshKeeps
  <2>6. CASE Add
    BY <2>6, AddKeeps
  <2>7. CASE Commit
    BY <2>7, CommitKeeps
  <2>8. CASE PushSnapshot \/ PushRevert
    BY <2>8, PushKeeps DEF PushSnapshot, PushRevert, Steps
  <2>9. CASE StartRevertCall
    BY <2>9, StartRevertCallKeeps
  <2>10. CASE RevertCommit
    BY <2>10, RevertCommitKeeps
  <2>11. CASE CopyBack
    BY <2>11, CopyBackKeeps
  <2>12. CASE Prune
    BY <2>12, PruneKeeps
  <2>13. QED
    BY <1>1, <2>1, <2>2, <2>3, <2>4, <2>5, <2>6, <2>7, <2>8, <2>9, <2>10, <2>11, <2>12
       DEF Publisher
<1>2. CASE \/ StartBuild \/ BuildWrites \/ BuildFails \/ HaltAndReset \/ Announce
           \/ BuildDone \/ StartShip \/ StartRevert
  BY <1>2, ShowKeeps
<1>3. CASE StartSwap
  BY <1>3, StartSwapKeeps
<1>4. CASE Rotate
  BY <1>4, RotateKeeps
<1>5. CASE Crash
  BY <1>5, CrashKeeps
<1>6. CASE UNCHANGED vars
  <2>1. /\ UNCHANGED <<durable, hosted, mirror, chain, at, faults>>
        /\ UNCHANGED <<work, announcing, onStage, playable, building, winners>>
    BY <1>6 DEF vars, show
  <2>2. work' \in [Generations -> SUBSET Files]
    BY <2>1 DEF IInv, RepoHalf, FilesType
  <2>3. QED
    BY <2>1, <2>2, StageKeeps
<1>7. QED
  BY <1>1, <1>2, <1>3, <1>4, <1>5, <1>6 DEF Next

LEMMA Invariance == Spec => []IInv
  BY InitHolds, NextKeeps, PTL DEF Spec

\* Every variable keeps its type: the pointer never passes the projects begun, and what
\* is announced or shown as playable has a repo.
THEOREM TypeCorrect == Spec => []TypeOK
<1>1. IInv => TypeOK
  BY DEF IInv, ShowHalf, RepoHalf, TypeOK
<1>2. QED
  BY <1>1, Invariance, PTL

\* Whatever fails, and however often mirrors are lost, each mirror extends what was pushed:
\* publishNow and revertLast never need anything but a fast-forward.
THEOREM MirrorsOnlyAdd == Spec => []MirrorExtendsRemote
<1>1. IInv => MirrorExtendsRemote
  BY DEF IInv, RepoHalf
<1>2. QED
  BY <1>1, Invariance, PTL

\* The project on stage has no repo until it has a build, after any swaps and rotations:
\* newProject allocates above every project there ever was.
THEOREM NewProjectsAreNew == Spec => []NewProjectIsNew
<1>1. IInv => NewProjectIsNew
  BY DEF IInv, ShowHalf, Built, NewProjectIsNew
<1>2. QED
  BY <1>1, Invariance, PTL

\* No play link is on screen while a build runs, whenever the Pages poll ends.
THEOREM NoLinkDuringBuild == Spec => []NoLinkUnderBuild
<1>1. IInv => NoLinkUnderBuild
  BY DEF IInv, ShowHalf
<1>2. QED
  BY <1>1, Invariance, PTL

\* Outside a build, no step takes from a workspace a file that the mirror's tree has:
\* revertLast copies before it prunes, so a revert that fails half way loses nothing.
THEOREM RevertLosesNothing == Spec => RevertKeepsFiles
<1>1. IInv /\ [Next]_vars =>
          [\A g \in Generations : building # g => (work[g] \ work'[g]) \cap mirror[g].tree = {}]_vars
  <2> SUFFICES ASSUME IInv, Next, NEW g \in Generations, building # g
               PROVE  (work[g] \ work'[g]) \cap mirror[g].tree = {}
    OBVIOUS
  <2>1. work \in [Generations -> SUBSET Files]
    BY DEF IInv, RepoHalf, FilesType
  <2>2. CASE work' = work
    BY <2>2
  <2>3. CASE BuildWrites
    BY <2>1, <2>3 DEF BuildWrites
  <2>4. CASE CopyBack
    <3>1. \E x : work' = [work EXCEPT ![Gen] = @ \cup x]
      BY <2>4 DEF CopyBack
    <3>2. QED
      BY <2>1, <3>1
  <2>5. CASE Prune
    <3>1. PICK x : work' = [work EXCEPT ![Gen] = x] /\ work[Gen] \cap mirror[Gen].tree \subseteq x
      <4>1. CASE work' = [work EXCEPT ![Gen] = @ \cap mirror[Gen].tree]
        BY <4>1
      <4>2. CASE \E part \in SUBSET (work[Gen] \ mirror[Gen].tree) :
                     work' = [work EXCEPT ![Gen] = @ \ part]
        BY <4>2
      <4>3. QED
        BY <2>5, <4>1, <4>2 DEF Prune
    <3>2. QED
      BY <2>1, <3>1
  <2>6. QED
    BY <2>2, <2>3, <2>4, <2>5
       DEF Next, Publisher, Preflight, CreateRepo, InitMirror, Open, Refresh, Add, Commit,
           PushSnapshot, StartRevertCall, RevertCommit, PushRevert, Push,
           StartBuild, BuildDone, BuildFails, HaltAndReset, StartShip, StartSwap, StartRevert,
           Rotate, Announce, Crash
<1>2. QED
  BY <1>1, Invariance, PTL DEF Spec, RevertKeepsFiles

=============================================================================

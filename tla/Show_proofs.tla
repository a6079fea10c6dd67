----------------------------- MODULE Show_proofs -----------------------------
(***************************************************************************)
(* What holds of the show for every number of candidates, every queue cap  *)
(* and every number of things the streamer does.                           *)
(***************************************************************************)
EXTENDS Show, SequenceTheorems, FiniteSetTheorems, FunctionTheorems, WellFoundedInduction, TLAPS

-------------------------------------------------------------------------------
(***************************************************************************)
(* The call stack                                                          *)
(***************************************************************************)

Lone == {"maybeBegin", "beginSuggestPhase", "maybeEarlyClose", "onPhaseEnd", "attemptRoundStart",
         "nextJob", "drain", "driveHead", "leaveVoting", "roundClosed", "windowClosed",
         "chaosFlag", "pickChaos"}

\* The calls there are.
Frame ==
    {<<f>> : f \in Lone}
    \union {<<"dispatchBuild", t, d>> : t \in Task, d \in Drives}
    \union {<<"continue", d>> : d \in Drives}
    \union {<<"drive", t, d>> : t \in Task, d \in {"window", "chaos"}}
    \union {<<"drainHears", m>> : m \in ActiveModes}
    \union {<<"windowHears", from, m>> : from \in Modes, m \in ActiveModes}

Elements(s) == {s[i] : i \in 1..Len(s)}
Lower(s)    == {s[i] : i \in 2..Len(s)}

\* The calls on the stack, and those under the running one.
Stack == Elements(calls)
Below == Lower(calls)

On(f) == \E c \in Stack : c[1] = f

LEMMA ElementsFew ==
  ASSUME NEW a, NEW b
  PROVE  Elements(<<>>) = {} /\ Elements(<<a>>) = {a} /\ Elements(<<a, b>>) = {a, b}
  BY EmptySeq DEF Elements

LEMMA ElementsConcat ==
  ASSUME NEW S, NEW s \in Seq(S), NEW u \in Seq(S)
  PROVE  s \o u \in Seq(S) /\ Elements(s \o u) = Elements(s) \union Elements(u)
<1>3. s \o u \in Seq(S) /\ Len(s \o u) = Len(s) + Len(u) /\ Len(s) \in Nat /\ Len(u) \in Nat
      /\ \A i \in 1..Len(s) + Len(u) : (s \o u)[i] = IF i <= Len(s) THEN s[i] ELSE u[i - Len(s)]
  BY ConcatProperties, LenProperties
<1>4. Elements(s \o u) \subseteq Elements(s) \union Elements(u)
  <2> SUFFICES ASSUME NEW i \in 1..Len(s) + Len(u)
               PROVE  (s \o u)[i] \in Elements(s) \union Elements(u)
    BY <1>3 DEF Elements
  <2>1. CASE i <= Len(s)
    BY <1>3, <2>1 DEF Elements
  <2>2. CASE ~(i <= Len(s))
    <3>1. i - Len(s) \in 1..Len(u)
      BY <1>3, <2>2
    <3>2. QED
      BY <1>3, <2>2, <3>1 DEF Elements
  <2>3. QED
    BY <2>1, <2>2
<1>5. Elements(s) \subseteq Elements(s \o u)
  <2> SUFFICES ASSUME NEW i \in 1..Len(s)
               PROVE  s[i] \in Elements(s \o u)
    BY DEF Elements
  <2>1. i \in 1..Len(s) + Len(u) /\ (s \o u)[i] = s[i]
    BY <1>3
  <2>2. QED
    BY <1>3, <2>1 DEF Elements
<1>6. Elements(u) \subseteq Elements(s \o u)
  <2> SUFFICES ASSUME NEW i \in 1..Len(u)
               PROVE  u[i] \in Elements(s \o u)
    BY DEF Elements
  <2>1. i + Len(s) \in 1..Len(s) + Len(u) /\ ~(i + Len(s) <= Len(s)) /\ (i + Len(s)) - Len(s) = i
    BY <1>3
  <2>2. (s \o u)[i + Len(s)] = u[i]
    BY <1>3, <2>1
  <2>3. QED
    BY <1>3, <2>1, <2>2 DEF Elements
<1>7. QED
  BY <1>3, <1>4, <1>5, <1>6

\* A sequence is its head and what is under it.
LEMMA TopOf ==
  ASSUME NEW S, NEW s \in Seq(S)
  PROVE  /\ s = <<>> => Elements(s) = {} /\ Lower(s) = {}
         /\ s # <<>> => Head(s) \in S /\ Elements(s) = {Head(s)} \union Lower(s)
         /\ Elements(s) \subseteq S /\ Lower(s) \subseteq Elements(s)
<1>1. Len(s) \in Nat /\ \A i \in 1..Len(s) : s[i] \in S
  BY LenProperties, ElementOfSeq
<1>2. s = <<>> => Elements(s) = {} /\ Lower(s) = {}
  BY EmptySeq DEF Elements, Lower
<1>3. Elements(s) \subseteq S /\ Lower(s) \subseteq Elements(s)
  BY <1>1 DEF Elements, Lower
<1>4. ASSUME s # <<>>  PROVE Head(s) \in S /\ Elements(s) = {Head(s)} \union Lower(s)
  <2>1. Len(s) # 0 /\ Head(s) = s[1]
    BY <1>1, <1>4, EmptySeq
  <2>2. 1..Len(s) = {1} \union 2..Len(s)
    BY <1>1, <2>1
  <2>3. QED
    BY <1>1, <2>1, <2>2 DEF Elements, Lower
<1>5. QED
  BY <1>2, <1>3, <1>4

\* A running call is the head of the stack, and the event loop has none.
LEMMA StackTop ==
  ASSUME calls \in Seq(Frame)
  PROVE  /\ InLoop => Stack = {} /\ Below = {}
         /\ ~InLoop => Head(calls) \in Frame /\ Stack = {Head(calls)} \union Below
         /\ Stack \subseteq Frame /\ Below \subseteq Stack
  BY TopOf DEF InLoop, Stack, Below

LEMMA StackTopNext ==
  ASSUME calls' \in Seq(Frame)
  PROVE  /\ InLoop' => Stack' = {} /\ Below' = {}
         /\ ~InLoop' => Head(calls') \in Frame /\ Stack' = {Head(calls')} \union Below'
         /\ Stack' \subseteq Frame /\ Below' \subseteq Stack'
  BY TopOf DEF InLoop, Stack, Below

\* What is under the running call.
LEMMA RestIsBelow ==
  ASSUME calls \in Seq(Frame)
  PROVE  LET rest == IF InLoop THEN <<>> ELSE Tail(calls) IN
         /\ rest \in Seq(Frame) /\ Elements(rest) = Below
         /\ \A k \in 1..Len(rest) : /\ k + 1 \in 2..Len(calls) /\ rest[k] = calls[k + 1]
                                   /\ Len(calls) - (k + 1) = Len(rest) - k
<1>1. CASE InLoop
  BY <1>1, StackTop, EmptySeq DEF Elements
<1>2. CASE ~InLoop
  <2>1. /\ Tail(calls) \in Seq(Frame) /\ Len(Tail(calls)) = Len(calls) - 1
        /\ \A i \in 1..Len(Tail(calls)) : Tail(calls)[i] = calls[i + 1]
    BY <1>2, HeadTailProperties DEF InLoop
  <2>2. Len(calls) \in Nat
    BY LenProperties
  <2>3. Elements(Tail(calls)) \subseteq Below
    <3> SUFFICES ASSUME NEW i \in 1..Len(Tail(calls))  PROVE Tail(calls)[i] \in Below
      BY DEF Elements
    <3>1. i + 1 \in 2..Len(calls)
      BY <2>1, <2>2
    <3>2. QED
      BY <2>1, <3>1 DEF Below, Lower
  <2>4. Below \subseteq Elements(Tail(calls))
    <3> SUFFICES ASSUME NEW i \in 2..Len(calls)  PROVE calls[i] \in Elements(Tail(calls))
      BY DEF Below, Lower
    <3>1. i - 1 \in 1..Len(Tail(calls)) /\ (i - 1) + 1 = i
      BY <2>1, <2>2
    <3>2. Tail(calls)[i - 1] = calls[i]
      BY <2>1, <3>1
    <3>3. QED
      BY <3>1, <3>2 DEF Elements
  <2>5. \A k \in 1..Len(Tail(calls)) : /\ k + 1 \in 2..Len(calls) /\ Tail(calls)[k] = calls[k + 1]
                                       /\ Len(calls) - (k + 1) = Len(Tail(calls)) - k
    BY <2>1, <2>2
  <2>6. QED
    BY <1>2, <2>1, <2>3, <2>4, <2>5
<1>3. QED
  BY <1>1, <1>2

\* The step leaves the calls of F on top of those it found under the running one, which keep
\* their places from the bottom.
Pushes(F) ==
    /\ calls' \in Seq(Frame) /\ Stack' = F \union Below
    /\ \A i \in 1..Len(calls') :
          \/ calls'[i] \in F
          \/ \E j \in 2..Len(calls) : calls'[i] = calls[j] /\ Len(calls) - j = Len(calls') - i

\* What a step that ends in the calls of s leaves on the stack.
LEMMA ThenStack ==
  ASSUME calls \in Seq(Frame), NEW s \in Seq(Frame), Then(s)
  PROVE  Pushes(Elements(s))
<1> DEFINE rest == IF InLoop THEN <<>> ELSE Tail(calls)
<1>1. /\ rest \in Seq(Frame) /\ Elements(rest) = Below
      /\ \A k \in 1..Len(rest) : /\ k + 1 \in 2..Len(calls) /\ rest[k] = calls[k + 1]
                                /\ Len(calls) - (k + 1) = Len(rest) - k
  BY RestIsBelow
<1>2. calls' = s \o rest
  BY DEF Then
<1> HIDE DEF rest
<1>3. Stack' = Elements(s \o rest)
  BY <1>2 DEF Stack
<1>4. s \o rest \in Seq(Frame) /\ Elements(s \o rest) = Elements(s) \union Elements(rest)
  BY <1>1, ElementsConcat
<1>5. /\ Len(calls') = Len(s) + Len(rest) /\ Len(s) \in Nat /\ Len(rest) \in Nat
      /\ \A i \in 1..Len(s) + Len(rest) : calls'[i] = IF i <= Len(s) THEN s[i] ELSE rest[i - Len(s)]
  BY <1>1, <1>2, ConcatProperties, LenProperties
<1>6. ASSUME NEW i \in 1..Len(calls')
      PROVE  \/ calls'[i] \in Elements(s)
             \/ \E j \in 2..Len(calls) : calls'[i] = calls[j] /\ Len(calls) - j = Len(calls') - i
  <2>1. CASE i <= Len(s)
    BY <1>5, <2>1 DEF Elements
  <2>2. CASE ~(i <= Len(s))
    <3> DEFINE k == i - Len(s)
    <3>1. k \in 1..Len(rest) /\ calls'[i] = rest[k] /\ Len(rest) - k = Len(calls') - i
      BY <1>5, <2>2
    <3>2. k + 1 \in 2..Len(calls) /\ rest[k] = calls[k + 1] /\ Len(calls) - (k + 1) = Len(rest) - k
      BY <1>1, <3>1
    <3> HIDE DEF k
    <3>3. QED
      BY <3>1, <3>2
  <2>3. QED
    BY <2>1, <2>2
<1>7. QED
  BY <1>1, <1>2, <1>3, <1>4, <1>6 DEF Pushes

\* One call on top of what was under the running one.
LEMMA OneBelow ==
  ASSUME calls \in Seq(Frame), NEW a \in Frame, Then(<<a>>)
  PROVE  Below' = Below /\ Head(calls') = a /\ ~InLoop'
<1> DEFINE rest == IF InLoop THEN <<>> ELSE Tail(calls)
<1>1. rest \in Seq(Frame) /\ Elements(rest) = Below
  BY RestIsBelow
<1>2. <<a>> \in Seq(Frame) /\ Len(<<a>>) = 1 /\ calls' = <<a>> \o rest
  BY DEF Then
<1> HIDE DEF rest
<1>3. Len(rest) \in Nat
  BY <1>1, LenProperties
<1>4. /\ calls' \in Seq(Frame) /\ Len(calls') = 1 + Len(rest)
      /\ \A i \in 1..1 + Len(rest) : calls'[i] = IF i <= 1 THEN a ELSE rest[i - 1]
  <2>1. \A i \in 1..1 + Len(rest) : (<<a>> \o rest)[i] = IF i <= 1 THEN <<a>>[i] ELSE rest[i - 1]
    BY <1>1, <1>2, ConcatProperties
  <2>2. QED
    BY <1>1, <1>2, <1>3, <2>1, ConcatProperties
<1>5. ~InLoop' /\ Head(calls') = a
  BY <1>3, <1>4, EmptySeq DEF InLoop
<1>6. Lower(calls') \subseteq Elements(rest)
  <2> SUFFICES ASSUME NEW i \in 2..1 + Len(rest)  PROVE calls'[i] \in Elements(rest)
    BY <1>4 DEF Lower
  <2>1. i - 1 \in 1..Len(rest) /\ calls'[i] = rest[i - 1]
    BY <1>3, <1>4
  <2>2. QED
    BY <2>1 DEF Elements
<1>7. Elements(rest) \subseteq Lower(calls')
  <2> SUFFICES ASSUME NEW i \in 1..Len(rest)  PROVE rest[i] \in Lower(calls')
    BY DEF Elements
  <2>1. i + 1 \in 2..Len(calls') /\ calls'[i + 1] = rest[i]
    BY <1>3, <1>4
  <2>2. QED
    BY <2>1 DEF Lower
<1>8. QED
  BY <1>1, <1>5, <1>6, <1>7 DEF Below

LEMMA FramesAre ==
  /\ \A f \in Lone : <<f>> \in Frame
  /\ \A t \in Task, d \in Drives : <<"dispatchBuild", t, d>> \in Frame
  /\ \A d \in Drives : <<"continue", d>> \in Frame
  /\ \A t \in Task, d \in {"window", "chaos"} : <<"drive", t, d>> \in Frame
  /\ \A m \in ActiveModes : <<"drainHears", m>> \in Frame
  /\ \A from \in Modes, m \in ActiveModes : <<"windowHears", from, m>> \in Frame
  BY DEF Frame

\* What a call on the stack carries.
LEMMA FrameHolds ==
  ASSUME NEW c \in Frame
  PROVE  /\ c[1] \in {"dispatchBuild", "drive"} => c[2] \in Task /\ c[3] \in Drives
         /\ c[1] = "drive" => c[3] \in {"window", "chaos"}
         /\ c[1] = "continue" => c[2] \in Drives
         /\ c[1] = "drainHears" => c[2] \in ActiveModes /\ c = <<"drainHears", c[2]>>
         /\ c[1] = "windowHears" => c[2] \in Modes /\ c[3] \in ActiveModes
         /\ \A f \in Lone : c[1] = f => c = <<f>>
<1>1. CASE c \in {<<f>> : f \in Lone}
  BY <1>1 DEF Lone
<1>2. CASE c \in {<<"dispatchBuild", t, d>> : t \in Task, d \in Drives}
  BY <1>2 DEF Lone
<1>3. CASE c \in {<<"continue", d>> : d \in Drives}
  BY <1>3 DEF Lone
<1>4. CASE c \in {<<"drive", t, d>> : t \in Task, d \in {"window", "chaos"}}
  BY <1>4 DEF Lone, Drives
<1>5. CASE c \in {<<"drainHears", m>> : m \in ActiveModes}
  BY <1>5 DEF Lone
<1>6. CASE c \in {<<"windowHears", from, m>> : from \in Modes, m \in ActiveModes}
  BY <1>6 DEF Lone
<1>7. QED
  BY <1>1, <1>2, <1>3, <1>4, <1>5, <1>6 DEF Frame

\* The shapes in which the steps end.
LEMMA ReturnPushes ==
  ASSUME calls \in Seq(Frame), Return
  PROVE  Pushes({})
  BY ThenStack, ElementsFew, EmptySeq DEF Return

LEMMA OnePushes ==
  ASSUME calls \in Seq(Frame), NEW a \in Frame, Then(<<a>>)
  PROVE  Pushes({a})
<1>1. <<a>> \in Seq(Frame)
  OBVIOUS
<1>2. QED
  BY <1>1, ThenStack, ElementsFew

LEMMA TwoPushes ==
  ASSUME calls \in Seq(Frame), NEW a \in Frame, NEW b \in Frame, Then(<<a, b>>)
  PROVE  Pushes({a, b})
<1>1. <<a, b>> \in Seq(Frame)
  OBVIOUS
<1>2. QED
  BY <1>1, ThenStack, ElementsFew

\* The listeners of a move of the mode to m.
Hears(m) == {<<"windowHears", mode, m>>, <<"maybeBegin">>, <<"drainHears", m>>}

Moves(m, F) ==
    /\ mode \in ActiveModes /\ m \in Transitions[mode]
    /\ mode' = m /\ haltedFrom' = haltedFrom
    /\ Pushes(Hears(m) \union F)

Typed == TypeOK /\ calls \in Seq(Frame)

LEMMA ListenersFrames ==
  ASSUME ModeTypeOK, NEW m \in ActiveModes
  PROVE  Listeners(m) \in Seq(Frame) /\ Elements(Listeners(m)) = Hears(m)
<1>1. <<"windowHears", mode, m>> \in Frame /\ <<"maybeBegin">> \in Frame /\ <<"drainHears", m>> \in Frame
  BY FramesAre DEF ModeTypeOK, Lone
<1>2. Listeners(m) \in Seq(Frame)
  BY <1>1 DEF Listeners
<1>3. Len(Listeners(m)) = 3
  BY DEF Listeners
<1>4. Elements(Listeners(m)) = {Listeners(m)[1], Listeners(m)[2], Listeners(m)[3]}
  BY <1>3 DEF Elements
<1>5. QED
  BY <1>2, <1>4 DEF Listeners, Hears

LEMMA MovePushes ==
  ASSUME Typed, NEW m \in ActiveModes, NEW s \in Seq(Frame), MoveTo(m, s)
  PROVE  Moves(m, Elements(s))
<1>1. mode \in ActiveModes /\ m \in Transitions[mode] /\ mode' = m /\ haltedFrom' = haltedFrom
  BY DEF MoveTo, Transition, Typed, TypeOK, ModeTypeOK, Modes, Transitions
<1>2. Listeners(m) \in Seq(Frame) /\ Elements(Listeners(m)) = Hears(m)
  BY ListenersFrames DEF Typed, TypeOK
<1>3. Listeners(m) \o s \in Seq(Frame) /\ Elements(Listeners(m) \o s) = Hears(m) \union Elements(s)
  BY <1>2, ElementsConcat
<1>4. Pushes(Hears(m) \union Elements(s))
  BY <1>3, ThenStack DEF MoveTo, Typed
<1>5. QED
  BY <1>1, <1>4 DEF Moves

\* A step that leaves the mode pushes F either way.
LeavesTo(from, m, F) ==
    IF mode = from THEN Moves(m, F) ELSE UNCHANGED modeVars /\ Pushes(F)

LEMMA LeavePushes ==
  ASSUME Typed, NEW from, NEW m \in ActiveModes, NEW s \in Seq(Frame), LeaveModeTo(from, m, s)
  PROVE  LeavesTo(from, m, Elements(s))
  BY MovePushes, ThenStack DEF LeaveModeTo, LeavesTo, Typed

\* The same steps when what goes on is one call, or none.
LEMMA MoveFew ==
  ASSUME Typed, NEW m \in ActiveModes
  PROVE  /\ MoveTo(m, <<>>) => Moves(m, {})
         /\ \A a \in Frame : MoveTo(m, <<a>>) => Moves(m, {a})
<1>1. ASSUME MoveTo(m, <<>>)  PROVE Moves(m, {})
  <2>1. Moves(m, Elements(<<>>))
    BY <1>1, MovePushes, EmptySeq
  <2>2. QED
    BY <2>1, ElementsFew
<1>2. ASSUME NEW a \in Frame, MoveTo(m, <<a>>)  PROVE Moves(m, {a})
  <2>1. <<a>> \in Seq(Frame)
    OBVIOUS
  <2>2. Moves(m, Elements(<<a>>))
    BY <1>2, <2>1, MovePushes
  <2>3. QED
    BY <2>2, ElementsFew
<1>3. QED
  BY <1>1, <1>2

LEMMA LeaveFew ==
  ASSUME Typed, NEW from, NEW m \in ActiveModes
  PROVE  /\ LeaveModeTo(from, m, <<>>) => LeavesTo(from, m, {})
         /\ \A a \in Frame : LeaveModeTo(from, m, <<a>>) => LeavesTo(from, m, {a})
<1>1. ASSUME LeaveModeTo(from, m, <<>>)  PROVE LeavesTo(from, m, {})
  <2>1. LeavesTo(from, m, Elements(<<>>))
    BY <1>1, LeavePushes, EmptySeq
  <2>2. QED
    BY <2>1, ElementsFew
<1>2. ASSUME NEW a \in Frame, LeaveModeTo(from, m, <<a>>)  PROVE LeavesTo(from, m, {a})
  <2>1. <<a>> \in Seq(Frame)
    OBVIOUS
  <2>2. LeavesTo(from, m, Elements(<<a>>))
    BY <1>2, <2>1, LeavePushes
  <2>3. QED
    BY <2>2, ElementsFew
<1>3. QED
  BY <1>1, <1>2

Enters(F) == 
    IF mode = "BUILD_IN_PROGRESS" THEN UNCHANGED modeVars /\ Pushes(F) ELSE Moves("BUILD_IN_PROGRESS", F)

LEMMA EnterPushes ==
  ASSUME Typed, NEW s \in Seq(Frame), EnterBuildMode(s)
  PROVE  Enters(Elements(s))
  BY MovePushes, ThenStack DEF EnterBuildMode, Enters, Typed, ActiveModes

Stays(F) == UNCHANGED modeVars /\ Pushes(F)

\* A step of the event loop that calls nothing.
LEMMA QuietPushes ==
  ASSUME calls \in Seq(Frame), InLoop, UNCHANGED calls
  PROVE  Pushes({})
<1>1. Stack' = Stack /\ Len(calls') = 0
  BY EmptySeq DEF Stack, InLoop
<1>2. QED
  BY <1>1, StackTop DEF Pushes

-------------------------------------------------------------------------------
(***************************************************************************)
(* What each step does to the mode and to the stack                        *)
(***************************************************************************)

LEMMA RunningFrame ==
  ASSUME Typed, ~InLoop
  PROVE  LET c == Head(calls) IN
         /\ c \in Frame /\ Stack = {c} \union Below
         /\ c[1] \in {"dispatchBuild", "drive"} => c[2] \in Task /\ c[3] \in Drives
         /\ c[1] = "drive" => c[3] \in {"window", "chaos"}
         /\ c[1] = "continue" => c[2] \in Drives
         /\ c[1] = "drainHears" => c[2] \in ActiveModes /\ c = <<"drainHears", c[2]>>
         /\ c[1] = "windowHears" => c[2] \in Modes /\ c[3] \in ActiveModes
  BY StackTop, FrameHolds DEF Typed

LEMMA TrackCalls ==
  ASSUME Typed, NEW job \in Job, NEW s \in Seq(Frame), Track(job, s)
  PROVE  Stays(Elements(s)) \/ Moves("BUILD_IN_PROGRESS", Elements(s))
<1>1. CASE Then(s) /\ UNCHANGED modeVars
  BY <1>1, ThenStack DEF Stays, Typed
<1>2. CASE EnterBuildMode(s)
  BY <1>2, EnterPushes DEF Enters, Stays
<1>3. QED
  BY <1>1, <1>2 DEF Track

LEMMA DispatchBuildCalls ==
  ASSUME Typed, DispatchBuild
  PROVE  LET drive == Head(calls)[3] IN
         \/ mode = "HALTED" /\ Stays({<<"continue", drive>>}) /\ UNCHANGED <<building, line>>
         \/ Stays({}) \/ Moves("BUILD_IN_PROGRESS", {})
<1> DEFINE t == Head(calls)[2]
           drive == Head(calls)[3]
<1>1. t \in Task /\ drive \in Drives
  BY RunningFrame DEF DispatchBuild, Call
<1>2. CASE mode = "HALTED"
  <2>1. Then(<<<<"continue", drive>>>>) /\ UNCHANGED <<modeVars, building, line>>
    BY <1>2 DEF DispatchBuild
  <2>2. <<"continue", drive>> \in Frame
    BY <1>1, FramesAre
  <2>3. QED
    BY <1>2, <2>1, <2>2, OnePushes DEF Stays, Typed
<1>3. CASE mode # "HALTED"
  <2>1. Track([task |-> t, drive |-> drive, retry |-> FALSE], <<>>)
    BY <1>3 DEF DispatchBuild
  <2>2. [task |-> t, drive |-> drive, retry |-> FALSE] \in Job
    BY <1>1 DEF Job
  <2>3. Stays(Elements(<<>>)) \/ Moves("BUILD_IN_PROGRESS", Elements(<<>>))
    BY <2>1, <2>2, TrackCalls, EmptySeq
  <2>4. QED
    BY <2>3, ElementsFew
<1>4. QED
  BY <1>2, <1>3

LEMMA JobDrive ==
  ASSUME Typed
  PROVE  building.drive \in Drives
  BY DEF Typed, TypeOK, Job, NoJob, Settling, Drives

LEMMA AfterBuildCalls ==
  ASSUME Typed
  PROVE  /\ <<"nextJob">> \in Frame /\ <<"continue", building.drive>> \in Frame
         /\ AfterBuild \in Seq(Frame)
         /\ Elements(AfterBuild) = {<<"nextJob">>, <<"continue", building.drive>>}
<1>1. <<"nextJob">> \in Frame /\ <<"continue", building.drive>> \in Frame
  BY JobDrive, FramesAre DEF Lone
<1>2. AfterBuild \in Seq(Frame)
  BY <1>1 DEF AfterBuild
<1>3. QED
  BY <1>1, <1>2, ElementsFew DEF AfterBuild

LEMMA BuildEndsCalls ==
  ASSUME Typed, BuildEnds
  PROVE  LeavesTo("BUILD_IN_PROGRESS", "IDLE", {<<"nextJob">>, <<"continue", building.drive>>})
  BY AfterBuildCalls, LeavePushes DEF BuildEnds, ActiveModes

LEMMA BuildNeedsDecisionCalls ==
  ASSUME Typed, BuildNeedsDecision
  PROVE  Stays({<<"nextJob">>, <<"continue", building.drive>>})
  BY AfterBuildCalls, ThenStack DEF BuildNeedsDecision, Stays, Typed

LEMMA NextJobCalls ==
  ASSUME Typed, NextJob
  PROVE  \/ Stays({}) /\ UNCHANGED queue
         \/ \E drive \in Drives : mode = "HALTED" /\ Stays({<<"nextJob">>, <<"continue", drive>>})
         \/ Moves("BUILD_IN_PROGRESS", {}) /\ UNCHANGED queue
<1>1. CASE line = <<>>
  BY <1>1, ReturnPushes DEF NextJob, Stays, Typed
<1>2. CASE line # <<>>
  <2>1. Head(line) \in Job /\ Head(line).drive \in Drives
    <3>1. line \in Seq(Job)
      BY DEF Typed, TypeOK
    <3>2. Head(line) \in Job
      BY <1>2, <3>1, HeadTailProperties
    <3>3. QED
      BY <3>2 DEF Job
  <2>2. CASE mode = "HALTED" /\ ~Head(line).retry
    <3>1. Then(<<<<"nextJob">>, <<"continue", Head(line).drive>>>>) /\ UNCHANGED modeVars
      BY <1>2, <2>2 DEF NextJob
    <3>2. <<"nextJob">> \in Frame /\ <<"continue", Head(line).drive>> \in Frame
      BY <2>1, FramesAre DEF Lone
    <3>3. Stays({<<"nextJob">>, <<"continue", Head(line).drive>>})
      BY <3>1, <3>2, TwoPushes DEF Stays, Typed
    <3>4. QED
      BY <2>1, <2>2, <3>3
  <2>3. CASE ~(mode = "HALTED" /\ ~Head(line).retry)
    <3>1. UNCHANGED queue /\ ((Return /\ UNCHANGED modeVars) \/ EnterBuildMode(<<>>))
      BY <1>2, <2>3 DEF NextJob
    <3>2. CASE Return /\ UNCHANGED modeVars
      BY <3>1, <3>2, ReturnPushes DEF Stays, Typed
    <3>3. CASE EnterBuildMode(<<>>)
      <4>1. Enters(Elements(<<>>))
        BY <3>3, EnterPushes, EmptySeq
      <4>2. QED
        BY <3>1, <4>1, ElementsFew DEF Enters, Stays
    <3>4. QED
      BY <3>1, <3>2, <3>3
  <2>4. QED
    BY <2>2, <2>3
<1>3. QED
  BY <1>1, <1>2

LEMMA RetryCalls ==
  ASSUME Typed, Retry
  PROVE  Stays({}) \/ Moves("BUILD_IN_PROGRESS", {})
<1>1. [task |-> pending, drive |-> "nobody", retry |-> TRUE] \in Job
  BY DEF Retry, Typed, TypeOK, Job, Drives
<1>2. Stays(Elements(<<>>)) \/ Moves("BUILD_IN_PROGRESS", Elements(<<>>))
  BY <1>1, TrackCalls, EmptySeq DEF Retry
<1>3. QED
  BY <1>2, ElementsFew

LEMMA SkipCalls ==
  ASSUME Typed, Skip
  PROVE  LeavesTo("BUILD_IN_PROGRESS", "IDLE", {})
  BY LeaveFew DEF Skip, ActiveModes

LEMMA DrainCalls ==
  ASSUME Typed, Drain
  PROVE  \/ /\ ~MayDrain \/ \A t \in Task : ~IsHead(t)
            /\ Stays({})
            /\ UNCHANGED <<queue, over, started, chaosWindow, unheard>>
         \/ \E t \in Task :
               /\ MayDrain /\ IsHead(t) /\ t \in Chaos /\ Stamp(t)
               /\ Stays(IF mode = "IDLE" THEN {<<"drain">>} ELSE {})
               /\ queue' = Without(t) /\ over' = over \union {t}
               /\ unheard' = (unheard \/ mode = "IDLE")
         \/ \E t \in Task :
               /\ MayDrain /\ IsHead(t) /\ t \notin Chaos /\ Stamp(t)
               /\ Moves("BUILD_IN_PROGRESS", {<<"dispatchBuild", t, "vote">>})
               /\ UNCHANGED <<queue, over, chaosWindow, unheard>>
<1>1. CASE /\ ~MayDrain \/ \A t \in Task : ~IsHead(t)
           /\ Return
           /\ UNCHANGED <<modeVars, queue, over, started, chaosWindow, unheard>>
  <2>1. Stays({})
    BY <1>1, ReturnPushes DEF Stays, Typed
  <2>2. QED
    BY <1>1, <2>1
<1>2. ASSUME NEW t \in Task, MayDrain, IsHead(t), Stamp(t), DrainChaosWinner(t)
      PROVE  /\ t \in Chaos /\ Stays(IF mode = "IDLE" THEN {<<"drain">>} ELSE {})
             /\ queue' = Without(t) /\ over' = over \union {t}
             /\ unheard' = (unheard \/ mode = "IDLE")
  <2>1. <<"drain">> \in Frame
    BY FramesAre DEF Lone
  <2>2. CASE mode = "IDLE"
    BY <1>2, <2>1, <2>2, OnePushes DEF DrainChaosWinner, Finish, Stays, Typed
  <2>3. CASE mode # "IDLE"
    <3>1. Return
      BY <1>2, <2>3 DEF DrainChaosWinner, Return
    <3>2. QED
      BY <1>2, <2>3, <3>1, ReturnPushes DEF DrainChaosWinner, Finish, Stays, Typed
  <2>4. QED
    BY <2>2, <2>3
<1>3. ASSUME NEW t \in Task, MayDrain, IsHead(t), Stamp(t), DrainWinner(t)
      PROVE  /\ t \notin Chaos /\ Moves("BUILD_IN_PROGRESS", {<<"dispatchBuild", t, "vote">>})
             /\ UNCHANGED <<queue, over, chaosWindow, unheard>>
  <2>1. <<"dispatchBuild", t, "vote">> \in Frame
    BY FramesAre DEF Drives
  <2>2. QED
    BY <1>3, <2>1, MoveFew DEF DrainWinner, ActiveModes
<1>4. QED
  BY <1>1, <1>2, <1>3 DEF Drain

LEMMA DriveCalls ==
  ASSUME Typed, Drive
  PROVE  LET t == Head(calls)[2]
             drive == Head(calls)[3]
         IN \/ Stays({})
            \/ LeavesTo(IF drive = "window" THEN "FREE_REIGN_WINDOW" ELSE "CHAOS_MODE",
                        "BUILD_IN_PROGRESS", {<<"dispatchBuild", t, drive>>})
<1> DEFINE t == Head(calls)[2]
           drive == Head(calls)[3]
           from == IF drive = "window" THEN "FREE_REIGN_WINDOW" ELSE "CHAOS_MODE"
<1>1. t \in Task /\ drive \in Drives
  BY RunningFrame DEF Drive, Call
<1>2. CASE UNCHANGED modeVars /\ Return
  BY <1>2, ReturnPushes DEF Stays, Typed
<1>3. CASE LeaveModeTo(from, "BUILD_IN_PROGRESS", <<<<"dispatchBuild", t, drive>>>>)
  <2>1. <<"dispatchBuild", t, drive>> \in Frame
    BY <1>1, FramesAre
  <2>2. QED
    BY <1>3, <2>1, LeaveFew DEF ActiveModes
<1>4. QED
  BY <1>2, <1>3 DEF Drive

LEMMA ContinueCalls ==
  ASSUME Typed, Continue
  PROVE  \/ Stays({})
         \/ mode = "IDLE" /\ Stays({<<"drain">>})
         \/ window = "live" /\ Moves("FREE_REIGN_WINDOW", {<<"driveHead">>})
         \/ chaosOn /\ Moves("CHAOS_MODE", {<<"pickChaos">>})
<1>1. <<"drain">> \in Frame /\ <<"driveHead">> \in Frame /\ <<"pickChaos">> \in Frame
  BY FramesAre DEF Lone
<1>2. CASE mode = "IDLE" /\ Then(<<<<"drain">>>>) /\ UNCHANGED modeVars
  BY <1>1, <1>2, OnePushes DEF Stays, Typed
<1>3. CASE window = "live" /\ MoveTo("FREE_REIGN_WINDOW", <<<<"driveHead">>>>)
  BY <1>1, <1>3, MoveFew DEF ActiveModes
<1>4. CASE chaosOn /\ MoveTo("CHAOS_MODE", <<<<"pickChaos">>>>)
  BY <1>1, <1>4, MoveFew DEF ActiveModes
<1>5. CASE Return /\ UNCHANGED modeVars
  BY <1>5, ReturnPushes DEF Stays, Typed
<1>6. QED
  BY <1>2, <1>3, <1>4, <1>5 DEF Continue

LEMMA DriveHeadCalls ==
  ASSUME Typed, DriveHead
  PROVE  Stays({}) \/ \E t \in Task : Stays({<<"drive", t, "window">>})
<1>1. CASE queue = <<>>
  BY <1>1, ReturnPushes DEF DriveHead, Stays, Typed, Return
<1>2. CASE queue # <<>>
  <2>1. Head(queue) \in Task
    BY <1>2, HeadTailProperties DEF Typed, TypeOK
  <2>2. <<"drive", Head(queue), "window">> \in Frame
    BY <2>1, FramesAre
  <2>3. QED
    BY <1>2, <2>1, <2>2, OnePushes DEF DriveHead, Stays, Typed
<1>3. QED
  BY <1>1, <1>2

LEMMA DrainHearsCalls ==
  ASSUME Typed, DrainHears
  PROVE  Stays({})
  BY ReturnPushes DEF DrainHears, Stays, Typed

LEMMA DrainTickCalls ==
  ASSUME Typed, DrainTick
  PROVE  Stays(IF mode = "IDLE" THEN {<<"drain">>} ELSE {})
<1>1. <<"drain">> \in Frame
  BY FramesAre DEF Lone
<1>2. CASE mode = "IDLE"
  BY <1>1, <1>2, OnePushes DEF DrainTick, Stays, Typed
<1>3. CASE mode # "IDLE"
  BY <1>3, ReturnPushes DEF DrainTick, Stays, Typed, Return
<1>4. QED
  BY <1>2, <1>3

LEMMA SuggestCalls ==
  ASSUME Typed, NEW t, Suggest(t)
  PROVE  Stays({<<"maybeEarlyClose">>})
<1>1. <<"maybeEarlyClose">> \in Frame
  BY FramesAre DEF Lone
<1>2. QED
  BY <1>1, OnePushes DEF Suggest, Stays, Typed

LEMMA RepooledCalls ==
  ASSUME Typed, NEW t, Repooled(t)
  PROVE  Stays({<<"maybeEarlyClose">>})
<1>1. <<"maybeEarlyClose">> \in Frame
  BY FramesAre DEF Lone
<1>2. QED
  BY <1>1, OnePushes DEF Repooled, Stays, Typed

LEMMA InstructionCalls ==
  ASSUME Typed, NEW t \in Task, InstructionApproved(t)
  PROVE  Stays({<<"drive", t, "window">>})
<1>1. <<"drive", t, "window">> \in Frame
  BY FramesAre
<1>2. QED
  BY <1>1, OnePushes DEF InstructionApproved, Stays, Typed

LEMMA PickCalls ==
  ASSUME Typed, NEW t, NEW on \in Seq(Frame), NEW then \in Seq(Frame), PickFromPool(t, on, then)
  PROVE  Pushes(Elements(on) \union Elements(then))
<1>1. on \o then \in Seq(Frame) /\ Elements(on \o then) = Elements(on) \union Elements(then)
  BY ElementsConcat
<1>2. QED
  BY <1>1, ThenStack DEF PickFromPool, Typed

LEMMA OpenRoundCalls ==
  ASSUME Typed, OpenRound
  PROVE  LeavesTo("IDLE", "VOTING_ROUND", {})
  BY LeaveFew DEF OpenRound, ActiveModes

LEMMA AttemptCalls ==
  ASSUME Typed, AttemptRoundStart
  PROVE  \/ Stays({<<"drain">>, <<"maybeBegin">>})
         \/ Stays({<<"maybeBegin">>}) /\ UNCHANGED queue
         \/ AttemptWaits /\ Stays({})
         \/ AttemptVote /\ LeavesTo("IDLE", "VOTING_ROUND", {})
         \/ AttemptRestart /\ Stays({<<"beginSuggestPhase">>})
<1>1. /\ <<"maybeBegin">> \in Frame /\ <<"beginSuggestPhase">> \in Frame
      /\ <<<<"drain">>>> \in Seq(Frame) /\ PicksAgain \in Seq(Frame)
  BY FramesAre DEF Lone, PicksAgain
<1>2. Elements(<<<<"drain">>>>) \union Elements(PicksAgain) = {<<"drain">>, <<"maybeBegin">>}
  <2>1. Elements(<<<<"drain">>>>) = {<<"drain">>} /\ Elements(PicksAgain) = {<<"maybeBegin">>}
    BY ElementsFew DEF PicksAgain
  <2>2. QED
    BY <2>1
<1>3. CASE AttemptChaosPick
  <2>1. CASE \E t \in pool : PickFromPool(t, <<<<"drain">>>>, PicksAgain)
    BY <1>1, <1>2, <1>3, <2>1, PickCalls DEF AttemptChaosPick, Stays
  <2>2. CASE UNCHANGED queue /\ Then(<<<<"maybeBegin">>>>)
    BY <1>1, <1>3, <2>2, OnePushes DEF AttemptChaosPick, Stays, Typed
  <2>3. CASE \E t \in pool : Recheck(t) /\ Then(PicksAgain)
    BY <2>2, <2>3 DEF Recheck, PicksAgain
  <2>4. QED
    BY <1>3, <2>1, <2>2, <2>3 DEF AttemptChaosPick
<1>4. CASE AttemptSolo
  <2>1. CASE \E t \in pool : PickFromPool(t, <<<<"drain">>>>, PicksAgain)
    <3>1. Pushes({<<"drain">>, <<"maybeBegin">>})
      BY <1>1, <1>2, <2>1, PickCalls
    <3>2. QED
      BY <1>4, <3>1 DEF AttemptSolo, Stays
  <2>2. CASE UNCHANGED queue /\ Then(<<<<"maybeBegin">>>>)
    BY <1>1, <1>4, <2>2, OnePushes DEF AttemptSolo, Stays, Typed
  <2>3. QED
    BY <1>4, <2>1, <2>2 DEF AttemptSolo, Recheck, PicksAgain
<1>5. CASE AttemptWaits
  BY <1>5, ReturnPushes DEF AttemptWaits, Stays, Typed
<1>6. CASE AttemptVote
  BY <1>6, OpenRoundCalls DEF AttemptVote
<1>7. CASE AttemptRestart
  BY <1>1, <1>7, OnePushes DEF AttemptRestart, Stays, Typed
<1>8. QED
  BY <1>3, <1>4, <1>5, <1>6, <1>7 DEF AttemptRoundStart

LEMMA RoundTimerCalls ==
  ASSUME Typed, RoundTimer
  PROVE  \/ Stays({<<"drain">>, <<"leaveVoting">>})
         \/ Stays({<<"leaveVoting">>}) /\ UNCHANGED queue
<1>1. <<"drain">> \in Frame /\ <<"leaveVoting">> \in Frame
  BY FramesAre DEF Lone
<1>2. CASE Then(<<<<"drain">>, <<"leaveVoting">>>>)
  BY <1>1, <1>2, TwoPushes DEF RoundTimer, Stays, Typed
<1>3. CASE UNCHANGED queue /\ Then(<<<<"leaveVoting">>>>)
  BY <1>1, <1>3, OnePushes DEF RoundTimer, Stays, Typed
<1>4. QED
  BY <1>2, <1>3 DEF RoundTimer, Recheck

LEMMA LeaveVotingCalls ==
  ASSUME Typed, LeaveVoting
  PROVE  LeavesTo("VOTING_ROUND", "IDLE", {<<"roundClosed">>})
<1>1. <<"roundClosed">> \in Frame
  BY FramesAre DEF Lone
<1>2. QED
  BY <1>1, LeaveFew DEF LeaveVoting, ActiveModes

LEMMA RoundClosedCalls ==
  ASSUME Typed, RoundClosed
  PROVE  Stays({<<"maybeBegin">>})
<1>1. <<"maybeBegin">> \in Frame
  BY FramesAre DEF Lone
<1>2. QED
  BY <1>1, OnePushes DEF RoundClosed, Stays, Typed

LEMMA OpenWindowCalls ==
  ASSUME Typed, OpenWindow
  PROVE  IF mode = "IDLE" THEN Moves("FREE_REIGN_WINDOW", {}) ELSE Stays({})
<1>1. CASE mode = "IDLE"
  BY <1>1, MoveFew DEF OpenWindow, ActiveModes
<1>2. CASE mode # "IDLE"
  BY <1>2, QuietPushes DEF OpenWindow, Stays, Typed
<1>3. QED
  BY <1>1, <1>2

LEMMA WindowTimerCalls ==
  ASSUME Typed, WindowTimer
  PROVE  LeavesTo("FREE_REIGN_WINDOW", "IDLE", {<<"windowClosed">>})
<1>1. <<"windowClosed">> \in Frame
  BY FramesAre DEF Lone
<1>2. QED
  BY <1>1, LeaveFew DEF WindowTimer, ActiveModes

LEMMA RevokeCalls ==
  ASSUME Typed, Revoke
  PROVE  \/ window = "banked" /\ Stays({<<"windowClosed">>})
         \/ LeavesTo("FREE_REIGN_WINDOW", "IDLE", {<<"windowClosed">>})
<1>1. <<"windowClosed">> \in Frame
  BY FramesAre DEF Lone
<1>2. CASE window = "banked"
  BY <1>1, <1>2, OnePushes DEF Revoke, Stays, Typed
<1>3. CASE window # "banked"
  BY <1>1, <1>3, LeaveFew DEF Revoke, ActiveModes
<1>4. QED
  BY <1>2, <1>3

LEMMA WindowClosedCalls ==
  ASSUME Typed, WindowClosed
  PROVE  Stays({<<"maybeBegin">>})
<1>1. <<"maybeBegin">> \in Frame
  BY FramesAre DEF Lone
<1>2. QED
  BY <1>1, OnePushes DEF WindowClosed, PokeCycle, Stays, Typed

LEMMA WindowHearsCalls ==
  ASSUME Typed, WindowHears
  PROVE  \/ Stays({}) /\ UNCHANGED window
         \/ Stays({<<"windowClosed">>}) /\ UNCHANGED windowVars /\ Head(calls)[2] = "HALTED"
         \/ window = "banked" /\ window' = "live" /\ Moves("FREE_REIGN_WINDOW", {})
<1>1. <<"windowClosed">> \in Frame
  BY FramesAre DEF Lone
<1>2. CASE UNCHANGED <<modeVars, window>> /\ Return
  BY <1>2, ReturnPushes DEF Stays, Typed
<1>3. CASE /\ UNCHANGED <<modeVars, windowVars>> /\ Then(<<<<"windowClosed">>>>)
           /\ Head(calls)[2] = "HALTED"
  BY <1>1, <1>3, OnePushes DEF Stays, Typed
<1>4. CASE window = "banked" /\ window' = "live" /\ MoveTo("FREE_REIGN_WINDOW", <<>>)
  BY <1>4, MoveFew DEF ActiveModes
<1>5. QED
  BY <1>2, <1>3, <1>4 DEF WindowHears, windowVars

LEMMA ToggleChaosCalls ==
  ASSUME Typed, ToggleChaos
  PROVE  Moves(IF chaosOn THEN "IDLE" ELSE "CHAOS_MODE", {<<"chaosFlag">>})
<1>1. <<"chaosFlag">> \in Frame
  BY FramesAre DEF Lone
<1>2. QED
  BY <1>1, MoveFew DEF ToggleChaos, ActiveModes

LEMMA ChaosFlagCalls ==
  ASSUME Typed, ChaosFlag
  PROVE  Stays(IF chaosOn THEN {} ELSE {<<"pickChaos">>})
<1>1. <<"pickChaos">> \in Frame
  BY FramesAre DEF Lone
<1>2. CASE chaosOn
  BY <1>2, ReturnPushes DEF ChaosFlag, Stays, Typed, Return
<1>3. CASE ~chaosOn
  BY <1>1, <1>3, OnePushes DEF ChaosFlag, Stays, Typed
<1>4. QED
  BY <1>2, <1>3

LEMMA PickChaosCalls ==
  ASSUME Typed, PickChaos
  PROVE  \/ Stays({}) /\ UNCHANGED queue
         \/ mode = "CHAOS_MODE" /\ uncapped' /\ \E t \in Task : Stays({<<"drive", t, "chaos">>})
<1>1. CASE mode = "CHAOS_MODE" /\ pool \intersect Suggestion # {}
  <2>1. ASSUME NEW t \in pool \intersect Suggestion,
               PickFromPool(t, <<<<"drive", t, "chaos">>>>, <<>>)
        PROVE  t \in Task /\ Pushes({<<"drive", t, "chaos">>})
    <3>1. t \in Task
      BY DEF Task
    <3>2. <<"drive", t, "chaos">> \in Frame
      BY <3>1, FramesAre
    <3>3. <<<<"drive", t, "chaos">>>> \in Seq(Frame)
      BY <3>2
    <3>4. Elements(<<<<"drive", t, "chaos">>>>) \union Elements(<<>>) = {<<"drive", t, "chaos">>}
      BY ElementsFew
    <3>5. QED
      BY <2>1, <3>1, <3>3, <3>4, PickCalls, EmptySeq
  <2>2. CASE UNCHANGED queue /\ Return
    BY <2>2, ReturnPushes DEF PickChaos, Stays, Typed
  <2>3. QED
    BY <1>1, <2>1, <2>2 DEF PickChaos, Stays, Recheck
<1>2. CASE ~(mode = "CHAOS_MODE" /\ pool \intersect Suggestion # {})
  BY <1>2, ReturnPushes DEF PickChaos, Stays, Typed
<1>3. QED
  BY <1>1, <1>2

\* The event loop's steps that touch neither the mode nor the stack.
LEMMA QuietCalls ==
  ASSUME Typed, NEW t,
         Instruct(t) \/ GateRefuses(t) \/ Veto(t) \/ Lapse \/ ChaosExpires
  PROVE  Stays({})
  BY QuietPushes DEF Instruct, GateRefuses, Veto, Lapse, ChaosExpires, Stays, Typed

LEMMA HaltCalls ==
  ASSUME Typed, Halt
  PROVE  mode # "HALTED" /\ mode' = "HALTED" /\ haltedFrom' = mode /\ Pushes({})
  BY QuietPushes DEF Halt, ForceHalt, Typed

\* A recovery ends in an active mode.
LEMMA RecoverCalls ==
  ASSUME Typed, NEW a \in RecoveryActions, RecoverShow(a)
  PROVE  /\ mode = "HALTED" /\ mode' \in ActiveModes /\ haltedFrom' = NoMode
         /\ Pushes({<<"windowHears", mode, mode'>>, <<"maybeBegin">>, <<"drainHears", mode'>>})
<1>1. mode = "HALTED" /\ haltedFrom' = NoMode /\ mode' \in ActiveModes
  BY DEF RecoverShow, Recover, RecoveryTarget, RecoveryActions, Typed, TypeOK, ModeTypeOK,
         ActiveModes, NoMode
<1> DEFINE discards == mode' = "IDLE" /\ roundFrozen
           first == IF discards THEN <<<<"maybeBegin">>>> ELSE <<>>
<1>2. Listeners(mode') \in Seq(Frame)
      /\ Elements(Listeners(mode')) =
             {<<"windowHears", mode, mode'>>, <<"maybeBegin">>, <<"drainHears", mode'>>}
  BY <1>1, ListenersFrames DEF Typed, TypeOK, Hears
<1>3. first \in Seq(Frame) /\ Elements(first) \subseteq {<<"maybeBegin">>}
  <2>1. <<"maybeBegin">> \in Frame
    BY FramesAre DEF Lone
  <2>2. <<<<"maybeBegin">>>> \in Seq(Frame) /\ <<>> \in Seq(Frame)
    BY <2>1, EmptySeq
  <2>3. Elements(<<<<"maybeBegin">>>>) = {<<"maybeBegin">>} /\ Elements(<<>>) = {}
    BY ElementsFew
  <2>4. QED
    BY <2>2, <2>3
<1>4. Then(first \o Listeners(mode'))
  BY DEF RecoverShow
<1> HIDE DEF first
<1>5. /\ first \o Listeners(mode') \in Seq(Frame)
      /\ Elements(first \o Listeners(mode')) = Elements(first) \union Elements(Listeners(mode'))
  BY <1>2, <1>3, ElementsConcat
<1>6. Pushes(Elements(first) \union Elements(Listeners(mode')))
  BY <1>4, <1>5, ThenStack DEF Typed
<1>7. Elements(first) \union Elements(Listeners(mode')) =
          {<<"windowHears", mode, mode'>>, <<"maybeBegin">>, <<"drainHears", mode'>>}
  BY <1>2, <1>3
<1>8. QED
  BY <1>1, <1>6, <1>7

\* A step that puts one call on top of what it found under the running one.
Calls(a) == Pushes({a}) /\ Below' = Below /\ Head(calls') = a /\ ~InLoop'

LEMMA CallsOne ==
  ASSUME calls \in Seq(Frame), NEW f \in Lone, Then(<<<<f>>>>)
  PROVE  Calls(<<f>>)
  BY FramesAre, OnePushes, OneBelow DEF Calls

LEMMA MaybeBeginCalls ==
  ASSUME Typed, MaybeBegin(Eligible)
  PROVE  /\ UNCHANGED <<enabled, phase, timers>>
         /\ \/ (phase \/ timers # 0) /\ UNCHANGED waiting /\ Pushes({})
            \/ /\ ~phase /\ timers = 0 /\ waiting /\ ResumesVote(Eligible)
               /\ waiting' = FALSE /\ Calls(<<"attemptRoundStart">>)
            \/ ~phase /\ timers = 0 /\ waiting /\ ~ResumesVote(Eligible) /\ waiting' = TRUE /\ Pushes({})
            \/ ~phase /\ timers = 0 /\ ~waiting /\ UNCHANGED waiting /\ Eligible
               /\ Calls(<<"beginSuggestPhase">>)
            \/ ~phase /\ timers = 0 /\ ~waiting /\ UNCHANGED waiting /\ ~Eligible /\ Pushes({})
<1>1. calls \in Seq(Frame) /\ waiting \in BOOLEAN
  BY DEF Typed, TypeOK, CycleTypeOK
<1>2. "attemptRoundStart" \in Lone /\ "beginSuggestPhase" \in Lone
  BY DEF Lone
<1>3. Then(<<>>) => Pushes({})
  BY <1>1, ReturnPushes DEF Return
<1>4. Then(<<<<"attemptRoundStart">>>>) => Calls(<<"attemptRoundStart">>)
  BY <1>1, <1>2, CallsOne
<1>5. Then(<<<<"beginSuggestPhase">>>>) => Calls(<<"beginSuggestPhase">>)
  BY <1>1, <1>2, CallsOne
<1>6. CASE phase \/ timers # 0
  BY <1>3, <1>6 DEF MaybeBegin, cycle, Return
<1>7. CASE ~phase /\ timers = 0 /\ waiting
  BY <1>3, <1>4, <1>7 DEF MaybeBegin
<1>8. CASE ~phase /\ timers = 0 /\ ~waiting
  BY <1>3, <1>5, <1>8 DEF MaybeBegin, cycle
<1>9. QED
  BY <1>6, <1>7, <1>8

LEMMA BeginSuggestPhaseCalls ==
  ASSUME Typed, BeginSuggestPhase
  PROVE  Pushes({<<"maybeEarlyClose">>})
  BY CallsOne DEF BeginSuggestPhase, Calls, Lone, Typed

LEMMA MaybeEarlyCloseCalls ==
  ASSUME Typed, NEW full, MaybeEarlyClose(full)
  PROVE  \/ phase /\ timers # 0 /\ ClearTimer /\ Calls(<<"onPhaseEnd">>)
         \/ UNCHANGED timers /\ Pushes({})
  BY CallsOne, ReturnPushes DEF MaybeEarlyClose, Lone, Typed

LEMMA OnPhaseEndCalls ==
  ASSUME Typed, NEW eligible, OnPhaseEnd(eligible)
  PROVE  IF eligible THEN Calls(<<"attemptRoundStart">>) ELSE Pushes({})
<1>1. Then(IF eligible THEN <<<<"attemptRoundStart">>>> ELSE <<>>) /\ "attemptRoundStart" \in Lone
  BY DEF OnPhaseEnd, Lone
<1>2. QED
  BY <1>1, CallsOne, ReturnPushes DEF Return, Typed

LEMMA PhaseTimerCalls ==
  ASSUME Typed, PhaseTimer
  PROVE  Calls(<<"onPhaseEnd">>)
  BY CallsOne DEF PhaseTimer, Lone, Typed

LEMMA ToggleCalls ==
  ASSUME Typed, Toggle
  PROVE  IF enabled THEN Pushes({}) ELSE Pushes({<<"maybeBegin">>})
<1>1. CASE enabled
  BY <1>1, QuietPushes DEF Toggle, Typed
<1>2. CASE ~enabled
  <2>1. Then(<<<<"maybeBegin">>>>)
    BY <1>2 DEF Toggle
  <2>2. QED
    BY <1>2, <2>1, CallsOne DEF Calls, Lone, Typed
<1>3. QED
  BY <1>1, <1>2

-------------------------------------------------------------------------------
(***************************************************************************)
(* The queue                                                               *)
(***************************************************************************)

VotesOf(q) == {i \in DOMAIN q : VoteOrigin(q[i])}

LEMMA LeastNat ==
  ASSUME NEW I \in SUBSET Nat, I # {}
  PROVE  \E x \in I : \A y \in I : x <= y
<1>1. IsWellFoundedOn(OpToRel(<, Nat), Nat)
  BY NatLessThanWellFounded
<1>2. PICK x \in I : \A y \in I : ~(<<y, x>> \in OpToRel(<, Nat))
  BY <1>1, WFMin
<1>3. \A y \in I : ~(y < x)
  BY <1>2 DEF OpToRel
<1>4. QED
  BY <1>3

\* An entry is taken out at a place that holds it, and the rest closes up.
LEMMA RemoveFirstPlace ==
  ASSUME NEW q \in Seq(Task), NEW t, \E i \in 1..Len(q) : q[i] = t
  PROVE  \E k \in 1..Len(q) :
            /\ q[k] = t /\ RemoveFirst(q, t) \in Seq(Task)
            /\ Len(RemoveFirst(q, t)) = Len(q) - 1
            /\ \A i \in 1..Len(q) - 1 : RemoveFirst(q, t)[i] = IF i < k THEN q[i] ELSE q[i + 1]
<1> DEFINE I == {i \in 1..Len(q) : q[i] = t}
           k == Min(I)
<1>1. Len(q) \in Nat /\ I # {} /\ I \in SUBSET Nat
  BY LenProperties
<1>2. PICK m \in I : \A y \in I : m <= y
  BY <1>1, LeastNat
<1>3. k \in I
  BY <1>2 DEF Min
<1>4. RemoveFirst(q, t) = SubSeq(q, 1, k - 1) \o SubSeq(q, k + 1, Len(q))
  BY <1>1 DEF RemoveFirst, RemoveAt, SelectInSeq
<1> HIDE DEF k
<1>5. k \in 1..Len(q) /\ q[k] = t
  BY <1>3
<1>6. /\ SubSeq(q, 1, k - 1) \in Seq(Task) /\ Len(SubSeq(q, 1, k - 1)) = k - 1
      /\ \A i \in 1..k - 1 : SubSeq(q, 1, k - 1)[i] = q[i]
  <2>1. \A i \in 1..k - 1 : q[i] \in Task
    BY <1>1, <1>5, ElementOfSeq
  <2>2. QED
    BY <1>1, <1>5, <2>1, SubSeqProperties
<1>7. /\ SubSeq(q, k + 1, Len(q)) \in Seq(Task) /\ Len(SubSeq(q, k + 1, Len(q))) = Len(q) - k
      /\ \A i \in 1..Len(q) - k : SubSeq(q, k + 1, Len(q))[i] = q[k + i]
  <2>1. \A i \in k + 1..Len(q) : q[i] \in Task
    BY <1>1, <1>5, ElementOfSeq
  <2>2. k + 1 \in Int /\ Len(q) \in Int
    BY <1>1, <1>5
  <2>3. /\ SubSeq(q, k + 1, Len(q)) \in Seq(Task)
        /\ Len(SubSeq(q, k + 1, Len(q))) = IF k + 1 <= Len(q) THEN Len(q) - (k + 1) + 1 ELSE 0
        /\ \A i \in 1..Len(q) - (k + 1) + 1 : SubSeq(q, k + 1, Len(q))[i] = q[k + 1 + i - 1]
    BY <2>1, <2>2, SubSeqProperties
  <2>4. QED
    BY <1>1, <1>5, <2>3
<1>8. /\ RemoveFirst(q, t) \in Seq(Task) /\ Len(RemoveFirst(q, t)) = Len(q) - 1
      /\ \A i \in 1..Len(q) - 1 : RemoveFirst(q, t)[i] =
             IF i <= k - 1 THEN SubSeq(q, 1, k - 1)[i] ELSE SubSeq(q, k + 1, Len(q))[i - (k - 1)]
  <2>1. (k - 1) + (Len(q) - k) = Len(q) - 1
    BY <1>1, <1>5
  <2> DEFINE a == SubSeq(q, 1, k - 1)
             b == SubSeq(q, k + 1, Len(q))
  <2>2. a \in Seq(Task) /\ b \in Seq(Task) /\ Len(a) = k - 1 /\ Len(b) = Len(q) - k
        /\ RemoveFirst(q, t) = a \o b
    BY <1>4, <1>6, <1>7
  <2> HIDE DEF a, b
  <2>3. /\ a \o b \in Seq(Task) /\ Len(a \o b) = Len(a) + Len(b)
        /\ \A i \in 1..Len(a) + Len(b) : (a \o b)[i] = IF i <= Len(a) THEN a[i] ELSE b[i - Len(a)]
    BY <2>2, ConcatProperties
  <2>4. QED
    BY <2>1, <2>2, <2>3 DEF a, b
<1>9. \A i \in 1..Len(q) - 1 : RemoveFirst(q, t)[i] = IF i < k THEN q[i] ELSE q[i + 1]
  <2> SUFFICES ASSUME NEW i \in 1..Len(q) - 1
               PROVE  RemoveFirst(q, t)[i] = IF i < k THEN q[i] ELSE q[i + 1]
    OBVIOUS
  <2>1. CASE i < k
    BY <1>1, <1>5, <1>6, <1>8, <2>1
  <2>2. CASE ~(i < k)
    <3>1. i - (k - 1) \in 1..Len(q) - k /\ k + (i - (k - 1)) = i + 1 /\ ~(i <= k - 1)
      BY <1>1, <1>5, <2>2
    <3>2. QED
      BY <1>7, <1>8, <2>2, <3>1
  <2>3. QED
    BY <2>1, <2>2
<1>10. QED
  BY <1>5, <1>8, <1>9

LEMMA VotesFinite ==
  ASSUME NEW q \in Seq(Task)
  PROVE  IsFiniteSet(VotesOf(q)) /\ Cardinality(VotesOf(q)) \in Nat
<1>1. Len(q) \in Nat /\ DOMAIN q = 1..Len(q)
  BY LenProperties
<1>2. IsFiniteSet(1..Len(q)) /\ VotesOf(q) \in SUBSET (1..Len(q))
  BY <1>1, FS_Interval DEF VotesOf
<1>3. QED
  BY <1>2, FS_Subset, FS_CardinalityType

\* A new entry counts if a vote's winner is what it is.
LEMMA QueueAppend ==
  ASSUME NEW q \in Seq(Task), NEW t \in Task
  PROVE  /\ Append(q, t) \in Seq(Task)
         /\ Elements(Append(q, t)) = Elements(q) \union {t}
         /\ Cardinality(VotesOf(Append(q, t))) =
                Cardinality(VotesOf(q)) + (IF VoteOrigin(t) THEN 1 ELSE 0)
<1> DEFINE n == Len(q) + 1
<1>1. /\ Append(q, t) \in Seq(Task) /\ Len(Append(q, t)) = n
      /\ \A i \in 1..Len(q) : Append(q, t)[i] = q[i]
      /\ Append(q, t)[n] = t
  BY AppendProperties
<1>2. Len(q) \in Nat /\ DOMAIN q = 1..Len(q) /\ DOMAIN Append(q, t) = 1..n
  BY <1>1, LenProperties
<1>3. 1..n = (1..Len(q)) \union {n} /\ n \notin 1..Len(q)
  BY <1>2
<1>4. Elements(Append(q, t)) = Elements(q) \union {t}
  BY <1>1, <1>2, <1>3 DEF Elements
<1>5. /\ VotesOf(Append(q, t)) = VotesOf(q) \union (IF VoteOrigin(t) THEN {n} ELSE {})
      /\ n \notin VotesOf(q)
  BY <1>1, <1>2, <1>3 DEF VotesOf
<1>6. IsFiniteSet(VotesOf(q)) /\ Cardinality(VotesOf(q)) \in Nat
  BY VotesFinite
<1>7. CASE VoteOrigin(t)
  <2>1. Cardinality(VotesOf(q) \union {n}) = Cardinality(VotesOf(q)) + 1
    BY <1>5, <1>6, FS_AddElement
  <2>2. QED
    BY <1>1, <1>4, <1>5, <1>7, <2>1
<1>8. CASE ~VoteOrigin(t)
  <2>1. VotesOf(Append(q, t)) = VotesOf(q)
    BY <1>5, <1>8
  <2>2. QED
    BY <1>1, <1>4, <1>6, <1>8, <2>1
<1>9. QED
  BY <1>7, <1>8

\* Taking an entry out adds none and makes no more of them winners of votes.
LEMMA QueueRemove ==
  ASSUME NEW q \in Seq(Task), NEW t
  PROVE  /\ RemoveFirst(q, t) \in Seq(Task)
         /\ Elements(RemoveFirst(q, t)) \subseteq Elements(q)
         /\ Cardinality(VotesOf(RemoveFirst(q, t))) <= Cardinality(VotesOf(q))
<1> DEFINE r == RemoveFirst(q, t)
<1>1. Len(q) \in Nat /\ DOMAIN q = 1..Len(q) /\ Cardinality(VotesOf(q)) \in Nat
  BY LenProperties, VotesFinite
<1>2. CASE ~\E i \in 1..Len(q) : q[i] = t
  <2>1. r = q
    BY <1>2 DEF RemoveFirst
  <2>2. QED
    BY <1>1, <2>1
<1>3. CASE \E i \in 1..Len(q) : q[i] = t
  <2>1. PICK k \in 1..Len(q) :
            /\ r \in Seq(Task) /\ Len(r) = Len(q) - 1
            /\ \A i \in 1..Len(q) - 1 : r[i] = IF i < k THEN q[i] ELSE q[i + 1]
    BY <1>3, RemoveFirstPlace
  <2> HIDE DEF r
  <2>2. DOMAIN r = 1..Len(q) - 1
    BY <2>1, LenProperties
  <2> DEFINE up == [i \in VotesOf(r) |-> IF i < k THEN i ELSE i + 1]
  <2>3. ASSUME NEW i \in DOMAIN r
        PROVE  /\ (IF i < k THEN i ELSE i + 1) \in 1..Len(q)
               /\ q[IF i < k THEN i ELSE i + 1] = r[i]
    BY <1>1, <2>1, <2>2
  <2>4. Elements(r) \subseteq Elements(q)
    BY <1>1, <2>1, <2>2, <2>3 DEF Elements
  <2>5. up \in [VotesOf(r) -> VotesOf(q)]
    BY <1>1, <2>3 DEF VotesOf
  <2>6. \A i, j \in VotesOf(r) : up[i] = up[j] => i = j
    <3> SUFFICES ASSUME NEW i \in VotesOf(r), NEW j \in VotesOf(r), up[i] = up[j]
                 PROVE  i = j
      OBVIOUS
    <3>1. i \in 1..Len(q) - 1 /\ j \in 1..Len(q) - 1
      BY <2>2 DEF VotesOf
    <3>2. QED
      BY <1>1, <3>1
  <2> HIDE DEF up
  <2>7. up \in Injection(VotesOf(r), VotesOf(q))
    BY <2>5, <2>6 DEF Injection, IsInjective
  <2>8. Cardinality(VotesOf(r)) <= Cardinality(VotesOf(q))
    BY <2>7, VotesFinite, FS_Injection
  <2>9. QED
    BY <2>1, <2>4, <2>8 DEF r
<1>4. QED
  BY <1>2, <1>3

LEMMA InQueueIs ==
  ASSUME queue \in Seq(Task)
  PROVE  \A t : InQueue(t) <=> t \in Elements(queue)
  BY LenProperties DEF InQueue, Elements

LEMMA InQueueIsNext ==
  ASSUME queue' \in Seq(Task)
  PROVE  \A t : InQueue(t)' <=> t \in Elements(queue')
  BY LenProperties DEF InQueue, Elements

-------------------------------------------------------------------------------
(***************************************************************************)
(* Type correctness                                                        *)
(***************************************************************************)

Closing == On("leaveVoting") \/ On("roundClosed")

\* Where the tasks come from: a winner is queued out of the pool or of the round, which is
\* unloaded by a call that is already on the stack.
Origins ==
    /\ asked \subseteq Paid \union rechecked /\ rechecked \intersect Paid = {}
    /\ pool \intersect Paid = {} /\ round \intersect Paid = {}
    /\ round \subseteq seen /\ Elements(queue) \subseteq seen
    /\ round \intersect Elements(queue) \subseteq rechecked \/ Closing

Sound == Typed /\ Origins

LEMMA StaysControl ==
  ASSUME Typed, NEW F, Stays(F)
  PROVE  (\E G : Pushes(G)) /\ ModeTypeOK'
  BY DEF Typed, TypeOK, ModeTypeOK, modeVars, Stays

LEMMA MovesControl ==
  ASSUME Typed, NEW m \in ActiveModes, NEW F, Moves(m, F)
  PROVE  (\E G : Pushes(G)) /\ ModeTypeOK'
  BY DEF Typed, TypeOK, ModeTypeOK, Moves, Modes, ActiveModes

LEMMA LeavesControl ==
  ASSUME Typed, NEW from, NEW m \in ActiveModes, NEW F, LeavesTo(from, m, F)
  PROVE  (\E G : Pushes(G)) /\ ModeTypeOK'
<1>1. Moves(m, F) \/ Stays(F)
  BY DEF LeavesTo, Stays
<1>2. QED
  BY <1>1, StaysControl, MovesControl

LEMMA CycleControl ==
  ASSUME Typed, CycleStep
  PROVE  (\E G : Pushes(G)) /\ ModeTypeOK'
<1>1. \E F : Pushes(F)
  <2>1. CASE MaybeBegin(Eligible)
    BY <2>1, MaybeBeginCalls DEF Calls
  <2>2. CASE BeginSuggestPhase
    BY <2>2, BeginSuggestPhaseCalls
  <2>3. CASE MaybeEarlyClose(PoolFull)
    BY <2>3, MaybeEarlyCloseCalls DEF Calls
  <2>4. CASE OnPhaseEnd(Eligible)
    BY <2>4, OnPhaseEndCalls DEF Calls
  <2>5. CASE PhaseTimer
    BY <2>5, PhaseTimerCalls DEF Calls
  <2>6. CASE Toggle
    BY <2>6, ToggleCalls
  <2>7. QED
    BY <2>1, <2>2, <2>3, <2>4, <2>5, <2>6 DEF CycleStep
<1>2. QED
  BY <1>1, StaysControl DEF CycleStep, Stays

\* The mode and the stack stay well-formed.
LEMMA NextControl ==
  ASSUME Typed, Next
  PROVE  (\E G : Pushes(G)) /\ ModeTypeOK'
<1> USE DEF ActiveModes
<1>1. CASE CycleStep
  BY <1>1, CycleControl
<1>2. CASE CallStep
  <2>1. CASE DispatchBuild
    BY <2>1, DispatchBuildCalls, StaysControl, MovesControl
  <2>2. CASE NextJob
    BY <2>2, NextJobCalls, StaysControl, MovesControl
  <2>3. CASE Drain
    BY <2>3, DrainCalls, StaysControl, MovesControl
  <2>4. CASE Drive
    BY <2>4, DriveCalls, StaysControl, LeavesControl
  <2>5. CASE Continue
    BY <2>5, ContinueCalls, StaysControl, MovesControl
  <2>6. CASE DriveHead \/ DrainHears \/ RoundClosed \/ WindowClosed \/ ChaosFlag
    BY <2>6, DriveHeadCalls, DrainHearsCalls, RoundClosedCalls, WindowClosedCalls, ChaosFlagCalls,
       StaysControl
  <2>7. CASE AttemptRoundStart
    BY <2>7, AttemptCalls, StaysControl, LeavesControl
  <2>8. CASE LeaveVoting
    BY <2>8, LeaveVotingCalls, LeavesControl
  <2>9. CASE WindowHears
    BY <2>9, WindowHearsCalls, StaysControl, MovesControl
  <2>10. CASE PickChaos
    BY <2>10, PickChaosCalls, StaysControl
  <2>11. QED
    BY <1>2, <2>1, <2>2, <2>3, <2>4, <2>5, <2>6, <2>7, <2>8, <2>9, <2>10 DEF CallStep
<1>3. CASE BuildEnds \/ Skip
  BY <1>3, BuildEndsCalls, SkipCalls, LeavesControl
<1>4. CASE BuildNeedsDecision \/ DrainTick \/ RoundTimer
  BY <1>4, BuildNeedsDecisionCalls, DrainTickCalls, RoundTimerCalls, StaysControl
<1>5. CASE Retry
  BY <1>5, RetryCalls, StaysControl, MovesControl
<1>6. CASE StartRound
  BY <1>6, OpenRoundCalls, LeavesControl DEF StartRound
<1>7. CASE OpenWindow
  BY <1>7, OpenWindowCalls, StaysControl, MovesControl
<1>8. CASE WindowTimer
  BY <1>8, WindowTimerCalls, LeavesControl
<1>9. CASE Revoke
  BY <1>9, RevokeCalls, StaysControl, LeavesControl
<1>10. CASE ToggleChaos
  BY <1>10, ToggleChaosCalls, MovesControl
<1>11. CASE Lapse \/ ChaosExpires
  BY <1>11, QuietCalls, StaysControl
<1>12. CASE Halt
  BY <1>12, HaltCalls DEF Typed, TypeOK, ModeTypeOK, Modes, NoMode
<1>13. ASSUME NEW a \in RecoveryActions, RecoverShow(a)  PROVE (\E G : Pushes(G)) /\ ModeTypeOK'
  BY <1>13, RecoverCalls DEF ModeTypeOK, Modes, NoMode
<1>14. ASSUME NEW t \in Task, \/ Suggest(t) \/ Instruct(t) \/ InstructionApproved(t)
                              \/ GateRefuses(t) \/ Repooled(t) \/ Veto(t)
       PROVE  (\E G : Pushes(G)) /\ ModeTypeOK'
  BY <1>14, SuggestCalls, QuietCalls, InstructionCalls, RepooledCalls, StaysControl
<1>15. QED
  BY <1>1, <1>2, <1>3, <1>4, <1>5, <1>6, <1>7, <1>8, <1>9, <1>10, <1>11, <1>12, <1>13, <1>14
     DEF Next

FlagsType ==
    /\ roundFrozen \in BOOLEAN /\ uncapped \in BOOLEAN
    /\ window \in {"none", "banked", "live", "over"} /\ armed \in BOOLEAN
    /\ chaosOn \in BOOLEAN /\ chaosWindow \in BOOLEAN
    /\ drainHeard \in Modes /\ drainDue \in BOOLEAN
    /\ unheard \in BOOLEAN /\ undrained \in BOOLEAN
    /\ acts \in 0..MaxActs

SessionType ==
    /\ building \in Job \union {NoJob, Settling} /\ line \in Seq(Job)
    /\ pending \in Task \union {NoTask}
    /\ over \subseteq Task /\ started \in Seq(Task)

TasksType ==
    /\ seen \subseteq Task /\ pool \subseteq seen /\ asked \subseteq seen
    /\ queue \in Seq(Task) /\ round \subseteq Task /\ rechecked \subseteq Task
    /\ pool \intersect round \subseteq rechecked /\ pool \intersect Elements(queue) \subseteq rechecked

LEMMA TypeParts ==
  TypeOK <=> ModeTypeOK /\ CycleTypeOK /\ FlagsType /\ SessionType /\ TasksType
<1>1. queue \in Seq(Task) => \A t : InQueue(t) <=> t \in Elements(queue)
  BY InQueueIs
<1>2. {unheard, undrained} \subseteq BOOLEAN <=> unheard \in BOOLEAN /\ undrained \in BOOLEAN
  OBVIOUS
<1>3. queue \in Seq(Task) =>
          ((\A t \in pool \ rechecked : t \notin round /\ ~InQueue(t)) <=>
             /\ pool \intersect round \subseteq rechecked
             /\ pool \intersect Elements(queue) \subseteq rechecked)
  BY <1>1
<1>4. QED
  BY <1>2, <1>3 DEF TypeOK, FlagsType, SessionType, TasksType

LEMMA TypePartsNext ==
  ModeTypeOK' /\ CycleTypeOK' /\ FlagsType' /\ SessionType' /\ TasksType' => TypeOK'
<1>1. queue' \in Seq(Task) => \A t : InQueue(t)' <=> t \in Elements(queue')
  BY InQueueIsNext
<1>2. /\ queue' \in Seq(Task)
      /\ pool' \intersect round' \subseteq rechecked'
      /\ pool' \intersect Elements(queue') \subseteq rechecked'
      => (\A t \in pool' \ rechecked' : t \notin round' /\ ~InQueue(t)')
  BY <1>1
<1>3. QED
  BY <1>2 DEF TypeOK, FlagsType, SessionType, TasksType

\* The scheduler's own state.
LEMMA NextCycle ==
  ASSUME Typed, Next
  PROVE  CycleTypeOK'
<1>0. CycleTypeOK
  BY DEF Typed, TypeOK
<1> USE <1>0 DEF CycleTypeOK, MaxTimers, cycle
<1>t. ClearTimer => timers' \in 0..MaxTimers
  BY DEF ClearTimer
<1>1. CASE CycleStep
  <2>1. CASE MaybeBegin(Eligible)
    BY <2>1, MaybeBeginCalls
  <2>2. CASE BeginSuggestPhase
    BY <2>2 DEF BeginSuggestPhase
  <2>3. CASE MaybeEarlyClose(PoolFull)
    BY <1>t, <2>3 DEF MaybeEarlyClose
  <2>4. CASE OnPhaseEnd(Eligible)
    BY <2>4 DEF OnPhaseEnd
  <2>5. CASE PhaseTimer
    BY <2>5 DEF PhaseTimer
  <2>6. CASE Toggle
    BY <1>t, <2>6 DEF Toggle
  <2>7. QED
    BY <1>1, <2>1, <2>2, <2>3, <2>4, <2>5, <2>6 DEF CycleStep
<1>2. CASE AttemptRoundStart
  BY <1>2 DEF AttemptRoundStart, AttemptChaosPick, AttemptWaits, AttemptVote, AttemptSolo,
              AttemptRestart
<1>3. CASE Halt
  BY <1>t, <1>3 DEF Halt, Park
<1>4. ASSUME UNCHANGED cycle  PROVE CycleTypeOK'
  BY <1>4
<1>5. CASE CallStep
  <2>1. AttemptRoundStart \/ UNCHANGED cycle
    BY <1>5 DEF CallStep, DispatchBuild, NextJob, Drain, Drive, Continue, DriveHead, DrainHears,
       LeaveVoting, RoundClosed, WindowClosed, WindowHears, ChaosFlag, PickChaos
  <2>2. QED
    BY <1>2, <1>4, <2>1
<1>6. QED
  BY <1>1, <1>3, <1>4, <1>5
     DEF Next, BuildEnds, BuildNeedsDecision, Retry, Skip, DrainTick, StartRound, RoundTimer,
         OpenWindow, Lapse, WindowTimer, Revoke, ToggleChaos, ChaosExpires, RecoverShow, Suggest,
         Instruct, InstructionApproved, GateRefuses, Repooled, Veto

LEMMA ActCounts ==
  ASSUME Typed, Act
  PROVE  acts' \in 0..MaxActs
<1>1. acts \in 0..MaxActs /\ MaxActs \in Nat
  BY ShowAssumption DEF ShowAssumption, Typed, TypeOK
<1>2. QED
  BY <1>1 DEF Act

\* Flags, windows and counters.
LEMMA NextFlags ==
  ASSUME Typed, Next
  PROVE  FlagsType'
<1>1. FlagsType /\ mode \in Modes
  BY TypeParts DEF Typed, ModeTypeOK
<1> USE <1>1, ActCounts
    DEF FlagsType, roundVars, windowVars, chaosVars, drainVars, history
<1>2. CASE CycleStep
  BY <1>2 DEF CycleStep, MaybeBegin, BeginSuggestPhase, MaybeEarlyClose, OnPhaseEnd, PhaseTimer
<1>3. CASE CallStep
  <2>1. CASE DispatchBuild
    BY <2>1 DEF DispatchBuild
  <2>2. CASE NextJob
    BY <2>2 DEF NextJob
  <2>3. CASE Drive
    BY <2>3 DEF Drive
  <2>4. CASE Continue
    BY <2>4 DEF Continue
  <2>5. CASE DriveHead
    BY <2>5 DEF DriveHead
  <2>6. CASE LeaveVoting
    BY <2>6 DEF LeaveVoting
  <2>7. CASE Drain
    BY <2>7 DEF Drain, DrainChaosWinner, DrainWinner, Activate
  <2>8. CASE RoundClosed
    BY <2>8 DEF RoundClosed
  <2>9. CASE WindowClosed
    BY <2>9 DEF WindowClosed
  <2>10. CASE ChaosFlag
    BY <2>10 DEF ChaosFlag
  <2>11. CASE PickChaos
    BY <2>11 DEF PickChaos, PickFromPool, Recheck
  <2>12. CASE DrainHears
    <3>1. Head(calls)[2] \in Modes
      BY <2>12, RunningFrame DEF DrainHears, Call, Modes
    <3>2. drainHeard' \in Modes /\ drainDue' \in BOOLEAN
      BY <2>12, <3>1 DEF DrainHears
    <3>3. QED
      BY <2>12, <3>2 DEF DrainHears
  <2>13. CASE AttemptRoundStart
    <3>1. roundFrozen' \in BOOLEAN
      BY <2>13 DEF AttemptRoundStart, AttemptChaosPick, AttemptWaits, AttemptVote, OpenRound,
                  AttemptSolo, AttemptRestart
    <3>2. acts' \in 0..MaxActs
      BY <2>13 DEF AttemptRoundStart, AttemptChaosPick, AttemptWaits, AttemptVote, AttemptSolo,
                  AttemptRestart, PickFromPool, Recheck
    <3>3. QED
      BY <2>13, <3>1, <3>2 DEF AttemptRoundStart
  <2>14. CASE WindowHears
    <3>1. window' \in {"none", "banked", "live", "over"} /\ armed' \in BOOLEAN
      BY <2>14 DEF WindowHears
    <3>2. QED
      BY <2>14, <3>1 DEF WindowHears
  <2>15. QED
    BY <1>3, <2>1, <2>2, <2>3, <2>4, <2>5, <2>6, <2>7, <2>8, <2>9, <2>10, <2>11, <2>12, <2>13, <2>14
       DEF CallStep
<1>4. CASE BuildEnds
  BY <1>4 DEF BuildEnds
<1>5. CASE BuildNeedsDecision
  BY <1>5 DEF BuildNeedsDecision
<1>6. CASE Retry
  BY <1>6 DEF Retry
<1>7. CASE Skip
  BY <1>7 DEF Skip
<1>8. CASE DrainTick
  BY <1>8 DEF DrainTick
<1>9. CASE RoundTimer
  BY <1>9 DEF RoundTimer, Recheck
<1>10. CASE WindowTimer
  BY <1>10 DEF WindowTimer
<1>11. CASE Lapse
  BY <1>11 DEF Lapse
<1>12. CASE ChaosExpires
  BY <1>12 DEF ChaosExpires
<1>13. CASE StartRound
  BY <1>13 DEF StartRound, OpenRound
<1>14. CASE OpenWindow
  BY <1>14 DEF OpenWindow
<1>15. CASE Revoke
  BY <1>15 DEF Revoke
<1>16. CASE ToggleChaos
  BY <1>16 DEF ToggleChaos
<1>17. CASE Halt
  BY <1>17 DEF Halt, ClearChaos, Modes
<1>18. ASSUME NEW a \in RecoveryActions, RecoverShow(a)  PROVE FlagsType'
  BY <1>18 DEF RecoverShow
<1>19. ASSUME NEW t \in Task, Suggest(t)  PROVE FlagsType'
  BY <1>19 DEF Suggest
<1>20. ASSUME NEW t \in Task, Instruct(t)  PROVE FlagsType'
  BY <1>20 DEF Instruct
<1>21. ASSUME NEW t \in Task, InstructionApproved(t)  PROVE FlagsType'
  BY <1>21 DEF InstructionApproved
<1>22. ASSUME NEW t \in Task, Veto(t)  PROVE FlagsType'
  BY <1>22 DEF Veto
<1>24. ASSUME NEW t \in Task, GateRefuses(t)  PROVE FlagsType'
  BY <1>24 DEF GateRefuses
<1>25. ASSUME NEW t \in Task, Repooled(t)  PROVE FlagsType'
  BY <1>25 DEF Repooled
<1>26. QED
  BY <1>2, <1>3, <1>4, <1>5, <1>6, <1>7, <1>8, <1>9, <1>10, <1>11, <1>12, <1>13, <1>14, <1>15,
     <1>16, <1>17, <1>18, <1>19, <1>20, <1>21, <1>22, <1>24, <1>25
     DEF Next

\* The drain remembers one head more, or forgets the oldest.
LEMMA StampKept ==
  ASSUME started \in Seq(Task), NEW t \in Task, Stamp(t)
  PROVE  started' \in Seq(Task)
<1>1. StartedMax \in Nat \ {0} /\ Len(started) \in Nat
  BY ShowAssumption, LenProperties DEF ShowAssumption
<1>2. CASE Len(started) < StartedMax
  BY <1>2, AppendProperties DEF Stamp
<1>3. CASE ~(Len(started) < StartedMax)
  <2>1. started # <<>>
    BY <1>1, <1>3, EmptySeq
  <2>2. Tail(started) \in Seq(Task)
    BY <2>1, HeadTailProperties
  <2>3. QED
    BY <1>3, <2>2, AppendProperties DEF Stamp
<1>4. QED
  BY <1>2, <1>3

\* The build session and the drain's records.
LEMMA NextSession ==
  ASSUME Typed, Next
  PROVE  SessionType'
<1>1. SessionType
  BY TypeParts DEF Typed
<1> USE <1>1 DEF SessionType, session, history, tasks
<1> DEFINE Same == UNCHANGED <<building, line, pending, over, started>>
<1>2. ASSUME NEW job \in Job, NEW then, Track(job, then)
      PROVE  building' \in Job \union {NoJob, Settling} /\ line' \in Seq(Job)
  BY <1>2, AppendProperties DEF Track
<1>3. CASE CallStep
  <2>1. CASE DispatchBuild
    <3>1. CASE mode = "HALTED"
      BY <2>1, <3>1 DEF DispatchBuild
    <3>2. CASE mode # "HALTED"
      <4>1. [task |-> Head(calls)[2], drive |-> Head(calls)[3], retry |-> FALSE] \in Job
        BY <2>1, RunningFrame DEF DispatchBuild, Call, Job
      <4>2. Track([task |-> Head(calls)[2], drive |-> Head(calls)[3], retry |-> FALSE], <<>>)
        BY <2>1, <3>2 DEF DispatchBuild
      <4>3. QED
        BY <1>2, <2>1, <4>1, <4>2 DEF DispatchBuild
    <3>3. QED
      BY <3>1, <3>2
  <2>2. CASE NextJob
    <3>1. CASE line = <<>>
      BY <2>2, <3>1 DEF NextJob
    <3>2. CASE line # <<>>
      <4>1. Head(line) \in Job /\ Tail(line) \in Seq(Job)
        BY <3>2, HeadTailProperties
      <4>2. /\ line' = Tail(line) /\ (building' = building \/ building' = Head(line))
            /\ over' = over \/ over' = over \union {Head(line).task}
        BY <2>2, <3>2 DEF NextJob, Finish
      <4>3. Head(line).task \in Task
        BY <4>1 DEF Job
      <4>4. QED
        BY <2>2, <4>1, <4>2, <4>3 DEF NextJob
    <3>3. QED
      BY <3>1, <3>2
  <2>3. CASE Drain
    BY <2>3, DrainCalls, StampKept DEF Drain
  <2>4. CASE Drive \/ Continue \/ DriveHead \/ DrainHears \/ AttemptRoundStart \/ LeaveVoting
             \/ RoundClosed \/ WindowClosed \/ WindowHears \/ ChaosFlag \/ PickChaos
    <3>1. Same
      BY <2>4 DEF Drive, Continue, DriveHead, DrainHears, AttemptRoundStart, LeaveVoting, RoundClosed,
                  WindowClosed, WindowHears, ChaosFlag, PickChaos
    <3>2. QED
      BY <3>1
  <2>5. QED
    BY <1>3, <2>1, <2>2, <2>3, <2>4 DEF CallStep
<1>4. CASE BuildEnds
  <2>1. building.task \in Task
    BY <1>4 DEF BuildEnds, Running, Job
  <2>2. QED
    BY <1>4, <2>1 DEF BuildEnds, Finish
<1>5. CASE BuildNeedsDecision
  <2>1. building.task \in Task \union {NoTask}
    BY DEF Job, NoJob, Settling
  <2>2. QED
    BY <1>5, <2>1 DEF BuildNeedsDecision
<1>6. CASE Retry
  <2>1. [task |-> pending, drive |-> "nobody", retry |-> TRUE] \in Job
    BY <1>6 DEF Retry, Job, Drives
  <2>2. QED
    BY <1>2, <1>6, <2>1 DEF Retry
<1>7. CASE Skip
  BY <1>7 DEF Skip, Finish
<1>8. ASSUME Same  PROVE SessionType'
  BY <1>8
<1>9. CycleStep \/ DrainTick \/ RoundTimer \/ WindowTimer \/ Lapse \/ ChaosExpires \/ StartRound
        \/ OpenWindow \/ Revoke \/ ToggleChaos \/ Halt => Same
  BY DEF CycleStep, DrainTick, RoundTimer, WindowTimer, Lapse, ChaosExpires, StartRound, OpenWindow,
         Revoke, ToggleChaos, Halt
<1>10. ASSUME NEW a, RecoverShow(a)  PROVE Same
  BY <1>10 DEF RecoverShow
<1>11. ASSUME NEW t, Suggest(t) \/ Instruct(t) \/ InstructionApproved(t) \/ GateRefuses(t) \/ Repooled(t)
       PROVE  Same
  BY <1>11 DEF Suggest, Instruct, InstructionApproved, GateRefuses, Repooled
<1>12. ASSUME NEW t \in Task, Veto(t)  PROVE SessionType'
  BY <1>12 DEF Veto, Finish
<1>13. QED
  BY <1>3, <1>4, <1>5, <1>6, <1>7, <1>8, <1>9, <1>10, <1>11, <1>12 DEF Next

\* A call stays on the stack until it is the running one.
LEMMA OnStays ==
  ASSUME Typed, NEW F, Pushes(F), NEW f, On(f), ~Call(f)
  PROVE  On(f)'
<1>1. PICK c \in Stack : c[1] = f
  BY DEF On
<1>2. ~InLoop /\ Stack = {Head(calls)} \union Below
  BY <1>1, StackTop DEF Typed
<1>3. c \in Below
  BY <1>1, <1>2 DEF Call
<1>4. c \in Stack'
  BY <1>3 DEF Pushes
<1>5. QED
  BY <1>1, <1>4 DEF On

LEMMA ClosingStays ==
  ASSUME Typed, Next, Closing, ~Call("leaveVoting"), ~Call("roundClosed")
  PROVE  Closing'
  BY NextControl, OnStays DEF Closing

\* A step that only takes tasks out of the queue.
LEMMA TasksKept ==
  ASSUME Sound, UNCHANGED <<seen, pool, asked, round, rechecked>>, queue' \in Seq(Task),
         Elements(queue') \subseteq Elements(queue), Closing => Closing'
  PROVE  TasksType' /\ Origins'
<1>1. TasksType
  BY TypeParts DEF Sound, Typed
<1>2. QED
  BY <1>1 DEF TasksType, Origins, Sound

LEMMA WithoutKept ==
  ASSUME Sound, NEW t, queue' = Without(t)
  PROVE  /\ queue' \in Seq(Task) /\ Elements(queue') \subseteq Elements(queue)
         /\ Cardinality(VotesOf(queue')) <= Cardinality(VotesOf(queue))
<1>1. queue \in Seq(Task)
  BY DEF Sound, Typed, TypeOK
<1>2. QED
  BY <1>1, QueueRemove DEF Without

\* A task picked out of the pool.
LEMMA PickKept ==
  ASSUME Sound, NEW t \in pool, NEW on, NEW then, PickFromPool(t, on, then), UNCHANGED round,
         Closing => Closing'
  PROVE  TasksType' /\ Origins'
<1>1. TasksType /\ Origins
  BY TypeParts DEF Sound, Typed
<1>2. t \in Task /\ t \in seen /\ (t \notin round \/ t \in rechecked) /\ t \notin Paid
  BY <1>1 DEF TasksType, Origins
<1>3. queue' \in Seq(Task) /\ Elements(queue') = Elements(queue) \union {t}
  BY <1>1, <1>2, QueueAppend DEF PickFromPool, TasksType
<1>4. pool' = pool \ {t} /\ UNCHANGED <<seen, asked, rechecked>>
  BY DEF PickFromPool
<1>5. TasksType'
  BY <1>1, <1>2, <1>3, <1>4 DEF TasksType
<1>6. Origins'
  BY <1>1, <1>2, <1>3, <1>4 DEF Origins
<1>7. QED
  BY <1>5, <1>6

\* A stale pick stays where it is, and the gate looks at it.
LEMMA RecheckKept ==
  ASSUME Sound, NEW t \in pool \union round, Recheck(t), UNCHANGED round, Closing => Closing'
  PROVE  TasksType' /\ Origins'
<1>1. TasksType /\ Origins
  BY TypeParts DEF Sound, Typed
<1>2. t \in Task /\ t \in seen /\ t \notin Paid
  BY <1>1 DEF TasksType, Origins
<1>3. /\ asked' = asked \union {t} /\ rechecked' = rechecked \union {t}
      /\ UNCHANGED <<seen, pool, queue, round>>
  BY DEF Recheck
<1>4. TasksType'
  BY <1>1, <1>2, <1>3 DEF TasksType
<1>5. Origins'
  BY <1>1, <1>2, <1>3 DEF Origins
<1>6. QED
  BY <1>4, <1>5

LEMMA OpenRoundKept ==
  ASSUME Sound, OpenRound, UNCHANGED rechecked
  PROVE  TasksType' /\ Origins'
<1>1. TasksType /\ Origins
  BY TypeParts DEF Sound, Typed
<1>2. round' = pool /\ pool' = {} /\ UNCHANGED <<seen, asked, queue>>
  BY DEF OpenRound
<1>3. TasksType'
  BY <1>1, <1>2 DEF TasksType
<1>4. Origins'
  BY <1>1, <1>2 DEF Origins, TasksType
<1>5. QED
  BY <1>3, <1>4

\* The tasks: nothing pooled is queued or voted on that the gate was not asked again about.
LEMMA NextTasks ==
  ASSUME Sound, Next
  PROVE  TasksType' /\ Origins'
<1>1. TasksType /\ Origins /\ Typed
  BY TypeParts DEF Sound, Typed
<1>2. ~Call("leaveVoting") /\ ~Call("roundClosed") => (Closing => Closing')
  BY <1>1, ClosingStays
<1>3. InLoop => ~Call("leaveVoting") /\ ~Call("roundClosed")
  BY DEF Call
<1>4. ASSUME UNCHANGED <<seen, pool, asked, queue, round, rechecked>>, Closing => Closing'
      PROVE  TasksType' /\ Origins'
  BY <1>1, <1>4, TasksKept DEF TasksType
<1>5. ASSUME UNCHANGED <<seen, pool, asked, round, rechecked>>, Closing => Closing', NEW t, queue' = Without(t)
      PROVE  TasksType' /\ Origins'
  BY <1>5, TasksKept, WithoutKept
<1> USE DEF tasks, roundVars, history
<1>6. CASE CycleStep
  <2>1. ~Call("leaveVoting") /\ ~Call("roundClosed")
    BY <1>6 DEF CycleStep, MaybeBegin, BeginSuggestPhase, MaybeEarlyClose, OnPhaseEnd, PhaseTimer,
                Toggle, Call
  <2>2. QED
    BY <1>2, <1>4, <1>6, <2>1 DEF CycleStep
<1>7. CASE CallStep
  <2>1. CASE DispatchBuild \/ Drive \/ Continue \/ DriveHead \/ DrainHears \/ WindowClosed \/ WindowHears
             \/ ChaosFlag
    <3>1. ~Call("leaveVoting") /\ ~Call("roundClosed")
      BY <2>1 DEF DispatchBuild, Drive, Continue, DriveHead, DrainHears, WindowClosed, WindowHears,
                  ChaosFlag, Call
    <3>2. UNCHANGED <<seen, pool, asked, queue, round, rechecked>>
      BY <2>1 DEF DispatchBuild, Drive, Continue, DriveHead, DrainHears, WindowClosed, WindowHears,
                  ChaosFlag
    <3>3. QED
      BY <1>2, <1>4, <3>1, <3>2
  <2>2. CASE NextJob
    <3>1. ~Call("leaveVoting") /\ ~Call("roundClosed")
      BY <2>2 DEF NextJob, Call
    <3>2. UNCHANGED <<seen, pool, asked, round, rechecked>>
      BY <2>2 DEF NextJob
    <3>3. queue' = queue \/ \E t : queue' = Without(t)
      BY <2>2 DEF NextJob, Finish
    <3>4. QED
      BY <1>2, <1>4, <1>5, <3>1, <3>2, <3>3
  <2>3. CASE Drain
    <3>1. ~Call("leaveVoting") /\ ~Call("roundClosed")
      BY <2>3 DEF Drain, Call
    <3>2. UNCHANGED <<seen, pool, asked, round, rechecked>>
      BY <2>3 DEF Drain
    <3>3. queue' = queue \/ \E t : queue' = Without(t)
      BY <2>3, DrainCalls, <1>1
    <3>4. QED
      BY <1>2, <1>4, <1>5, <3>1, <3>2, <3>3
  <2>4. CASE AttemptRoundStart
    <3>1. ~Call("leaveVoting") /\ ~Call("roundClosed")
      BY <2>4 DEF AttemptRoundStart, Call
    <3>2. CASE AttemptChaosPick
      BY <1>2, <1>4, <3>1, <3>2, PickKept, RecheckKept DEF AttemptChaosPick
    <3>3. CASE AttemptWaits
      BY <1>2, <1>4, <3>1, <3>3 DEF AttemptWaits
    <3>4. CASE AttemptVote
      BY <3>4, OpenRoundKept DEF AttemptVote
    <3>5. CASE AttemptSolo
      BY <1>2, <3>1, <3>5, PickKept, RecheckKept DEF AttemptSolo
    <3>6. CASE AttemptRestart
      BY <1>2, <1>4, <3>1, <3>6 DEF AttemptRestart
    <3>7. QED
      BY <2>4, <3>2, <3>3, <3>4, <3>5, <3>6 DEF AttemptRoundStart
  <2>5. CASE LeaveVoting
    <3>1. UNCHANGED <<seen, pool, asked, queue, round, rechecked>>
      BY <2>5 DEF LeaveVoting
    <3>2. <<"roundClosed">> \in Stack'
      BY <1>1, <2>5, LeaveVotingCalls DEF LeavesTo, Moves, Pushes
    <3>3. Closing'
      BY <3>2 DEF Closing, On
    <3>4. QED
      BY <1>4, <3>1, <3>3
  <2>6. CASE RoundClosed
    BY <1>1, <2>6 DEF RoundClosed, TasksType, Origins
  <2>7. CASE PickChaos
    <3>1. ~Call("leaveVoting") /\ ~Call("roundClosed") /\ UNCHANGED round
      BY <2>7 DEF PickChaos, Call
    <3>2. CASE \E t \in pool \intersect Suggestion : PickFromPool(t, <<<<"drive", t, "chaos">>>>, <<>>)
      BY <1>2, <3>1, <3>2, PickKept
    <3>3. CASE UNCHANGED <<seen, pool, asked, queue, rechecked>>
      BY <1>2, <1>4, <3>1, <3>3
    <3>4. CASE \E t \in pool \intersect Suggestion : Recheck(t)
      BY <1>2, <3>1, <3>4, RecheckKept
    <3>5. QED
      BY <2>7, <3>2, <3>3, <3>4 DEF PickChaos
  <2>8. QED
    BY <1>7, <2>1, <2>2, <2>3, <2>4, <2>5, <2>6, <2>7 DEF CallStep
<1>8. CASE InLoop
  <2>1. Closing => Closing'
    BY <1>2, <1>3, <1>8
  <2>2. CASE BuildEnds
    BY <1>5, <2>1, <2>2 DEF BuildEnds, Finish
  <2>3. CASE Skip
    BY <1>5, <2>1, <2>3 DEF Skip, Finish
  <2>4. CASE BuildNeedsDecision \/ Retry \/ DrainTick \/ OpenWindow \/ Lapse \/ WindowTimer \/ Revoke
             \/ ToggleChaos \/ ChaosExpires \/ Halt
    <3>1. UNCHANGED <<seen, pool, asked, queue, round, rechecked>>
      BY <2>4 DEF BuildNeedsDecision, Retry, DrainTick, OpenWindow, Lapse, WindowTimer, Revoke,
                  ToggleChaos, ChaosExpires, Halt
    <3>2. QED
      BY <1>4, <2>1, <3>1
  <2>5. CASE StartRound
    BY <2>5, OpenRoundKept DEF StartRound
  <2>6. CASE RoundTimer
    <3>1. <<"leaveVoting">> \in Stack'
      BY <1>1, <2>6, RoundTimerCalls DEF Stays, Pushes
    <3>2. Closing' /\ UNCHANGED round
      BY <2>6, <3>1 DEF RoundTimer, Closing, On
    <3>3. ASSUME NEW t \in round, queue' = Append(queue, t), UNCHANGED <<seen, pool, asked, rechecked>>
          PROVE  TasksType' /\ Origins'
      <4>1. t \in Task /\ t \in seen /\ (t \notin pool \/ t \in rechecked)
        BY <1>1 DEF TasksType, Origins
      <4>2. queue' \in Seq(Task) /\ Elements(queue') = Elements(queue) \union {t}
        BY <1>1, <3>3, <4>1, QueueAppend DEF TasksType
      <4>3. TasksType'
        BY <1>1, <3>2, <3>3, <4>1, <4>2 DEF TasksType
      <4>4. Origins'
        BY <1>1, <3>2, <3>3, <4>1, <4>2 DEF Origins
      <4>5. QED
        BY <4>3, <4>4
    <3>4. ASSUME NEW t \in round, Recheck(t)  PROVE TasksType' /\ Origins'
      BY <3>2, <3>4, RecheckKept
    <3>5. QED
      BY <2>6, <3>3, <3>4 DEF RoundTimer
  <2>7. ASSUME NEW a \in RecoveryActions, RecoverShow(a)  PROVE TasksType' /\ Origins'
    <3>1. ~Closing
      BY <1>1, <1>8, StackTop DEF Closing, On, Typed
    <3>2. /\ UNCHANGED <<seen, asked, queue, rechecked>>
          /\ \/ pool' = pool \union round /\ round' = {}
             \/ pool' = pool /\ round' = round
      BY <2>7 DEF RecoverShow
    <3>3. TasksType'
      BY <1>1, <3>1, <3>2 DEF TasksType, Origins
    <3>4. Origins'
      BY <1>1, <3>1, <3>2 DEF Origins
    <3>5. QED
      BY <3>3, <3>4
  <2>8. ASSUME NEW t \in Task, Suggest(t)  PROVE TasksType' /\ Origins'
    BY <1>1, <2>1, <2>8 DEF Suggest, TasksType, Origins
  <2>9. ASSUME NEW t \in Task, Instruct(t)  PROVE TasksType' /\ Origins'
    BY <1>1, <2>1, <2>9 DEF Instruct, TasksType, Origins
  <2>10. ASSUME NEW t \in Task, InstructionApproved(t)  PROVE TasksType' /\ Origins'
    <3>1. /\ t \in asked /\ t \in Paid /\ asked' = asked \ {t} /\ queue' = Append(queue, t)
          /\ UNCHANGED <<seen, pool, round, rechecked>>
      BY <2>10 DEF InstructionApproved
    <3>2. t \in seen /\ t \notin pool /\ t \notin round
      BY <1>1, <3>1 DEF TasksType, Origins
    <3>3. queue' \in Seq(Task) /\ Elements(queue') = Elements(queue) \union {t}
      BY <1>1, <3>1, QueueAppend DEF TasksType
    <3>4. TasksType'
      BY <1>1, <3>1, <3>2, <3>3 DEF TasksType
    <3>5. Origins'
      BY <1>1, <2>1, <3>1, <3>2, <3>3 DEF Origins
    <3>6. QED
      BY <3>4, <3>5
  <2>11. ASSUME NEW t \in Task, Veto(t)  PROVE TasksType' /\ Origins'
    BY <1>5, <2>1, <2>11 DEF Veto, Finish
  <2>12. ASSUME NEW t \in Task, GateRefuses(t)  PROVE TasksType' /\ Origins'
    BY <1>1, <2>1, <2>12 DEF GateRefuses, TasksType, Origins
  <2>13. ASSUME NEW t \in Task, Repooled(t)  PROVE TasksType' /\ Origins'
    <3>1. /\ t \in asked \ Paid /\ asked' = asked \ {t} /\ pool' = pool \union {t}
          /\ UNCHANGED <<seen, queue, round, rechecked>>
      BY <2>13 DEF Repooled
    <3>2. t \in seen /\ t \in rechecked
      BY <1>1, <3>1 DEF TasksType, Origins
    <3>3. TasksType'
      BY <1>1, <3>1, <3>2 DEF TasksType
    <3>4. Origins'
      BY <1>1, <2>1, <3>1, <3>2 DEF Origins
    <3>5. QED
      BY <3>3, <3>4
  <2>14. QED
    BY <1>6, <1>7, <2>2, <2>3, <2>4, <2>5, <2>6, <2>7, <2>8, <2>9, <2>10, <2>11, <2>12, <2>13
       DEF Next
<1>9. InLoop \/ CycleStep \/ CallStep
  BY DEF Next, BuildEnds, BuildNeedsDecision, Retry, Skip, DrainTick, StartRound, RoundTimer,
         OpenWindow, Lapse, WindowTimer, Revoke, ToggleChaos, ChaosExpires, Halt, RecoverShow,
         Suggest, Instruct, InstructionApproved, GateRefuses, Repooled, Veto
<1>10. QED
  BY <1>6, <1>7, <1>8, <1>9

LEMMA InitSound ==
  Init => Sound
<1> SUFFICES ASSUME Init  PROVE Sound
  OBVIOUS
<1>0. ModeInit /\ CycleInit
  BY DEF Init
<1>1. calls = <<<<"maybeBegin">>>> /\ queue = <<>> /\ line = <<>>
  BY DEF Init, CycleInit
<1>2. <<"maybeBegin">> \in Frame
  BY FramesAre DEF Lone
<1>3. calls \in Seq(Frame)
  BY <1>1, <1>2
<1>4. Elements(queue) = {} /\ queue \in Seq(Task) /\ line \in Seq(Job)
  BY <1>1, ElementsFew, EmptySeq
<1>5. ModeTypeOK
  BY <1>0 DEF ModeInit, ModeTypeOK, Modes, ActiveModes, NoMode
<1>9. CycleTypeOK
  <2>1. enabled = TRUE /\ phase = FALSE /\ waiting = FALSE /\ timers = 0
    BY <1>0 DEF CycleInit
  <2>2. timers \in 0..MaxTimers
    BY <2>1 DEF MaxTimers
  <2>3. QED
    BY <2>1, <2>2 DEF CycleTypeOK
<1>6. FlagsType
  <2>1. /\ roundFrozen = FALSE /\ uncapped = FALSE /\ window = "none" /\ armed = FALSE
        /\ chaosOn = FALSE /\ chaosWindow = FALSE /\ drainHeard = "IDLE" /\ drainDue = FALSE
        /\ unheard = FALSE /\ undrained = FALSE /\ acts = 0
    BY DEF Init
  <2>2. "IDLE" \in Modes /\ 0 \in 0..MaxActs
    BY ShowAssumption DEF ShowAssumption, Modes, ActiveModes
  <2>3. QED
    BY <2>1, <2>2 DEF FlagsType
<1>7. SessionType
  BY <1>4 DEF Init, SessionType
<1>8. TasksType /\ Origins
  BY <1>4 DEF Init, TasksType, Origins
<1>10. QED
  BY <1>3, <1>5, <1>9, <1>6, <1>7, <1>8, TypeParts DEF Sound, Typed

LEMMA StillSound ==
  ASSUME Sound, UNCHANGED vars
  PROVE  Sound'
<1>1. ModeTypeOK /\ CycleTypeOK /\ FlagsType /\ SessionType /\ TasksType
  BY TypeParts DEF Sound, Typed
<1> USE DEF vars, modeVars, cycle, tasks, roundVars, windowVars, chaosVars, drainVars, session, history
<1>2. ModeTypeOK' /\ CycleTypeOK'
  BY <1>1 DEF ModeTypeOK, CycleTypeOK
<1>3. FlagsType'
  BY <1>1 DEF FlagsType
<1>4. SessionType'
  BY <1>1 DEF SessionType
<1>5. TasksType'
  BY <1>1 DEF TasksType
<1>6. Origins' /\ calls' \in Seq(Frame)
  BY DEF Sound, Typed, Origins, Closing, On, Stack
<1>7. QED
  BY <1>2, <1>3, <1>4, <1>5, <1>6, TypePartsNext DEF Sound, Typed

LEMMA NextSound ==
  ASSUME Sound, [Next]_vars
  PROVE  Sound'
<1>1. CASE Next
  <2>1. calls' \in Seq(Frame) /\ ModeTypeOK'
    BY <1>1, NextControl DEF Sound, Pushes
  <2>2. CycleTypeOK' /\ FlagsType' /\ SessionType'
    BY <1>1, NextCycle, NextFlags, NextSession DEF Sound
  <2>3. TasksType' /\ Origins'
    BY <1>1, NextTasks
  <2>4. QED
    BY <2>1, <2>2, <2>3, TypePartsNext DEF Sound, Typed
<1>2. QED
  BY <1>1, StillSound

\* Inside cascades too, the stack holds only calls of the show's methods, and a task that is
\* voted on or queued was submitted, and is both only while its round is being closed.
THEOREM ShowSound == Spec => []Sound
  BY InitSound, NextSound, PTL DEF Spec

\* Every variable of the show keeps its type; a pooled suggestion is neither voted on nor
\* queued (candidate-pool.ts hands it out once), whatever calls re-enter whatever others.
THEOREM ShowTypeCorrect == Spec => []TypeOK
  BY ShowSound, PTL DEF Sound, Typed

-------------------------------------------------------------------------------
(***************************************************************************)
(* One phase, one timer                                                    *)
(***************************************************************************)

\* The scheduler's methods between a phase and the next, which run at once or not at all.
Ends == {"onPhaseEnd", "attemptRoundStart", "beginSuggestPhase"}

\* Such a call is never under another; the timer is gone when it runs, and what made a phase
\* possible still holds when the round or the phase begins.
Timers ==
    /\ \A c \in Below : c[1] \notin Ends
    /\ Call("onPhaseEnd") => timers = 0
    /\ Call("attemptRoundStart") \/ Call("beginSuggestPhase") => timers = 0 /\ ~phase /\ Eligible
    /\ (\A e \in Ends : ~Call(e)) => timers = IF phase THEN 1 ELSE 0
    /\ mode = "HALTED" => ~phase

LEMMA EndsGone ==
  ASSUME Typed, Timers, NEW F, Pushes(F), \A c \in F : c[1] \notin Ends
  PROVE  (\A c \in Below' : c[1] \notin Ends) /\ \A e \in Ends : ~Call(e)'
<1>1. \A c \in Stack' : c[1] \notin Ends
  BY DEF Pushes, Timers
<1>2. /\ ~InLoop' => Head(calls') \in Frame /\ Stack' = {Head(calls')} \union Below'
      /\ Below' \subseteq Stack'
  BY StackTopNext DEF Pushes
<1>3. QED
  BY <1>1, <1>2 DEF Call

LEMMA EndOnTop ==
  ASSUME Typed, Timers, NEW e, Calls(<<e>>)
  PROVE  (\A c \in Below' : c[1] \notin Ends) /\ \A f : Call(f)' <=> f = e
  BY DEF Calls, Call, Timers

\* The other steps leave the phase and its timer alone.
Aside == UNCHANGED <<phase, timers>> /\ \A e \in Ends : ~Call(e)

LEMMA AsideSteps ==
  ASSUME Next
  PROVE  CycleStep \/ AttemptRoundStart \/ Halt \/ Aside
<1> USE DEF cycle, Ends
<1>1. ASSUME InLoop, UNCHANGED cycle  PROVE Aside
  BY <1>1 DEF Aside, Call
<1>2. ASSUME NEW f, f \notin Ends, Call(f), UNCHANGED cycle  PROVE Aside
  BY <1>2 DEF Aside, Call
<1>3. CASE CallStep
  <2>1. CASE DispatchBuild \/ NextJob \/ Drain \/ Drive \/ Continue
    BY <1>2, <2>1 DEF DispatchBuild, NextJob, Drain, Drive, Continue
  <2>2. CASE DriveHead \/ DrainHears \/ LeaveVoting \/ RoundClosed \/ WindowClosed
    BY <1>2, <2>2 DEF DriveHead, DrainHears, LeaveVoting, RoundClosed, WindowClosed
  <2>3. CASE WindowHears \/ ChaosFlag \/ PickChaos
    BY <1>2, <2>3 DEF WindowHears, ChaosFlag, PickChaos
  <2>4. QED
    BY <1>3, <2>1, <2>2, <2>3 DEF CallStep
<1>4. QED
  BY <1>1, <1>3
     DEF Next, BuildEnds, BuildNeedsDecision, Retry, Skip, DrainTick, StartRound, RoundTimer,
         OpenWindow, Lapse, WindowTimer, Revoke, ToggleChaos, ChaosExpires, RecoverShow, Suggest,
         Instruct, InstructionApproved, GateRefuses, Repooled, Veto

LEMMA AsideTimers ==
  ASSUME Typed, Timers, NEW F, Pushes(F), \A c \in F : c[1] \notin Ends, Aside,
         mode' = "HALTED" => mode = "HALTED"
  PROVE  Timers'
<1>1. (\A c \in Below' : c[1] \notin Ends) /\ \A e \in Ends : ~Call(e)'
  BY EndsGone
<1>2. "onPhaseEnd" \in Ends /\ "attemptRoundStart" \in Ends /\ "beginSuggestPhase" \in Ends
  BY DEF Ends
<1>3. QED
  BY <1>1, <1>2 DEF Aside, Timers

\* The calls that any step may make; what mints or drains a winner comes out of few of them.
Ordinary(F) ==
    \A c \in F :
        /\ c[1] \notin Ends /\ c[1] \notin {"chaosFlag", "leaveVoting"}
        /\ c[1] = "drain" => mode = "IDLE"

\* No step but the halt halts, and the recovery is heard.
Rests ==
    /\ mode' = "HALTED" => mode = "HALTED"
    /\ mode = "HALTED" /\ mode' # "HALTED" => On("drainHears")'
    /\ \E F : Pushes(F) /\ Ordinary(F)

LEMMA StaysRests ==
  ASSUME Typed, NEW F, Stays(F), Ordinary(F)
  PROVE  Rests
  BY DEF Stays, modeVars, Rests

LEMMA MovesRests ==
  ASSUME Typed, NEW m \in ActiveModes, NEW F, Moves(m, F), Ordinary(F)
  PROVE  Rests
<1>1. Pushes(Hears(m) \union F) /\ mode' # "HALTED" /\ mode # "HALTED"
  BY DEF Moves, ActiveModes
<1>2. Ordinary(Hears(m) \union F)
  BY DEF Hears, Ordinary, Ends
<1>3. QED
  BY <1>1, <1>2 DEF Rests

LEMMA LeavesRests ==
  ASSUME Typed, NEW from, NEW m \in ActiveModes, NEW F, LeavesTo(from, m, F), Ordinary(F)
  PROVE  Rests
  BY StaysRests, MovesRests DEF LeavesTo, Stays

\* What makes a phase possible changes only with what it is about.
LEMMA SameEligible ==
  ASSUME UNCHANGED <<enabled, round, mode, window, chaosOn, queue>>
  PROVE  Eligible' = Eligible
  BY DEF Eligible, IsControlWindowLive, IsVoteQueueFull

LEMMA CycleTimers ==
  ASSUME Typed, Timers, CycleStep
  PROVE  Timers'
<1>1. UNCHANGED <<mode, round, window, chaosOn, queue>>
  BY DEF CycleStep, modeVars, tasks, roundVars, windowVars, chaosVars
<1>2. /\ "onPhaseEnd" \in Ends /\ "attemptRoundStart" \in Ends /\ "beginSuggestPhase" \in Ends
      /\ "maybeBegin" \notin Ends /\ "maybeEarlyClose" \notin Ends
  BY DEF Ends
<1>3. phase \in BOOLEAN /\ timers \in Nat
  BY DEF Typed, TypeOK, CycleTypeOK
<1>4. \A f, g : Call(f) /\ Call(g) => f = g
  BY DEF Call
<1>5. ASSUME InLoop \/ Call("maybeBegin") \/ Call("maybeEarlyClose")
      PROVE  timers = IF phase THEN 1 ELSE 0
  BY <1>2, <1>4, <1>5 DEF Timers, Call
<1>6. CASE MaybeBegin(Eligible)
  <2>1. Call("maybeBegin") /\ UNCHANGED <<enabled, phase, timers>>
    BY <1>6, MaybeBeginCalls DEF MaybeBegin
  <2>2. Eligible' = Eligible
    BY <1>1, <2>1, SameEligible
  <2>3. CASE Pushes({})
    BY <1>1, <1>2, <1>5, <2>1, <2>3, EndsGone DEF Timers
  <2>4. CASE Calls(<<"attemptRoundStart">>) /\ ~phase /\ timers = 0 /\ Eligible
    BY <1>1, <1>2, <2>1, <2>2, <2>4, EndOnTop DEF Timers
  <2>5. CASE Calls(<<"beginSuggestPhase">>) /\ ~phase /\ timers = 0 /\ Eligible
    BY <1>1, <1>2, <2>1, <2>2, <2>5, EndOnTop DEF Timers
  <2>6. \/ Pushes({})
        \/ Calls(<<"attemptRoundStart">>) /\ ~phase /\ timers = 0 /\ ResumesVote(Eligible)
        \/ Calls(<<"beginSuggestPhase">>) /\ ~phase /\ timers = 0 /\ Eligible
    BY <1>6, MaybeBeginCalls
  <2>7. ResumesVote(Eligible) => Eligible
    BY DEF ResumesVote
  <2>8. QED
    BY <2>3, <2>4, <2>5, <2>6, <2>7
<1>7. CASE BeginSuggestPhase
  <2>1. timers = 0 /\ Eligible /\ Pushes({<<"maybeEarlyClose">>})
    BY <1>7, BeginSuggestPhaseCalls DEF BeginSuggestPhase, Timers
  <2>2. phase' = TRUE /\ timers' = 1
    BY <1>7, <2>1 DEF BeginSuggestPhase, MaxTimers
  <2>3. (\A c \in Below' : c[1] \notin Ends) /\ \A e \in Ends : ~Call(e)'
    BY <1>2, <2>1, EndsGone
  <2>4. QED
    BY <1>1, <1>2, <2>1, <2>2, <2>3 DEF Timers, Eligible
<1>8. CASE MaybeEarlyClose(PoolFull)
  <2>1. Call("maybeEarlyClose") /\ UNCHANGED phase
    BY <1>8 DEF MaybeEarlyClose
  <2>2. CASE phase /\ timers # 0 /\ ClearTimer /\ Calls(<<"onPhaseEnd">>)
    <3>1. timers' = 0
      BY <1>5, <2>1, <2>2 DEF ClearTimer
    <3>2. QED
      BY <1>1, <1>2, <2>1, <2>2, <3>1, EndOnTop DEF Timers
  <2>3. CASE UNCHANGED timers /\ Pushes({})
    BY <1>1, <1>2, <1>5, <2>1, <2>3, EndsGone DEF Timers
  <2>4. QED
    BY <1>8, <2>2, <2>3, MaybeEarlyCloseCalls
<1>9. CASE OnPhaseEnd(Eligible)
  <2>1. timers = 0 /\ phase' = FALSE /\ UNCHANGED <<enabled, timers>>
    BY <1>9 DEF OnPhaseEnd, Timers
  <2>2. Eligible' = Eligible
    BY <1>1, <2>1, SameEligible
  <2>3. CASE Eligible
    <3>1. Calls(<<"attemptRoundStart">>)
      BY <1>9, <2>3, OnPhaseEndCalls
    <3>2. QED
      BY <1>1, <1>2, <2>1, <2>2, <2>3, <3>1, EndOnTop DEF Timers
  <2>4. CASE ~Eligible
    <3>1. Pushes({})
      BY <1>9, <2>4, OnPhaseEndCalls
    <3>2. QED
      BY <1>1, <1>2, <2>1, <3>1, EndsGone DEF Timers
  <2>5. QED
    BY <2>3, <2>4
<1>10. CASE PhaseTimer
  <2>1. InLoop /\ timers # 0 /\ timers' = timers - 1 /\ UNCHANGED phase
    BY <1>10 DEF PhaseTimer
  <2>2. timers' = 0
    BY <1>5, <2>1
  <2>3. Calls(<<"onPhaseEnd">>)
    BY <1>10, PhaseTimerCalls
  <2>5. (\A c \in Below' : c[1] \notin Ends) /\ \A f : Call(f)' <=> f = "onPhaseEnd"
    BY <2>3, EndOnTop
  <2>6. mode' = "HALTED" => ~phase'
    BY <1>1, <2>1 DEF Timers
  <2>4. QED
    BY <1>2, <2>2, <2>5, <2>6 DEF Timers
<1>11. CASE Toggle
  <2>1. InLoop
    BY <1>11 DEF Toggle
  <2>2. CASE enabled
    <3>3. phase' = FALSE /\ ClearTimer
      BY <1>11, <2>2 DEF Toggle
    <3>4. timers = 0 \/ timers = 1
      BY <1>5, <2>1
    <3>5. Pushes({})
      BY <1>11, <2>2, ToggleCalls
    <3>1. phase' = FALSE /\ timers' = 0 /\ Pushes({})
      BY <3>3, <3>4, <3>5 DEF ClearTimer
    <3>2. QED
      BY <1>1, <1>2, <3>1, EndsGone DEF Timers
  <2>3. CASE ~enabled
    <3>1. UNCHANGED <<phase, timers>> /\ Pushes({<<"maybeBegin">>})
      BY <1>11, <2>3, ToggleCalls DEF Toggle
    <3>2. (\A c \in Below' : c[1] \notin Ends) /\ \A e \in Ends : ~Call(e)'
      BY <1>2, <3>1, EndsGone
    <3>3. QED
      BY <1>1, <1>2, <1>5, <2>1, <3>1, <3>2 DEF Timers
  <2>4. QED
    BY <2>2, <2>3
<1>12. QED
  BY <1>6, <1>7, <1>8, <1>9, <1>10, <1>11 DEF CycleStep

LEMMA AttemptTimers ==
  ASSUME Typed, Timers, AttemptRoundStart
  PROVE  Timers'
<1>1. Call("attemptRoundStart") /\ timers = 0 /\ ~phase /\ Eligible
  BY DEF AttemptRoundStart, Timers
<1>2. UNCHANGED <<phase, timers>>
  BY DEF AttemptRoundStart, AttemptChaosPick, AttemptWaits, AttemptVote, AttemptSolo,
         AttemptRestart, cycle
<1>3. ASSUME NEW F, Pushes(F), \A c \in F : c[1] \notin Ends  PROVE Timers'
  <2>1. (\A c \in Below' : c[1] \notin Ends) /\ \A e \in Ends : ~Call(e)'
    BY <1>3, EndsGone
  <2>2. QED
    BY <1>1, <1>2, <2>1 DEF Timers, Ends
<1>4. CASE Pushes({<<"drain">>, <<"maybeBegin">>}) \/ Pushes({<<"maybeBegin">>}) \/ Pushes({})
  BY <1>3, <1>4 DEF Ends
<1>5. CASE LeavesTo("IDLE", "VOTING_ROUND", {})
  <2>1. Pushes(Hears("VOTING_ROUND") \union {}) \/ Pushes({})
    BY <1>5 DEF LeavesTo, Moves
  <2>2. \A c \in Hears("VOTING_ROUND") \union {} : c[1] \notin Ends
    BY DEF Hears, Ends
  <2>3. QED
    BY <1>3, <2>1, <2>2
<1>6. CASE AttemptRestart
  <2>1. Then(<<<<"beginSuggestPhase">>>>) /\ UNCHANGED <<modeVars, cycle, queue, round, window, chaosOn>>
    BY <1>6 DEF AttemptRestart, AttemptRoundStart, windowVars, chaosVars
  <2>2. Calls(<<"beginSuggestPhase">>)
    BY <2>1, CallsOne DEF Lone, Typed
  <2>3. (\A c \in Below' : c[1] \notin Ends) /\ \A f : Call(f)' <=> f = "beginSuggestPhase"
    BY <2>2, EndOnTop
  <2>4. Eligible'
    BY <1>1, <2>1, SameEligible DEF modeVars, cycle
  <2>5. "beginSuggestPhase" \in Ends
    BY DEF Ends
  <2>6. QED
    BY <1>1, <1>2, <2>3, <2>4, <2>5 DEF Timers
<1>7. QED
  BY <1>4, <1>5, <1>6, AttemptCalls DEF Stays

LEMMA HaltTimers ==
  ASSUME Typed, Timers, Halt
  PROVE  Timers'
<1>1. InLoop /\ ClearTimer /\ phase' = FALSE
  BY DEF Halt, Park
<1>2. timers = 0 \/ timers = 1
  BY <1>1 DEF Timers, Call
<1>3. timers' = 0
  BY <1>1, <1>2 DEF ClearTimer
<1>4. (\A c \in Below' : c[1] \notin Ends) /\ \A e \in Ends : ~Call(e)'
  BY HaltCalls, EndsGone
<1>5. QED
  BY <1>1, <1>3, <1>4 DEF Timers, Ends

LEMMA OrdinaryAre ==
  /\ Ordinary({})
  /\ \A f : f \notin Ends /\ f \notin {"chaosFlag", "leaveVoting", "drain"} => Ordinary({<<f>>})
  /\ mode = "IDLE" => Ordinary({<<"drain">>})
  /\ \A d : Ordinary({<<"continue", d>>}) /\ Ordinary({<<"nextJob">>, <<"continue", d>>})
  /\ \A t, d : Ordinary({<<"drive", t, d>>}) /\ Ordinary({<<"dispatchBuild", t, d>>})
<1> USE DEF Ordinary, Ends
<1>1. Ordinary({})
  OBVIOUS
<1>2. \A f : f \notin Ends /\ f \notin {"chaosFlag", "leaveVoting", "drain"} => Ordinary({<<f>>})
  OBVIOUS
<1>3. mode = "IDLE" => Ordinary({<<"drain">>})
  OBVIOUS
<1>4. \A d : Ordinary({<<"continue", d>>}) /\ Ordinary({<<"nextJob">>, <<"continue", d>>})
  OBVIOUS
<1>5. \A t, d : Ordinary({<<"drive", t, d>>}) /\ Ordinary({<<"dispatchBuild", t, d>>})
  OBVIOUS
<1>6. QED
  BY <1>1, <1>2, <1>3, <1>4, <1>5

\* All but the scheduler's steps, the round's timer and the toggle of chaos make such calls.
LEMMA RestsSteps ==
  ASSUME Typed, Next
  PROVE  CycleStep \/ AttemptRoundStart \/ Halt \/ ToggleChaos \/ RoundTimer \/ Rests
<1> USE OrdinaryAre DEF ActiveModes
<1>0. ASSUME NEW f, f \notin Ends, f \notin {"chaosFlag", "leaveVoting", "drain"}, Stays({<<f>>})
      PROVE  Rests
  BY <1>0, StaysRests
<1>d. ASSUME NEW t \in Task, NEW d, Stays({<<"drive", t, d>>})  PROVE Rests
  BY <1>d, StaysRests
<1>1. CASE DispatchBuild
  BY <1>1, DispatchBuildCalls, StaysRests, MovesRests
<1>2. CASE NextJob
  BY <1>2, NextJobCalls, StaysRests, MovesRests
<1>3. CASE Drain
  <2>1. CASE Stays({})
    BY <2>1, StaysRests
  <2>2. CASE mode = "IDLE" /\ Stays({<<"drain">>})
    BY <2>2, StaysRests
  <2>3. ASSUME NEW t \in Task, Moves("BUILD_IN_PROGRESS", {<<"dispatchBuild", t, "vote">>})
        PROVE  Rests
    BY <2>3, MovesRests
  <2>4. QED
    BY <1>3, <2>1, <2>2, <2>3, DrainCalls
<1>4. CASE Drive
  BY <1>4, DriveCalls, StaysRests, LeavesRests
<1>5. CASE Continue
  <2>1. CASE Stays({})
    BY <2>1, StaysRests
  <2>2. CASE mode = "IDLE" /\ Stays({<<"drain">>})
    BY <2>2, StaysRests
  <2>3. CASE Moves("FREE_REIGN_WINDOW", {<<"driveHead">>})
    BY <2>3, MovesRests DEF Ends
  <2>4. CASE Moves("CHAOS_MODE", {<<"pickChaos">>})
    BY <2>4, MovesRests DEF Ends
  <2>5. QED
    BY <1>5, <2>1, <2>2, <2>3, <2>4, ContinueCalls
<1>6. CASE DriveHead \/ DrainHears \/ RoundClosed \/ WindowClosed
  <2>1. DriveHead => Rests
    BY <1>d, DriveHeadCalls, StaysRests
  <2>2. DrainHears => Rests
    BY DrainHearsCalls, StaysRests
  <2>3. RoundClosed \/ WindowClosed => Rests
    BY <1>0, RoundClosedCalls, WindowClosedCalls DEF Ends
  <2>4. QED
    BY <1>6, <2>1, <2>2, <2>3
<1>7. CASE ChaosFlag
  BY <1>0, <1>7, ChaosFlagCalls, StaysRests DEF Ends
<1>8. CASE LeaveVoting
  BY <1>8, LeaveVotingCalls, LeavesRests DEF Ends
<1>9. CASE WindowHears
  BY <1>0, <1>9, WindowHearsCalls, StaysRests, MovesRests DEF Ends
<1>10. CASE PickChaos
  BY <1>10, <1>d, PickChaosCalls, StaysRests
<1>11. CASE BuildEnds
  BY <1>11, BuildEndsCalls, LeavesRests
<1>12. CASE Skip
  BY <1>12, SkipCalls, LeavesRests
<1>13. CASE BuildNeedsDecision
  BY <1>13, BuildNeedsDecisionCalls, StaysRests
<1>14. CASE DrainTick
  BY <1>14, DrainTickCalls, StaysRests
<1>15. CASE Retry
  BY <1>15, RetryCalls, StaysRests, MovesRests
<1>16. CASE StartRound
  <2>1. LeavesTo("IDLE", "VOTING_ROUND", {})
    BY <1>16, OpenRoundCalls DEF StartRound
  <2>2. QED
    BY <2>1, LeavesRests
<1>17. CASE OpenWindow
  BY <1>17, OpenWindowCalls, StaysRests, MovesRests
<1>18. CASE WindowTimer
  BY <1>18, WindowTimerCalls, LeavesRests DEF Ends
<1>19. CASE Revoke
  BY <1>0, <1>19, RevokeCalls, LeavesRests DEF Ends
<1>20. CASE Lapse \/ ChaosExpires
  BY <1>20, QuietCalls, StaysRests
<1>21. ASSUME NEW a \in RecoveryActions, RecoverShow(a)  PROVE Rests
  <2> DEFINE F == {<<"windowHears", mode, mode'>>, <<"maybeBegin">>, <<"drainHears", mode'>>}
  <2>1. mode' # "HALTED" /\ Pushes(F)
    BY <1>21, RecoverCalls
  <2>2. Ordinary(F)
    BY DEF Ordinary, Ends
  <2>3. <<"drainHears", mode'>> \in Stack'
    BY <2>1 DEF Pushes
  <2>4. On("drainHears")'
    BY <2>3 DEF On
  <2>5. QED
    BY <2>1, <2>2, <2>4 DEF Rests
<1>22. ASSUME NEW t \in Task, Suggest(t)  PROVE Rests
  BY <1>0, <1>22, SuggestCalls DEF Ends
<1>23. ASSUME NEW t \in Task, Instruct(t) \/ GateRefuses(t) \/ Veto(t)  PROVE Rests
  BY <1>23, QuietCalls, StaysRests
<1>26. ASSUME NEW t \in Task, Repooled(t)  PROVE Rests
  BY <1>0, <1>26, RepooledCalls DEF Ends
<1>24. ASSUME NEW t \in Task, InstructionApproved(t)  PROVE Rests
  BY <1>24, <1>d, InstructionCalls
<1>27. QED
  BY <1>1, <1>2, <1>3, <1>4, <1>5, <1>6, <1>7, <1>8, <1>9, <1>10, <1>11, <1>12, <1>13, <1>14, <1>15,
     <1>16, <1>17, <1>18, <1>19, <1>20, <1>21, <1>22, <1>23, <1>24, <1>26
     DEF Next, CallStep

LEMMA ToggleChaosPushes ==
  ASSUME Typed, ToggleChaos
  PROVE  LET m == IF chaosOn THEN "IDLE" ELSE "CHAOS_MODE" IN
         /\ InLoop /\ mode \in ActiveModes /\ mode' = m /\ m \in Transitions[mode]
         /\ Pushes(Hears(m) \union {<<"chaosFlag">>})
  BY ToggleChaosCalls DEF Moves, ToggleChaos

LEMMA NextTimers ==
  ASSUME Typed, Timers, Next
  PROVE  Timers'
<1> SUFFICES ASSUME Aside  PROVE Timers'
  BY AsideSteps, CycleTimers, AttemptTimers, HaltTimers
<1>1. CASE Rests
  <2>1. PICK F : Pushes(F) /\ Ordinary(F)
    BY <1>1 DEF Rests
  <2>2. \A c \in F : c[1] \notin Ends
    BY <2>1 DEF Ordinary
  <2>3. mode' = "HALTED" => mode = "HALTED"
    BY <1>1 DEF Rests
  <2>4. QED
    BY <2>1, <2>2, <2>3, AsideTimers
<1>2. CASE RoundTimer
  <2>1. Stays({<<"drain">>, <<"leaveVoting">>}) \/ Stays({<<"leaveVoting">>})
    BY <1>2, RoundTimerCalls
  <2>2. QED
    BY <2>1, AsideTimers DEF Ends, Stays, modeVars
<1>3. CASE ToggleChaos
  <2> DEFINE m == IF chaosOn THEN "IDLE" ELSE "CHAOS_MODE"
  <2>1. mode' # "HALTED" /\ Pushes(Hears(m) \union {<<"chaosFlag">>})
    BY <1>3, ToggleChaosPushes
  <2>2. \A c \in Hears(m) \union {<<"chaosFlag">>} : c[1] \notin Ends
    BY DEF Hears, Ends
  <2>3. QED
    BY <2>1, <2>2, AsideTimers
<1>4. QED
  BY <1>1, <1>2, <1>3, RestsSteps, CycleTimers, AttemptTimers, HaltTimers

LEMMA InitTimers ==
  Init => Timers
<1> SUFFICES ASSUME Init  PROVE Timers
  OBVIOUS
<1>1. ModeInit /\ CycleInit
  BY DEF Init
<1>2. calls = <<<<"maybeBegin">>>> /\ mode = "IDLE" /\ phase = FALSE /\ timers = 0
  BY <1>1 DEF ModeInit, CycleInit
<1>3. Below = {} /\ \A e \in Ends : ~Call(e)
  <2>1. Len(calls) = 1 /\ Head(calls) = <<"maybeBegin">>
    BY <1>2
  <2>2. QED
    BY <2>1 DEF Below, Lower, Call, Ends
<1>4. QED
  BY <1>2, <1>3 DEF Timers, Ends

LEMMA StillTimers ==
  ASSUME Timers, UNCHANGED vars
  PROVE  Timers'
<1>1. UNCHANGED <<calls, phase, timers, mode>> /\ Eligible' = Eligible
  BY SameEligible DEF vars, modeVars, cycle, tasks, roundVars, windowVars, chaosVars
<1>2. QED
  BY <1>1 DEF Timers, Below, Call, InLoop

\* However cascades re-enter the scheduler, a call that ends or begins a phase runs on its own,
\* with the old timer gone and the facts it was made on still true (auto-cycle.ts).
THEOREM ShowTimers == Spec => []Timers
<1>1. Sound /\ Timers /\ [Next]_vars => Timers'
  BY NextTimers, StillTimers DEF Sound
<1>2. QED
  BY <1>1, InitTimers, ShowSound, PTL DEF Spec

\* An open phase has its one timer and a timer its phase (auto-cycle.ts), however the halt,
\* the pause, an early close and a pick that re-enters the scheduler meet.
THEOREM ShowOnePhaseTimer == Spec => []OnePhaseTimer
<1>1. Timers => OnePhaseTimer
  BY DEF Timers, OnePhaseTimer, Call
<1>2. QED
  BY <1>1, ShowTimers, PTL

-------------------------------------------------------------------------------
(***************************************************************************)
(* The queue's cap                                                         *)
(***************************************************************************)

Votes == Cardinality(VotesOf(queue))

\* While the console mints nothing, a loaded round that is not closing yet has its room.
Room ==
    ~uncapped => /\ Votes <= VoteQueueMax
                 /\ round # {} /\ ~Closing => Votes < VoteQueueMax

LEMMA VotesCount ==
  ASSUME Sound
  PROVE  Votes \in Nat /\ VoteQueueMax \in Nat
  BY VotesFinite, ShowAssumption DEF ShowAssumption, Sound, Typed, TypeOK, Votes

LEMMA VotesAppend ==
  ASSUME Sound, NEW t \in Task, queue' = Append(queue, t)
  PROVE  Votes' = Votes + (IF VoteOrigin(t) THEN 1 ELSE 0)
<1>1. queue \in Seq(Task)
  BY DEF Sound, Typed, TypeOK
<1>2. QED
  BY <1>1, QueueAppend DEF Votes

LEMMA VotesWithout ==
  ASSUME Sound, NEW t, queue' = Without(t)
  PROVE  Votes' \in Nat /\ Votes' <= Votes
<1>1. queue' \in Seq(Task) /\ Cardinality(VotesOf(queue')) <= Cardinality(VotesOf(queue))
  BY WithoutKept
<1>2. QED
  BY <1>1, VotesFinite DEF Votes

\* A step that mints no winner and loads no round.
LEMMA RoomKept ==
  ASSUME Sound, Room, uncapped => uncapped', round' \in {round, {}},
         Votes' \in Nat, Votes' <= Votes, Closing => Closing'
  PROVE  Room'
<1> SUFFICES ASSUME ~uncapped'
             PROVE  Votes' <= VoteQueueMax /\ (round' # {} /\ ~Closing' => Votes' < VoteQueueMax)
  BY DEF Room
<1>1. Votes \in Nat /\ VoteQueueMax \in Nat
  BY VotesCount
<1>2. Votes <= VoteQueueMax /\ (round # {} /\ ~Closing => Votes < VoteQueueMax)
  BY DEF Room
<1>3. QED
  BY <1>1, <1>2

\* A step after a phase that was open to begin.
LEMMA RoomMinted ==
  ASSUME Sound, Room, Eligible, Votes' \in Nat, Votes' <= Votes + 1, round' = {}
  PROVE  Room'
<1>1. Votes \in Nat /\ VoteQueueMax \in Nat
  BY VotesCount
<1>2. ~(Votes >= VoteQueueMax)
  BY DEF Eligible, IsVoteQueueFull, Votes, VotesOf
<1>3. Votes' <= VoteQueueMax
  BY <1>1, <1>2
<1>4. QED
  BY <1>3 DEF Room

LEMMA AttemptRoom ==
  ASSUME Sound, Timers, Room, AttemptRoundStart
  PROVE  Room'
<1>1. Eligible /\ round = {} /\ Votes \in Nat /\ VoteQueueMax \in Nat
  BY VotesCount DEF AttemptRoundStart, Timers, Eligible
<1>2. \A t \in pool : t \in Task /\ (queue' = Append(queue, t) => Votes' \in Nat /\ Votes' <= Votes + 1)
  <2> SUFFICES ASSUME NEW t \in pool
               PROVE  t \in Task /\ (queue' = Append(queue, t) => Votes' \in Nat /\ Votes' <= Votes + 1)
    OBVIOUS
  <2>1. t \in Task
    BY DEF Sound, Typed, TypeOK
  <2>2. QED
    BY <1>1, <2>1, VotesAppend
<1>3. ASSUME UNCHANGED <<queue, round>>  PROVE Room'
  <2>1. Votes' = Votes
    BY <1>3 DEF Votes
  <2>2. QED
    BY <1>1, <1>3, <2>1, RoomMinted
<1>4. ASSUME NEW t \in pool, NEW on, NEW then, PickFromPool(t, on, then), UNCHANGED round
      PROVE  Room'
  BY <1>1, <1>2, <1>4, RoomMinted DEF PickFromPool
<1>5. CASE AttemptChaosPick
  BY <1>3, <1>4, <1>5 DEF AttemptChaosPick, Recheck
<1>6. CASE AttemptWaits
  BY <1>3, <1>6 DEF AttemptWaits
<1>7. CASE AttemptSolo
  BY <1>3, <1>4, <1>7 DEF AttemptSolo, Recheck
<1>8. CASE AttemptRestart
  BY <1>3, <1>8 DEF AttemptRestart
<1>9. CASE AttemptVote
  <2>1. Votes' = Votes
    BY <1>9 DEF AttemptVote, OpenRound, Votes
  <2>2. Votes < VoteQueueMax
    BY <1>1 DEF Eligible, IsVoteQueueFull, Votes, VotesOf
  <2>3. QED
    BY <1>1, <2>1, <2>2 DEF Room
<1>10. QED
  BY <1>5, <1>6, <1>7, <1>8, <1>9 DEF AttemptRoundStart

LEMMA NextRoom ==
  ASSUME Sound, Timers, Room, Next
  PROVE  Room'
<1>1. Typed /\ Votes \in Nat
  BY VotesCount DEF Sound
<1>2. ~Call("leaveVoting") /\ ~Call("roundClosed") => (Closing => Closing')
  BY <1>1, ClosingStays
<1>3. InLoop => (Closing => Closing')
  BY <1>2 DEF Call
<1>4. ASSUME UNCHANGED <<queue, round>>, uncapped => uncapped', Closing => Closing'
      PROVE  Room'
  BY <1>1, <1>4, RoomKept DEF Votes
<1>5. ASSUME round' = round, UNCHANGED uncapped, Closing => Closing', NEW t, queue' = Without(t)
      PROVE  Room'
  BY <1>5, RoomKept, VotesWithout
<1> USE DEF tasks, roundVars
<1>6. CASE CycleStep
  <2>1. ~Call("leaveVoting") /\ ~Call("roundClosed")
    BY <1>6 DEF CycleStep, MaybeBegin, BeginSuggestPhase, MaybeEarlyClose, OnPhaseEnd, PhaseTimer,
                Toggle, Call
  <2>2. QED
    BY <1>2, <1>4, <1>6, <2>1 DEF CycleStep
<1>7. CASE CallStep
  <2>1. CASE DispatchBuild \/ Drive \/ Continue \/ DriveHead \/ DrainHears \/ WindowClosed \/ WindowHears
             \/ ChaosFlag
    <3>1. ~Call("leaveVoting") /\ ~Call("roundClosed")
      BY <2>1 DEF DispatchBuild, Drive, Continue, DriveHead, DrainHears, WindowClosed, WindowHears,
                  ChaosFlag, Call
    <3>2. UNCHANGED <<queue, round, uncapped>>
      BY <2>1 DEF DispatchBuild, Drive, Continue, DriveHead, DrainHears, WindowClosed, WindowHears,
                  ChaosFlag
    <3>3. QED
      BY <1>2, <1>4, <3>1, <3>2
  <2>2. CASE NextJob
    <3>1. ~Call("leaveVoting") /\ ~Call("roundClosed") /\ UNCHANGED <<round, uncapped>>
      BY <2>2 DEF NextJob, Call
    <3>2. queue' = queue \/ \E t : queue' = Without(t)
      BY <2>2 DEF NextJob, Finish
    <3>3. QED
      BY <1>2, <1>4, <1>5, <3>1, <3>2
  <2>3. CASE Drain
    <3>1. ~Call("leaveVoting") /\ ~Call("roundClosed") /\ UNCHANGED <<round, uncapped>>
      BY <2>3 DEF Drain, Call
    <3>2. queue' = queue \/ \E t : queue' = Without(t)
      BY <1>1, <2>3, DrainCalls
    <3>3. QED
      BY <1>2, <1>4, <1>5, <3>1, <3>2
  <2>4. CASE AttemptRoundStart
    BY <2>4, AttemptRoom
  <2>5. CASE LeaveVoting
    <3>1. <<"roundClosed">> \in Stack'
      BY <1>1, <2>5, LeaveVotingCalls DEF LeavesTo, Moves, Pushes
    <3>2. Closing'
      BY <3>1 DEF Closing, On
    <3>3. UNCHANGED <<queue, round, uncapped>>
      BY <2>5 DEF LeaveVoting
    <3>4. QED
      BY <1>4, <3>2, <3>3
  <2>6. CASE RoundClosed
    <3>1. round' = {} /\ UNCHANGED <<queue, uncapped>>
      BY <2>6 DEF RoundClosed
    <3>2. Votes' = Votes
      BY <3>1 DEF Votes
    <3>3. QED
      BY <3>1, <3>2 DEF Room
  <2>7. CASE PickChaos
    <3>1. ~Call("leaveVoting") /\ ~Call("roundClosed") /\ UNCHANGED round
      BY <2>7 DEF PickChaos, Call
    <3>2. CASE uncapped'
      BY <3>2 DEF Room
    <3>3. CASE ~uncapped'
      <4>1. UNCHANGED <<queue, uncapped>>
        BY <2>7, <3>3 DEF PickChaos, Recheck
      <4>2. QED
        BY <1>2, <1>4, <3>1, <4>1
    <3>4. QED
      BY <3>2, <3>3
  <2>8. QED
    BY <1>7, <2>1, <2>2, <2>3, <2>4, <2>5, <2>6, <2>7 DEF CallStep
<1>8. CASE InLoop
  <2>1. CASE BuildEnds
    BY <1>3, <1>5, <1>8, <2>1 DEF BuildEnds, Finish
  <2>2. CASE Skip
    BY <1>3, <1>5, <1>8, <2>2 DEF Skip, Finish
  <2>3. CASE BuildNeedsDecision \/ Retry \/ DrainTick \/ OpenWindow \/ Lapse \/ WindowTimer \/ Revoke
             \/ ToggleChaos \/ ChaosExpires \/ Halt
    <3>1. UNCHANGED <<queue, round, uncapped>>
      BY <2>3 DEF BuildNeedsDecision, Retry, DrainTick, OpenWindow, Lapse, WindowTimer, Revoke,
                  ToggleChaos, ChaosExpires, Halt
    <3>2. QED
      BY <1>3, <1>4, <1>8, <3>1
  <2>4. CASE StartRound
    BY <2>4 DEF StartRound, Room
  <2>5. CASE RoundTimer
    <3>2. ~Closing /\ round # {} /\ UNCHANGED uncapped
      BY <1>1, <1>8, <2>5, StackTop DEF RoundTimer, Closing, On, Typed
    <3>3. <<"leaveVoting">> \in Stack'
      BY <1>1, <2>5, RoundTimerCalls DEF Stays, Pushes
    <3>4. Closing'
      BY <3>3 DEF Closing, On
    <3>5. ASSUME NEW t \in round, queue' = Append(queue, t)  PROVE ~uncapped => Votes' <= VoteQueueMax
      <4>1. t \in Task
        BY DEF Sound, Typed, TypeOK
      <4>2. Votes' = Votes + (IF VoteOrigin(t) THEN 1 ELSE 0)
        BY <3>5, <4>1, VotesAppend
      <4>3. QED
        BY <1>1, <3>2, <4>2, VotesCount DEF Room
    <3>6. ASSUME UNCHANGED queue  PROVE Room'
      <4>1. UNCHANGED round
        BY <2>5 DEF RoundTimer
      <4>2. QED
        BY <1>4, <3>2, <3>4, <3>6, <4>1
    <3>7. QED
      BY <2>5, <3>2, <3>4, <3>5, <3>6 DEF RoundTimer, Recheck, Room
  <2>6. ASSUME NEW a \in RecoveryActions, RecoverShow(a)  PROVE Room'
    <3>1. UNCHANGED <<queue, uncapped>> /\ round' \in {round, {}}
      BY <2>6 DEF RecoverShow
    <3>2. QED
      BY <1>1, <1>3, <1>8, <3>1, RoomKept DEF Votes
  <2>7. ASSUME NEW t \in Task, \/ Suggest(t) \/ Instruct(t)
                              \/ GateRefuses(t) \/ Repooled(t)
        PROVE  Room'
    <3>1. UNCHANGED <<queue, round, uncapped>>
      BY <2>7 DEF Suggest, Instruct, GateRefuses, Repooled
    <3>2. QED
      BY <1>3, <1>4, <1>8, <3>1
  <2>8. ASSUME NEW t \in Task, InstructionApproved(t)  PROVE Room'
    <3>1. t \in Paid /\ queue' = Append(queue, t) /\ UNCHANGED <<round, uncapped>>
      BY <2>8 DEF InstructionApproved
    <3>2. ~VoteOrigin(t)
      BY <3>1 DEF VoteOrigin
    <3>3. Votes' = Votes
      BY <1>1, <3>1, <3>2, VotesAppend
    <3>4. QED
      BY <1>1, <1>3, <1>8, <3>1, <3>3, RoomKept
  <2>9. ASSUME NEW t \in Task, Veto(t)  PROVE Room'
    BY <1>3, <1>5, <1>8, <2>9 DEF Veto, Finish
  <2>10. QED
    BY <1>6, <1>7, <2>1, <2>2, <2>3, <2>4, <2>5, <2>6, <2>7, <2>8, <2>9 DEF Next
<1>9. InLoop \/ CycleStep \/ CallStep
  BY DEF Next, BuildEnds, BuildNeedsDecision, Retry, Skip, DrainTick, StartRound, RoundTimer,
         OpenWindow, Lapse, WindowTimer, Revoke, ToggleChaos, ChaosExpires, Halt, RecoverShow,
         Suggest, Instruct, InstructionApproved, GateRefuses, Repooled, Veto
<1>10. QED
  BY <1>6, <1>7, <1>8, <1>9

\* Until the console mints tasks past the cap, a round that is not closing yet still finds a
\* place in the queue for its winner (the cap that the scheduler asks, auto-cycle.ts).
THEOREM ShowRoom == Spec => []Room
<1>1. Init => Room
  <2> SUFFICES ASSUME Init  PROVE Votes <= VoteQueueMax /\ round = {}
    BY DEF Room
  <2>1. queue = <<>> /\ round = {}
    BY DEF Init
  <2>2. VotesOf(queue) = {} /\ VoteQueueMax \in Nat
    BY <2>1, ShowAssumption DEF ShowAssumption, VotesOf
  <2>3. QED
    BY <2>1, <2>2, FS_EmptySet DEF Votes
<1>2. Sound /\ Timers /\ Room /\ UNCHANGED vars => Room'
  BY DEF Room, Votes, Closing, On, Stack, vars, tasks, roundVars
<1>3. Sound /\ Timers /\ Room /\ [Next]_vars => Room'
  BY <1>2, NextRoom
<1>4. QED
  BY <1>1, <1>3, ShowSound, ShowTimers, PTL DEF Spec

\* The cadence mints no winner that the queue has no room for (isVoteQueueFull in main.ts is
\* asked a phase and a round earlier), for every cap; the console's rounds are not capped.
THEOREM ShowQueueBounded == Spec => []QueueBounded
<1>1. Room => QueueBounded
  BY DEF Room, QueueBounded, Votes, VotesOf
<1>2. QED
  BY <1>1, ShowRoom, PTL

-------------------------------------------------------------------------------
(***************************************************************************)
(* The cadence runs on                                                     *)
(***************************************************************************)

\* The calls that come to a phase or to a round, if one may begin.
Begins == {"maybeBegin", "beginSuggestPhase", "attemptRoundStart", "onPhaseEnd", "leaveVoting",
           "roundClosed", "windowClosed"}

\* A phase may begin, and only a call that is still on the stack will begin it.
Owed == Eligible /\ ~phase /\ ~unheard /\ ~(waiting /\ mode = "BUILD_IN_PROGRESS")

Poked == Owed => \E f \in Begins : On(f)

LEMMA PokedBy ==
  ASSUME NEW F, Pushes(F), NEW f \in Begins, <<f>> \in F
  PROVE  Poked'
<1>1. <<f>> \in Stack' /\ <<f>>[1] = f
  BY DEF Pushes
<1>2. On(f)'
  BY <1>1 DEF On
<1>3. QED
  BY <1>2 DEF Poked

LEMMA PokedMoves ==
  ASSUME NEW m, NEW F, Moves(m, F)
  PROVE  Poked'
<1>1. Pushes(Hears(m) \union F) /\ <<"maybeBegin">> \in Hears(m) \union F /\ "maybeBegin" \in Begins
  BY DEF Moves, Hears, Begins
<1>2. QED
  BY <1>1, PokedBy

LEMMA PokedKept ==
  ASSUME Typed, Poked, Owed' => Owed, NEW F, Pushes(F), \A f \in Begins : ~Call(f)
  PROVE  Poked'
<1>1. ASSUME NEW f \in Begins, On(f)  PROVE On(f)'
  BY <1>1, OnStays
<1>2. QED
  BY <1>1 DEF Poked

\* The step tells the scheduler nothing and changes nothing it would ask about but the mode.
Untold == UNCHANGED <<cycle, round, window, chaosOn, queue, unheard>> /\ \A f \in Begins : ~Call(f)

LEMMA PokedStays ==
  ASSUME Typed, Poked, Untold, NEW F, Stays(F)
  PROVE  Poked'
<1>1. Eligible' = Eligible /\ UNCHANGED <<phase, unheard, waiting, mode>>
  BY SameEligible DEF Untold, Stays, cycle, modeVars
<1>2. Owed' => Owed
  BY <1>1 DEF Owed
<1>3. QED
  BY <1>2, PokedKept DEF Untold, Stays

LEMMA PokedLeaves ==
  ASSUME Typed, Poked, Untold, NEW from, NEW m, NEW F, LeavesTo(from, m, F)
  PROVE  Poked'
  BY PokedMoves, PokedStays DEF LeavesTo, Stays

LEMMA PoolOfTwo ==
  ASSUME Cardinality(pool) >= 2
  PROVE  pool # {}
  BY FS_EmptySet

LEMMA OpenRoundPoked ==
  ASSUME OpenRound
  PROVE  Poked'
<1>1. round' # {}
  BY PoolOfTwo DEF OpenRound
<1>2. QED
  BY <1>1 DEF Poked, Owed, Eligible

LEMMA AttemptPoked ==
  ASSUME Typed, Poked, AttemptRoundStart
  PROVE  Poked'
<1> USE DEF Begins
<1>1. CASE Pushes({<<"drain">>, <<"maybeBegin">>})
  BY <1>1, PokedBy
<1>2. CASE Pushes({<<"maybeBegin">>})
  BY <1>2, PokedBy
<1>3. CASE Pushes({<<"beginSuggestPhase">>})
  BY <1>3, PokedBy
<1>4. CASE AttemptVote
  BY <1>4, OpenRoundPoked DEF AttemptVote
<1>5. CASE AttemptWaits
  <2>1. waiting' /\ mode' = "BUILD_IN_PROGRESS"
    BY <1>5 DEF AttemptWaits, modeVars
  <2>2. QED
    BY <2>1 DEF Poked, Owed
<1>6. QED
  BY <1>1, <1>2, <1>3, <1>4, <1>5, AttemptCalls DEF Stays

LEMMA CyclePoked ==
  ASSUME Typed, Timers, Poked, CycleStep
  PROVE  Poked'
<1>1. UNCHANGED <<mode, round, window, chaosOn, queue>> /\ unheard' = (unheard /\ ~Call("maybeBegin"))
  BY DEF CycleStep, modeVars, tasks, roundVars, windowVars, chaosVars
<1>2. ASSUME NEW f \in Begins, Calls(<<f>>)  PROVE Poked'
  BY <1>2, PokedBy DEF Calls
<1>3. /\ "beginSuggestPhase" \in Begins /\ "attemptRoundStart" \in Begins /\ "onPhaseEnd" \in Begins
      /\ "maybeBegin" \in Begins /\ "maybeEarlyClose" \notin Begins
  BY DEF Begins
<1>4. ASSUME ~Owed'  PROVE Poked'
  BY <1>4 DEF Poked
<1>5. CASE MaybeBegin(Eligible)
  <2>1. Call("maybeBegin") /\ UNCHANGED <<enabled, phase, timers>>
    BY <1>5, MaybeBeginCalls DEF MaybeBegin
  <2>2. Eligible' = Eligible
    BY <1>1, <2>1, SameEligible
  <2>3. timers = IF phase THEN 1 ELSE 0
    BY <2>1 DEF Timers, Call, Ends
  <2>4. CASE phase
    BY <1>4, <2>1, <2>4 DEF Owed
  <2>5. CASE ~Eligible
    BY <1>4, <2>2, <2>5 DEF Owed
  <2>6. CASE waiting' = TRUE /\ ~ResumesVote(Eligible) /\ Eligible
    BY <1>1, <1>4, <2>6 DEF Owed, ResumesVote
  <2>7. CASE Calls(<<"attemptRoundStart">>) \/ Calls(<<"beginSuggestPhase">>)
    BY <1>2, <1>3, <2>7
  <2>8. \/ phase \/ timers # 0 \/ ~Eligible
        \/ waiting' = TRUE /\ ~ResumesVote(Eligible)
        \/ Calls(<<"attemptRoundStart">>) \/ Calls(<<"beginSuggestPhase">>)
    BY <1>5, MaybeBeginCalls
  <2>9. timers # 0 => phase
    BY <2>3
  <2>10. QED
    BY <2>4, <2>5, <2>6, <2>7, <2>8, <2>9
<1>6. CASE BeginSuggestPhase
  BY <1>4, <1>6 DEF BeginSuggestPhase, Owed
<1>7. CASE MaybeEarlyClose(PoolFull)
  <2>1. CASE Calls(<<"onPhaseEnd">>)
    BY <1>2, <1>3, <2>1
  <2>2. CASE UNCHANGED timers /\ Pushes({})
    <3>1. Call("maybeEarlyClose") /\ UNCHANGED <<enabled, phase, waiting>>
      BY <1>7 DEF MaybeEarlyClose
    <3>2. \A f \in Begins : ~Call(f)
      BY <1>3, <3>1 DEF Call
    <3>3. Eligible' = Eligible /\ UNCHANGED unheard
      <4>1. ~Call("maybeBegin") /\ unheard \in BOOLEAN
        BY <1>3, <3>2 DEF Typed, TypeOK
      <4>2. QED
        BY <1>1, <3>1, <4>1, SameEligible
    <3>4. Owed' => Owed
      BY <1>1, <3>1, <3>3 DEF Owed
    <3>5. QED
      BY <2>2, <3>2, <3>4, PokedKept
  <2>3. QED
    BY <1>7, <2>1, <2>2, MaybeEarlyCloseCalls
<1>8. CASE OnPhaseEnd(Eligible)
  <2>1. CASE Eligible
    BY <1>2, <1>3, <1>8, <2>1, OnPhaseEndCalls
  <2>2. CASE ~Eligible
    <3>1. ~Eligible'
      BY <1>1, <1>8, <2>2, SameEligible DEF OnPhaseEnd
    <3>2. QED
      BY <1>4, <3>1 DEF Owed
  <2>3. QED
    BY <2>1, <2>2
<1>9. CASE PhaseTimer
  BY <1>2, <1>3, <1>9, PhaseTimerCalls
<1>10. CASE Toggle
  <2>1. CASE enabled
    <3>1. enabled' = ~enabled
      BY <1>10 DEF Toggle
    <3>2. ~Eligible'
      BY <2>1, <3>1 DEF Eligible
    <3>3. QED
      BY <1>4, <3>2 DEF Owed
  <2>2. CASE ~enabled
    BY <1>3, <1>10, <2>2, ToggleCalls, PokedBy
  <2>3. QED
    BY <2>1, <2>2
<1>11. QED
  BY <1>5, <1>6, <1>7, <1>8, <1>9, <1>10 DEF CycleStep

LEMMA WaitingQuietly ==
  ASSUME Next
  PROVE  /\ DispatchBuild \/ Drive \/ Continue \/ DriveHead \/ DrainHears => Untold
         /\ BuildNeedsDecision \/ Retry \/ DrainTick \/ ChaosExpires => Untold
         /\ \A t : Suggest(t) \/ Instruct(t) \/ GateRefuses(t) \/ Repooled(t) => Untold
<1> USE DEF Untold, Begins, tasks, roundVars, windowVars, chaosVars, history
<1>1. ASSUME NEW f, f \notin Begins, Call(f)  PROVE \A g \in Begins : ~Call(g)
  BY <1>1 DEF Call
<1>2. InLoop => \A g \in Begins : ~Call(g)
  BY DEF Call
<1>3. DispatchBuild \/ Drive \/ Continue \/ DriveHead \/ DrainHears => Untold
  <2>1. DispatchBuild \/ Drive \/ Continue \/ DriveHead \/ DrainHears =>
            UNCHANGED <<cycle, round, window, chaosOn, queue, unheard>>
    BY DEF DispatchBuild, Drive, Continue, DriveHead, DrainHears
  <2>2. DispatchBuild \/ Drive \/ Continue \/ DriveHead \/ DrainHears =>
            \A g \in Begins : ~Call(g)
    BY <1>1 DEF DispatchBuild, Drive, Continue, DriveHead, DrainHears
  <2>3. QED
    BY <2>1, <2>2 DEF Untold
<1>4. BuildNeedsDecision \/ Retry \/ DrainTick \/ ChaosExpires => Untold
  BY <1>2 DEF BuildNeedsDecision, Retry, DrainTick, ChaosExpires
<1>5. ASSUME NEW t, Suggest(t) \/ Instruct(t) \/ GateRefuses(t) \/ Repooled(t)  PROVE Untold
  BY <1>2, <1>5 DEF Suggest, Instruct, GateRefuses, Repooled
<1>6. QED
  BY <1>3, <1>4, <1>5

LEMMA NextPoked ==
  ASSUME Sound, Timers, Poked, Next
  PROVE  Poked'
<1>0. Typed
  BY DEF Sound
<1>1. ASSUME ~Owed'  PROVE Poked'
  BY <1>1 DEF Poked
<1>u. ASSUME unheard'  PROVE Poked'
  BY <1>1, <1>u DEF Owed
<1>m. ASSUME mode' \notin {"IDLE", "BUILD_IN_PROGRESS"}  PROVE Poked'
  BY <1>1, <1>m DEF Owed, Eligible
<1>b. ASSUME NEW f \in Begins, Stays({<<f>>})  PROVE Poked'
  BY <1>b, PokedBy DEF Stays
<1> USE DEF tasks, roundVars, windowVars, chaosVars, history
<1>2. CASE CallStep
  <2>1. CASE DispatchBuild
    BY <1>0, <2>1, WaitingQuietly, DispatchBuildCalls, PokedStays, PokedMoves
  <2>2. CASE NextJob
    <3>1. CASE Stays({}) /\ UNCHANGED queue
      <4>1. Untold
        BY <2>2, <3>1 DEF NextJob, Untold, Begins, Call
      <4>2. QED
        BY <1>0, <3>1, <4>1, PokedStays
    <3>2. ASSUME mode = "HALTED", NEW F, Stays(F)  PROVE Poked'
      BY <1>m, <3>2 DEF Stays, modeVars
    <3>3. CASE Moves("BUILD_IN_PROGRESS", {})
      BY <3>3, PokedMoves
    <3>4. QED
      BY <1>0, <2>2, <3>1, <3>2, <3>3, NextJobCalls
  <2>3. CASE Drain
    <3>1. CASE Stays({}) /\ UNCHANGED <<queue, unheard>>
      <4>1. Untold
        BY <2>3, <3>1 DEF Drain, Untold, Begins, Call
      <4>2. QED
        BY <1>0, <3>1, <4>1, PokedStays
    <3>2. ASSUME NEW F, Stays(F), MayDrain, unheard' = (unheard \/ mode = "IDLE")  PROVE Poked'
      <4>1. mode' = mode /\ mode \in {"IDLE", "VOTING_ROUND"}
        BY <3>2 DEF Stays, modeVars, MayDrain
      <4>2. QED
        BY <1>u, <1>m, <3>2, <4>1
    <3>3. ASSUME NEW F, Moves("BUILD_IN_PROGRESS", F)  PROVE Poked'
      BY <3>3, PokedMoves
    <3>4. QED
      BY <1>0, <2>3, <3>1, <3>2, <3>3, DrainCalls
  <2>4. CASE Drive
    BY <1>0, <2>4, WaitingQuietly, DriveCalls, PokedStays, PokedLeaves
  <2>5. CASE Continue
    BY <1>0, <2>5, WaitingQuietly, ContinueCalls, PokedStays, PokedMoves
  <2>6. CASE DriveHead
    BY <1>0, <2>6, WaitingQuietly, DriveHeadCalls, PokedStays
  <2>7. CASE DrainHears
    BY <1>0, <2>7, WaitingQuietly, DrainHearsCalls, PokedStays
  <2>8. CASE AttemptRoundStart
    BY <1>0, <2>8, AttemptPoked
  <2>9. CASE LeaveVoting
    <3>1. LeavesTo("VOTING_ROUND", "IDLE", {<<"roundClosed">>}) /\ "roundClosed" \in Begins
      BY <1>0, <2>9, LeaveVotingCalls DEF Begins
    <3>2. QED
      BY <1>b, <3>1, PokedMoves DEF LeavesTo, Stays
  <2>10. CASE RoundClosed \/ WindowClosed
    <3>1. Stays({<<"maybeBegin">>}) /\ "maybeBegin" \in Begins
      BY <1>0, <2>10, RoundClosedCalls, WindowClosedCalls DEF Begins
    <3>2. QED
      BY <1>b, <3>1
  <2>11. CASE WindowHears
    <3>1. CASE Stays({}) /\ UNCHANGED window
      <4>1. Untold
        BY <2>11, <3>1 DEF WindowHears, Untold, Begins, Call
      <4>2. QED
        BY <1>0, <3>1, <4>1, PokedStays
    <3>2. CASE Stays({<<"windowClosed">>})
      BY <1>b, <3>2 DEF Begins
    <3>3. CASE Moves("FREE_REIGN_WINDOW", {})
      BY <3>3, PokedMoves
    <3>4. QED
      BY <1>0, <2>11, <3>1, <3>2, <3>3, WindowHearsCalls
  <2>12. CASE ChaosFlag
    <3>1. unheard' = (unheard \/ chaosOn) /\ chaosOn' = ~chaosOn
      BY <2>12 DEF ChaosFlag
    <3>2. QED
      BY <1>1, <1>u, <3>1 DEF Owed, Eligible
  <2>13. CASE PickChaos
    <3>1. CASE Stays({}) /\ UNCHANGED queue
      <4>1. Untold
        BY <2>13, <3>1 DEF PickChaos, Untold, Begins, Call
      <4>2. QED
        BY <1>0, <3>1, <4>1, PokedStays
    <3>2. ASSUME mode = "CHAOS_MODE", NEW F, Stays(F)  PROVE Poked'
      BY <1>m, <3>2 DEF Stays, modeVars
    <3>3. QED
      BY <1>0, <2>13, <3>1, <3>2, PickChaosCalls
  <2>14. QED
    BY <1>2, <2>1, <2>2, <2>3, <2>4, <2>5, <2>6, <2>7, <2>8, <2>9, <2>10, <2>11, <2>12, <2>13
       DEF CallStep
<1>3. ASSUME NEW F, LeavesTo("BUILD_IN_PROGRESS", "IDLE", F),
             unheard' = (unheard \/ mode # "BUILD_IN_PROGRESS")
      PROVE  Poked'
  BY <1>u, <1>3, PokedMoves DEF LeavesTo
<1>4. CASE BuildEnds
  BY <1>0, <1>3, <1>4, BuildEndsCalls DEF BuildEnds
<1>5. CASE Skip
  BY <1>0, <1>3, <1>5, SkipCalls DEF Skip
<1>6. CASE BuildNeedsDecision
  BY <1>0, <1>6, WaitingQuietly, BuildNeedsDecisionCalls, PokedStays
<1>7. CASE Retry
  BY <1>0, <1>7, WaitingQuietly, RetryCalls, PokedStays, PokedMoves
<1>8. CASE DrainTick
  BY <1>0, <1>8, WaitingQuietly, DrainTickCalls, PokedStays
<1>9. CASE StartRound
  BY <1>9, OpenRoundPoked DEF StartRound
<1>10. CASE RoundTimer
  BY <1>0, <1>10, RoundTimerCalls, PokedBy DEF Stays, Begins
<1>11. CASE OpenWindow
  <2>1. CASE mode = "IDLE"
    BY <1>0, <1>11, <2>1, OpenWindowCalls, PokedMoves
  <2>2. CASE mode # "IDLE"
    BY <1>1, <1>11, <2>2 DEF OpenWindow, Owed, Eligible, IsControlWindowLive
  <2>3. QED
    BY <2>1, <2>2
<1>12. CASE Lapse
  BY <1>u, <1>12 DEF Lapse
<1>13. ASSUME NEW F, LeavesTo("FREE_REIGN_WINDOW", "IDLE", F), <<"windowClosed">> \in F  PROVE Poked'
  BY <1>13, PokedMoves, PokedBy DEF LeavesTo, Begins
<1>14. CASE WindowTimer
  BY <1>0, <1>13, <1>14, WindowTimerCalls
<1>15. CASE Revoke
  BY <1>0, <1>13, <1>15, <1>b, RevokeCalls DEF Begins
<1>16. CASE ToggleChaos
  BY <1>0, <1>16, ToggleChaosCalls, PokedMoves
<1>17. CASE ChaosExpires
  BY <1>0, <1>17, WaitingQuietly, QuietCalls, PokedStays
<1>18. CASE Halt
  BY <1>0, <1>m, <1>18, HaltCalls
<1>19. ASSUME NEW a \in RecoveryActions, RecoverShow(a)  PROVE Poked'
  BY <1>0, <1>19, RecoverCalls, PokedBy DEF Begins
<1>20. ASSUME NEW t \in Task, Suggest(t)  PROVE Poked'
  BY <1>0, <1>20, WaitingQuietly, SuggestCalls, PokedStays
<1>21. ASSUME NEW t \in Task, Instruct(t) \/ GateRefuses(t)  PROVE Poked'
  BY <1>0, <1>21, WaitingQuietly, QuietCalls, PokedStays
<1>25. ASSUME NEW t \in Task, Repooled(t)  PROVE Poked'
  BY <1>0, <1>25, WaitingQuietly, RepooledCalls, PokedStays
<1>22. ASSUME NEW t \in Task, InstructionApproved(t)  PROVE Poked'
  <2>1. /\ InLoop /\ t \in Paid /\ queue' = Append(queue, t)
        /\ UNCHANGED <<modeVars, cycle, round, window, chaosOn, unheard>>
    BY <1>22 DEF InstructionApproved
  <2>2. ~VoteOrigin(t)
    BY <2>1 DEF VoteOrigin
  <2>3. Votes' = Votes
    BY <2>1, <2>2, VotesAppend, VotesCount
  <2>4. IsVoteQueueFull' = IsVoteQueueFull
    BY <2>3 DEF IsVoteQueueFull, Votes, VotesOf
  <2>5. Owed' => Owed
    BY <2>1, <2>4 DEF Owed, Eligible, IsControlWindowLive, modeVars, cycle
  <2>6. Pushes({<<"drive", t, "window">>}) /\ \A f \in Begins : ~Call(f)
    BY <1>0, <1>22, <2>1, InstructionCalls DEF Stays, Call
  <2>7. QED
    BY <1>0, <2>5, <2>6, PokedKept
<1>23. ASSUME NEW t \in Task, Veto(t)  PROVE Poked'
  BY <1>u, <1>23 DEF Veto
<1>26. QED
  BY <1>0, <1>2, <1>4, <1>5, <1>6, <1>7, <1>8, <1>9, <1>10, <1>11, <1>12, <1>14, <1>15, <1>16, <1>17,
     <1>18, <1>19, <1>20, <1>21, <1>22, <1>23, <1>25, CyclePoked
     DEF Next

\* Inside cascades too, when nothing keeps a phase from beginning, a call on the stack will
\* begin it (#maybeBegin of auto-cycle.ts and the listeners that call it).
THEOREM ShowPoked == Spec => []Poked
<1>1. Init => Poked
  <2> SUFFICES ASSUME Init  PROVE On("maybeBegin")
    BY DEF Poked, Begins
  <2>1. CycleInit
    BY DEF Init
  <2>2. calls = <<<<"maybeBegin">>>>
    BY <2>1 DEF CycleInit
  <2>3. <<"maybeBegin">> \in Stack
    BY <2>2, ElementsFew DEF Stack
  <2>4. QED
    BY <2>3 DEF On
<1>2. ASSUME Poked, UNCHANGED vars  PROVE Poked'
  <2>1. Eligible' = Eligible /\ UNCHANGED <<phase, unheard, waiting, mode, calls>>
    BY <1>2, SameEligible
       DEF vars, modeVars, cycle, tasks, roundVars, windowVars, chaosVars, history
  <2>2. QED
    BY <1>2, <2>1 DEF Poked, Owed, On, Stack
<1>3. Sound /\ Timers /\ Poked /\ [Next]_vars => Poked'
  BY <1>2, NextPoked
<1>4. QED
  BY <1>1, <1>3, ShowSound, ShowTimers, PTL DEF Spec

\* The cadence does not stall (AutoCycleScheduler's listeners): when a phase could begin, one
\* is open or chat waits for a build, but for what the scheduler is not told about.
THEOREM ShowCadenceRuns == Spec => []CadenceRuns
<1>1. Sound /\ Poked => CadenceRuns
  BY StackTop DEF Sound, Typed, Poked, Owed, On, CadenceRuns
<1>2. QED
  BY <1>1, ShowSound, ShowPoked, PTL

-------------------------------------------------------------------------------
(***************************************************************************)
(* What a halt leaves behind                                               *)
(***************************************************************************)

\* A running call is answered by its own step.
LEMMA Answers ==
  ASSUME Next
  PROVE  /\ Call("maybeBegin") => CycleStep /\ MaybeBegin(Eligible)
         /\ Call("drain") => Drain
         /\ Call("drainHears") => DrainHears
         /\ Call("windowHears") => WindowHears
         /\ Call("windowClosed") => WindowClosed
         /\ Call("chaosFlag") => ChaosFlag
<1>1. InLoop \/ CycleStep \/ CallStep
  BY DEF Next, BuildEnds, BuildNeedsDecision, Retry, Skip, DrainTick, StartRound, RoundTimer,
         OpenWindow, Lapse, WindowTimer, Revoke, ToggleChaos, ChaosExpires, Halt, RecoverShow,
         Suggest, Instruct, InstructionApproved, GateRefuses, Repooled, Veto
<1>2. \A f, g : Call(f) /\ Call(g) => f = g /\ ~InLoop
  BY DEF Call
<1>3. CycleStep => InLoop \/ Call("beginSuggestPhase") \/ Call("maybeEarlyClose")
                     \/ Call("onPhaseEnd") \/ (Call("maybeBegin") /\ MaybeBegin(Eligible))
  <2>1. MaybeBegin(Eligible) => Call("maybeBegin")
    BY DEF MaybeBegin
  <2>2. BeginSuggestPhase => Call("beginSuggestPhase")
    BY DEF BeginSuggestPhase
  <2>3. MaybeEarlyClose(PoolFull) => Call("maybeEarlyClose")
    BY DEF MaybeEarlyClose
  <2>4. OnPhaseEnd(Eligible) => Call("onPhaseEnd")
    BY DEF OnPhaseEnd
  <2>5. PhaseTimer \/ Toggle => InLoop
    BY DEF PhaseTimer, Toggle
  <2>6. QED
    BY <2>1, <2>2, <2>3, <2>4, <2>5 DEF CycleStep
<1>4. CallStep => \/ Drain /\ Call("drain")
                  \/ DrainHears /\ Call("drainHears")
                  \/ WindowHears /\ Call("windowHears")
                  \/ WindowClosed /\ Call("windowClosed")
                  \/ ChaosFlag /\ Call("chaosFlag")
                  \/ Call("dispatchBuild") \/ Call("nextJob") \/ Call("drive") \/ Call("continue")
                  \/ Call("driveHead") \/ Call("attemptRoundStart") \/ Call("leaveVoting")
                  \/ Call("roundClosed") \/ Call("pickChaos")
  <2>1. DispatchBuild => Call("dispatchBuild")
    BY DEF DispatchBuild
  <2>2. NextJob => Call("nextJob")
    BY DEF NextJob
  <2>3. Drain => Call("drain")
    BY DEF Drain
  <2>4. Drive => Call("drive")
    BY DEF Drive
  <2>5. Continue => Call("continue")
    BY DEF Continue
  <2>6. DriveHead => Call("driveHead")
    BY DEF DriveHead
  <2>7. DrainHears => Call("drainHears")
    BY DEF DrainHears
  <2>8. AttemptRoundStart => Call("attemptRoundStart")
    BY DEF AttemptRoundStart
  <2>9. LeaveVoting => Call("leaveVoting")
    BY DEF LeaveVoting
  <2>10. RoundClosed => Call("roundClosed")
    BY DEF RoundClosed
  <2>11. WindowClosed => Call("windowClosed")
    BY DEF WindowClosed
  <2>12. WindowHears => Call("windowHears")
    BY DEF WindowHears
  <2>13. ChaosFlag => Call("chaosFlag")
    BY DEF ChaosFlag
  <2>14. PickChaos => Call("pickChaos")
    BY DEF PickChaos
  <2>15. QED
    BY <2>1, <2>2, <2>3, <2>4, <2>5, <2>6, <2>7, <2>8, <2>9, <2>10, <2>11, <2>12, <2>13, <2>14
       DEF CallStep
<1>5. QED
  BY <1>1, <1>2, <1>3, <1>4

\* The calls that a step other than the toggle of chaos and the round's timer may make.
Light(F) ==
    \A c \in F :
        /\ c[1] \notin {"chaosFlag", "leaveVoting"}
        /\ c[1] = "drain" => mode # "HALTED"

LEMMA CyclePushes ==
  ASSUME Typed, CycleStep
  PROVE  \E F : Pushes(F) /\ \A c \in F : c[1] \in Ends \union {"maybeBegin", "maybeEarlyClose"}
<1>1. ASSUME NEW f \in Ends \union {"maybeBegin", "maybeEarlyClose"}, Pushes({<<f>>})
      PROVE  \E F : Pushes(F) /\ \A c \in F : c[1] \in Ends \union {"maybeBegin", "maybeEarlyClose"}
  BY <1>1
<1>2. ASSUME Pushes({})
      PROVE  \E F : Pushes(F) /\ \A c \in F : c[1] \in Ends \union {"maybeBegin", "maybeEarlyClose"}
  BY <1>2
<1>3. MaybeBegin(Eligible) \/ OnPhaseEnd(Eligible) =>
          Pushes({}) \/ Pushes({<<"attemptRoundStart">>}) \/ Pushes({<<"beginSuggestPhase">>})
  BY MaybeBeginCalls, OnPhaseEndCalls DEF Calls
<1>4. MaybeEarlyClose(PoolFull) \/ PhaseTimer => Pushes({}) \/ Pushes({<<"onPhaseEnd">>})
  BY MaybeEarlyCloseCalls, PhaseTimerCalls DEF Calls
<1>5. BeginSuggestPhase => Pushes({<<"maybeEarlyClose">>})
  BY BeginSuggestPhaseCalls
<1>6. Toggle => Pushes({}) \/ Pushes({<<"maybeBegin">>})
  BY ToggleCalls
<1>7. QED
  BY <1>1, <1>2, <1>3, <1>4, <1>5, <1>6 DEF CycleStep, Ends

LEMMA AttemptPushes ==
  ASSUME Typed, AttemptRoundStart
  PROVE  \E F : /\ Pushes(F)
                /\ \A c \in F : c[1] \in {"drain", "maybeBegin", "beginSuggestPhase", "windowHears",
                                          "drainHears"}
<1> DEFINE N == {"drain", "maybeBegin", "beginSuggestPhase", "windowHears", "drainHears"}
           Goal == \E F : Pushes(F) /\ \A c \in F : c[1] \in N
<1>1. ASSUME Pushes({<<"drain">>, <<"maybeBegin">>})  PROVE Goal
  <2>1. \A c \in {<<"drain">>, <<"maybeBegin">>} : c[1] \in N
    OBVIOUS
  <2>2. QED
    BY <1>1, <2>1
<1>2. ASSUME NEW f \in N, Pushes({<<f>>})  PROVE Goal
  BY <1>2
<1>3. ASSUME Pushes({})  PROVE Goal
  BY <1>3
<1>4. ASSUME LeavesTo("IDLE", "VOTING_ROUND", {})  PROVE Goal
  <2>1. \A c \in Hears("VOTING_ROUND") \union {} : c[1] \in N
    BY DEF Hears
  <2>2. QED
    BY <1>3, <1>4, <2>1 DEF LeavesTo, Moves
<1> HIDE DEF Goal
<1>5. Goal
  BY <1>1, <1>2, <1>3, <1>4, AttemptCalls DEF Stays
<1>6. QED
  BY <1>5 DEF Goal

LEMMA NextPushes ==
  ASSUME Typed, Timers, Next
  PROVE  ToggleChaos \/ RoundTimer \/ \E F : Pushes(F) /\ Light(F)
<1>1. CASE Rests
  <2>1. PICK F : Pushes(F) /\ Ordinary(F)
    BY <1>1 DEF Rests
  <2>2. Light(F)
    BY <2>1 DEF Ordinary, Light
  <2>3. QED
    BY <2>1, <2>2
<1>2. CASE CycleStep
  <2>1. PICK F : Pushes(F) /\ \A c \in F : c[1] \in Ends \union {"maybeBegin", "maybeEarlyClose"}
    BY <1>2, CyclePushes
  <2>2. Light(F)
    BY <2>1 DEF Light, Ends
  <2>3. QED
    BY <2>1, <2>2
<1>3. CASE AttemptRoundStart
  <2>1. PICK F : /\ Pushes(F)
                 /\ \A c \in F : c[1] \in {"drain", "maybeBegin", "beginSuggestPhase", "windowHears",
                                           "drainHears"}
    BY <1>3, AttemptPushes
  <2>2. mode # "HALTED"
    BY <1>3 DEF AttemptRoundStart, Timers, Eligible
  <2>3. Light(F)
    BY <2>1, <2>2 DEF Light
  <2>4. QED
    BY <2>1, <2>3
<1>4. CASE Halt
  <2>1. Pushes({}) /\ Light({})
    BY <1>4, HaltCalls DEF Light
  <2>2. QED
    BY <2>1
<1>5. QED
  BY <1>1, <1>2, <1>3, <1>4, RestsSteps

\* The drain remembers a halt until it hears of the recovery, which is on the stack by then.
\* Under a halt no drain runs, and a loaded round is frozen, so that none closes.
Halts ==
    /\ drainHeard = "HALTED" /\ mode # "HALTED" => On("drainHears")
    /\ On("leaveVoting") => drainHeard # "HALTED"
    /\ mode = "HALTED" => undrained /\ ~On("drain")
    /\ mode = "HALTED" /\ round # {} => roundFrozen

LEMMA HaltFacts ==
  ASSUME Typed, Next, ~Halt
  PROVE  /\ drainHeard' = drainHeard \/ DrainHears
         /\ DrainHears => drainHeard' \in ActiveModes
         /\ undrained => undrained' \/ Drain
         /\ UNCHANGED <<round, roundFrozen>> \/ round' = {} \/ mode # "HALTED" \/ mode' # "HALTED"
<1> USE DEF drainVars, history, roundVars
<1>1. /\ drainHeard' = drainHeard \/ DrainHears
      /\ DrainHears => drainHeard' \in ActiveModes
  <2>1. CASE DrainHears
    <3>1. Head(calls)[2] \in ActiveModes
      BY <2>1, RunningFrame DEF DrainHears, Call
    <3>2. QED
      BY <2>1, <3>1 DEF DrainHears
  <2>2. CASE CallStep /\ ~DrainHears
    BY <2>2 DEF CallStep, DispatchBuild, NextJob, Drain, Drive, Continue, DriveHead,
       AttemptRoundStart, LeaveVoting, RoundClosed, WindowClosed, WindowHears, ChaosFlag, PickChaos
  <2>3. CASE ~CallStep /\ ~DrainHears
    BY <2>3 DEF Next, CycleStep, BuildEnds, BuildNeedsDecision, Retry, Skip, DrainTick, StartRound,
           RoundTimer, OpenWindow, Lapse, WindowTimer, Revoke, ToggleChaos, ChaosExpires,
           RecoverShow, Suggest, Instruct, InstructionApproved, GateRefuses, Repooled, Veto
  <2>4. QED
    BY <2>1, <2>2, <2>3
<1>2. undrained => undrained' \/ Drain
  <2>1. CASE CallStep
    BY <2>1 DEF CallStep, DispatchBuild, NextJob, Drive, Continue, DriveHead, DrainHears,
       AttemptRoundStart, LeaveVoting, RoundClosed, WindowClosed, WindowHears, ChaosFlag, PickChaos
  <2>2. CASE ~CallStep
    BY <2>2 DEF Next, CycleStep, BuildEnds, BuildNeedsDecision, Retry, Skip, DrainTick, StartRound,
           RoundTimer, OpenWindow, Lapse, WindowTimer, Revoke, ToggleChaos, ChaosExpires,
           RecoverShow, Suggest, Instruct, InstructionApproved, GateRefuses, Repooled, Veto
  <2>3. QED
    BY <2>1, <2>2
<1>3. UNCHANGED <<round, roundFrozen>> \/ round' = {} \/ mode # "HALTED" \/ mode' # "HALTED"
  <2>1. CASE CallStep
    BY <2>1 DEF CallStep, DispatchBuild, NextJob, Drain, Drive, Continue, DriveHead, DrainHears,
       AttemptRoundStart, AttemptChaosPick, AttemptWaits, AttemptVote, AttemptSolo, AttemptRestart,
       OpenRound, LeaveVoting, RoundClosed, WindowClosed, WindowHears, ChaosFlag, PickChaos
  <2>2. ASSUME NEW a \in RecoveryActions, RecoverShow(a)  PROVE mode' # "HALTED"
    BY <2>2, RecoverCalls DEF ActiveModes
  <2>3. CASE ~CallStep /\ ~\E a \in RecoveryActions : RecoverShow(a)
    BY <2>3 DEF Next, CycleStep, BuildEnds, BuildNeedsDecision, Retry, Skip, DrainTick, StartRound,
           OpenRound, RoundTimer, OpenWindow, Lapse, WindowTimer, Revoke, ToggleChaos, ChaosExpires,
           Suggest, Instruct, InstructionApproved, GateRefuses, Repooled, Veto
  <2>4. QED
    BY <2>1, <2>2, <2>3
<1>4. QED
  BY <1>1, <1>2, <1>3

\* In the event loop the drain has heard of the mode.
LEMMA HeardInLoop ==
  ASSUME Typed, Halts, InLoop, mode # "HALTED"
  PROVE  drainHeard # "HALTED"
  BY StackTop DEF Halts, On, Typed

\* The mode leaves HALTED only by a recovery, and enters it only by a halt.
LEMMA HaltBounds ==
  ASSUME Typed, Timers, Next, ~Halt
  PROVE  /\ mode' = "HALTED" => mode = "HALTED"
         /\ mode = "HALTED" /\ mode' # "HALTED" => On("drainHears")'
<1>1. CASE CycleStep
  BY <1>1 DEF CycleStep, modeVars
<1>2. CASE AttemptRoundStart
  <2>1. mode \in {"IDLE", "BUILD_IN_PROGRESS"}
    BY <1>2 DEF AttemptRoundStart, Timers, Eligible
  <2>2. mode' = mode \/ mode' = "VOTING_ROUND"
    BY <1>2, AttemptCalls DEF Stays, LeavesTo, Moves, modeVars
  <2>3. QED
    BY <2>1, <2>2
<1>3. CASE ToggleChaos
  BY <1>3, ToggleChaosPushes DEF ActiveModes
<1>4. CASE RoundTimer
  BY <1>4, RoundTimerCalls DEF Stays, modeVars
<1>5. CASE Rests
  BY <1>5 DEF Rests
<1>6. QED
  BY <1>1, <1>2, <1>3, <1>4, <1>5, RestsSteps

\* What a step that does not push f finds of it on the stack was there.
LEMMA OnBefore ==
  ASSUME Typed, NEW F, Pushes(F), NEW f, \A c \in F : c[1] # f, On(f)'
  PROVE  On(f)
<1>1. PICK c \in Stack' : c[1] = f
  BY DEF On
<1>2. c \in Below /\ Below \subseteq Stack
  BY <1>1, StackTop DEF Pushes, Typed
<1>3. QED
  BY <1>1, <1>2 DEF On

LEMMA NextHalts ==
  ASSUME Typed, Timers, Halts, Next
  PROVE  Halts'
<1>1. CASE Halt
  <2>1. mode' = "HALTED" /\ undrained' /\ UNCHANGED round /\ roundFrozen' = (round # {})
    BY <1>1, HaltCalls DEF Halt
  <2>2. Stack' = {}
    BY <1>1, HaltCalls, StackTop DEF Pushes, Halt, Typed
  <2>3. QED
    BY <2>1, <2>2 DEF Halts, On
<1>2. CASE ~Halt
  <2>1. /\ drainHeard' = drainHeard \/ DrainHears
        /\ DrainHears => drainHeard' \in ActiveModes
        /\ undrained => undrained' \/ Drain
        /\ UNCHANGED <<round, roundFrozen>> \/ round' = {} \/ mode # "HALTED" \/ mode' # "HALTED"
    BY <1>2, HaltFacts
  <2>2. /\ mode' = "HALTED" => mode = "HALTED"
        /\ mode = "HALTED" /\ mode' # "HALTED" => On("drainHears")'
    BY <1>2, HaltBounds
  <2>3. RoundTimer => mode # "HALTED" /\ drainHeard # "HALTED" /\ UNCHANGED <<mode, drainHeard>>
    <3>1. RoundTimer => InLoop /\ round # {} /\ ~roundFrozen /\ UNCHANGED <<mode, drainHeard>>
      BY DEF RoundTimer, modeVars, drainVars
    <3>2. QED
      BY <3>1, HeardInLoop DEF Halts
  <2>4. (drainHeard = "HALTED" /\ mode # "HALTED" => On("drainHears"))'
    <3> SUFFICES ASSUME drainHeard' = "HALTED", mode' # "HALTED"  PROVE On("drainHears")'
      OBVIOUS
    <3>1. drainHeard = "HALTED" /\ ~DrainHears
      BY <2>1 DEF ActiveModes
    <3>2. CASE mode = "HALTED"
      BY <2>2, <3>2
    <3>3. CASE mode # "HALTED"
      <4>1. On("drainHears") /\ ~Call("drainHears")
        BY <3>1, <3>3, Answers DEF Halts
      <4>2. \E F : Pushes(F)
        BY NextControl
      <4>3. QED
        BY <4>1, <4>2, OnStays
    <3>4. QED
      BY <3>2, <3>3
  <2>5. (On("leaveVoting") => drainHeard # "HALTED")'
    <3>1. CASE RoundTimer
      BY <2>3, <3>1
    <3>2. CASE ToggleChaos
      <4> DEFINE F == Hears(IF chaosOn THEN "IDLE" ELSE "CHAOS_MODE") \union {<<"chaosFlag">>}
      <4>1. Pushes(F)
        BY <3>2, ToggleChaosPushes
      <4>2. \A c \in F : c[1] # "leaveVoting"
        BY DEF Hears
      <4>3. On("leaveVoting")' => On("leaveVoting")
        BY <4>1, <4>2, OnBefore
      <4>4. drainHeard' = drainHeard
        BY <3>2 DEF ToggleChaos, drainVars
      <4>5. QED
        BY <4>3, <4>4 DEF Halts
    <3>3. ASSUME NEW F, Pushes(F), Light(F)  PROVE On("leaveVoting")' => drainHeard' # "HALTED"
      <4>1. On("leaveVoting")' => On("leaveVoting")
        BY <3>3, OnBefore DEF Light
      <4>2. QED
        BY <2>1, <4>1 DEF Halts, ActiveModes
    <3>4. QED
      BY <3>1, <3>2, <3>3, NextPushes
  <2>6. (mode = "HALTED" => undrained /\ ~On("drain"))'
    <3> SUFFICES ASSUME mode' = "HALTED"  PROVE undrained' /\ ~On("drain")'
      OBVIOUS
    <3>1. mode = "HALTED" /\ undrained /\ ~On("drain") /\ ~RoundTimer
      BY <2>2, <2>3 DEF Halts
    <3>2. ~Drain
      <4>1. ~Call("drain")
        BY <3>1, RunningFrame DEF Call, On
      <4>2. QED
        BY <4>1 DEF Drain
    <3>3. ~ToggleChaos
      BY <3>1, ToggleChaosPushes DEF ActiveModes
    <3>4. PICK F : Pushes(F) /\ Light(F)
      BY <3>1, <3>3, NextPushes
    <3>5. \A c \in F : c[1] # "drain"
      BY <3>1, <3>4 DEF Light
    <3>6. ~On("drain")'
      BY <3>1, <3>4, <3>5, OnBefore
    <3>7. QED
      BY <2>1, <3>1, <3>2, <3>6
  <2>7. (mode = "HALTED" /\ round # {} => roundFrozen)'
    BY <2>1, <2>2 DEF Halts
  <2>8. QED
    BY <2>4, <2>5, <2>6, <2>7 DEF Halts
<1>3. QED
  BY <1>1, <1>2

\* Whatever was halted is remembered until the drain has heard of the recovery.
THEOREM ShowHalts == Spec => []Halts
<1>1. Init => Halts
  <2> SUFFICES ASSUME Init  PROVE Halts
    OBVIOUS
  <2>1. drainHeard = "IDLE" /\ mode = "IDLE" /\ round = {} /\ calls = <<<<"maybeBegin">>>>
    BY DEF Init, ModeInit, CycleInit
  <2>2. Stack = {<<"maybeBegin">>}
    BY <2>1, ElementsFew DEF Stack
  <2>3. ~On("leaveVoting")
    BY <2>2 DEF On
  <2>4. QED
    BY <2>1, <2>3 DEF Halts
<1>2. Typed /\ Timers /\ Halts /\ [Next]_vars => Halts'
  <2> SUFFICES ASSUME Typed, Timers, Halts, [Next]_vars  PROVE Halts'
    OBVIOUS
  <2>1. CASE Next
    BY <2>1, NextHalts
  <2>2. CASE UNCHANGED vars
    BY <2>2 DEF vars, modeVars, roundVars, drainVars, history, Halts, On, Stack
  <2>3. QED
    BY <2>1, <2>2
<1>3. QED
  BY <1>1, <1>2, ShowSound, ShowTimers, PTL DEF Spec, Sound


-------------------------------------------------------------------------------
(***************************************************************************)
(* The toggle of chaos mode                                                *)
(***************************************************************************)

\* The flag of chaos mode is the last call of its toggle, and until it changes nothing runs
\* but the listeners of the mode, which find chaos mode on or being entered.
ChaosTail ==
    /\ \A i \in 1..Len(calls) : calls[i][1] = "chaosFlag" => i = Len(calls)
    /\ On("chaosFlag") =>
          /\ chaosOn \/ mode = "CHAOS_MODE"
          /\ \A c \in Stack : /\ c[1] \in {"chaosFlag", "windowHears", "maybeBegin", "drainHears"}
                              /\ c[1] = "windowHears" => c[2] # "HALTED"

LEMMA FlagLast ==
  ASSUME Typed, ChaosTail, NEW F, Pushes(F), \A c \in F : c[1] # "chaosFlag"
  PROVE  \A i \in 1..Len(calls') : calls'[i][1] = "chaosFlag" => i = Len(calls')
<1> TAKE i \in 1..Len(calls')
<1> HAVE calls'[i][1] = "chaosFlag"
<1>1. PICK j \in 2..Len(calls) : calls'[i] = calls[j] /\ Len(calls) - j = Len(calls') - i
  BY DEF Pushes
<1>2. Len(calls) \in Nat /\ Len(calls') \in Nat
  BY LenProperties DEF Typed, Pushes
<1>3. j = Len(calls)
  BY <1>1, <1>2 DEF ChaosTail
<1>4. QED
  BY <1>1, <1>2, <1>3

\* The running flag is the only call left.
LEMMA FlagAlone ==
  ASSUME Typed, ChaosTail, Call("chaosFlag")
  PROVE  Below = {}
<1>1. Len(calls) \in Nat /\ Len(calls) # 0 /\ calls[1][1] = "chaosFlag"
  BY LenProperties, EmptySeq DEF Typed, Call, InLoop
<1>2. 1 \in 1..Len(calls)
  BY <1>1
<1>3. Len(calls) = 1
  BY <1>1, <1>2 DEF ChaosTail
<1>4. QED
  BY <1>3 DEF Below, Lower

LEMMA ToggleTail ==
  ASSUME Typed, ToggleChaos
  PROVE  ChaosTail'
<1> DEFINE m == IF chaosOn THEN "IDLE" ELSE "CHAOS_MODE"
<1>1. m \in ActiveModes /\ InLoop /\ chaosOn' = chaosOn
  BY DEF ActiveModes, ToggleChaos, chaosVars
<1>2. Moves(m, {<<"chaosFlag">>})
  BY ToggleChaosCalls
<1>3. mode \in ActiveModes /\ mode' = m /\ Stack' = Hears(m) \union {<<"chaosFlag">>}
  BY <1>1, <1>2, StackTop DEF Moves, Pushes, Typed
<1>4. calls' = Listeners(m) \o <<<<"chaosFlag">>>>
  BY <1>1 DEF ToggleChaos, MoveTo, Then, Listeners
<1> HIDE DEF m
<1>5. \A i \in 1..Len(calls') : calls'[i][1] = "chaosFlag" => i = Len(calls')
  BY <1>4 DEF Listeners
<1>6. chaosOn \/ mode' = "CHAOS_MODE"
  BY <1>3 DEF m
<1>7. \A c \in Stack' : /\ c[1] \in {"chaosFlag", "windowHears", "maybeBegin", "drainHears"}
                        /\ c[1] = "windowHears" => c[2] # "HALTED"
  BY <1>3 DEF Hears, ActiveModes
<1>8. QED
  BY <1>1, <1>5, <1>6, <1>7 DEF ChaosTail

LEMMA NextChaosTail ==
  ASSUME Typed, Timers, ChaosTail, Next
  PROVE  ChaosTail'
<1> DEFINE Few == {"windowHears", "maybeBegin", "drainHears"}
           Kept(c) == c[1] \in Few /\ (c[1] = "windowHears" => c[2] # "HALTED")
<1>1. ASSUME ~On("chaosFlag"), NEW F, Pushes(F), \A c \in F : c[1] # "chaosFlag"
      PROVE  ChaosTail'
  <2>1. ~On("chaosFlag")'
    BY <1>1, OnBefore
  <2>2. QED
    BY <1>1, <2>1, FlagLast DEF ChaosTail
<1>2. ASSUME On("chaosFlag"), NEW F, Pushes(F), \A c \in F : Kept(c),
             chaosOn' \/ mode' = "CHAOS_MODE"
      PROVE  ChaosTail'
  <2>1. \A c \in F : c[1] # "chaosFlag"
    BY <1>2
  <2>2. \A c \in Stack' : c \in F \/ c \in Stack
    BY <1>2, StackTop DEF Pushes, Typed
  <2>3. \A c \in Stack' : /\ c[1] \in {"chaosFlag", "windowHears", "maybeBegin", "drainHears"}
                          /\ c[1] = "windowHears" => c[2] # "HALTED"
    BY <1>2, <2>2 DEF ChaosTail
  <2>4. QED
    BY <1>2, <2>1, <2>3, FlagLast DEF ChaosTail
<1>3. CASE ToggleChaos
  BY <1>3, ToggleTail
<1>4. CASE RoundTimer /\ ~On("chaosFlag")
  <2>1. \A c \in {<<"drain">>, <<"leaveVoting">>} : c[1] # "chaosFlag"
    OBVIOUS
  <2>2. QED
    BY <1>1, <1>4, <2>1, RoundTimerCalls DEF Stays
<1>5. CASE ~On("chaosFlag") /\ \E F : Pushes(F) /\ Light(F)
  BY <1>1, <1>5 DEF Light
<1>6. CASE On("chaosFlag")
  <2>1. ~InLoop /\ Head(calls) \in Stack
    BY <1>6, StackTop DEF On, Typed
  <2>2. chaosOn \/ mode = "CHAOS_MODE"
    BY <1>6 DEF ChaosTail
  <2>3. CASE Call("chaosFlag")
    <3>1. ChaosFlag
      BY <2>3, Answers
    <3>2. PICK F : Pushes(F) /\ F = IF chaosOn THEN {} ELSE {<<"pickChaos">>}
      BY <3>1, ChaosFlagCalls DEF Stays
    <3>3. \A c \in F : c[1] # "chaosFlag"
      BY <3>2
    <3>4. Stack' = F
      BY <2>3, <3>2, FlagAlone DEF Pushes
    <3>5. ~On("chaosFlag")'
      BY <3>3, <3>4 DEF On
    <3>6. QED
      BY <3>2, <3>3, <3>5, FlagLast DEF ChaosTail
  <2>4. CASE Call("maybeBegin")
    <3>1. CycleStep /\ MaybeBegin(Eligible)
      BY <2>4, Answers
    <3>2. UNCHANGED <<mode, chaosOn>>
      BY <3>1 DEF CycleStep, modeVars, chaosVars
    <3>3. ~Eligible /\ ~ResumesVote(Eligible)
      BY <2>2 DEF Eligible, ResumesVote
    <3>4. Pushes({})
      BY <3>1, <3>3, MaybeBeginCalls
    <3>5. QED
      BY <1>2, <1>6, <2>2, <3>2, <3>4
  <2>5. CASE Call("drainHears")
    <3>1. DrainHears
      BY <2>5, Answers
    <3>2. Pushes({}) /\ UNCHANGED <<mode, chaosOn>>
      BY <3>1, DrainHearsCalls DEF Stays, DrainHears, modeVars, chaosVars
    <3>3. QED
      BY <1>2, <1>6, <2>2, <3>2
  <2>6. CASE Call("windowHears")
    <3>1. WindowHears /\ Head(calls)[2] # "HALTED"
      BY <1>6, <2>1, <2>6, Answers DEF ChaosTail, Call
    <3>2. chaosOn' = chaosOn
      BY <3>1 DEF WindowHears, chaosVars
    <3>3. CASE Stays({})
      BY <1>2, <1>6, <2>2, <3>2, <3>3 DEF Stays, modeVars
    <3>4. CASE Moves("FREE_REIGN_WINDOW", {})
      <4>0. Transitions["CHAOS_MODE"] = {"BUILD_IN_PROGRESS", "IDLE"}
        BY DEF Transitions, Modes, ActiveModes
      <4>1. mode # "CHAOS_MODE" /\ mode \in ActiveModes
        BY <3>4, <4>0 DEF Moves
      <4>2. Pushes(Hears("FREE_REIGN_WINDOW"))
        BY <3>4 DEF Moves
      <4>3. \A c \in Hears("FREE_REIGN_WINDOW") : Kept(c)
        BY <4>1 DEF Hears, ActiveModes
      <4>4. QED
        BY <1>2, <1>6, <2>2, <3>2, <4>1, <4>2, <4>3
    <3>5. QED
      BY <3>1, <3>3, <3>4, WindowHearsCalls
  <2>7. QED
    BY <1>6, <2>1, <2>3, <2>4, <2>5, <2>6 DEF ChaosTail, Call
<1>7. QED
  BY <1>3, <1>4, <1>5, <1>6, NextPushes

\* While chaos mode is being switched, nothing but listeners runs, and chaos mode is on or
\* being entered: no drain comes between the move of the mode and the flag.
THEOREM ShowChaosTail == Spec => []ChaosTail
<1>1. Init => ChaosTail
  <2> SUFFICES ASSUME Init  PROVE ChaosTail
    OBVIOUS
  <2>1. calls = <<<<"maybeBegin">>>>
    BY DEF Init, CycleInit
  <2>2. Stack = {<<"maybeBegin">>} /\ Len(calls) = 1
    BY <2>1, ElementsFew DEF Stack
  <2>3. ~On("chaosFlag")
    BY <2>2 DEF On
  <2>4. QED
    BY <2>2, <2>3 DEF ChaosTail
<1>2. Typed /\ Timers /\ ChaosTail /\ [Next]_vars => ChaosTail'
  <2> SUFFICES ASSUME Typed, Timers, ChaosTail, [Next]_vars  PROVE ChaosTail'
    OBVIOUS
  <2>1. CASE Next
    BY <2>1, NextChaosTail
  <2>2. CASE UNCHANGED vars
    BY <2>2 DEF vars, modeVars, chaosVars, ChaosTail, On, Stack
  <2>3. QED
    BY <2>1, <2>2
<1>3. QED
  BY <1>1, <1>2, ShowSound, ShowTimers, PTL DEF Spec, Sound

-------------------------------------------------------------------------------
(***************************************************************************)
(* A queued winner is drained                                              *)
(***************************************************************************)

Startable == \E t \in Elements(queue) : Drainable(t)

\* In the midst of a cascade chaos mode may be on already, or on still.
Stranded ==
    /\ mode = "IDLE" /\ window # "live" /\ ~undrained /\ ~drainDue /\ Startable
    /\ ~chaosOn \/ On("chaosFlag")

\* The calls under way that drain, that have it drained, or after which nobody owes a drain.
Covered ==
    \/ On("drain") \/ On("windowClosed")
    \/ drainHeard # "HALTED" /\ <<"drainHears", "IDLE">> \in Stack

Winners == Stranded => Covered

\* A queue that holds a drainable task has a head.
LEMMA HeadExists ==
  ASSUME Sound, Startable
  PROVE  \E t \in Task : IsHead(t)
<1>1. queue \in Seq(Task) /\ Len(queue) \in Nat /\ DOMAIN queue = 1..Len(queue)
  BY LenProperties DEF Sound, Typed, TypeOK
<1> DEFINE I == {i \in 1..Len(queue) : Drainable(queue[i])}
<1>2. I # {} /\ I \in SUBSET Nat
  BY <1>1 DEF Startable, Elements
<1>3. PICK k \in I : \A i \in I : k <= i
  BY <1>2, LeastNat
<1>4. k \in 1..Len(queue) /\ Drainable(queue[k])
  BY <1>3
<1>5. \A j \in 1..(k - 1) : ~Drainable(queue[j])
  BY <1>1, <1>3, <1>4
<1>6. queue[k] \in Task
  BY <1>1, <1>4, ElementOfSeq
<1>7. QED
  BY <1>1, <1>4, <1>5, <1>6 DEF IsHead

\* No step but an entry of a winner makes a task startable.
LEMMA StartableKept ==
  ASSUME Sound, UNCHANGED started,
         \/ queue' = queue
         \/ \E t : queue' = Without(t)
         \/ \E t \in Paid : queue' = Append(queue, t)
  PROVE  Startable' => Startable
<1>1. ASSUME Elements(queue') \subseteq Elements(queue)  PROVE Startable' => Startable
  BY <1>1 DEF Startable, Drainable
<1>2. CASE queue' = queue
  BY <1>1, <1>2
<1>3. ASSUME NEW t, queue' = Without(t)  PROVE Startable' => Startable
  BY <1>1, <1>3, WithoutKept
<1>4. ASSUME NEW t \in Paid, queue' = Append(queue, t)  PROVE Startable' => Startable
  <2>1. queue \in Seq(Task) /\ t \in Task
    BY DEF Sound, Typed, TypeOK, Task
  <2>2. Elements(queue') = Elements(queue) \union {t}
    BY <1>4, <2>1, QueueAppend
  <2>3. ~Drainable(t)'
    BY <1>4 DEF Drainable, VoteOrigin
  <2>4. QED
    BY <2>2, <2>3 DEF Startable, Drainable
<1>5. QED
  BY <1>2, <1>3, <1>4

\* The running call is none of those that cover a winner.
Plain == ~Call("drain") /\ ~Call("windowClosed") /\ ~Call("drainHears")

LEMMA CoveredStays ==
  ASSUME Typed, NEW F, Pushes(F), Plain, drainHeard' = drainHeard, Covered
  PROVE  Covered'
<1>1. CASE On("drain") \/ On("windowClosed")
  BY <1>1, OnStays DEF Plain, Covered
<1>2. CASE drainHeard # "HALTED" /\ <<"drainHears", "IDLE">> \in Stack
  <2>1. ~InLoop /\ Stack = {Head(calls)} \union Below
    BY <1>2, StackTop DEF Typed
  <2>2. <<"drainHears", "IDLE">> \in Below
    BY <1>2, <2>1 DEF Plain, Call
  <2>3. QED
    BY <1>2, <2>2 DEF Pushes, Covered
<1>3. QED
  BY <1>1, <1>2 DEF Covered

\* What a step does that strands no winner.
Untouched ==
    /\ UNCHANGED <<window, drainHeard, drainDue, chaosOn>>
    /\ undrained => undrained'
    /\ Startable' => Startable

\* A step that leaves the mode.
LEMMA WinnersStay ==
  ASSUME Typed, Winners, NEW F, Stays(F), \A c \in F : c[1] # "chaosFlag", Plain, Untouched
  PROVE  Winners'
<1> SUFFICES ASSUME Stranded'  PROVE Covered'
  BY DEF Winners
<1>1. Pushes(F) /\ mode' = mode
  BY DEF Stays, modeVars
<1>2. On("chaosFlag")' => On("chaosFlag")
  BY <1>1, OnBefore
<1>3. Stranded
  BY <1>1, <1>2 DEF Stranded, Untouched
<1>4. QED
  BY <1>1, <1>3, CoveredStays DEF Winners, Untouched

\* A step to IDLE, which the drain hears.
LEMMA WinnersMove ==
  ASSUME Typed, NEW m \in ActiveModes, NEW F, Moves(m, F), drainHeard' = drainHeard,
         m = "IDLE" => drainHeard # "HALTED"
  PROVE  Winners'
<1>1. mode' = m /\ <<"drainHears", m>> \in Stack'
  BY DEF Moves, Pushes, Hears
<1>2. QED
  BY <1>1 DEF Winners, Stranded, Covered

LEMMA WinnersLeave ==
  ASSUME Typed, Winners, NEW from, NEW m \in ActiveModes, NEW F, LeavesTo(from, m, F),
         \A c \in F : c[1] # "chaosFlag", Plain, Untouched,
         m = "IDLE" => drainHeard # "HALTED" \/ mode # from
  PROVE  Winners'
<1>1. CASE mode = from
  BY <1>1, WinnersMove DEF LeavesTo, Untouched
<1>2. CASE mode # from
  <2>1. Stays(F)
    BY <1>2 DEF LeavesTo, Stays
  <2>2. QED
    BY <2>1, WinnersStay
<1>3. QED
  BY <1>1, <1>2

LEMMA DrainWinners ==
  ASSUME Sound, ChaosTail, Winners, Drain
  PROVE  Winners'
<1> SUFFICES ASSUME Stranded'  PROVE Covered'
  BY DEF Winners
<1>1. Typed /\ mode' = "IDLE" /\ UNCHANGED <<window, chaosOn>>
  BY DEF Sound, Stranded, Drain, windowVars
<1>2. CASE /\ ~MayDrain \/ \A t \in Task : ~IsHead(t)
           /\ Stays({}) /\ UNCHANGED <<queue, started>>
  <2>1. Head(calls) \in Stack /\ Head(calls)[1] = "drain"
    BY <1>1, StackTop DEF Drain, Call, Typed
  <2>2. ~On("chaosFlag")
    BY <2>1 DEF ChaosTail
  <2>3. ~On("chaosFlag")'
    BY <1>1, <1>2, <2>2, OnBefore DEF Stays
  <2>4. mode = "IDLE" /\ Startable' = Startable
    BY <1>1, <1>2 DEF Stays, modeVars, Startable, Drainable
  <2>5. MayDrain /\ Startable
    BY <1>1, <2>3, <2>4 DEF Stranded, MayDrain
  <2>6. QED
    BY <1>2, <2>5, HeadExists
<1>3. CASE Stays(IF mode = "IDLE" THEN {<<"drain">>} ELSE {})
  <2>1. mode = "IDLE"
    BY <1>1, <1>3 DEF Stays, modeVars
  <2>2. <<"drain">> \in Stack'
    BY <1>3, <2>1 DEF Stays, Pushes
  <2>3. QED
    BY <2>2 DEF Covered, On
<1>4. ASSUME NEW F, Moves("BUILD_IN_PROGRESS", F)  PROVE Covered'
  BY <1>1, <1>4 DEF Moves
<1>5. QED
  BY <1>1, <1>2, <1>3, <1>4, DrainCalls

LEMMA HearsWinners ==
  ASSUME Typed, Winners, DrainHears
  PROVE  Winners'
<1> DEFINE m == Head(calls)[2]
<1>1. m \in ActiveModes /\ Head(calls) = <<"drainHears", m>> /\ ~InLoop
  BY RunningFrame DEF DrainHears, Call
<1>2. /\ Pushes({}) /\ UNCHANGED <<mode, window, queue, started, chaosOn, undrained>>
      /\ drainHeard' = m /\ drainDue' = (drainDue \/ (m = "IDLE" /\ drainHeard # "HALTED"))
  BY DrainHearsCalls DEF Stays, DrainHears, modeVars, windowVars, tasks, chaosVars, history
<1> HIDE DEF m
<1> SUFFICES ASSUME Stranded'  PROVE Covered'
  BY DEF Winners
<1>3. On("chaosFlag")' => On("chaosFlag")
  BY <1>2, OnBefore
<1>4. ~drainDue /\ (m # "IDLE" \/ drainHeard = "HALTED")
  BY <1>2 DEF Stranded
<1>5. Covered
  BY <1>2, <1>3, <1>4 DEF Stranded, Winners, Startable, Drainable
<1>6. ASSUME NEW f \in {"drain", "windowClosed"}, On(f)  PROVE On(f)'
  BY <1>1, <1>2, <1>6, OnStays DEF Call
<1>7. CASE drainHeard # "HALTED" /\ <<"drainHears", "IDLE">> \in Stack
  <2>1. <<"drainHears", "IDLE">> \in Below
    BY <1>1, <1>4, <1>7, StackTop DEF Typed
  <2>2. <<"drainHears", "IDLE">> \in Stack' /\ drainHeard' # "HALTED"
    BY <1>1, <1>2, <2>1 DEF Pushes, ActiveModes
  <2>3. QED
    BY <2>2 DEF Covered
<1>8. QED
  BY <1>5, <1>6, <1>7 DEF Covered

LEMMA FlagWinners ==
  ASSUME Typed, ChaosTail, Winners, Plain, ChaosFlag
  PROVE  Winners'
<1> SUFFICES ASSUME Stranded'  PROVE Covered'
  BY DEF Winners
<1>1. /\ Stays(IF chaosOn THEN {} ELSE {<<"pickChaos">>}) /\ chaosOn' = ~chaosOn
      /\ UNCHANGED <<window, drainHeard, drainDue, undrained, queue, started>>
  BY ChaosFlagCalls DEF ChaosFlag, windowVars, drainVars, tasks
<1>2. mode' = "IDLE" /\ mode = "IDLE"
  BY <1>1 DEF Stranded, Stays, modeVars
<1>3. On("chaosFlag")
  BY StackTop DEF ChaosFlag, Call, On, Typed
<1>4. chaosOn
  BY <1>2, <1>3 DEF ChaosTail
<1>5. Covered
  BY <1>1, <1>2, <1>3 DEF Stranded, Winners, Startable, Drainable
<1>6. Pushes({})
  BY <1>1, <1>4 DEF Stays
<1>7. QED
  BY <1>1, <1>5, <1>6, CoveredStays

\* The other calls, and the scheduler.
LEMMA CallWinners ==
  ASSUME Sound, Halts, Winners, Plain,
         \/ CycleStep \/ DispatchBuild \/ NextJob \/ Drive \/ Continue \/ DriveHead
         \/ AttemptRoundStart \/ LeaveVoting \/ RoundClosed \/ WindowHears \/ PickChaos
  PROVE  Winners'
<1> USE DEF Sound
<1>1. "BUILD_IN_PROGRESS" \in ActiveModes /\ "FREE_REIGN_WINDOW" \in ActiveModes
      /\ "CHAOS_MODE" \in ActiveModes /\ "IDLE" \in ActiveModes /\ "VOTING_ROUND" \in ActiveModes
  BY DEF ActiveModes
<1>2. ASSUME NEW m, NEW F, m # "IDLE", Moves(m, F)  PROVE Winners'
  BY <1>2 DEF Moves, Winners, Stranded
<1>3. ASSUME NEW F, <<"drain">> \in F, Stays(F)  PROVE Winners'
  <2>1. <<"drain">> \in Stack'
    BY <1>3 DEF Stays, Pushes
  <2>2. QED
    BY <2>1 DEF Winners, Covered, On
<1>4. CASE CycleStep
  <2>1. PICK F : Pushes(F) /\ \A c \in F : c[1] \in Ends \union {"maybeBegin", "maybeEarlyClose"}
    BY <1>4, CyclePushes
  <2>2. Stays(F) /\ \A c \in F : c[1] # "chaosFlag"
    BY <1>4, <2>1 DEF CycleStep, Stays, Ends
  <2>3. Untouched
    BY <1>4 DEF CycleStep, tasks, windowVars, chaosVars, drainVars, Untouched, Startable, Drainable
  <2>4. QED
    BY <2>2, <2>3, WinnersStay
<1>5. CASE DispatchBuild
  <2>1. Untouched
    BY <1>5 DEF DispatchBuild, tasks, windowVars, chaosVars, drainVars, history, Untouched,
                Startable, Drainable
  <2>2. \A c \in {<<"continue", Head(calls)[3]>>} : c[1] # "chaosFlag"
    OBVIOUS
  <2>3. QED
    BY <1>2, <1>5, <2>1, <2>2, WinnersStay, DispatchBuildCalls
<1>6. CASE NextJob
  <2>1. UNCHANGED <<window, drainHeard, drainDue, chaosOn, undrained, started>>
        /\ (queue' = queue \/ \E t : queue' = Without(t))
    BY <1>6 DEF NextJob, Finish, windowVars, chaosVars, drainVars, history
  <2>2. Untouched
    BY <2>1, StartableKept DEF Untouched
  <2>3. ASSUME NEW d, Stays({<<"nextJob">>, <<"continue", d>>})  PROVE Winners'
    <3>1. \A c \in {<<"nextJob">>, <<"continue", d>>} : c[1] # "chaosFlag"
      OBVIOUS
    <3>2. QED
      BY <2>2, <2>3, <3>1, WinnersStay
  <2>4. CASE Stays({})
    BY <2>2, <2>4, WinnersStay
  <2>5. QED
    BY <1>2, <1>6, <2>3, <2>4, NextJobCalls
<1>7. CASE Drive
  <2>1. Untouched
    BY <1>7 DEF Drive, tasks, windowVars, chaosVars, drainVars, history, Untouched,
                Startable, Drainable
  <2>2. \A t, d : \A c \in {<<"dispatchBuild", t, d>>} : c[1] # "chaosFlag"
    OBVIOUS
  <2>3. ASSUME NEW from, NEW t, NEW d,
               LeavesTo(from, "BUILD_IN_PROGRESS", {<<"dispatchBuild", t, d>>})
        PROVE  Winners'
    BY <1>2, <2>1, <2>2, <2>3, WinnersStay DEF LeavesTo, Stays
  <2>4. CASE Stays({})
    BY <2>1, <2>4, WinnersStay
  <2>5. QED
    BY <1>7, <2>3, <2>4, DriveCalls
<1>8. CASE Continue
  <2>1. Untouched
    BY <1>8 DEF Continue, tasks, windowVars, chaosVars, drainVars, history, Untouched,
                Startable, Drainable
  <2>2. CASE Stays({})
    BY <2>1, <2>2, WinnersStay
  <2>3. QED
    BY <1>2, <1>3, <1>8, <2>2, ContinueCalls
<1>9. CASE DriveHead
  <2>1. Untouched
    BY <1>9 DEF DriveHead, tasks, windowVars, chaosVars, drainVars, history, Untouched,
                Startable, Drainable
  <2>2. CASE Stays({})
    BY <2>1, <2>2, WinnersStay
  <2>3. ASSUME NEW t \in Task, Stays({<<"drive", t, "window">>})  PROVE Winners'
    <3>1. \A c \in {<<"drive", t, "window">>} : c[1] # "chaosFlag"
      OBVIOUS
    <3>2. QED
      BY <2>1, <2>3, <3>1, WinnersStay
  <2>4. QED
    BY <1>9, <2>2, <2>3, DriveHeadCalls
<1>10. CASE AttemptRoundStart
  <2>1. UNCHANGED <<window, drainHeard, drainDue, chaosOn, undrained, started>>
    BY <1>10 DEF AttemptRoundStart, windowVars, chaosVars, drainVars, history
  <2>2. CASE queue' = queue
    <3>1. Untouched
      BY <2>1, <2>2, StartableKept DEF Untouched
    <3>2. \A f : f # "chaosFlag" => \A c \in {<<f>>} : c[1] # "chaosFlag"
      OBVIOUS
    <3>3. ASSUME NEW f \in {"maybeBegin", "beginSuggestPhase"}, Stays({<<f>>})  PROVE Winners'
      BY <3>1, <3>2, <3>3, WinnersStay
    <3>4. CASE Stays({})
      BY <3>1, <3>4, WinnersStay
    <3>5. CASE LeavesTo("IDLE", "VOTING_ROUND", {})
      BY <1>2, <3>4, <3>5 DEF LeavesTo, Stays
    <3>6. QED
      BY <1>3, <1>10, <3>3, <3>4, <3>5, AttemptCalls
  <2>3. CASE queue' # queue
    <3>1. Stays({<<"drain">>, <<"maybeBegin">>})
      BY <1>10, <2>3, AttemptCalls DEF AttemptWaits, AttemptVote, AttemptRestart, OpenRound
    <3>2. QED
      BY <1>3, <3>1
  <2>4. QED
    BY <2>2, <2>3
<1>11. CASE LeaveVoting
  <2>1. Untouched
    BY <1>11 DEF LeaveVoting, tasks, windowVars, chaosVars, drainVars, history, Untouched,
                 Startable, Drainable
  <2>2. On("leaveVoting")
    BY <1>11, StackTop DEF LeaveVoting, Call, On, Typed
  <2>3. drainHeard # "HALTED"
    BY <2>2 DEF Halts
  <2>4. \A c \in {<<"roundClosed">>} : c[1] # "chaosFlag"
    OBVIOUS
  <2>5. QED
    BY <1>1, <1>11, <2>1, <2>3, <2>4, LeaveVotingCalls, WinnersLeave
<1>12. CASE RoundClosed
  <2>1. Untouched
    BY <1>12 DEF RoundClosed, tasks, windowVars, chaosVars, drainVars, history, Untouched,
                 Startable, Drainable
  <2>2. \A c \in {<<"maybeBegin">>} : c[1] # "chaosFlag"
    OBVIOUS
  <2>3. QED
    BY <1>12, <2>1, <2>2, RoundClosedCalls, WinnersStay
<1>13. CASE WindowHears
  <2>1. CASE Stays({}) /\ UNCHANGED window
    <3>1. Untouched
      BY <1>13, <2>1 DEF WindowHears, tasks, windowVars, chaosVars, drainVars, history, Untouched,
                         Startable, Drainable
    <3>2. QED
      BY <2>1, <3>1, WinnersStay
  <2>2. CASE Stays({<<"windowClosed">>})
    <3>1. <<"windowClosed">> \in Stack'
      BY <2>2 DEF Stays, Pushes
    <3>2. QED
      BY <3>1 DEF Winners, Covered, On
  <2>3. QED
    BY <1>2, <1>13, <2>1, <2>2, WindowHearsCalls
<1>14. CASE PickChaos
  <2>1. CASE Stays({}) /\ UNCHANGED queue
    <3>1. Untouched
      BY <1>14, <2>1 DEF PickChaos, windowVars, chaosVars, drainVars, history, Untouched,
                         Startable, Drainable
    <3>2. QED
      BY <2>1, <3>1, WinnersStay
  <2>2. CASE mode = "CHAOS_MODE" /\ \E t \in Task : Stays({<<"drive", t, "chaos">>})
    BY <2>2 DEF Stays, modeVars, Winners, Stranded
  <2>3. QED
    BY <1>14, <2>1, <2>2, PickChaosCalls
<1>15. QED
  BY <1>4, <1>5, <1>6, <1>7, <1>8, <1>9, <1>10, <1>11, <1>12, <1>13, <1>14

\* The callbacks of the event loop.
LEMMA LoopWinners ==
  ASSUME Sound, Halts, Winners, InLoop, Next, ~CycleStep, ~CallStep
  PROVE  Winners'
<1> USE DEF Sound
<1>0. /\ Plain /\ "IDLE" \in ActiveModes /\ "VOTING_ROUND" \in ActiveModes
      /\ \A f : f # "chaosFlag" => \A c \in {<<f>>} : c[1] # "chaosFlag"
  BY DEF Plain, Call, ActiveModes
<1>1. mode # "HALTED" => drainHeard # "HALTED"
  BY HeardInLoop
<1>2. ASSUME NEW m, NEW F, m # "IDLE", Moves(m, F)  PROVE Winners'
  BY <1>2 DEF Moves, Winners, Stranded
<1>3. ASSUME NEW f \in {"drain", "windowClosed"}, <<f>> \in Stack'  PROVE Winners'
  BY <1>3 DEF Winners, Covered, On
<1>4. ASSUME Untouched, NEW f, f # "chaosFlag", Stays({<<f>>})  PROVE Winners'
  BY <1>0, <1>4, WinnersStay
<1>5. ASSUME Untouched, Stays({})  PROVE Winners'
  BY <1>0, <1>5, WinnersStay
<1>6. CASE BuildEnds
  <2>1. UNCHANGED <<window, drainHeard, drainDue, chaosOn, undrained, started>>
        /\ \E t : queue' = Without(t)
    BY <1>6 DEF BuildEnds, Finish, windowVars, chaosVars, drainVars
  <2>2. Untouched
    BY <2>1, StartableKept DEF Untouched
  <2>3. \A c \in {<<"nextJob">>, <<"continue", building.drive>>} : c[1] # "chaosFlag"
    OBVIOUS
  <2>4. mode = "BUILD_IN_PROGRESS" => drainHeard # "HALTED"
    BY <1>1
  <2>5. LeavesTo("BUILD_IN_PROGRESS", "IDLE", {<<"nextJob">>, <<"continue", building.drive>>})
    BY <1>6, BuildEndsCalls
  <2>6. QED
    BY <1>0, <2>2, <2>3, <2>4, <2>5, WinnersLeave
<1>7. CASE BuildNeedsDecision
  <2>1. Untouched
    BY <1>7 DEF BuildNeedsDecision, tasks, windowVars, chaosVars, drainVars, history, Untouched,
                Startable, Drainable
  <2>2. \A c \in {<<"nextJob">>, <<"continue", building.drive>>} : c[1] # "chaosFlag"
    OBVIOUS
  <2>3. QED
    BY <1>0, <1>7, <2>1, <2>2, BuildNeedsDecisionCalls, WinnersStay
<1>8. CASE Retry
  <2>1. Untouched
    BY <1>8 DEF Retry, tasks, windowVars, chaosVars, drainVars, history, Untouched,
                Startable, Drainable
  <2>2. QED
    BY <1>2, <1>5, <1>8, <2>1, RetryCalls
<1>9. CASE Skip
  <2>1. UNCHANGED <<window, drainHeard, drainDue, chaosOn, undrained, started>>
        /\ \E t : queue' = Without(t)
    BY <1>9 DEF Skip, Finish, windowVars, chaosVars, drainVars
  <2>2. Untouched
    BY <2>1, StartableKept DEF Untouched
  <2>3. mode = "BUILD_IN_PROGRESS" => drainHeard # "HALTED"
    BY <1>1
  <2>4. QED
    BY <1>0, <1>9, <2>2, <2>3, SkipCalls, WinnersLeave
<1>10. CASE DrainTick
  <2>1. Stays(IF mode = "IDLE" THEN {<<"drain">>} ELSE {})
    BY <1>10, DrainTickCalls
  <2>2. CASE mode = "IDLE"
    BY <1>3, <2>1, <2>2 DEF Stays, Pushes
  <2>3. CASE mode # "IDLE"
    BY <2>1, <2>3 DEF Stays, modeVars, Winners, Stranded
  <2>4. QED
    BY <2>2, <2>3
<1>11. CASE StartRound
  <2>1. Untouched
    BY <1>11 DEF StartRound, OpenRound, windowVars, chaosVars, drainVars, history, Untouched,
                 Startable, Drainable
  <2>2. LeavesTo("IDLE", "VOTING_ROUND", {})
    BY <1>11, OpenRoundCalls DEF StartRound
  <2>3. QED
    BY <1>2, <1>5, <2>1, <2>2 DEF LeavesTo, Stays
<1>12. CASE RoundTimer
  <2>1. CASE Stays({<<"drain">>, <<"leaveVoting">>})
    BY <1>3, <2>1 DEF Stays, Pushes
  <2>2. CASE Stays({<<"leaveVoting">>}) /\ UNCHANGED queue
    <3>1. Untouched
      BY <1>12, <2>2 DEF RoundTimer, windowVars, chaosVars, drainVars, history, Untouched,
                         Startable, Drainable
    <3>2. QED
      BY <1>4, <2>2, <3>1
  <2>3. QED
    BY <1>12, <2>1, <2>2, RoundTimerCalls
<1>13. CASE OpenWindow
  <2>1. CASE mode = "IDLE"
    BY <1>2, <1>13, <2>1, OpenWindowCalls
  <2>2. CASE mode # "IDLE"
    BY <1>13, <2>2, OpenWindowCalls DEF Stays, modeVars, Winners, Stranded
  <2>3. QED
    BY <2>1, <2>2
<1>14. CASE Lapse
  BY <1>14 DEF Lapse, Winners, Stranded
<1>15. CASE WindowTimer \/ Revoke
  <2>1. <<"windowClosed">> \in Stack'
    BY <1>15, WindowTimerCalls, RevokeCalls DEF LeavesTo, Moves, Stays, Pushes
  <2>2. QED
    BY <1>3, <2>1
<1>16. CASE ToggleChaos
  <2>1. Moves(IF chaosOn THEN "IDLE" ELSE "CHAOS_MODE", {<<"chaosFlag">>})
    BY <1>16, ToggleChaosCalls
  <2>2. drainHeard' = drainHeard /\ drainHeard # "HALTED"
    BY <1>1, <1>16, <2>1 DEF ToggleChaos, drainVars, Moves, ActiveModes
  <2>3. CASE chaosOn
    BY <1>0, <2>1, <2>2, <2>3, WinnersMove
  <2>4. CASE ~chaosOn
    BY <1>2, <2>1, <2>4
  <2>5. QED
    BY <2>3, <2>4
<1>17. CASE ChaosExpires
  <2>1. Untouched
    BY <1>17 DEF ChaosExpires, tasks, windowVars, drainVars, history, Untouched,
                 Startable, Drainable
  <2>2. QED
    BY <1>5, <1>17, <2>1, QuietCalls
<1>18. CASE Halt
  BY <1>18, HaltCalls DEF Winners, Stranded
<1>19. ASSUME NEW a \in RecoveryActions, RecoverShow(a)  PROVE Winners'
  <2>1. undrained /\ undrained' = undrained
    BY <1>19, RecoverCalls DEF Halts, RecoverShow, history
  <2>2. QED
    BY <2>1 DEF Winners, Stranded
<1>20. ASSUME NEW t \in Task, Suggest(t)  PROVE Winners'
  <2>1. Untouched
    BY <1>20 DEF Suggest, windowVars, chaosVars, drainVars, history, Untouched,
                 Startable, Drainable
  <2>2. QED
    BY <1>4, <1>20, <2>1, SuggestCalls
<1>21. ASSUME NEW t \in Task, Instruct(t)  PROVE Winners'
  <2>1. Untouched
    BY <1>21 DEF Instruct, windowVars, chaosVars, drainVars, history, Untouched,
                 Startable, Drainable
  <2>2. QED
    BY <1>5, <1>21, <2>1, QuietCalls
<1>22. ASSUME NEW t \in Task, InstructionApproved(t)  PROVE Winners'
  <2>1. UNCHANGED <<window, drainHeard, drainDue, chaosOn, undrained, started>>
        /\ t \in Paid /\ queue' = Append(queue, t)
    BY <1>22 DEF InstructionApproved, windowVars, chaosVars, drainVars, history
  <2>3. Untouched
    BY <2>1, StartableKept DEF Untouched
  <2>4. \A c \in {<<"drive", t, "window">>} : c[1] # "chaosFlag"
    OBVIOUS
  <2>5. QED
    BY <1>0, <1>22, <2>3, <2>4, InstructionCalls, WinnersStay
<1>23. ASSUME NEW t \in Task, Veto(t)  PROVE Winners'
  <2>1. UNCHANGED <<window, drainHeard, drainDue, chaosOn, undrained, started>>
        /\ queue' = Without(t)
    BY <1>23 DEF Veto, Finish, windowVars, chaosVars, drainVars
  <2>2. Untouched
    BY <2>1, StartableKept DEF Untouched
  <2>3. QED
    BY <1>5, <1>23, <2>2, QuietCalls
<1>24. ASSUME NEW t \in Task, GateRefuses(t)  PROVE Winners'
  <2>1. Untouched
    BY <1>24 DEF GateRefuses, windowVars, chaosVars, drainVars, history, Untouched,
                 Startable, Drainable
  <2>2. QED
    BY <1>5, <1>24, <2>1, QuietCalls
<1>25. ASSUME NEW t \in Task, Repooled(t)  PROVE Winners'
  <2>1. Untouched
    BY <1>25 DEF Repooled, windowVars, chaosVars, drainVars, history, Untouched,
                 Startable, Drainable
  <2>2. QED
    BY <1>4, <1>25, <2>1, RepooledCalls
<1>26. QED
  BY <1>6, <1>7, <1>8, <1>9, <1>10, <1>11, <1>12, <1>13, <1>14, <1>15, <1>16, <1>17, <1>18, <1>19,
     <1>20, <1>21, <1>22, <1>23, <1>24, <1>25 DEF Next

LEMMA NextWinners ==
  ASSUME Sound, Halts, ChaosTail, Winners, Next
  PROVE  Winners'
<1> USE DEF Sound
<1>1. CASE Drain
  BY <1>1, DrainWinners
<1>2. CASE DrainHears
  BY <1>2, HearsWinners
<1>3. CASE WindowClosed
  <2>1. mode' = mode /\ (mode # "IDLE" \/ undrained')
    BY <1>3 DEF WindowClosed, modeVars
  <2>2. QED
    BY <2>1 DEF Winners, Stranded
<1>4. CASE ~Drain /\ ~DrainHears /\ ~WindowClosed
  <2>1. Plain
    BY <1>4, Answers DEF Plain
  <2>2. CASE ChaosFlag
    BY <2>1, <2>2, FlagWinners
  <2>3. CASE CycleStep \/ (CallStep /\ ~ChaosFlag)
    BY <1>4, <2>1, <2>3, CallWinners DEF CallStep
  <2>4. CASE ~CycleStep /\ ~CallStep
    <3>1. InLoop
      BY <2>4 DEF Next, BuildEnds, BuildNeedsDecision, Retry, Skip, DrainTick, StartRound,
         RoundTimer, OpenWindow, Lapse, WindowTimer, Revoke, ToggleChaos, ChaosExpires, Halt,
         RecoverShow, Suggest, Instruct, InstructionApproved, GateRefuses, Repooled, Veto
    <3>2. QED
      BY <2>4, <3>1, LoopWinners
  <2>5. QED
    BY <2>2, <2>3, <2>4
<1>5. QED
  BY <1>1, <1>2, <1>3, <1>4

\* In every state, inside cascades too, a winner that nothing keeps from being built has its
\* drain on the stack, due, or coming with a listener that will still run.
THEOREM ShowWinners == Spec => []Winners
<1>1. Init => Winners
  BY EmptySeq DEF Init, Winners, Stranded, Startable, Elements
<1>2. Sound /\ Halts /\ ChaosTail /\ Winners /\ [Next]_vars => Winners'
  <2> SUFFICES ASSUME Sound, Halts, ChaosTail, Winners, [Next]_vars  PROVE Winners'
    OBVIOUS
  <2>1. CASE Next
    BY <2>1, NextWinners
  <2>2. CASE UNCHANGED vars
    BY <2>2 DEF vars, modeVars, tasks, windowVars, chaosVars, drainVars, history,
                Winners, Stranded, Covered, Startable, Drainable, On, Stack
  <2>3. QED
    BY <2>1, <2>2
<1>3. QED
  BY <1>1, <1>2, ShowSound, ShowHalts, ShowChaosTail, PTL DEF Spec

\* A queued winner that nothing keeps from being built has its drain due (drainVoteQueue and
\* its listener in main.ts), whichever of build, window, round and chaos mode ended last.
THEOREM ShowWinnersNotStranded == Spec => []WinnersNotStranded
<1>1. Sound /\ Winners => WinnersNotStranded
  <2> SUFFICES ASSUME Sound, Winners, InLoop, MayDrain, mode = "IDLE", ~undrained,
                      NEW t \in Task, IsHead(t)
               PROVE  drainDue
    BY DEF WinnersNotStranded
  <2>1. Startable
    BY LenProperties DEF IsHead, Startable, Elements, Sound, Typed, TypeOK
  <2>2. ~Covered
    BY StackTop DEF Covered, On, Sound, Typed
  <2>3. QED
    BY <2>1, <2>2 DEF Winners, Stranded, MayDrain
<1>2. QED
  BY <1>1, ShowSound, ShowWinners, PTL


-------------------------------------------------------------------------------
(***************************************************************************)
(* What is done with is gone                                               *)
(***************************************************************************)

\* The tasks on the way to the build session, in it, queued or done with.
SentOf(F) == {c[2] : c \in {d \in F : d[1] \in {"dispatchBuild", "drive"}}}
Jobs      == {building.task, pending} \union {job.task : job \in Elements(line)}
Taken     == Elements(queue) \union SentOf(Stack) \union Jobs \union over

\* Such a task is neither pooled nor with the gate, and voted on only while its round is being
\* closed, unless the gate was asked again about it.
IsAway(t) ==
    t \notin rechecked => t \in seen /\ t \notin pool \union asked /\ (t \in round => Closing)

Away == \A t \in Task \intersect Taken : IsAway(t)

Distinct(q, R) == \A i, j \in 1..Len(q) : q[i] = q[j] /\ i # j => q[i] \in R

Gone ==
    /\ Away
    /\ Distinct(queue, rechecked)
    /\ over \intersect Elements(queue) \subseteq rechecked

LEMMA AppendDistinct ==
  ASSUME NEW q \in Seq(Task), NEW R, Distinct(q, R), NEW t \in Task, t \in Elements(q) => t \in R
  PROVE  Distinct(Append(q, t), R)
<1>1. /\ Len(Append(q, t)) = Len(q) + 1 /\ Append(q, t)[Len(q) + 1] = t /\ Len(q) \in Nat
      /\ \A i \in 1..Len(q) : Append(q, t)[i] = q[i]
  BY AppendProperties, LenProperties
<1> SUFFICES ASSUME NEW i \in 1..Len(q) + 1, NEW j \in 1..Len(q) + 1,
                    Append(q, t)[i] = Append(q, t)[j], i # j
             PROVE  Append(q, t)[i] \in R
  BY <1>1 DEF Distinct
<1>2. CASE i \in 1..Len(q) /\ j \in 1..Len(q)
  BY <1>1, <1>2 DEF Distinct
<1>3. CASE i = Len(q) + 1 /\ j \in 1..Len(q)
  BY <1>1, <1>3 DEF Elements
<1>4. CASE j = Len(q) + 1 /\ i \in 1..Len(q)
  BY <1>1, <1>4 DEF Elements
<1>5. QED
  BY <1>1, <1>2, <1>3, <1>4

\* Taking a task out leaves none of it, unless it may be there twice.
LEMMA RemoveDistinct ==
  ASSUME NEW q \in Seq(Task), NEW R, Distinct(q, R), NEW t
  PROVE  /\ Distinct(RemoveFirst(q, t), R)
         /\ t \in Elements(RemoveFirst(q, t)) => t \in R
<1> DEFINE r == RemoveFirst(q, t)
<1>1. Len(q) \in Nat
  BY LenProperties
<1>2. CASE ~\E i \in 1..Len(q) : q[i] = t
  <2>1. r = q
    BY <1>2 DEF RemoveFirst
  <2>2. QED
    BY <1>2, <2>1 DEF Elements
<1>3. CASE \E i \in 1..Len(q) : q[i] = t
  <2>1. PICK k \in 1..Len(q) :
            /\ q[k] = t /\ Len(r) = Len(q) - 1
            /\ \A i \in 1..Len(q) - 1 : r[i] = IF i < k THEN q[i] ELSE q[i + 1]
    BY <1>3, RemoveFirstPlace
  <2> HIDE DEF r
  <2> DEFINE up(i) == IF i < k THEN i ELSE i + 1
  <2>2. ASSUME NEW i \in 1..Len(r)
        PROVE  up(i) \in 1..Len(q) /\ up(i) # k /\ r[i] = q[up(i)]
    BY <1>1, <2>1
  <2>3. ASSUME NEW i \in 1..Len(r), NEW j \in 1..Len(r), i # j  PROVE up(i) # up(j)
    BY <1>1, <2>1, <2>3
  <2> HIDE DEF up
  <2>4. Distinct(r, R)
    <3> SUFFICES ASSUME NEW i \in 1..Len(r), NEW j \in 1..Len(r), r[i] = r[j], i # j
                 PROVE  r[i] \in R
      BY DEF Distinct
    <3>1. q[up(i)] = q[up(j)] /\ up(i) # up(j) /\ up(i) \in 1..Len(q) /\ up(j) \in 1..Len(q)
      BY <2>2, <2>3
    <3>2. QED
      BY <2>2, <3>1 DEF Distinct
  <2>5. ASSUME NEW i \in 1..Len(r), r[i] = t  PROVE t \in R
    <3>1. q[up(i)] = q[k] /\ up(i) # k /\ up(i) \in 1..Len(q)
      BY <2>1, <2>2, <2>5
    <3>2. QED
      BY <2>1, <3>1 DEF Distinct
  <2>6. QED
    BY <2>4, <2>5 DEF Elements, r
<1>4. QED
  BY <1>2, <1>3

\* A task comes to the pool, the gate or a round out of those places, new, or with a stale
\* approval; from a closing round it does not come back.
Intake ==
    /\ seen \subseteq seen' /\ rechecked \subseteq rechecked'
    /\ \A t \in seen \ rechecked' :
          /\ t \in pool' \union asked' => t \in pool \union asked \/ (t \in round /\ ~Closing)
          /\ t \in round' => t \in pool \/ (t \in round /\ (Closing => Closing'))

\* No task is handed on, but those of N newly.
TakesOnly(N) == Task \intersect Taken' \subseteq Taken \union N

LEMMA AwayKept ==
  ASSUME Away, Intake, NEW N, TakesOnly(N), \A t \in N : IsAway(t)'
  PROVE  Away'
<1> SUFFICES ASSUME NEW t \in Task, t \in Taken'  PROVE IsAway(t)'
  BY DEF Away
<1>1. CASE t \in N
  BY <1>1
<1>2. CASE t \notin N
  <2>1. IsAway(t)
    BY <1>2 DEF TakesOnly, Away
  <2>2. QED
    BY <2>1 DEF IsAway, Intake
<1>3. QED
  BY <1>1, <1>2

LEMMA NextIntake ==
  ASSUME Sound, Next
  PROVE  Intake
<1>1. TasksType /\ Origins /\ Typed
  BY TypeParts DEF Sound, Typed
<1>2. ~Call("leaveVoting") /\ ~Call("roundClosed") => (Closing => Closing')
  BY <1>1, ClosingStays
<1>3. InLoop => (Closing => Closing') /\ ~Closing
  BY <1>1, <1>2, StackTop DEF Call, Closing, On, Typed
<1>4. ASSUME UNCHANGED <<seen, pool, asked, round, rechecked>>, Closing => Closing'
      PROVE  Intake
  BY <1>4 DEF Intake
<1>5. ASSUME OpenRound, UNCHANGED rechecked  PROVE Intake
  BY <1>5 DEF OpenRound, Intake
<1>6. ASSUME NEW t, NEW on, NEW then, PickFromPool(t, on, then), UNCHANGED round, Closing => Closing'
      PROVE  Intake
  BY <1>6 DEF PickFromPool, Intake
<1>7. ASSUME NEW t, Recheck(t), UNCHANGED round, Closing => Closing'
      PROVE  Intake
  BY <1>7 DEF Recheck, Intake
<1> USE DEF tasks, roundVars, history
<1>8. CASE CycleStep
  <2>1. ~Call("leaveVoting") /\ ~Call("roundClosed")
    BY <1>8 DEF CycleStep, MaybeBegin, BeginSuggestPhase, MaybeEarlyClose, OnPhaseEnd, PhaseTimer,
                Toggle, Call
  <2>2. QED
    BY <1>2, <1>4, <1>8, <2>1 DEF CycleStep
<1>9. CASE CallStep
  <2>1. CASE DispatchBuild \/ Drive \/ Continue \/ DriveHead \/ DrainHears \/ WindowClosed \/ WindowHears
             \/ ChaosFlag
    <3>1. ~Call("leaveVoting") /\ ~Call("roundClosed")
      BY <2>1 DEF DispatchBuild, Drive, Continue, DriveHead, DrainHears, WindowClosed, WindowHears,
                  ChaosFlag, Call
    <3>2. UNCHANGED <<seen, pool, asked, round, rechecked>>
      BY <2>1 DEF DispatchBuild, Drive, Continue, DriveHead, DrainHears, WindowClosed, WindowHears,
                  ChaosFlag
    <3>3. QED
      BY <1>2, <1>4, <3>1, <3>2
  <2>2. CASE NextJob \/ Drain
    <3>1. ~Call("leaveVoting") /\ ~Call("roundClosed") /\ UNCHANGED <<seen, pool, asked, round, rechecked>>
      BY <2>2 DEF NextJob, Drain, Call
    <3>2. QED
      BY <1>2, <1>4, <3>1
  <2>3. CASE AttemptRoundStart
    <3>1. ~Call("leaveVoting") /\ ~Call("roundClosed")
      BY <2>3 DEF AttemptRoundStart, Call
    <3>2. CASE AttemptChaosPick
      BY <1>2, <1>4, <1>6, <1>7, <3>1, <3>2 DEF AttemptChaosPick
    <3>3. CASE AttemptWaits
      BY <1>2, <1>4, <3>1, <3>3 DEF AttemptWaits
    <3>4. CASE AttemptVote
      BY <1>5, <3>4 DEF AttemptVote
    <3>5. CASE AttemptSolo
      BY <1>2, <1>6, <1>7, <3>1, <3>5 DEF AttemptSolo
    <3>6. CASE AttemptRestart
      BY <1>2, <1>4, <3>1, <3>6 DEF AttemptRestart
    <3>7. QED
      BY <2>3, <3>2, <3>3, <3>4, <3>5, <3>6 DEF AttemptRoundStart
  <2>4. CASE LeaveVoting
    <3>1. <<"roundClosed">> \in Stack'
      BY <1>1, <2>4, LeaveVotingCalls DEF LeavesTo, Moves, Pushes
    <3>2. Closing'
      BY <3>1 DEF Closing, On
    <3>3. QED
      BY <1>4, <2>4, <3>2 DEF LeaveVoting
  <2>5. CASE RoundClosed
    BY <2>5 DEF RoundClosed, Intake
  <2>6. CASE PickChaos
    <3>1. ~Call("leaveVoting") /\ ~Call("roundClosed") /\ UNCHANGED round
      BY <2>6 DEF PickChaos, Call
    <3>2. QED
      BY <1>2, <1>4, <1>6, <1>7, <2>6, <3>1 DEF PickChaos
  <2>7. QED
    BY <1>9, <2>1, <2>2, <2>3, <2>4, <2>5, <2>6 DEF CallStep
<1>10. CASE BuildEnds \/ Skip \/ BuildNeedsDecision \/ Retry \/ DrainTick
  BY <1>3, <1>4, <1>10 DEF BuildEnds, Skip, BuildNeedsDecision, Retry, DrainTick
<1>11. CASE \/ OpenWindow \/ Lapse \/ WindowTimer \/ Revoke \/ ToggleChaos \/ ChaosExpires \/ Halt
  BY <1>3, <1>4, <1>11 DEF OpenWindow, Lapse, WindowTimer, Revoke, ToggleChaos, ChaosExpires, Halt
<1>12. CASE StartRound
  BY <1>5, <1>12 DEF StartRound
<1>13. CASE RoundTimer
  BY <1>3, <1>4, <1>7, <1>13 DEF RoundTimer
<1>14. ASSUME NEW a \in RecoveryActions, RecoverShow(a)  PROVE Intake
  <2>1. /\ ~Closing /\ UNCHANGED <<seen, asked, rechecked>>
        /\ \/ pool' = pool \union round /\ round' = {}
           \/ pool' = pool /\ round' = round
    BY <1>3, <1>14 DEF RecoverShow
  <2>2. QED
    BY <2>1 DEF Intake
<1>15. ASSUME NEW t \in Task, Suggest(t)  PROVE Intake
  BY <1>3, <1>15 DEF Suggest, Intake
<1>16. ASSUME NEW t \in Task, Instruct(t)  PROVE Intake
  BY <1>3, <1>16 DEF Instruct, Intake
<1>17. ASSUME NEW t \in Task, InstructionApproved(t)  PROVE Intake
  BY <1>3, <1>17 DEF InstructionApproved, Intake
<1>18. ASSUME NEW t \in Task, GateRefuses(t)  PROVE Intake
  BY <1>3, <1>18 DEF GateRefuses, Intake
<1>19. ASSUME NEW t \in Task, Repooled(t)  PROVE Intake
  BY <1>3, <1>19 DEF Repooled, Intake
<1>20. ASSUME NEW t \in Task, Veto(t)  PROVE Intake
  BY <1>3, <1>4, <1>20 DEF Veto
<1>21. QED
  BY <1>8, <1>9, <1>10, <1>11, <1>12, <1>13, <1>14, <1>15, <1>16, <1>17, <1>18, <1>19, <1>20 DEF Next

\* What a step puts on the stack adds to what is on its way.
LEMMA SentNext ==
  ASSUME Typed, NEW F, Pushes(F)
  PROVE  SentOf(Stack') \subseteq SentOf(Stack) \union SentOf(F)
<1>1. Stack' = F \union Below /\ Below \subseteq Stack
  BY StackTop DEF Pushes, Typed
<1>2. QED
  BY <1>1 DEF SentOf

\* The steps that send nothing to the build session.
Sends == \E F : Pushes(F) /\ SentOf(F) = {}

LEMMA StaysSends ==
  ASSUME NEW F, Stays(F), SentOf(F) = {}
  PROVE  Sends
  BY DEF Stays, Sends

LEMMA MovesSends ==
  ASSUME NEW m, NEW F, Moves(m, F), SentOf(F) = {}
  PROVE  Sends
<1>1. SentOf(Hears(m) \union F) = {}
  <2>1. \A c \in Hears(m) : c[1] \notin {"dispatchBuild", "drive"}
    BY DEF Hears
  <2>2. QED
    BY <2>1 DEF SentOf
<1>2. QED
  BY <1>1 DEF Moves, Sends

LEMMA LeavesSends ==
  ASSUME NEW from, NEW m, NEW F, LeavesTo(from, m, F), SentOf(F) = {}
  PROVE  Sends
<1>1. Moves(m, F) \/ Stays(F)
  BY DEF LeavesTo, Stays
<1>2. QED
  BY <1>1, StaysSends, MovesSends

LEMMA SentOfFew ==
  /\ SentOf({}) = {}
  /\ \A f \in Lone : SentOf({<<f>>}) = {}
  /\ \A f, g \in Lone : SentOf({<<f>>, <<g>>}) = {}
  /\ \A d : SentOf({<<"continue", d>>}) = {} /\ SentOf({<<"nextJob">>, <<"continue", d>>}) = {}
  /\ \A t, d : SentOf({<<"dispatchBuild", t, d>>}) = {t} /\ SentOf({<<"drive", t, d>>}) = {t}
<1>1. ASSUME NEW F, \A c \in F : c[1] \notin {"dispatchBuild", "drive"}  PROVE SentOf(F) = {}
  BY <1>1 DEF SentOf
<1>2. \A f \in Lone : f \notin {"dispatchBuild", "drive"}
  BY DEF Lone
<1>3. SentOf({}) = {}
  BY <1>1
<1>4. ASSUME NEW f \in Lone, NEW g \in Lone  PROVE SentOf({<<f>>}) = {} /\ SentOf({<<f>>, <<g>>}) = {}
  <2>1. \A c \in {<<f>>, <<g>>} : c[1] \notin {"dispatchBuild", "drive"}
    BY <1>2
  <2>2. QED
    BY <1>1, <2>1
<1>5. ASSUME NEW d
      PROVE  SentOf({<<"continue", d>>}) = {} /\ SentOf({<<"nextJob">>, <<"continue", d>>}) = {}
  <2>1. \A c \in {<<"nextJob">>, <<"continue", d>>} : c[1] \notin {"dispatchBuild", "drive"}
    OBVIOUS
  <2>2. QED
    BY <1>1, <2>1
<1>6. ASSUME NEW f \in {"dispatchBuild", "drive"}, NEW t, NEW d  PROVE SentOf({<<f, t, d>>}) = {t}
  <2> DEFINE c == <<f, t, d>>
  <2>1. c[1] \in {"dispatchBuild", "drive"} /\ c[2] = t
    OBVIOUS
  <2> HIDE DEF c
  <2>2. SentOf({c}) = {t}
    BY <2>1 DEF SentOf
  <2>3. QED
    BY <2>2 DEF c
<1>7. QED
  BY <1>3, <1>4, <1>5, <1>6

\* Nothing is sent but by the drain, the drives and an approved instruction.
LEMMA NextSends ==
  ASSUME Typed, Next, ~Drain, ~Drive, ~DriveHead, ~PickChaos, \A t \in Task : ~InstructionApproved(t)
  PROVE  Sends
<1> USE SentOfFew
<1>0. /\ \A f \in Lone : Stays({<<f>>}) => Sends
      /\ Stays({}) => Sends /\ (Pushes({}) => Sends)
      /\ Pushes({}) => Sends
  BY StaysSends DEF Sends
<1>1. CASE CycleStep
  <2>1. PICK F : Pushes(F) /\ \A c \in F : c[1] \in Ends \union {"maybeBegin", "maybeEarlyClose"}
    BY <1>1, CyclePushes
  <2>2. SentOf(F) = {}
    BY <2>1 DEF SentOf, Ends
  <2>3. QED
    BY <2>1, <2>2 DEF Sends
<1>2. CASE CallStep
  <2>1. CASE DispatchBuild
    BY <2>1, DispatchBuildCalls, StaysSends, MovesSends
  <2>2. CASE NextJob
    BY <2>2, NextJobCalls, StaysSends, MovesSends
  <2>3. CASE Continue
    BY <2>3, ContinueCalls, StaysSends, MovesSends DEF Lone
  <2>4. CASE DrainHears \/ RoundClosed \/ WindowClosed \/ ChaosFlag
    BY <2>4, DrainHearsCalls, RoundClosedCalls, WindowClosedCalls, ChaosFlagCalls, StaysSends DEF Lone
  <2>5. CASE AttemptRoundStart
    <3>1. PICK F : /\ Pushes(F)
                   /\ \A c \in F : c[1] \in {"drain", "maybeBegin", "beginSuggestPhase", "windowHears",
                                             "drainHears"}
      BY <2>5, AttemptPushes
    <3>2. SentOf(F) = {}
      BY <3>1 DEF SentOf
    <3>3. QED
      BY <3>1, <3>2 DEF Sends
  <2>6. CASE LeaveVoting
    BY <2>6, LeaveVotingCalls, LeavesSends DEF Lone
  <2>7. CASE WindowHears
    BY <2>7, WindowHearsCalls, StaysSends, MovesSends DEF Lone
  <2>8. QED
    BY <1>2, <2>1, <2>2, <2>3, <2>4, <2>5, <2>6, <2>7 DEF CallStep
<1>3. CASE BuildEnds \/ Skip
  BY <1>3, BuildEndsCalls, SkipCalls, LeavesSends
<1>4. CASE BuildNeedsDecision
  BY <1>4, BuildNeedsDecisionCalls, StaysSends
<1>5. CASE DrainTick \/ RoundTimer
  BY <1>5, DrainTickCalls, RoundTimerCalls, StaysSends DEF Lone
<1>6. CASE Retry
  BY <1>6, RetryCalls, StaysSends, MovesSends
<1>7. CASE StartRound
  BY <1>7, OpenRoundCalls, LeavesSends DEF StartRound
<1>8. CASE OpenWindow
  BY <1>8, OpenWindowCalls, StaysSends, MovesSends
<1>9. CASE WindowTimer
  BY <1>9, WindowTimerCalls, LeavesSends DEF Lone
<1>10. CASE Revoke
  BY <1>10, RevokeCalls, StaysSends, LeavesSends DEF Lone
<1>11. CASE ToggleChaos
  BY <1>11, ToggleChaosCalls, MovesSends DEF Lone
<1>12. CASE Lapse \/ ChaosExpires
  BY <1>0, <1>12, QuietCalls
<1>13. CASE Halt
  BY <1>0, <1>13, HaltCalls
<1>14. ASSUME NEW a \in RecoveryActions, RecoverShow(a)  PROVE Sends
  <2> DEFINE F == {<<"windowHears", mode, mode'>>, <<"maybeBegin">>, <<"drainHears", mode'>>}
  <2>1. \A c \in F : c[1] \notin {"dispatchBuild", "drive"}
    OBVIOUS
  <2>2. SentOf(F) = {}
    BY <2>1 DEF SentOf
  <2>3. QED
    BY <1>14, <2>2, RecoverCalls DEF Sends
<1>15. ASSUME NEW t \in Task, Suggest(t) \/ Repooled(t)  PROVE Sends
  BY <1>15, SuggestCalls, RepooledCalls, StaysSends DEF Lone
<1>16. ASSUME NEW t \in Task, Instruct(t) \/ GateRefuses(t) \/ Veto(t)  PROVE Sends
  BY <1>0, <1>16, QuietCalls
<1>17. QED
  BY <1>1, <1>2, <1>3, <1>4, <1>5, <1>6, <1>7, <1>8, <1>9, <1>10, <1>11, <1>12, <1>13, <1>14, <1>15,
     <1>16
     DEF Next

LEMMA FinishKept ==
  ASSUME Sound, Gone, NEW t, Finish(t), UNCHANGED rechecked
  PROVE  Distinct(queue', rechecked') /\ over' \intersect Elements(queue') \subseteq rechecked'
<1>1. queue \in Seq(Task) /\ queue' = RemoveFirst(queue, t) /\ over' = over \union {t}
  BY DEF Finish, Without, Sound, Typed, TypeOK
<1>2. Elements(queue') \subseteq Elements(queue)
  BY <1>1, QueueRemove
<1>3. Distinct(queue', rechecked) /\ (t \in Elements(queue') => t \in rechecked)
  BY <1>1, RemoveDistinct DEF Gone
<1>4. QED
  BY <1>1, <1>2, <1>3 DEF Gone

LEMMA QueuedKept ==
  ASSUME Sound, Gone, NEW t \in Task, queue' = Append(queue, t), UNCHANGED <<over, rechecked>>,
         t \in pool \union asked \/ (t \in round /\ ~Closing)
  PROVE  Distinct(queue', rechecked') /\ over' \intersect Elements(queue') \subseteq rechecked'
<1>1. queue \in Seq(Task)
  BY DEF Sound, Typed, TypeOK
<1>2. t \in rechecked \/ (t \notin over /\ t \notin Elements(queue))
  BY DEF Gone, Away, IsAway, Taken
<1>3. Elements(queue') = Elements(queue) \union {t}
  BY <1>1, QueueAppend
<1>4. Distinct(queue', rechecked)
  BY <1>1, <1>2, AppendDistinct DEF Gone
<1>5. QED
  BY <1>2, <1>3, <1>4 DEF Gone

LEMMA SameQueueKept ==
  ASSUME Gone, UNCHANGED <<queue, over>>, rechecked \subseteq rechecked'
  PROVE  Distinct(queue', rechecked') /\ over' \intersect Elements(queue') \subseteq rechecked'
  BY DEF Gone, Distinct

LEMMA TrackJobs ==
  ASSUME Typed, NEW job \in Job, NEW then, Track(job, then),
         pending' \in {pending, NoTask}, NoTask \notin Task
  PROVE  Task \intersect Jobs' \subseteq Jobs \union {job.task}
<1>1. line \in Seq(Job)
  BY DEF Typed, TypeOK
<1>2. CASE building' = job /\ UNCHANGED line
  BY <1>2 DEF Jobs
<1>3. CASE building' = building /\ line' = Append(line, job)
  <2>1. Elements(line') = Elements(line) \union {job}
    <3>1. /\ Len(line') = Len(line) + 1 /\ line'[Len(line) + 1] = job /\ Len(line) \in Nat
          /\ \A i \in 1..Len(line) : line'[i] = line[i]
      BY <1>1, <1>3, AppendProperties, LenProperties
    <3>2. 1..Len(line) + 1 = (1..Len(line)) \union {Len(line) + 1}
      BY <3>1
    <3>3. QED
      BY <3>1, <3>2 DEF Elements
  <2>2. QED
    BY <1>3, <2>1 DEF Jobs
<1>4. QED
  BY <1>2, <1>3 DEF Track

\* A pick out of the pool is away from everything but the queue.
LEMMA PickAway ==
  ASSUME Sound, NEW t \in pool, NEW on, NEW then, PickFromPool(t, on, then), UNCHANGED round
  PROVE  t \in Task /\ IsAway(t)'
<1>1. TasksType /\ Origins
  BY TypeParts DEF Sound, Typed
<1>2. pool' = pool \ {t} /\ UNCHANGED <<seen, asked, rechecked>>
  BY DEF PickFromPool
<1>3. t \in Task /\ t \in seen /\ t \notin Paid
  BY <1>1 DEF TasksType, Origins
<1>4. t \notin rechecked => t \notin asked /\ t \notin round
  BY <1>1, <1>3 DEF TasksType, Origins
<1>5. QED
  BY <1>2, <1>3, <1>4 DEF IsAway

LEMMA DrainGone ==
  ASSUME Sound, Gone, Drain
  PROVE  TakesOnly({}) /\ Distinct(queue', rechecked') /\ over' \intersect Elements(queue') \subseteq rechecked'
<1>0. Typed /\ queue \in Seq(Task) /\ UNCHANGED rechecked /\ UNCHANGED Jobs
  BY DEF Drain, Sound, Typed, TypeOK, session, Jobs
<1>1. \A t : InQueue(t) <=> t \in Elements(queue)
  BY <1>0, InQueueIs
<1>2. CASE Stays({}) /\ UNCHANGED <<queue, over>>
  <2>1. SentOf(Stack') \subseteq SentOf(Stack)
    BY <1>0, <1>2, SentNext, SentOfFew DEF Stays
  <2>2. QED
    BY <1>0, <1>2, <2>1, SameQueueKept DEF TakesOnly, Taken
<1>3. ASSUME NEW t \in Task, IsHead(t), queue' = Without(t), over' = over \union {t},
             Stays(IF mode = "IDLE" THEN {<<"drain">>} ELSE {})
      PROVE  /\ TakesOnly({})
             /\ Distinct(queue', rechecked') /\ over' \intersect Elements(queue') \subseteq rechecked'
  <2>1. SentOf(Stack') \subseteq SentOf(Stack)
    BY <1>0, <1>3, SentNext, SentOfFew DEF Stays, Lone
  <2>2. Elements(queue') \subseteq Elements(queue) /\ t \in Elements(queue)
    BY <1>0, <1>1, <1>3, QueueRemove DEF Without, IsHead, InQueue
  <2>3. QED
    BY <1>0, <1>3, <2>1, <2>2, FinishKept DEF Finish, TakesOnly, Taken
<1>4. ASSUME NEW t \in Task, IsHead(t), Moves("BUILD_IN_PROGRESS", {<<"dispatchBuild", t, "vote">>}),
             UNCHANGED <<queue, over>>
      PROVE  /\ TakesOnly({})
             /\ Distinct(queue', rechecked') /\ over' \intersect Elements(queue') \subseteq rechecked'
  <2>1. SentOf(Hears("BUILD_IN_PROGRESS") \union {<<"dispatchBuild", t, "vote">>}) \subseteq {t}
    <3>1. \A c \in Hears("BUILD_IN_PROGRESS") : c[1] \notin {"dispatchBuild", "drive"}
      BY DEF Hears
    <3>2. SentOf({<<"dispatchBuild", t, "vote">>}) = {t}
      BY SentOfFew
    <3>3. QED
      BY <3>1, <3>2 DEF SentOf
  <2>2. SentOf(Stack') \subseteq SentOf(Stack) \union {t}
    BY <1>0, <1>4, <2>1, SentNext DEF Moves
  <2>3. t \in Elements(queue)
    BY <1>1, <1>4 DEF IsHead, InQueue
  <2>4. QED
    BY <1>0, <1>4, <2>2, <2>3, SameQueueKept DEF TakesOnly, Taken
<1>5. QED
  BY <1>0, <1>2, <1>3, <1>4, DrainCalls

LEMMA HeadSent ==
  ASSUME Typed, Call("dispatchBuild") \/ Call("drive")
  PROVE  Head(calls)[2] \in SentOf(Stack)
<1>1. ~InLoop /\ Head(calls) \in Stack /\ Head(calls)[1] \in {"dispatchBuild", "drive"}
  BY RunningFrame DEF Call
<1>2. QED
  BY <1>1 DEF SentOf

LEMMA DriveGone ==
  ASSUME Sound, Gone, Drive \/ DriveHead
  PROVE  TakesOnly({})
<1>0. /\ Typed /\ UNCHANGED <<queue, over>> /\ UNCHANGED Jobs
  BY DEF Drive, DriveHead, Sound, tasks, session, history, Jobs
<1>1. ASSUME SentOf(Stack') \subseteq Taken  PROVE TakesOnly({})
  BY <1>0, <1>1 DEF TakesOnly, Taken
<1>2. CASE Drive
  <2> DEFINE t == Head(calls)[2]
             drive == Head(calls)[3]
  <2>1. t \in SentOf(Stack)
    BY <1>0, <1>2, HeadSent DEF Drive
  <2>2. ASSUME NEW m, Pushes(Hears(m) \union {<<"dispatchBuild", t, drive>>})
        PROVE  SentOf(Stack') \subseteq Taken
    <3>1. \A c \in Hears(m) : c[1] \notin {"dispatchBuild", "drive"}
      BY DEF Hears
    <3>2. SentOf({<<"dispatchBuild", t, drive>>}) = {t}
      BY SentOfFew
    <3>3. SentOf(Hears(m) \union {<<"dispatchBuild", t, drive>>}) \subseteq {t}
      BY <3>1, <3>2 DEF SentOf
    <3>4. QED
      BY <1>0, <2>1, <2>2, <3>3, SentNext DEF Taken
  <2>3. CASE Stays({})
    BY <1>0, <1>1, <2>3, SentNext, SentOfFew DEF Stays, Taken
  <2>4. CASE Pushes({<<"dispatchBuild", t, drive>>})
    <3>1. SentOf({<<"dispatchBuild", t, drive>>}) = {t}
      BY SentOfFew
    <3>2. QED
      BY <1>0, <1>1, <2>1, <2>4, <3>1, SentNext DEF Taken
  <2>5. QED
    BY <1>0, <1>1, <1>2, <2>2, <2>3, <2>4, DriveCalls DEF LeavesTo, Moves
<1>3. CASE DriveHead
  <2>1. CASE queue = <<>>
    <3>1. Pushes({})
      BY <1>0, <1>3, <2>1, ReturnPushes DEF DriveHead, Typed, Return
    <3>2. QED
      BY <1>0, <1>1, <3>1, SentNext, SentOfFew DEF Taken
  <2>2. CASE queue # <<>>
    <3>1. Head(queue) \in Task /\ Head(queue) \in Elements(queue)
      BY <2>2, TopOf DEF Sound, Typed, TypeOK
    <3>2. <<"drive", Head(queue), "window">> \in Frame
      BY <3>1, FramesAre
    <3>3. Pushes({<<"drive", Head(queue), "window">>})
      BY <1>0, <1>3, <2>2, <3>2, OnePushes DEF DriveHead, Typed
    <3>4. SentOf({<<"drive", Head(queue), "window">>}) = {Head(queue)}
      BY SentOfFew
    <3>5. QED
      BY <1>0, <1>1, <3>1, <3>3, <3>4, SentNext DEF Taken
  <2>3. QED
    BY <2>1, <2>2
<1>4. QED
  BY <1>2, <1>3

LEMMA SessionGone ==
  ASSUME Sound, Gone, Next,
         DispatchBuild \/ NextJob \/ BuildEnds \/ BuildNeedsDecision \/ Retry \/ Skip
  PROVE  TakesOnly({}) /\ Distinct(queue', rechecked') /\ over' \intersect Elements(queue') \subseteq rechecked'
<1>0. /\ Typed /\ line \in Seq(Job) /\ NoTask \notin Task
      /\ UNCHANGED rechecked
  BY ShowAssumption
     DEF ShowAssumption, Sound, Typed, TypeOK, DispatchBuild, NextJob, BuildEnds, BuildNeedsDecision,
         Retry, Skip, history
<1>1. SentOf(Stack') \subseteq SentOf(Stack)
  <2>1. ~Drain /\ ~Drive /\ ~DriveHead /\ ~PickChaos
    BY DEF DispatchBuild, NextJob, BuildEnds, BuildNeedsDecision, Retry, Skip, Drain, Drive, DriveHead,
           PickChaos, Call
  <2>2. UNCHANGED asked
    BY DEF DispatchBuild, NextJob, BuildEnds, BuildNeedsDecision, Retry, Skip, tasks
  <2>3. Sends
    BY <1>0, <2>1, <2>2, NextSends DEF InstructionApproved
  <2>4. QED
    BY <1>0, <2>3, SentNext DEF Sends
<1>2. ASSUME Task \intersect Jobs' \subseteq Jobs \union SentOf(Stack), UNCHANGED <<queue, over>>
      PROVE  /\ TakesOnly({})
             /\ Distinct(queue', rechecked') /\ over' \intersect Elements(queue') \subseteq rechecked'
  BY <1>0, <1>1, <1>2, SameQueueKept DEF TakesOnly, Taken
<1>3. ASSUME Task \intersect Jobs' \subseteq Jobs, NEW t \in Jobs, Finish(t)
      PROVE  /\ TakesOnly({})
             /\ Distinct(queue', rechecked') /\ over' \intersect Elements(queue') \subseteq rechecked'
  <2>1. Elements(queue') \subseteq Elements(queue) /\ over' = over \union {t}
    BY <1>3, WithoutKept DEF Finish
  <2>2. QED
    BY <1>0, <1>1, <1>3, <2>1, FinishKept DEF TakesOnly, Taken
<1>4. CASE DispatchBuild
  <2> DEFINE job == [task |-> Head(calls)[2], drive |-> Head(calls)[3], retry |-> FALSE]
  <2>1. UNCHANGED <<queue, over, pending>> /\ job.task \in SentOf(Stack)
    BY <1>0, <1>4, HeadSent DEF DispatchBuild, tasks, history
  <2>2. CASE mode = "HALTED"
    BY <1>2, <1>4, <2>1, <2>2 DEF DispatchBuild, Jobs
  <2>3. CASE mode # "HALTED"
    <3>1. job \in Job
      BY <1>0, <1>4, RunningFrame DEF DispatchBuild, Call, Job
    <3>2. Track(job, <<>>)
      BY <1>4, <2>3 DEF DispatchBuild
    <3> HIDE DEF job
    <3>3. Task \intersect Jobs' \subseteq Jobs \union {job.task}
      BY <1>0, <2>1, <3>1, <3>2, TrackJobs
    <3>4. QED
      BY <1>2, <2>1, <3>3
  <2>4. QED
    BY <2>2, <2>3
<1>5. CASE NextJob
  <2>1. CASE line = <<>>
    <3>1. UNCHANGED <<queue, over, line, pending>> /\ building' = NoJob
      BY <1>5, <2>1 DEF NextJob
    <3>2. QED
      BY <1>0, <1>2, <3>1 DEF Jobs, NoJob
  <2>2. CASE line # <<>>
    <3> DEFINE job == Head(line)
    <3>1. /\ line' = Tail(line) /\ UNCHANGED pending
          /\ \/ Finish(job.task) /\ UNCHANGED building
             \/ building' = job /\ UNCHANGED <<queue, over>>
      BY <1>5, <2>2 DEF NextJob
    <3>2. job \in Elements(line) /\ Elements(Tail(line)) \subseteq Elements(line)
      <4>1. job \in Elements(line)
        BY <1>0, <2>2, TopOf
      <4>2. /\ Len(Tail(line)) = Len(line) - 1 /\ Len(line) \in Nat
            /\ \A i \in 1..Len(Tail(line)) : Tail(line)[i] = line[i + 1]
        BY <1>0, <2>2, HeadTailProperties, LenProperties
      <4>3. ASSUME NEW i \in 1..Len(Tail(line))  PROVE Tail(line)[i] \in Elements(line)
        <5>1. i + 1 \in 1..Len(line) /\ Tail(line)[i] = line[i + 1]
          BY <4>2
        <5>2. QED
          BY <5>1 DEF Elements
      <4>4. Elements(Tail(line)) \subseteq Elements(line)
        BY <4>3 DEF Elements
      <4>5. QED
        BY <4>1, <4>4
    <3> HIDE DEF job
    <3>3. job.task \in Jobs /\ Task \intersect Jobs' \subseteq Jobs
      BY <3>1, <3>2 DEF Jobs
    <3>4. QED
      BY <1>2, <1>3, <3>1, <3>3
  <2>3. QED
    BY <2>1, <2>2
<1>6. CASE BuildEnds
  <2>1. Finish(building.task) /\ building' = Settling /\ UNCHANGED <<line, pending>>
    BY <1>6 DEF BuildEnds
  <2>2. Settling.task = NoTask
    BY DEF Settling, NoJob
  <2>3. building.task \in Jobs /\ Task \intersect Jobs' \subseteq Jobs
    BY <1>0, <2>1, <2>2 DEF Jobs
  <2>4. QED
    BY <1>3, <2>1, <2>3
<1>7. CASE BuildNeedsDecision
  <2>1. pending' = building.task /\ building' = Settling /\ UNCHANGED <<line, queue, over>>
    BY <1>7 DEF BuildNeedsDecision, tasks, history
  <2>2. Settling.task = NoTask
    BY DEF Settling, NoJob
  <2>3. Task \intersect Jobs' \subseteq Jobs
    BY <1>0, <2>1, <2>2 DEF Jobs
  <2>4. QED
    BY <1>2, <2>1, <2>3
<1>8. CASE Retry
  <2> DEFINE job == [task |-> pending, drive |-> "nobody", retry |-> TRUE]
  <2>1. UNCHANGED <<queue, over>> /\ pending' = NoTask /\ Track(job, <<>>) /\ job.task \in Jobs
    BY <1>8 DEF Retry, tasks, history, Jobs
  <2>2. job \in Job
    BY <1>0, <1>8 DEF Retry, Typed, TypeOK, Job, Drives
  <2> HIDE DEF job
  <2>3. Task \intersect Jobs' \subseteq Jobs \union {job.task}
    BY <1>0, <2>1, <2>2, TrackJobs
  <2>4. QED
    BY <1>2, <2>1, <2>3
<1>9. CASE Skip
  <2>1. Finish(pending) /\ pending' = NoTask /\ UNCHANGED <<building, line>>
    BY <1>9 DEF Skip
  <2>2. pending \in Jobs /\ Task \intersect Jobs' \subseteq Jobs
    BY <1>0, <2>1 DEF Jobs
  <2>3. QED
    BY <1>3, <2>1, <2>2
<1>10. QED
  BY <1>4, <1>5, <1>6, <1>7, <1>8, <1>9

\* The winners, picks and instructions that are queued.
LEMMA PickGone ==
  ASSUME Sound, Gone, NEW t \in pool, NEW on, NEW then, PickFromPool(t, on, then),
         UNCHANGED <<round, over>>, UNCHANGED Jobs, SentOf(Stack') \subseteq SentOf(Stack) \union {t}
  PROVE  /\ TakesOnly({t}) /\ IsAway(t)'
         /\ Distinct(queue', rechecked') /\ over' \intersect Elements(queue') \subseteq rechecked'
<1>1. t \in Task /\ IsAway(t)'
  BY PickAway
<1>2. queue' = Append(queue, t) /\ UNCHANGED rechecked
  BY DEF PickFromPool
<1>3. Elements(queue') = Elements(queue) \union {t}
  BY <1>1, <1>2, QueueAppend DEF Sound, Typed, TypeOK
<1>4. QED
  BY <1>1, <1>2, <1>3, QueuedKept DEF TakesOnly, Taken

LEMMA StillTakes ==
  ASSUME Sound, Gone, Intake, UNCHANGED <<queue, over>>, UNCHANGED Jobs,
         SentOf(Stack') \subseteq SentOf(Stack)
  PROVE  Gone'
<1>1. TakesOnly({})
  BY DEF TakesOnly, Taken
<1>2. Away'
  BY <1>1, AwayKept DEF Gone
<1>3. QED
  BY <1>2, SameQueueKept DEF Gone, Intake

LEMMA NewTakes ==
  ASSUME Gone, Intake, NEW t, TakesOnly({t}), IsAway(t)',
         Distinct(queue', rechecked') /\ over' \intersect Elements(queue') \subseteq rechecked'
  PROVE  Gone'
<1>1. Away'
  BY AwayKept DEF Gone
<1>2. QED
  BY <1>1 DEF Gone

LEMMA NoneTakes ==
  ASSUME Gone, Intake, TakesOnly({}),
         Distinct(queue', rechecked') /\ over' \intersect Elements(queue') \subseteq rechecked'
  PROVE  Gone'
<1>1. Away'
  BY AwayKept DEF Gone
<1>2. QED
  BY <1>1 DEF Gone

LEMMA NextGone ==
  ASSUME Sound, Gone, Next
  PROVE  Gone'
<1>0. Typed /\ Intake /\ TasksType /\ Origins /\ queue \in Seq(Task)
  BY NextIntake, TypeParts DEF Sound, Typed, TypeOK
<1>1. CASE DispatchBuild \/ NextJob \/ BuildEnds \/ BuildNeedsDecision \/ Retry \/ Skip
  BY <1>0, <1>1, SessionGone, NoneTakes
<1>2. CASE Drain
  BY <1>0, <1>2, DrainGone, NoneTakes
<1>3. CASE Drive \/ DriveHead
  <2>1. UNCHANGED <<queue, over, rechecked>>
    BY <1>3 DEF Drive, DriveHead, tasks, history
  <2>2. QED
    BY <1>0, <1>3, <2>1, DriveGone, SameQueueKept, NoneTakes
<1>4. ASSUME Sends  PROVE SentOf(Stack') \subseteq SentOf(Stack)
  BY <1>0, <1>4, SentNext DEF Sends
<1>5. ASSUME Sends, UNCHANGED <<queue, over, building, line, pending>>  PROVE Gone'
  BY <1>0, <1>4, <1>5, StillTakes DEF Jobs
<1>6. ASSUME Sends, UNCHANGED <<round, over, building, line, pending>>,
             NEW t \in pool, NEW on, NEW then, PickFromPool(t, on, then)
      PROVE  Gone'
  BY <1>0, <1>4, <1>6, PickGone, NewTakes DEF Jobs
<1>7. CASE AttemptRoundStart
  <2>1. Sends /\ UNCHANGED <<over, building, line, pending>>
    BY <1>0, <1>7, NextSends
       DEF AttemptRoundStart, session, Drain, Drive, DriveHead, PickChaos, InstructionApproved, Call
  <2>2. CASE \E t \in pool : PickFromPool(t, <<<<"drain">>>>, PicksAgain) /\ UNCHANGED round
    BY <1>6, <2>1, <2>2
  <2>3. CASE UNCHANGED queue
    BY <1>5, <2>1, <2>3
  <2>4. QED
    BY <1>7, <2>2, <2>3
       DEF AttemptRoundStart, AttemptChaosPick, AttemptWaits, AttemptVote, AttemptSolo, AttemptRestart,
           OpenRound, Recheck
<1>8. CASE PickChaos
  <2>1. UNCHANGED <<over, building, line, pending, round>>
    BY <1>8 DEF PickChaos, session
  <2>2. ASSUME NEW t \in pool \intersect Suggestion, PickFromPool(t, <<<<"drive", t, "chaos">>>>, <<>>)
        PROVE  Gone'
    <3>1. t \in Task /\ <<"drive", t, "chaos">> \in Frame
      BY FramesAre DEF Task
    <3>2. <<<<"drive", t, "chaos">>>> \in Seq(Frame)
      BY <3>1
    <3>3. Elements(<<<<"drive", t, "chaos">>>>) \union Elements(<<>>) = {<<"drive", t, "chaos">>}
      BY ElementsFew
    <3>4. Pushes({<<"drive", t, "chaos">>})
      BY <1>0, <2>2, <3>2, <3>3, PickCalls, EmptySeq
    <3>5. SentOf({<<"drive", t, "chaos">>}) = {t}
      BY SentOfFew
    <3>6. SentOf(Stack') \subseteq SentOf(Stack) \union {t}
      BY <1>0, <3>4, <3>5, SentNext
    <3>7. QED
      BY <1>0, <2>1, <2>2, <3>6, PickGone, NewTakes DEF Jobs
  <2>3. CASE UNCHANGED queue /\ Return
    <3>1. Sends
      BY <1>0, <2>3, ReturnPushes, SentOfFew DEF Sends, Typed
    <3>2. QED
      BY <1>5, <2>1, <2>3, <3>1
  <2>4. QED
    BY <1>8, <2>2, <2>3 DEF PickChaos, Recheck
<1>9. CASE RoundTimer
  <2>1. Sends /\ UNCHANGED <<over, building, line, pending, round>>
    <3>1. ~Drain /\ ~Drive /\ ~DriveHead /\ ~PickChaos
      BY <1>9 DEF RoundTimer, Drain, Drive, DriveHead, PickChaos, Call
    <3>2. asked \subseteq asked'
      BY <1>9 DEF RoundTimer, Recheck
    <3>3. Sends
      BY <1>0, <3>1, <3>2, NextSends DEF InstructionApproved
    <3>4. QED
      BY <1>9, <3>3 DEF RoundTimer, roundVars, session
  <2>2. CASE UNCHANGED queue
    BY <1>5, <2>1, <2>2
  <2>3. ASSUME NEW t \in round, queue' = Append(queue, t), UNCHANGED <<seen, pool, asked, rechecked>>
        PROVE  Gone'
    <3>1. ~Closing /\ t \in Task
      BY <1>0, <1>9, StackTop DEF RoundTimer, Closing, On, Typed, TasksType
    <3>2. <<"leaveVoting">> \in Stack'
      BY <1>0, <1>9, RoundTimerCalls DEF Stays, Pushes
    <3>3. Closing'
      BY <3>2 DEF Closing, On
    <3>4. IsAway(t)'
      BY <1>0, <2>3, <3>3 DEF IsAway, TasksType, Origins
    <3>5. Elements(queue') = Elements(queue) \union {t}
      BY <1>0, <2>3, <3>1, QueueAppend
    <3>6. TakesOnly({t})
      BY <1>4, <2>1, <3>5 DEF TakesOnly, Taken, Jobs
    <3>7. QED
      BY <1>0, <2>1, <2>3, <3>1, <3>4, <3>6, QueuedKept, NewTakes
  <2>4. QED
    BY <1>9, <2>2, <2>3 DEF RoundTimer, Recheck
<1>10. ASSUME NEW t \in Task, InstructionApproved(t)  PROVE Gone'
  <2>1. /\ t \in asked \intersect Paid /\ asked' = asked \ {t} /\ queue' = Append(queue, t)
        /\ UNCHANGED <<seen, pool, round, over, rechecked, building, line, pending>>
    BY <1>10 DEF InstructionApproved, roundVars, session, history
  <2>2. Pushes({<<"drive", t, "window">>}) /\ SentOf({<<"drive", t, "window">>}) = {t}
    BY <1>0, <1>10, InstructionCalls, SentOfFew DEF Stays
  <2>3. SentOf(Stack') \subseteq SentOf(Stack) \union {t}
    BY <1>0, <2>2, SentNext
  <2>4. Elements(queue') = Elements(queue) \union {t}
    BY <1>0, <2>1, QueueAppend
  <2>5. TakesOnly({t})
    BY <2>1, <2>3, <2>4 DEF TakesOnly, Taken, Jobs
  <2>6. IsAway(t)'
    BY <1>0, <2>1 DEF IsAway, TasksType, Origins
  <2>7. QED
    BY <1>0, <2>1, <2>5, <2>6, QueuedKept, NewTakes
<1>11. ASSUME NEW t \in Task, Veto(t)  PROVE Gone'
  <2>1. Finish(t) /\ InQueue(t) /\ UNCHANGED <<rechecked, building, line, pending>>
    BY <1>11 DEF Veto, session
  <2>2. Sends
    BY <1>0, <1>11, QuietCalls, SentOfFew DEF Stays, Sends
  <2>3. t \in Elements(queue) /\ Elements(queue') \subseteq Elements(queue) /\ over' = over \union {t}
    BY <1>0, <2>1, InQueueIs, WithoutKept DEF Finish
  <2>4. TakesOnly({})
    BY <1>4, <2>1, <2>2, <2>3 DEF TakesOnly, Taken, Jobs
  <2>5. QED
    BY <1>0, <2>1, <2>4, FinishKept, NoneTakes
<1>12. ASSUME NEW t \in Task, Suggest(t) \/ Instruct(t) \/ GateRefuses(t) \/ Repooled(t)  PROVE Gone'
  <2>1. UNCHANGED <<queue, over, building, line, pending>>
    BY <1>12 DEF Suggest, Instruct, GateRefuses, Repooled, session, history
  <2>2. Sends
    BY <1>0, <1>12, SuggestCalls, RepooledCalls, QuietCalls, StaysSends, SentOfFew DEF Lone
  <2>3. QED
    BY <1>5, <2>1, <2>2
<1>13. CASE \/ CycleStep \/ Continue \/ DrainHears \/ LeaveVoting \/ RoundClosed \/ WindowClosed
            \/ WindowHears \/ ChaosFlag
  <2>1. UNCHANGED <<queue, over, building, line, pending>>
    BY <1>13 DEF CycleStep, Continue, DrainHears, LeaveVoting, RoundClosed, WindowClosed, WindowHears,
       ChaosFlag, tasks, session, history
  <2>2. ~Drain /\ ~Drive /\ ~DriveHead /\ ~PickChaos
    BY <1>13
       DEF CycleStep, MaybeBegin, BeginSuggestPhase, MaybeEarlyClose, OnPhaseEnd, PhaseTimer, Toggle,
           Continue, DrainHears, LeaveVoting, RoundClosed, WindowClosed, WindowHears, ChaosFlag,
           Drain, Drive, DriveHead, PickChaos, Call
  <2>3. UNCHANGED asked
    BY <1>13 DEF CycleStep, Continue, DrainHears, LeaveVoting, RoundClosed, WindowClosed, WindowHears,
       ChaosFlag, tasks
  <2>4. \A t \in Task : ~InstructionApproved(t)
    BY <2>3 DEF InstructionApproved
  <2>5. QED
    BY <1>0, <1>5, <2>1, <2>2, <2>4, NextSends
<1>14. CASE \/ DrainTick \/ StartRound \/ OpenWindow \/ Lapse \/ WindowTimer \/ Revoke \/ ToggleChaos
            \/ ChaosExpires \/ Halt \/ \E a \in RecoveryActions : RecoverShow(a)
  <2>1. UNCHANGED <<queue, over, building, line, pending>>
    BY <1>14 DEF DrainTick, StartRound, OpenRound, OpenWindow, Lapse, WindowTimer, Revoke, ToggleChaos,
       ChaosExpires, Halt, RecoverShow, tasks, session, history
  <2>2. CASE \E t \in Task : InstructionApproved(t)
    BY <1>10, <2>2
  <2>3. CASE \A t \in Task : ~InstructionApproved(t)
    <3>1. ~Drain /\ ~Drive /\ ~DriveHead /\ ~PickChaos
      BY <1>14 DEF DrainTick, StartRound, OpenWindow, Lapse, WindowTimer, Revoke, ToggleChaos,
         ChaosExpires, Halt, RecoverShow, Drain, Drive, DriveHead, PickChaos, Call
    <3>2. QED
      BY <1>0, <1>5, <2>1, <2>3, <3>1, NextSends
  <2>4. QED
    BY <2>2, <2>3
<1>15. QED
  BY <1>1, <1>2, <1>3, <1>7, <1>8, <1>9, <1>10, <1>11, <1>12, <1>13, <1>14 DEF Next, CallStep

\* In every state, inside cascades too, a task that is queued, on its way to the build session,
\* in it or done with is nowhere that it could be picked or voted for again, and queued once.
THEOREM ShowGone == Spec => []Gone
<1>1. Init => Gone
  <2> SUFFICES ASSUME Init  PROVE Gone
    OBVIOUS
  <2>1. calls = <<<<"maybeBegin">>>> /\ queue = <<>> /\ line = <<>> /\ over = {} /\ pending = NoTask
        /\ building = NoJob
    BY DEF Init, CycleInit
  <2>2. Elements(queue) = {} /\ Elements(line) = {} /\ Len(queue) = 0
    BY <2>1, ElementsFew, EmptySeq
  <2>3. SentOf(Stack) = {}
    <3>1. Stack = {<<"maybeBegin">>}
      BY <2>1, ElementsFew DEF Stack
    <3>2. "maybeBegin" \in Lone
      BY DEF Lone
    <3>3. QED
      BY <3>1, <3>2, SentOfFew
  <2>4. Task \intersect Taken = {}
    <3>1. building.task = NoTask /\ NoTask \notin Task
      BY <2>1, ShowAssumption DEF ShowAssumption, NoJob
    <3>2. {job.task : job \in Elements(line)} = {}
      BY <2>2
    <3>3. Jobs = {NoTask}
      BY <2>1, <3>1, <3>2 DEF Jobs
    <3>4. QED
      BY <2>1, <2>2, <2>3, <3>1, <3>3 DEF Taken
  <2>5. QED
    BY <2>1, <2>2, <2>4 DEF Gone, Away, Distinct
<1>2. Sound /\ Gone /\ [Next]_vars => Gone'
  <2> SUFFICES ASSUME Sound, Gone, [Next]_vars  PROVE Gone'
    OBVIOUS
  <2>1. CASE Next
    BY <2>1, NextGone
  <2>2. CASE UNCHANGED vars
    BY <2>2 DEF vars, tasks, roundVars, session, history, Gone, Away, IsAway, Taken, Jobs, Stack,
       Closing, On, Distinct
  <2>3. QED
    BY <2>1, <2>2
<1>3. QED
  BY <1>1, <1>2, ShowSound, PTL DEF Spec

\* A task that was built, skipped, vetoed or drained as a chaos winner is not queued any more
\* when the listeners of its end run, and never comes back to the pool, a ballot or the queue
\* (finalize, skipTask and vetoTask take it out before they move the mode), unless the gate was
\* asked again about it as a stale pick.
THEOREM ShowOverIsGone == Spec => []OverIsGone
<1>1. Sound /\ Gone => OverIsGone
  <2> SUFFICES ASSUME Sound, Gone, NEW t \in over \ rechecked
               PROVE  t \notin pool \union asked /\ ~InQueue(t) /\ (InLoop => t \notin round)
    BY DEF OverIsGone
  <2>1. t \in Task /\ t \in Taken
    BY DEF Sound, Typed, TypeOK, Taken
  <2>2. t \notin pool \union asked /\ (t \in round => Closing)
    BY <2>1 DEF Gone, Away, IsAway
  <2>3. ~InQueue(t)
    BY InQueueIs DEF Gone, Sound, Typed, TypeOK
  <2>4. InLoop => ~Closing
    BY StackTop DEF Closing, On, Sound, Typed
  <2>5. QED
    BY <2>2, <2>3, <2>4
<1>2. QED
  BY <1>1, ShowSound, ShowGone, PTL
==============================================================================

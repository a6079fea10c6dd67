------------------------------ MODULE Pages_proofs ------------------------------
(***************************************************************************)
(* What holds of the two pages of the broadcast for every bound: the       *)
(* overlay is current while it is connected and draws what a full render   *)
(* would, and the preview never blanks the frame that viewers see.         *)
(***************************************************************************)
EXTENDS Overlay, Preview, TLAPS

-------------------------------------------------------------------------------
(***************************************************************************)
(* The page as it is drawn                                                 *)
(***************************************************************************)

VoteOf(l, w, d) ==
    IF l.round = "open" THEN "round"
    ELSE IF w /\ ~d /\ l.stage \in {"none", "done"} THEN "winner" ELSE "hidden"

BuildOf(l, d) ==
    IF l.round = "open" THEN "hidden"
    ELSE IF d THEN "done" ELSE IF l.stage \in {"none", "done"} THEN "hidden" ELSE l.stage

\* The page after a full render of state l with its two beats.
Drawn(l, w, d) ==
    [latest |-> l, winnerBeat |-> w, doneBeat |-> d, vote |-> VoteOf(l, w, d), build |-> BuildOf(l, d)]

IsDrawn(p) == p = Drawn(p.latest, p.winnerBeat, p.doneBeat)

LEMMA RenderDraws ==
  ASSUME NEW l, NEW w, NEW d, NEW v, NEW b,
         NEW p, p = [latest |-> l, winnerBeat |-> w, doneBeat |-> d, vote |-> v, build |-> b]
  PROVE  RenderAll(p) = Drawn(l, w, d)
<1>1. RenderBuildPanel(p) = [latest |-> l, winnerBeat |-> w, doneBeat |-> d, vote |-> v,
                             build |-> BuildOf(l, d)]
  BY DEF RenderBuildPanel, BuildPanelActive, BuildOf
<1>2. RenderVotePanel(RenderBuildPanel(p)) = Drawn(l, w, d)
  BY <1>1 DEF RenderVotePanel, BuildPanelActive, Drawn, VoteOf
<1>3. QED
  BY <1>2 DEF RenderAll

LEMMA DrawnFields ==
  ASSUME NEW l, NEW w, NEW d
  PROVE  /\ Drawn(l, w, d).latest = l
         /\ Drawn(l, w, d).winnerBeat = w /\ Drawn(l, w, d).doneBeat = d
         /\ Drawn(l, w, d).vote = VoteOf(l, w, d) /\ Drawn(l, w, d).build = BuildOf(l, d)
         /\ IsDrawn(Drawn(l, w, d))
BY DEF Drawn, IsDrawn

LEMMA HandleDraws ==
  ASSUME NEW p, NEW s, IsDrawn(p)
  PROVE  /\ IsDrawn(Handle(p, s)) /\ Handle(p, s).latest = s
         /\ s.round = "closed" => Handle(p, s).winnerBeat
<1> DEFINE w == p.winnerBeat \/ s.round = "closed"
           d == s.stage = "done" \/ (p.doneBeat /\ s.stage = "none")
           q == [latest |-> s, winnerBeat |-> w, doneBeat |-> d, vote |-> p.vote, build |-> p.build]
<1>1. Handle(p, s) = RenderAll(q)
  BY DEF Handle
<1>2. RenderAll(q) = Drawn(s, w, d)
  <2> HIDE DEF w, d
  <2>1. QED
    BY RenderDraws
<1>3. s.round = "closed" => w
  OBVIOUS
<1> HIDE DEF w, d, q
<1>4. Handle(p, s) = Drawn(s, w, d)
  BY <1>1, <1>2
<1>5. QED
  BY <1>3, <1>4, DrawnFields

\* What is drawn again when a beat ends is enough.
LEMMA BeatsEnd ==
  ASSUME IsDrawn(page), NEW f
  PROVE  /\ RenderVotePanel([page EXCEPT !.winnerBeat = f]) = Drawn(page.latest, f, page.doneBeat)
         /\ RenderAll([page EXCEPT !.doneBeat = f]) = Drawn(page.latest, page.winnerBeat, f)
<1> DEFINE l == page.latest  w == page.winnerBeat  d == page.doneBeat
           v == page.vote  b == BuildOf(l, d)
           q == [latest |-> l, winnerBeat |-> f, doneBeat |-> d, vote |-> v, build |-> b]
<1>1. page = [latest |-> l, winnerBeat |-> w, doneBeat |-> d, vote |-> v, build |-> b]
  BY DrawnFields DEF IsDrawn, Drawn
<1> HIDE DEF l, w, d, v, b
<1>2. [page EXCEPT !.winnerBeat = f] = q
  BY <1>1
<1>3. [page EXCEPT !.doneBeat = f] =
          [latest |-> l, winnerBeat |-> w, doneBeat |-> f, vote |-> v, build |-> b]
  BY <1>1
<1>4. RenderVotePanel(q) = [latest |-> l, winnerBeat |-> f, doneBeat |-> d,
                            vote |-> VoteOf(l, f, d), build |-> b]
  BY DEF RenderVotePanel, BuildPanelActive, VoteOf
<1>5. RenderVotePanel(q) = Drawn(l, f, d)
  BY <1>4 DEF Drawn, b
<1>6. RenderAll([page EXCEPT !.doneBeat = f]) = Drawn(l, w, f)
  BY <1>3, RenderDraws
<1>7. QED
  BY <1>2, <1>5, <1>6 DEF l, w, d

-------------------------------------------------------------------------------
(***************************************************************************)
(* The inductive invariant                                                 *)
(***************************************************************************)

\* What a page that is connected must have been sent last.
Fits(s, m, w, r, c) ==
    /\ s.pill = PillByMode[m] /\ (s.window <=> w) /\ (s.round = "open" <=> r # "none")
    /\ s.stage = c \/ (c = "none" /\ s.stage \in {"done", "refused"})

PageFits == online => Fits(page.latest, mode, window, round, current)

PageOK == IsDrawn(page) /\ page.latest.stage \in Stages /\ PageFits

IInv == TypeOK /\ PageOK

LEMMA PagePanels ==
  ASSUME IsDrawn(page), page.latest.stage \in Stages
  PROVE  /\ page.vote \in {"hidden", "round", "winner"}
         /\ page.build \in (Stages \ {"none"}) \union {"hidden"}
<1>1. /\ page.vote = VoteOf(page.latest, page.winnerBeat, page.doneBeat)
      /\ page.build = BuildOf(page.latest, page.doneBeat)
  BY DrawnFields DEF IsDrawn
<1>2. QED
  BY <1>1 DEF VoteOf, BuildOf, Stages

LEMMA StateFits ==
  /\ State.pill = PillByMode[mode] /\ State.window = window /\ State.stage = current
  /\ Fits(State, mode, window, round, current)
<1>1. /\ State.pill = PillByMode[mode] /\ State.window = window /\ State.stage = current
      /\ State.round = IF round = "none" THEN "none" ELSE "open"
  BY DEF State
<1>2. QED
  BY <1>1 DEF Fits

LEMMA StateFitsNext ==
  /\ State'.stage = current'
  /\ Fits(State', mode', window', round', current')
<1>1. /\ State'.pill = PillByMode[mode'] /\ State'.window = window' /\ State'.stage = current'
      /\ State'.round = IF round' = "none" THEN "none" ELSE "open"
  BY DEF State
<1>2. QED
  BY <1>1 DEF Fits

\* A push of a state that fits.
LEMMA PushKeeps ==
  ASSUME PageOK, NEW s, s.stage \in Stages, Fits(s, mode', window', round', current'), Push(s)
  PROVE  PageOK'
<1>1. CASE online
  <2>1. IsDrawn(page') /\ page'.latest = s
    BY <1>1, HandleDraws DEF Push, PageOK
  <2>2. QED
    BY <2>1 DEF PageOK, PageFits
<1>2. CASE ~online
  <2>1. page' = page /\ ~online'
    BY <1>2 DEF Push
  <2>2. QED
    BY <2>1 DEF PageOK, PageFits
<1>3. QED
  BY <1>1, <1>2

\* Of two pushes the page keeps the second.
LEMMA PushTwoKeeps ==
  ASSUME PageOK, NEW s, NEW u, u.stage \in Stages, Fits(u, mode', window', round', current'),
         PushTwo(s, u)
  PROVE  PageOK'
<1>1. CASE online
  <2>1. IsDrawn(Handle(page, s))
    BY HandleDraws DEF PageOK
  <2>2. IsDrawn(page') /\ page'.latest = u
    BY <1>1, <2>1, HandleDraws DEF PushTwo
  <2>3. QED
    BY <2>2 DEF PageOK, PageFits
<1>2. CASE ~online
  <2>1. page' = page /\ ~online'
    BY <1>2 DEF PushTwo
  <2>2. QED
    BY <2>1 DEF PageOK, PageFits
<1>3. QED
  BY <1>1, <1>2

LEMMA SilentKeeps ==
  ASSUME PageOK, UNCHANGED <<page, online, mode, window, round, current>>
  PROVE  PageOK'
BY DEF PageOK, PageFits

LEMMA PushStateKeeps ==
  ASSUME PageOK, current' \in Stages, Push(State')
  PROVE  PageOK'
BY StateFitsNext, PushKeeps

-------------------------------------------------------------------------------
(***************************************************************************)
(* The page through every step                                             *)
(***************************************************************************)

\* The steps of the page itself.
LEMMA PageStepsKeep ==
  ASSUME IInv, WinnerBeatEnds \/ DoneBeatEnds \/ SocketCloses \/ Reconnect \/ Reload
  PROVE  PageOK'
<1>0. /\ PageOK /\ current \in Stages
      /\ page = [latest |-> page.latest, winnerBeat |-> page.winnerBeat,
                 doneBeat |-> page.doneBeat, vote |-> page.vote, build |-> page.build]
  BY DEF IInv, TypeOK, BuildType, PageOK, IsDrawn, Drawn
<1>1. CASE SocketCloses
  BY <1>0, <1>1 DEF SocketCloses, PageOK, PageFits
<1>2. CASE Reconnect
  <2>1. IsDrawn(page') /\ page'.latest = State
    BY <1>0, <1>2, HandleDraws DEF Reconnect, PageOK
  <2>2. UNCHANGED <<mode, window, round, current>>
    BY <1>2 DEF Reconnect, modeVars, ballot, build
  <2>3. QED
    BY <1>0, <2>1, <2>2, StateFits DEF PageOK, PageFits
<1>3. CASE Reload
  <2>1. IsDrawn(page') /\ page'.latest = State
    <3> DEFINE w == FALSE \/ State.round = "closed"
               d == State.stage = "done" \/ (FALSE /\ State.stage = "none")
    <3>1. page' = RenderAll([latest |-> State, winnerBeat |-> w, doneBeat |-> d,
                             vote |-> "hidden", build |-> "hidden"])
      BY <1>3 DEF Reload, Loaded, Handle
    <3> HIDE DEF w, d
    <3>2. page' = Drawn(State, w, d)
      BY <3>1, RenderDraws
    <3>3. QED
      BY <3>2, DrawnFields
  <2>2. UNCHANGED <<mode, window, round, current>>
    BY <1>3 DEF Reload, modeVars, ballot, build
  <2>3. QED
    BY <1>0, <2>1, <2>2, StateFits DEF PageOK, PageFits
<1>4. CASE WinnerBeatEnds
  <2> DEFINE f == FALSE
  <2>1. page' = RenderVotePanel([page EXCEPT !.winnerBeat = f])
        /\ UNCHANGED <<online, mode, window, round, current>>
    BY <1>4 DEF WinnerBeatEnds, modeVars, ballot, build
  <2> HIDE DEF f
  <2>2. IsDrawn(page') /\ page'.latest = page.latest
    <3>1. IsDrawn(page)
      BY <1>0 DEF PageOK
    <3>2. page' = Drawn(page.latest, f, page.doneBeat)
      BY <2>1, <3>1, BeatsEnd
    <3>3. QED
      BY <3>2, DrawnFields
  <2>3. QED
    BY <1>0, <2>1, <2>2 DEF PageOK, PageFits
<1>5. CASE DoneBeatEnds
  <2> DEFINE f == FALSE
  <2>1. page' = RenderAll([page EXCEPT !.doneBeat = f])
        /\ UNCHANGED <<online, mode, window, round, current>>
    BY <1>5 DEF DoneBeatEnds, modeVars, ballot, build
  <2> HIDE DEF f
  <2>2. IsDrawn(page') /\ page'.latest = page.latest
    <3>1. IsDrawn(page)
      BY <1>0 DEF PageOK
    <3>2. page' = Drawn(page.latest, page.winnerBeat, f)
      BY <2>1, <3>1, BeatsEnd
    <3>3. QED
      BY <3>2, DrawnFields
  <2>3. QED
    BY <1>0, <2>1, <2>2 DEF PageOK, PageFits
<1>6. QED
  BY <1>1, <1>2, <1>3, <1>4, <1>5

LEMMA ShowStepsKeep ==
  ASSUME IInv,
         \/ WindowContinues \/ WindowOpens \/ WindowEnds
         \/ RoundOpens \/ RecordVote \/ TallyTimerFires \/ RoundCloses
         \/ Halt \/ \E a \in RecoveryActions : RecoverShow(a)
  PROVE  PageOK'
<1>0. PageOK /\ current \in Stages
  BY DEF IInv, TypeOK, BuildType
<1>1. CASE WindowContinues \/ WindowOpens \/ WindowEnds \/ RoundOpens \/ TallyTimerFires \/ Halt
  <2>1. Push(State') /\ current' = current
    BY <1>1 DEF WindowContinues, WindowOpens, WindowEnds, RoundOpens, TallyTimerFires, Halt, build
  <2>2. QED
    BY <1>0, <2>1, PushStateKeeps
<1>2. CASE RecordVote
  <2>1. UNCHANGED <<page, online, mode, window, round, current>>
    BY <1>2 DEF RecordVote, modeVars, build, Silent
  <2>2. QED
    BY <1>0, <2>1, SilentKeeps
<1>3. CASE RoundCloses
  <2> DEFINE s == [State' EXCEPT !.round = "closed"]
  <2>1. Push(s) /\ current' = current /\ round' = "none"
    BY <1>3 DEF RoundCloses, build
  <2>2. s.pill = State'.pill /\ s.window = State'.window /\ s.stage = State'.stage
        /\ s.round = "closed"
    BY DEF State
  <2> HIDE DEF s
  <2>3. s.stage \in Stages /\ Fits(s, mode', window', round', current')
    BY <1>0, <2>1, <2>2, StateFitsNext DEF Fits
  <2>4. QED
    BY <1>0, <2>1, <2>3, PushKeeps
<1>4. ASSUME NEW a \in RecoveryActions, RecoverShow(a)
      PROVE  PageOK'
  <2>1. /\ PushTwo([State' EXCEPT !.round = IF round # round' THEN "discarded" ELSE @], State')
        /\ current' = current
    BY <1>4 DEF RecoverShow, build
  <2>2. State'.stage \in Stages /\ Fits(State', mode', window', round', current')
    BY <1>0, <2>1, StateFitsNext
  <2>3. QED
    BY <1>0, <2>1, <2>2, PushTwoKeeps
<1>5. QED
  BY <1>1, <1>2, <1>3, <1>4

LEMMA BuildStepsKeep ==
  ASSUME IInv,
         \/ BuildStarts \/ PlanScreened \/ BatchScreened \/ BuildDone \/ BuildRefused
         \/ BuildNeedsDecision \/ BuildParked \/ BuildAborted \/ Skip \/ Retry
  PROVE  PageOK'
<1>0. PageOK /\ current \in Stages /\ {"none", "building", "failed"} \subseteq Stages
  BY DEF IInv, TypeOK, BuildType, Stages
<1>1. CASE \/ BuildStarts \/ BuildNeedsDecision \/ BuildParked \/ BuildAborted \/ Skip \/ Retry
  <2>1. Push(State') /\ current' \in {current, "none", "building", "failed"}
    BY <1>1 DEF BuildStarts, BuildNeedsDecision, BuildParked, BuildAborted, Skip, Retry,
                EmitStage, Collapse, LeaveBuild
  <2>2. QED
    BY <1>0, <2>1, PushStateKeeps
<1>2. CASE PlanScreened
  <2>1. CASE EmitStage("building")
    BY <1>0, <2>1, PushStateKeeps DEF EmitStage
  <2>2. CASE UNCHANGED current /\ Silent
    <3>1. UNCHANGED <<page, online, mode, window, round, current>>
      BY <1>2, <2>2 DEF PlanScreened, modeVars, ballot, Silent
    <3>2. QED
      BY <1>0, <3>1, SilentKeeps
  <2>3. QED
    BY <1>2, <2>1, <2>2 DEF PlanScreened
<1>3. CASE BatchScreened
  <2>1. UNCHANGED <<page, online, mode, window, round, current>>
    BY <1>3 DEF BatchScreened, modeVars, ballot, Silent
  <2>2. QED
    BY <1>0, <2>1, SilentKeeps
<1>4. ASSUME NEW stage \in {"done", "refused"}, Finalize(stage)
      PROVE  PageOK'
  <2> DEFINE told == [State EXCEPT !.stage = stage]
  <2>1. /\ current' = "none" /\ UNCHANGED <<window, round>>
        /\ mode' = IF mode = "BUILD_IN_PROGRESS" THEN "IDLE" ELSE mode
        /\ IF mode = "BUILD_IN_PROGRESS" THEN PushTwo(told, State') ELSE Push(told)
    BY <1>4 DEF Finalize, LeaveBuild, ballot
  <2>2. CASE mode = "BUILD_IN_PROGRESS"
    <3>1. State'.stage \in Stages /\ Fits(State', mode', window', round', current')
      BY <1>0, <2>1, StateFitsNext
    <3>2. QED
      BY <1>0, <2>1, <2>2, <3>1, PushTwoKeeps
  <2>3. CASE mode # "BUILD_IN_PROGRESS"
    <3>1. told.pill = State.pill /\ told.window = State.window /\ told.round = State.round
          /\ told.stage = stage
      BY DEF State
    <3> HIDE DEF told
    <3>2. told.stage \in Stages
      BY <3>1 DEF Stages
    <3>3. Fits(told, mode', window', round', current')
      BY <2>1, <2>3, <3>1, StateFits DEF Fits
    <3>4. QED
      BY <1>0, <2>1, <2>3, <3>2, <3>3, PushKeeps
  <2>4. QED
    BY <2>2, <2>3
<1>5. QED
  BY <1>1, <1>2, <1>3, <1>4 DEF BuildDone, BuildRefused

LEMMA PageKept ==
  ASSUME IInv, [Next]_vars
  PROVE  PageOK'
<1>1. CASE UNCHANGED vars
  BY <1>1, SilentKeeps DEF IInv, vars, modeVars, ballot, build
<1>2. QED
  BY <1>1, PageStepsKeep, ShowStepsKeep, BuildStepsKeep DEF Next

-------------------------------------------------------------------------------
(***************************************************************************)
(* The parts of the show                                                   *)
(***************************************************************************)

LEMMA InitHolds == Init => IInv
<1> SUFFICES ASSUME Init PROVE IInv
  OBVIOUS
<1>1. ModeTypeOK
  BY DEF Init, ModeInit, ModeTypeOK, Modes, ActiveModes
<1>2. round \in {"none", "open", "frozen"} /\ votes \in 0..MaxVotes /\ BuildType
  BY OverlayAssumption DEF Init, OverlayAssumption, BuildType, Stages
<1>3. FlagsType
  BY DEF Init, FlagsType
<1>4. IsDrawn(page) /\ page.latest = State
  <2> DEFINE w == FALSE \/ State.round = "closed"
             d == State.stage = "done" \/ (FALSE /\ State.stage = "none")
  <2>1. page = RenderAll([latest |-> State, winnerBeat |-> w, doneBeat |-> d,
                          vote |-> "hidden", build |-> "hidden"])
    BY DEF Init, Loaded, Handle
  <2> HIDE DEF w, d
  <2>2. page = Drawn(State, w, d)
    BY <2>1, RenderDraws
  <2>3. QED
    BY <2>2, DrawnFields
<1>5. PageOK
  BY <1>2, <1>4, StateFits DEF PageOK, PageFits, BuildType
<1>6. QED
  BY <1>1, <1>2, <1>3, <1>5, PagePanels DEF IInv, TypeOK, PageOK

LEMMA RecoveryCases ==
  ASSUME IInv, NEW a \in RecoveryActions, Recover(a)
  PROVE  RecoveryTarget(a, haltedFrom) \in ActiveModes
BY DEF IInv, TypeOK, ModeTypeOK, Recover, RecoveryTarget, RecoveryActions, ActiveModes, NoMode

LEMMA ModeKept ==
  ASSUME IInv, [Next]_vars
  PROVE  ModeTypeOK'
<1>0. ModeTypeOK
  BY DEF IInv, TypeOK
<1>1. CASE Halt
  BY <1>0, <1>1 DEF Halt, ForceHalt, ModeTypeOK, Modes, ActiveModes, NoMode
<1>2. ASSUME NEW a \in RecoveryActions, RecoverShow(a)
      PROVE  ModeTypeOK'
  <2>1. Recover(a)
    BY <1>2 DEF RecoverShow
  <2>2. QED
    BY <2>1, RecoveryCases DEF Recover, ModeTypeOK, Modes, ActiveModes
<1>3. CASE \/ WinnerBeatEnds \/ DoneBeatEnds \/ SocketCloses \/ Reconnect \/ Reload
           \/ WindowContinues \/ WindowOpens \/ WindowEnds
           \/ RoundOpens \/ RecordVote \/ TallyTimerFires \/ RoundCloses
  BY <1>0, <1>3 DEF WinnerBeatEnds, DoneBeatEnds, SocketCloses, Reconnect, Reload,
      WindowContinues, WindowOpens, WindowEnds, RoundOpens, RecordVote, TallyTimerFires,
      RoundCloses, modeVars, ModeTypeOK, Modes, ActiveModes
<1>4. CASE \/ BuildStarts \/ PlanScreened \/ BatchScreened \/ BuildDone \/ BuildRefused
           \/ BuildNeedsDecision \/ BuildParked \/ BuildAborted \/ Skip \/ Retry
  BY <1>0, <1>4 DEF BuildStarts, PlanScreened, BatchScreened, BuildDone, BuildRefused,
      BuildNeedsDecision, BuildParked, BuildAborted, Skip, Retry, Finalize, LeaveBuild,
      modeVars, ModeTypeOK, Modes, ActiveModes
<1>5. CASE UNCHANGED vars
  BY <1>0, <1>5 DEF vars, modeVars, ModeTypeOK
<1>6. QED
  BY <1>1, <1>2, <1>3, <1>4, <1>5 DEF Next

LEMMA RoundKept ==
  ASSUME IInv, [Next]_vars
  PROVE  round' \in {"none", "open", "frozen"} /\ votes' \in 0..MaxVotes
<1>0. /\ round \in {"none", "open", "frozen"} /\ votes \in 0..MaxVotes
      /\ MaxVotes \in Nat
  BY OverlayAssumption DEF IInv, TypeOK, OverlayAssumption
<1>1. CASE Halt
  BY <1>0, <1>1 DEF Halt
<1>2. ASSUME NEW a \in RecoveryActions, RecoverShow(a)
      PROVE  round' \in {"none", "open", "frozen"} /\ votes' \in 0..MaxVotes
  <2>1. Recover(a) /\ mode' \in ActiveModes
    BY <1>2, RecoveryCases DEF RecoverShow, Recover
  <2>2. QED
    BY <1>0, <1>2, <2>1 DEF RecoverShow, ActiveModes
<1>3. CASE \/ WinnerBeatEnds \/ DoneBeatEnds \/ SocketCloses \/ Reconnect \/ Reload
           \/ WindowContinues \/ WindowOpens \/ WindowEnds
           \/ RoundOpens \/ RecordVote \/ TallyTimerFires \/ RoundCloses
  BY <1>0, <1>3 DEF WinnerBeatEnds, DoneBeatEnds, SocketCloses, Reconnect, Reload,
      WindowContinues, WindowOpens, WindowEnds, RoundOpens, RecordVote, TallyTimerFires,
      RoundCloses, modeVars, ballot
<1>4. CASE \/ BuildStarts \/ PlanScreened \/ BatchScreened \/ BuildDone \/ BuildRefused
           \/ BuildNeedsDecision \/ BuildParked \/ BuildAborted \/ Skip \/ Retry
  BY <1>0, <1>4 DEF BuildStarts, PlanScreened, BatchScreened, BuildDone, BuildRefused,
      BuildNeedsDecision, BuildParked, BuildAborted, Skip, Retry, Finalize, LeaveBuild,
      modeVars, ballot
<1>5. CASE UNCHANGED vars
  BY <1>0, <1>5 DEF vars, modeVars, ballot
<1>6. QED
  BY <1>1, <1>2, <1>3, <1>4, <1>5 DEF Next

LEMMA BuildKept ==
  ASSUME IInv, [Next]_vars
  PROVE  BuildType'
<1>0. BuildType
  BY DEF IInv, TypeOK
<1>1. CASE Halt \/ \E a \in RecoveryActions : RecoverShow(a)
  <2>1. CASE Halt
    <3>1. job' = job /\ current' = current /\ (killed' => job # "none")
      BY <2>1, Zenon DEF Halt
    <3>2. QED
      BY <1>0, <3>1 DEF BuildType
  <2>2. ASSUME NEW a \in RecoveryActions, RecoverShow(a)
        PROVE  BuildType'
    <3>1. job' = job /\ current' = current /\ killed' = killed
      BY <2>2, Zenon DEF RecoverShow, build
    <3>2. QED
      BY <1>0, <3>1 DEF BuildType
  <2>3. QED
    BY <1>1, <2>1, <2>2
<1>2. CASE \/ WinnerBeatEnds \/ DoneBeatEnds \/ SocketCloses \/ Reconnect \/ Reload
           \/ WindowContinues \/ WindowOpens \/ WindowEnds
           \/ RoundOpens \/ RecordVote \/ TallyTimerFires \/ RoundCloses
  BY <1>0, <1>2 DEF WinnerBeatEnds, DoneBeatEnds, SocketCloses, Reconnect, Reload,
      WindowContinues, WindowOpens, WindowEnds, RoundOpens, RecordVote, TallyTimerFires,
      RoundCloses, build, BuildType
<1>3. CASE \/ BuildStarts \/ PlanScreened \/ BatchScreened \/ BuildDone \/ BuildRefused
           \/ BuildNeedsDecision \/ BuildParked \/ BuildAborted \/ Skip \/ Retry
  BY <1>0, <1>3 DEF BuildStarts, PlanScreened, BatchScreened, BuildDone, BuildRefused,
      BuildNeedsDecision, BuildParked, BuildAborted, Skip, Retry, Finalize, LeaveBuild,
      EmitStage, BuildType, Stages
<1>4. CASE UNCHANGED vars
  BY <1>0, <1>4 DEF vars, build, BuildType
<1>5. QED
  BY <1>1, <1>2, <1>3, <1>4 DEF Next

LEMMA FlagsKept ==
  ASSUME IInv, [Next]_vars
  PROVE  FlagsType'
<1>0. FlagsType
  BY DEF IInv, TypeOK
<1>1. CASE Halt
  BY <1>0, <1>1, Zenon DEF Halt, Push, FlagsType
<1>2. ASSUME NEW a \in RecoveryActions, RecoverShow(a)
      PROVE  FlagsType'
  <2>1. /\ window' = (window /\ RecoveryTarget(a, haltedFrom) # "IDLE")
        /\ tallyTimer' = tallyTimer /\ killed' = killed /\ online' = online
    BY <1>2, Zenon DEF RecoverShow, PushTwo, build
  <2>2. QED
    BY <1>0, <2>1, Zenon DEF FlagsType
<1>3. CASE WinnerBeatEnds \/ DoneBeatEnds \/ SocketCloses \/ Reconnect \/ Reload
  BY <1>0, <1>3, Zenon DEF WinnerBeatEnds, DoneBeatEnds, SocketCloses, Reconnect, Reload,
      ballot, build, FlagsType
<1>4. CASE WindowContinues \/ WindowOpens \/ WindowEnds
  BY <1>0, <1>4, Zenon DEF WindowContinues, WindowOpens, WindowEnds, Push, ballot, build, FlagsType
<1>5. CASE RoundOpens \/ RecordVote \/ TallyTimerFires \/ RoundCloses
  BY <1>0, <1>5, Zenon DEF RoundOpens, RecordVote, TallyTimerFires, RoundCloses, Push, Silent,
      build, FlagsType
<1>6. CASE BuildStarts \/ BatchScreened \/ BuildNeedsDecision \/ Retry
  BY <1>0, <1>6, Zenon DEF BuildStarts, BatchScreened, BuildNeedsDecision, Retry, EmitStage,
      Push, Silent, ballot, FlagsType
<1>7. CASE PlanScreened
  BY <1>0, <1>7, Zenon DEF PlanScreened, EmitStage, Push, Silent, ballot, FlagsType
<1>8. CASE BuildParked \/ BuildAborted \/ Skip
  BY <1>0, <1>8, Zenon DEF BuildParked, BuildAborted, Skip, LeaveBuild, Collapse, Push,
      ballot, FlagsType
<1>9. CASE BuildDone \/ BuildRefused
  <2>1. PICK stage : Finalize(stage)
    BY <1>9 DEF BuildDone, BuildRefused
  <2>2. online' = online /\ killed' = FALSE /\ UNCHANGED <<window, tallyTimer>>
    BY <2>1 DEF Finalize, LeaveBuild, PushTwo, Push, ballot
  <2>3. QED
    BY <1>0, <2>2, Zenon DEF FlagsType
<1>10. CASE UNCHANGED vars
  BY <1>0, <1>10, Zenon DEF vars, ballot, build, FlagsType
<1>11. QED
  BY <1>1, <1>2, <1>3, <1>4, <1>5, <1>6, <1>7, <1>8, <1>9, <1>10 DEF Next

LEMMA Invariance == Spec => []IInv
<1>1. IInv /\ [Next]_vars => IInv'
  <2> SUFFICES ASSUME IInv, [Next]_vars PROVE IInv'
    OBVIOUS
  <2>1. PageOK' /\ ModeTypeOK' /\ BuildType' /\ FlagsType'
    BY PageKept, ModeKept, BuildKept, FlagsKept
  <2>2. round' \in {"none", "open", "frozen"} /\ votes' \in 0..MaxVotes
    BY RoundKept
  <2>3. /\ page'.vote \in {"hidden", "round", "winner"}
        /\ page'.build \in (Stages \ {"none"}) \union {"hidden"}
    <3>1. /\ page'.vote = VoteOf(page'.latest, page'.winnerBeat, page'.doneBeat)
          /\ page'.build = BuildOf(page'.latest, page'.doneBeat)
          /\ page'.latest.stage \in Stages
      BY <2>1, DrawnFields DEF PageOK, IsDrawn
    <3>2. QED
      BY <3>1 DEF VoteOf, BuildOf, Stages
  <2>4. QED
    BY <2>1, <2>2, <2>3 DEF IInv, TypeOK
<1>2. QED
  BY <1>1, InitHolds, PTL DEF Spec

-------------------------------------------------------------------------------
(***************************************************************************)
(* The theorems                                                            *)
(***************************************************************************)

\* The parts of the show the overlay reads, and the panels of the page, are well typed.
THEOREM TypeCorrect == Spec => []TypeOK
<1>1. IInv => TypeOK
  BY DEF IInv
<1>2. QED
  BY <1>1, Invariance, PTL

\* While its socket is up the page never shows a mode, a window, a round or a running build
\* that is not so.
THEOREM PageIsCurrent == Spec => []OverlayCurrent
<1>1. IInv => OverlayCurrent
  BY DEF IInv, PageOK, PageFits, Fits, OverlayCurrent, Banner, PhaseBanner
<1>2. QED
  BY <1>1, Invariance, PTL

\* Every partial redraw leaves the panels as a full one would.
THEOREM RedrawsAgree == Spec => []PanelsAgree
<1>1. IInv => PanelsAgree
  <2> SUFFICES ASSUME IInv PROVE PanelsAgree
    OBVIOUS
  <2>1. page = [latest |-> page.latest, winnerBeat |-> page.winnerBeat,
                doneBeat |-> page.doneBeat, vote |-> page.vote, build |-> page.build]
    BY DEF IInv, PageOK, IsDrawn, Drawn
  <2>2. RenderAll(page) = Drawn(page.latest, page.winnerBeat, page.doneBeat)
    BY <2>1, RenderDraws
  <2>3. page = RenderAll(page)
    BY <2>2 DEF IInv, PageOK, IsDrawn
  <2>4. page.vote = VoteOf(page.latest, page.winnerBeat, page.doneBeat)
    BY DrawnFields DEF IInv, PageOK, IsDrawn
  <2>5. QED
    BY <2>3, <2>4 DEF PanelsAgree, PhaseBanner, VoteOf
<1>2. QED
  BY <1>1, Invariance, PTL

\* The vote panel and the build panel are never both on screen.
THEOREM PanelsShareTheSlot == Spec => []OneSlot
<1>1. IInv => OneSlot
  <2> SUFFICES ASSUME IInv PROVE OneSlot
    OBVIOUS
  <2>1. /\ page.vote = VoteOf(page.latest, page.winnerBeat, page.doneBeat)
        /\ page.build = BuildOf(page.latest, page.doneBeat)
    BY DrawnFields DEF IInv, PageOK, IsDrawn
  <2>2. QED
    BY <2>1 DEF OneSlot, VoteOf, BuildOf
<1>2. QED
  BY <1>1, Invariance, PTL

-------------------------------------------------------------------------------
(***************************************************************************)
(* The preview page                                                        *)
(***************************************************************************)

\* The visible frame is never navigated, a frame navigates to its src only, and a visible
\* frame that was ever a buffer has a document.
VisibleFrameIsLoaded ==
    /\ frame[front].nav = "none"
    /\ \A f \in Frames : frame[f].nav \in {"none", frame[f].src}
    /\ frame[front].hooked => frame[front].doc # Blank

PreviewInv == PreviewTypeOK /\ VisibleFrameIsLoaded

-------------------------------------------------------------------------------
(***************************************************************************)
(* The frames                                                              *)
(***************************************************************************)

LEMMA OtherIsTheOther ==
  /\ \A f \in Frames : Other(f) \in Frames /\ Other(f) # f
  /\ \A f, g \in Frames : f # g => f = Other(g)
BY DEF Frames, Other

LEMMA OpenedType == Opened \in FrameState
<1>1. Blank \in 0..ErrorPage
  BY PreviewAssumption DEF PreviewAssumption, Blank, ErrorPage
<1>2. QED
  BY <1>1 DEF Opened, FrameState

\* The buffer is given another src and navigates to it.
LEMMA NavigateKeeps ==
  ASSUME PreviewInv, NEW url \in {"blank", "app"}, NEW hook \in BOOLEAN,
         front' = front,
         frame' = [frame EXCEPT ![Other(front)] =
                     [frame[Other(front)] EXCEPT !.src = url, !.nav = url, !.hooked = hook]]
  PROVE  frame' \in [Frames -> FrameState] /\ VisibleFrameIsLoaded'
<1> DEFINE g == Other(front)
           new == [frame[g] EXCEPT !.src = url, !.nav = url, !.hooked = hook]
<1>1. front \in Frames /\ g \in Frames /\ g # front /\ frame \in [Frames -> FrameState]
  BY OtherIsTheOther DEF PreviewInv, PreviewTypeOK, FramesType
<1>2. frame[g] \in FrameState
  BY <1>1
<1>3. new \in FrameState /\ new.nav = new.src
  BY <1>2 DEF FrameState
<1>4. frame' = [frame EXCEPT ![g] = new]
  OBVIOUS
<1> HIDE DEF g, new
<1>5. frame' \in [Frames -> FrameState]
  BY <1>1, <1>3, <1>4
<1>6. frame'[front] = frame[front]
  BY <1>1, <1>4
<1>7. \A f \in Frames : frame'[f].nav \in {"none", frame'[f].src}
  BY <1>1, <1>3, <1>4 DEF PreviewInv, VisibleFrameIsLoaded
<1>8. QED
  BY <1>5, <1>6, <1>7 DEF PreviewInv, VisibleFrameIsLoaded, Blank

LEMMA LoadIntoBufferKeeps ==
  ASSUME PreviewInv, LoadIntoBuffer
  PROVE  FramesType' /\ VisibleFrameIsLoaded'
<1>1. timers' \in 0..MaxTimers
  BY PreviewAssumption DEF LoadIntoBuffer, PreviewInv, PreviewTypeOK, FramesType, PreviewAssumption
<1>2. frame' \in [Frames -> FrameState] /\ VisibleFrameIsLoaded'
  BY NavigateKeeps DEF LoadIntoBuffer
<1>3. QED
  BY <1>1, <1>2
     DEF LoadIntoBuffer, PreviewInv, PreviewTypeOK, FramesType, FrameState, ErrorPage

LEMMA TimeoutKeeps ==
  ASSUME PreviewInv, TimeoutFires
  PROVE  FramesType' /\ VisibleFrameIsLoaded'
<1>1. frame[Other(front)] \in FrameState
  BY OtherIsTheOther DEF PreviewInv, PreviewTypeOK, FramesType
<1>2. [frame[Other(front)] EXCEPT !.src = "app", !.nav = "app"] =
        [frame[Other(front)] EXCEPT !.src = "app", !.nav = "app",
                                    !.hooked = frame[Other(front)].hooked]
  BY <1>1 DEF FrameState
<1>3. frame[Other(front)].hooked \in BOOLEAN
  BY <1>1 DEF FrameState
<1>4. frame' \in [Frames -> FrameState] /\ VisibleFrameIsLoaded'
  BY <1>2, <1>3, NavigateKeeps DEF TimeoutFires
<1>5. timers' \in 0..MaxTimers
  BY PreviewAssumption DEF TimeoutFires, PreviewInv, PreviewTypeOK, FramesType, PreviewAssumption
<1>6. QED
  BY <1>4, <1>5 DEF TimeoutFires, PreviewInv, PreviewTypeOK, FramesType, FrameState, ErrorPage

\* What a navigation to an app arrives at is no blank page.
LEMMA DocumentType ==
  ASSUME ServerType, NEW nav \in {"blank", "app"}
  PROVE  Document(nav) \in 0..ErrorPage /\ (nav = "app" => Document(nav) # Blank)
BY PreviewAssumption DEF ServerType, Document, Blank, ErrorPage, PreviewAssumption

\* Only the buffer can be swapped in, and only over an app or the page of a server that is down.
LEMMA FrameLoadsKeeps ==
  ASSUME PreviewInv, NEW f \in Frames, FrameLoads(f)
  PROVE  FramesType' /\ VisibleFrameIsLoaded'
<1> DEFINE new == [frame[f] EXCEPT !.doc = Document(frame[f].nav), !.nav = "none"]
<1>0. front \in Frames /\ frame \in [Frames -> FrameState] /\ frame[f] \in FrameState
  BY DEF PreviewInv, PreviewTypeOK, FramesType
<1>1. frame' = [frame EXCEPT ![f] = new]
  BY DEF FrameLoads
<1>2. frame[f].nav \in {"blank", "app"} /\ frame[f].nav = frame[f].src
  BY <1>0 DEF FrameLoads, PreviewInv, VisibleFrameIsLoaded, FrameState
<1>3. Document(frame[f].nav) \in 0..ErrorPage
      /\ (frame[f].nav = "app" => Document(frame[f].nav) # Blank)
  BY <1>2, DocumentType DEF PreviewInv, PreviewTypeOK
<1>4. /\ new \in FrameState /\ new.nav = "none" /\ new.src = frame[f].src
      /\ new.hooked = frame[f].hooked /\ new.doc = Document(frame[f].nav)
  BY <1>0, <1>3 DEF FrameState
<1> HIDE DEF new
<1>5. f = Other(front) /\ f # front
  BY <1>0, OtherIsTheOther DEF FrameLoads, PreviewInv, VisibleFrameIsLoaded
<1>6. frame'[f] = new /\ frame'[front] = frame[front] /\ frame' \in [Frames -> FrameState]
  BY <1>0, <1>1, <1>4, <1>5
<1>7. \/ front' = front /\ awaiting' = awaiting
      \/ front' = f /\ awaiting' = FALSE /\ frame[f].src # "blank"
  BY <1>5 DEF FrameLoads, Swaps
<1>8. FramesType'
  BY <1>6, <1>7 DEF FrameLoads, PreviewInv, PreviewTypeOK, FramesType, FrameState, ErrorPage
<1>9. \A g \in Frames : frame'[g].nav \in {"none", frame'[g].src}
  BY <1>0, <1>1, <1>4 DEF PreviewInv, VisibleFrameIsLoaded
<1>10. CASE front' = front
  BY <1>6, <1>8, <1>9, <1>10 DEF PreviewInv, VisibleFrameIsLoaded, Blank
<1>11. CASE front' = f /\ frame[f].src # "blank"
  <2>1. frame'[front'].nav = "none" /\ frame'[front'].doc # Blank
    BY <1>2, <1>3, <1>4, <1>6, <1>11
  <2>2. QED
    BY <1>8, <1>9, <2>1 DEF PreviewInv, VisibleFrameIsLoaded, Blank
<1>12. QED
  BY <1>7, <1>10, <1>11

LEMMA ReloadKeeps ==
  ASSUME ReloadPage
  PROVE  FramesType' /\ VisibleFrameIsLoaded'
<1>1. frame' \in [Frames -> FrameState] /\ front' \in Frames
  BY OpenedType DEF ReloadPage, Frames
<1>2. timers' \in 0..MaxTimers
  BY PreviewAssumption DEF ReloadPage, PreviewAssumption
<1>3. frame'[front'] = Opened /\ \A f \in Frames : frame'[f] = Opened
  BY DEF ReloadPage, Frames
<1>4. VisibleFrameIsLoaded'
  BY <1>3 DEF VisibleFrameIsLoaded, Opened
<1>5. QED
  BY <1>1, <1>2, <1>4 DEF FramesType, FrameState, ErrorPage

-------------------------------------------------------------------------------
(***************************************************************************)
(* Every step keeps the invariant, part by part                            *)
(***************************************************************************)

LEMMA PreviewInitHolds == PreviewInit => PreviewInv
<1> SUFFICES ASSUME PreviewInit PROVE PreviewInv
  OBVIOUS
<1> USE DEF PreviewInit, PageInit
<1>1. FramesType
  BY OpenedType, PreviewAssumption DEF Frames, FramesType, PreviewAssumption
<1>2. VisibleFrameIsLoaded
  BY DEF Frames, Opened, VisibleFrameIsLoaded
<1>3. ServerType /\ CountType
  BY PreviewAssumption DEF ServerType, CountType, PreviewAssumption
<1>4. PollsType
  <2>1. asked = 0 /\ answers = [o \in Outcomes |-> 0]
    OBVIOUS
  <2>2. answers["app"] = 0 /\ answers["none"] = 0
    BY <2>1 DEF Outcomes
  <2>3. QED
    BY <2>1, <2>2, PreviewAssumption DEF PollsType, PreviewAssumption
<1>5. PageFlagsType /\ ChromeAgrees
  BY DEF PageFlagsType, ChromeAgrees
<1>6. QED
  BY <1>1, <1>2, <1>3, <1>4, <1>5 DEF PreviewInv, PreviewTypeOK

LEMMA FramesMoves ==
  ASSUME [PreviewNext]_previewVars
  PROVE  \/ UNCHANGED frames \/ LoadIntoBuffer \/ TimeoutFires \/ ReloadPage
         \/ \E f \in Frames : FrameLoads(f)
BY DEF PreviewNext, previewVars, StopServer, StartServer, BuildWrites, Poll, Probe, PollFails, Answer, GoLive,
       StandBy, Refresh

LEMMA FramesKept ==
  ASSUME PreviewInv, [PreviewNext]_previewVars
  PROVE  FramesType' /\ VisibleFrameIsLoaded'
<1>1. CASE UNCHANGED frames
  BY <1>1 DEF PreviewInv, PreviewTypeOK, FramesType, VisibleFrameIsLoaded, frames, Blank, FrameState, ErrorPage
<1>2. CASE LoadIntoBuffer
  BY <1>2, LoadIntoBufferKeeps
<1>3. CASE TimeoutFires
  BY <1>3, TimeoutKeeps
<1>4. CASE \E f \in Frames : FrameLoads(f)
  BY <1>4, FrameLoadsKeeps
<1>5. CASE ReloadPage
  BY <1>5, ReloadKeeps
<1>6. QED
  BY <1>1, <1>2, <1>3, <1>4, <1>5, FramesMoves

LEMMA ServerKept ==
  ASSUME PreviewInv, [PreviewNext]_previewVars
  PROVE  ServerType'
<1>1. CASE UNCHANGED server
  BY <1>1 DEF server, PreviewInv, PreviewTypeOK, ServerType
<1>2. CASE StopServer \/ StartServer \/ BuildWrites
  BY <1>2, PreviewAssumption
     DEF StopServer, StartServer, BuildWrites, PreviewInv, PreviewTypeOK, ServerType, PreviewAssumption
<1>3. QED
  BY <1>1, <1>2
     DEF PreviewNext, previewVars, Poll, Probe, PollFails, Answer, Refresh, TimeoutFires, FrameLoads, ReloadPage

LEMMA PollsKept ==
  ASSUME PreviewInv, [PreviewNext]_previewVars
  PROVE  PollsType'
<1>0. /\ asked \in Nat /\ answers \in [Outcomes -> Nat] /\ MaxPolls \in Nat
      /\ asked + answers["app"] + answers["none"] <= MaxPolls
  BY PreviewAssumption DEF PreviewAssumption, PreviewInv, PreviewTypeOK, PollsType
<1>1. answers["app"] \in Nat /\ answers["none"] \in Nat
  BY <1>0 DEF Outcomes
<1>2. CASE UNCHANGED polls
  BY <1>0, <1>2 DEF polls, PollsType
<1>3. CASE Poll
  <2>1. asked' = asked + 1 /\ answers' = answers
        /\ asked + answers["app"] + answers["none"] < MaxPolls
    BY <1>3 DEF Poll
  <2>2. QED
    BY <1>0, <1>1, <2>1 DEF PollsType
<1>4. CASE Probe
  <2>1. asked > 0 /\ asked' = asked - 1
    BY <1>4 DEF Probe
  <2>2. CASE answers' = [answers EXCEPT !["app"] = @ + 1]
    BY <1>0, <1>1, <2>1, <2>2 DEF PollsType, Outcomes
  <2>3. CASE answers' = [answers EXCEPT !["none"] = @ + 1]
    BY <1>0, <1>1, <2>1, <2>3 DEF PollsType, Outcomes
  <2>4. QED
    BY <1>4, <2>2, <2>3 DEF Probe, Found
<1>5. CASE PollFails
  <2>1. asked > 0 /\ asked' = asked - 1 /\ answers' = answers
    BY <1>5 DEF PollFails
  <2>2. QED
    BY <1>0, <1>1, <2>1 DEF PollsType
<1>6. CASE \E o \in Outcomes : Answer(o)
  BY <1>0, <1>1, <1>6 DEF Answer, PollsType, Outcomes
<1>7. CASE ReloadPage
  <2>1. asked' = 0 /\ answers' = [o \in Outcomes |-> 0]
    BY <1>7 DEF ReloadPage
  <2>2. QED
    BY <1>0, <2>1 DEF PollsType, Outcomes
<1>8. QED
  BY <1>2, <1>3, <1>4, <1>5, <1>6, <1>7
     DEF PreviewNext, previewVars, StopServer, StartServer, BuildWrites, Refresh, TimeoutFires, FrameLoads

\* The chrome changes as one: live, or standing by, or not contacted yet.
LEMMA PageFlagsKept ==
  ASSUME PreviewInv, [PreviewNext]_previewVars
  PROVE  PageFlagsType' /\ ChromeAgrees'
<1>1. up' \in BOOLEAN
  BY Zenon
     DEF PreviewNext, previewVars, server, StopServer, StartServer, BuildWrites, Poll, Probe, PollFails, Answer,
         Refresh, TimeoutFires, FrameLoads, ReloadPage, PreviewInv, PreviewTypeOK, PageFlagsType
<1>2. awaiting' \in BOOLEAN
  <2>1. CASE UNCHANGED frames
    BY <2>1, Zenon DEF frames, PreviewInv, PreviewTypeOK, PageFlagsType
  <2>2. CASE LoadIntoBuffer
    BY <2>2, Zenon DEF LoadIntoBuffer
  <2>3. CASE TimeoutFires
    BY <2>3, Zenon DEF TimeoutFires, PreviewInv, PreviewTypeOK, PageFlagsType
  <2>4. CASE \E f \in Frames : FrameLoads(f)
    BY <2>4, Zenon DEF FrameLoads, PreviewInv, PreviewTypeOK, PageFlagsType
  <2>5. CASE ReloadPage
    BY <2>5, Zenon DEF ReloadPage
  <2>6. QED
    BY <2>1, <2>2, <2>3, <2>4, <2>5, FramesMoves
<1>3. \/ UNCHANGED chrome
      \/ live' = FALSE /\ was' = FALSE /\ refreshing' = FALSE /\ reached' = reached
      \/ live' = FALSE /\ was' = FALSE /\ refreshing' = FALSE /\ reached' = FALSE
      \/ live' = TRUE /\ was' = TRUE /\ refreshing' = TRUE /\ reached' = TRUE
  BY Zenon
     DEF PreviewNext, previewVars, StopServer, StartServer, BuildWrites, Poll, Probe, PollFails, Answer, GoLive,
         StandBy, Refresh, TimeoutFires, FrameLoads, ReloadPage
<1>4. /\ reached' \in BOOLEAN /\ was' \in BOOLEAN /\ live' \in BOOLEAN /\ refreshing' \in BOOLEAN
      /\ ChromeAgrees'
  <2>1. CASE UNCHANGED chrome
    BY <2>1 DEF chrome, PreviewInv, PreviewTypeOK, PageFlagsType, ChromeAgrees
  <2>2. CASE live' = FALSE /\ was' = FALSE /\ refreshing' = FALSE /\ reached' = reached
    BY <2>2, Zenon DEF PreviewInv, PreviewTypeOK, PageFlagsType, ChromeAgrees
  <2>3. CASE live' = FALSE /\ was' = FALSE /\ refreshing' = FALSE /\ reached' = FALSE
    BY <2>3, Zenon DEF ChromeAgrees
  <2>4. CASE live' = TRUE /\ was' = TRUE /\ refreshing' = TRUE /\ reached' = TRUE
    BY <2>4, Zenon DEF ChromeAgrees
  <2>5. QED
    BY <1>3, <2>1, <2>2, <2>3, <2>4
<1>5. QED
  BY <1>1, <1>2, <1>4 DEF PageFlagsType

LEMMA CountKept ==
  ASSUME PreviewInv, [PreviewNext]_previewVars
  PROVE  CountType'
<1>0. MaxFaults \in Nat /\ MaxReloads \in Nat
  BY PreviewAssumption DEF PreviewAssumption
<1>1. CASE UNCHANGED count
  BY <1>1 DEF count, PreviewInv, PreviewTypeOK, CountType
<1>2. CASE Probe \/ PollFails \/ ReloadPage
  BY <1>0, <1>2 DEF Probe, PollFails, ReloadPage, PreviewInv, PreviewTypeOK, CountType
<1>3. QED
  BY <1>1, <1>2
     DEF PreviewNext, previewVars, StopServer, StartServer, BuildWrites, Poll, Answer, Refresh, TimeoutFires,
         FrameLoads

LEMMA PreviewInvariance == PreviewSpec => []PreviewInv
<1>1. PreviewInv /\ [PreviewNext]_previewVars => PreviewInv'
  BY FramesKept, ServerKept, PollsKept, PageFlagsKept, CountKept DEF PreviewInv, PreviewTypeOK
<1>2. QED
  BY <1>1, PreviewInitHolds, PTL DEF PreviewSpec

-------------------------------------------------------------------------------

\* The page's state is well typed, it refreshes exactly while it is live, and it is live only
\* after first contact.
THEOREM PreviewTypeCorrect == PreviewSpec => []PreviewTypeOK
<1>1. PreviewInv => PreviewTypeOK
  BY DEF PreviewInv
<1>2. QED
  BY <1>1, PreviewInvariance, PTL

\* No reload ever blanks the frame the viewers see, whichever frames the timeouts and loads of
\* overlapping polls and refreshes land in.
THEOREM NeverShowsABlank == PreviewSpec => []NeverBlank
<1>1. PreviewInv => NeverBlank
  BY DEF PreviewInv, VisibleFrameIsLoaded, NeverBlank, Shown
<1>2. QED
  BY <1>1, PreviewInvariance, PTL

=================================================================================

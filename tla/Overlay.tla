-------------------------------- MODULE Overlay --------------------------------
(***************************************************************************)
(* The public overlay: the server that pushes one full state to the page   *)
(* of the broadcast, and the page's panels and its two eight-second beats. *)
(*                                                                         *)
(* A push is read by the page at once or, while its socket is down, not at *)
(* all.  The beats live in the page only: the push that starts one is the  *)
(* only one that carries the closed round, or the build that is done.      *)
(***************************************************************************)
EXTENDS StreamMode, Naturals

CONSTANT MaxVotes       \* bound: votes of a round

OverlayAssumption == MaxVotes \in Nat

ASSUME OverlayAssumption

VARIABLES
    window,     \* a paid window is live
    round,      \* none, open, or frozen by a halt
    votes,      \* the tally of the round
    tallyTimer, \* a vote armed the debounced push
    job,        \* what the build pipeline does
    killed,     \* a halt aborted it and it has not settled
    current,    \* the stage build.snapshot() holds
    online,     \* the page holds a socket
    page        \* the page

build  == <<job, killed, current>>
ballot == <<round, votes, tallyTimer>>
vars   == <<modeVars, window, ballot, build, online, page>>

PillByMode ==
    [m \in Modes |->
        CASE m = "IDLE"              -> "STANDBY"
          [] m = "VOTING_ROUND"      -> "VOTING OPEN"
          [] m = "BUILD_IN_PROGRESS" -> "BUILDING"
          [] m = "FREE_REIGN_WINDOW" -> "FREE REIGN"
          [] m = "CHAOS_MODE"        -> "CHAOS"
          [] m = "HALTED"            -> "ON HOLD"]

\* buildOverlayState
State ==
    [pill |-> PillByMode[mode], window |-> window, stage |-> current,
     round |-> IF round = "none" THEN "none" ELSE "open", votes |-> votes]

-----------------------------------------------------------------------------
(* The page.                                                               *)

BuildPanelActive(p) == p.doneBeat \/ p.latest.stage \notin {"none", "done"}

\* renderVotePanel: the live round, or else the winner unless a build has the slot.
RenderVotePanel(p) ==
    [p EXCEPT !.vote = IF p.latest.round = "open" THEN "round"
                       ELSE IF p.winnerBeat /\ ~BuildPanelActive(p) THEN "winner" ELSE "hidden"]

\* renderBuildPanel: a stage done is shown by its beat alone.
RenderBuildPanel(p) ==
    [p EXCEPT !.build = IF p.latest.round = "open" \/ ~BuildPanelActive(p) THEN "hidden"
                        ELSE IF p.doneBeat THEN "done" ELSE p.latest.stage]

\* renderBanner and renderPhaseBanner, which draw what was sent last.
Banner(p)      == IF p.latest.window THEN "FREE REIGN" ELSE "DEMOCRATIC MODE"
PhaseBanner(p) == IF p.latest.round = "open" THEN "VOTE NOW" ELSE "nothing"

RenderAll(p) == RenderVotePanel(RenderBuildPanel(p))

\* startWinnerBeat, startDoneBeat, clearDoneBeat and the render of handleState.
Handle(p, s) ==
    RenderAll([latest |-> s,
               winnerBeat |-> p.winnerBeat \/ s.round = "closed",
               doneBeat |-> s.stage = "done" \/ (p.doneBeat /\ s.stage = "none"),
               vote |-> p.vote, build |-> p.build])

\* A page that has just been loaded.
Loaded(s) == Handle([latest |-> s, winnerBeat |-> FALSE, doneBeat |-> FALSE,
                     vote |-> "hidden", build |-> "hidden"], s)

WinnerBeatEnds ==
    /\ page.winnerBeat
    /\ page' = RenderVotePanel([page EXCEPT !.winnerBeat = FALSE])
    /\ UNCHANGED <<modeVars, window, ballot, build, online>>

\* Mutant of DoneBeatEnds: only the build panel is drawn again.
DoneBeatEndsAlone ==
    /\ page.doneBeat
    /\ page' = RenderBuildPanel([page EXCEPT !.doneBeat = FALSE])
    /\ UNCHANGED <<modeVars, window, ballot, build, online>>

DoneBeatEnds ==
    /\ page.doneBeat
    /\ page' = RenderAll([page EXCEPT !.doneBeat = FALSE])
    /\ UNCHANGED <<modeVars, window, ballot, build, online>>

SocketCloses ==
    /\ online /\ online' = FALSE
    /\ UNCHANGED <<modeVars, window, ballot, build, page>>

\* connect: the server sends the full state.
Reconnect ==
    /\ ~online /\ online' = TRUE
    /\ page' = Handle(page, State)
    /\ UNCHANGED <<modeVars, window, ballot, build>>

\* A scene switch loads the page again.
Reload ==
    /\ online' = TRUE
    /\ page' = Loaded(State)
    /\ UNCHANGED <<modeVars, window, ballot, build>>

\* pushState
Push(s)      == online' = online /\ page' = IF online THEN Handle(page, s) ELSE page
PushTwo(s, t) == online' = online /\ page' = IF online THEN Handle(Handle(page, s), t) ELSE page
Silent       == UNCHANGED <<online, page>>

Init ==
    /\ ModeInit
    /\ window = FALSE
    /\ round = "none" /\ votes = 0 /\ tallyTimer = FALSE
    /\ job = "none" /\ killed = FALSE
    /\ current = "none"
    /\ online = TRUE
    /\ page = Loaded(State)

-----------------------------------------------------------------------------
(* The mode, the window and the round.                                     *)

\* After a build the show goes back to a window that is live.
WindowContinues ==
    /\ mode = "IDLE" /\ window
    /\ mode' = "FREE_REIGN_WINDOW"
    /\ UNCHANGED <<haltedFrom, window, ballot, build>>
    /\ Push(State')

WindowOpens ==
    /\ ~window /\ mode = "IDLE"
    /\ window' = TRUE /\ mode' = "FREE_REIGN_WINDOW"
    /\ UNCHANGED <<haltedFrom, ballot, build>>
    /\ Push(State')

\* It expires or is revoked, in whatever mode the show is.
WindowEnds ==
    /\ window /\ window' = FALSE
    /\ mode' = IF mode = "FREE_REIGN_WINDOW" THEN "IDLE" ELSE mode
    /\ UNCHANGED <<haltedFrom, ballot, build>>
    /\ Push(State')

RoundOpens ==
    /\ round = "none" /\ mode \in {"IDLE", "BUILD_IN_PROGRESS"}
    /\ round' = "open"
    /\ mode' = IF mode = "IDLE" THEN "VOTING_ROUND" ELSE mode
    /\ UNCHANGED <<haltedFrom, window, votes, tallyTimer, build>>
    /\ Push(State')

\* Mutant of RecordVote: the spent timer is not forgotten, so no later vote arms one.
RecordVoteUnarmed ==
    /\ round = "open" /\ votes < MaxVotes
    /\ votes' = votes + 1 /\ tallyTimer' = (tallyTimer \/ votes = 0)
    /\ UNCHANGED <<modeVars, window, round, build>>
    /\ Silent

\* The first vote of a window arms the timer, the others ride on it.
RecordVote ==
    /\ round = "open" /\ votes < MaxVotes
    /\ votes' = votes + 1 /\ tallyTimer' = TRUE
    /\ UNCHANGED <<modeVars, window, round, build>>
    /\ Silent

TallyTimerFires ==
    /\ tallyTimer /\ tallyTimer' = FALSE
    /\ UNCHANGED <<modeVars, window, round, votes, build>>
    /\ Push(State')

\* closeRound: ROUND_CLOSED carries the snapshot of the round that is over.
RoundCloses ==
    /\ round = "open"
    /\ round' = "none" /\ votes' = 0
    /\ mode' = IF mode = "VOTING_ROUND" THEN "IDLE" ELSE mode
    /\ UNCHANGED <<haltedFrom, window, tallyTimer, build>>
    /\ Push([State' EXCEPT !.round = "closed"])

Halt ==
    /\ ForceHalt
    /\ round' = IF round = "open" THEN "frozen" ELSE round
    /\ killed' = (job # "none")
    /\ UNCHANGED <<window, votes, tallyTimer, job, current>>
    /\ Push(State')

\* A round that is discarded is pushed first, with a status the page has no beat for.
RecoverShow(action) ==
    LET target == RecoveryTarget(action, haltedFrom) IN
    /\ Recover(action)
    /\ round' = IF round = "none" \/ target = "IDLE" THEN "none"
                ELSE IF target \in {"VOTING_ROUND", "BUILD_IN_PROGRESS"} THEN "open" ELSE round
    /\ votes' = IF round' = "none" THEN 0 ELSE votes
    /\ window' = (window /\ target # "IDLE")
    /\ UNCHANGED <<tallyTimer, build>>
    /\ PushTwo([State' EXCEPT !.round = IF round # round' THEN "discarded" ELSE @], State')

-----------------------------------------------------------------------------
(* The build.                                                              *)

BuildStarts ==
    /\ job = "none"
    /\ mode \in {"IDLE", "FREE_REIGN_WINDOW"}
    /\ job' = "screening" /\ killed' = FALSE
    /\ mode' = "BUILD_IN_PROGRESS"
    /\ UNCHANGED <<haltedFrom, window, ballot, current>>
    /\ Push(State')

\* emitStage
EmitStage(stage) == current' = stage /\ Push(State')

\* The screen of the task lets it build, holds it or rejects it; an abort is only
\* looked for when it may build.
PlanScreened ==
    /\ job = "screening"
    /\ UNCHANGED <<modeVars, window, ballot, killed>>
    /\ \/ ~killed /\ job' = "building" /\ EmitStage("building")
       \/ job' \in {"held", "rejected"} /\ UNCHANGED current /\ Silent

\* An output batch is held or rejected; of a killed build no verdict is looked at.
BatchScreened ==
    /\ job = "building" /\ ~killed
    /\ job' \in {"held", "rejected"}
    /\ UNCHANGED <<modeVars, window, ballot, killed, current>>
    /\ Silent

\* What every end of a build does to the mode.
LeaveBuild ==
    /\ job' = "none" /\ killed' = FALSE
    /\ mode' = IF mode = "BUILD_IN_PROGRESS" THEN "IDLE" ELSE mode
    /\ current' = "none"
    /\ UNCHANGED <<haltedFrom, window, ballot>>

\* finalize: the stage is pushed, forgotten without a push, and a change of mode is pushed.
Finalize(stage) ==
    /\ LeaveBuild
    /\ LET told == [State EXCEPT !.stage = stage] IN
       IF mode = "BUILD_IN_PROGRESS" THEN PushTwo(told, State') ELSE Push(told)

\* The last look for an abort is before the probe of the workspace, so a build that a
\* halt kills may still be done.
BuildDone == job = "building" /\ Finalize("done")

BuildRefused == job = "rejected" /\ Finalize("refused")

\* enterDecision
BuildNeedsDecision ==
    /\ job = "building" /\ ~killed
    /\ job' = "none"
    /\ UNCHANGED <<modeVars, window, ballot, killed>>
    /\ EmitStage("failed")

\* Mutant of Collapse: only a change of mode is pushed.
CollapseSilently == IF mode' # mode THEN Push(State') ELSE Silent

\* BUILD_STAGE_CHANGED without a stage: the panel goes away.
Collapse == Push(State')

\* parkForReview, finalizeAborted and skipTask: the snapshot is nulled and the page told.
BuildParked ==
    /\ job = "held"
    /\ LeaveBuild
    /\ Collapse

BuildAborted ==
    /\ killed /\ job \in {"screening", "building"}
    /\ LeaveBuild
    /\ Collapse

Skip ==
    /\ current = "failed" /\ job = "none"
    /\ LeaveBuild
    /\ Collapse

\* retryBuild, of the build that is shown as failed.
Retry ==
    /\ current = "failed" /\ job = "none" /\ mode # "HALTED"
    /\ job' = "building" /\ killed' = FALSE
    /\ UNCHANGED <<modeVars, window, ballot>>
    /\ EmitStage("building")

-----------------------------------------------------------------------------
Next ==
    \/ WinnerBeatEnds
    \/ DoneBeatEnds
    \/ SocketCloses
    \/ Reconnect
    \/ Reload
    \/ WindowContinues
    \/ WindowOpens
    \/ WindowEnds
    \/ RoundOpens
    \/ RecordVote
    \/ TallyTimerFires
    \/ RoundCloses
    \/ Halt
    \/ \E a \in RecoveryActions : RecoverShow(a)
    \/ BuildStarts
    \/ PlanScreened
    \/ BatchScreened
    \/ BuildDone
    \/ BuildRefused
    \/ BuildNeedsDecision
    \/ BuildParked
    \/ BuildAborted
    \/ Skip
    \/ Retry

Spec == Init /\ [][Next]_vars

(***************************************************************************)
(* A timer that is armed fires, and the page's backoff ends in another     *)
(* attempt, which a server on the same machine accepts.                    *)
(***************************************************************************)
FairSpec == Spec /\ WF_vars(TallyTimerFires) /\ WF_vars(Reconnect)

-----------------------------------------------------------------------------
Stages == {"none", "building", "failed", "refused", "done"}

BuildType ==
    /\ job \in {"none", "screening", "building", "held", "rejected"}
    /\ current \in Stages \ {"done"}
    /\ killed => job # "none"

FlagsType ==
    /\ window \in BOOLEAN /\ tallyTimer \in BOOLEAN /\ killed \in BOOLEAN /\ online \in BOOLEAN

\* The type invariant: of the parts of the show the overlay reads, and of the page.
TypeOK ==
    /\ ModeTypeOK
    /\ round \in {"none", "open", "frozen"} /\ votes \in 0..MaxVotes
    /\ BuildType
    /\ FlagsType
    /\ page.vote \in {"hidden", "round", "winner"}
    /\ page.build \in (Stages \ {"none"}) \union {"hidden"}

\* While its socket is up the page has the mode, the window and whether a round runs as
\* they are, and never a build that is over as one that runs: every change of
\* these ends in a push.  Only the last word on a build may outlive it, done or refused,
\* for finalize forgets the stage after it has pushed it.
OverlayCurrent ==
    online =>
        /\ page.latest.pill = PillByMode[mode]
        /\ (Banner(page) = "FREE REIGN") <=> window
        /\ (PhaseBanner(page) = "VOTE NOW") <=> (round # "none")
        /\ \/ page.latest.stage = current
           \/ current = "none" /\ page.latest.stage \in {"done", "refused"}

\* The vote panel and the build panel share the lower left of the screen: never both
\* (the precedence that renderVotePanel and renderBuildPanel each work out alone).
OneSlot == page.vote = "hidden" \/ page.build = "hidden"

\* What a timer of the page draws again is enough: the panels on screen are those a full
\* render would draw, so no beat that ends leaves the slot empty or a panel behind, and
\* viewers are told to vote exactly while the options are on screen.
PanelsAgree ==
    /\ page = RenderAll(page)
    /\ (PhaseBanner(page) = "VOTE NOW") <=> (page.vote = "round")

\* A vote that was counted reaches the screen, unless its round is over or frozen first:
\* the debounce drops pushes, never the last one.
TallyIsShown ==
    \A n \in 1..MaxVotes :
        (round = "open" /\ votes >= n) ~> (page.latest.votes >= n \/ round # "open")
=============================================================================

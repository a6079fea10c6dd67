-------------------------------- MODULE Console --------------------------------
(***************************************************************************)
(* The operator console: a page in the streamer's browser, the web socket  *)
(* that brings it the state of the show, and the requests it posts back.   *)
(*                                                                         *)
(* The page draws the last state it was sent.  The server sends the whole  *)
(* state on connect and on the events it subscribes to; a request is       *)
(* handled when it arrives, against the state of that moment.  Beside the  *)
(* page the panic key can halt the show, and the composition root keeps    *)
(* one timer for the line that a window has 30 seconds left.               *)
(***************************************************************************)
EXTENDS StreamMode, Naturals

CONSTANT MaxWindows     \* bound: paid windows, numbered in the order they are paid

ConsoleAssumption == MaxWindows \in Nat

ASSUME ConsoleAssumption

VARIABLES
    chaos,      \* chaosOn
    round,      \* none, open, or frozen by a halt
    enough,     \* the pool holds candidates enough for a round
    window,     \* the live window, NoWindow when there is none
    banked,     \* the window paid for and waiting for IDLE
    ticking,    \* the live window's expiry timer is armed
    paid,       \* windows paid for so far
    beat,       \* the window the 30-second timer was armed for
    build,      \* none, screening, building or failed
    killed,     \* a halt aborted the build and it has not settled
    tapped,     \* the panic key was pressed once within its two seconds
    online,     \* a push reaches the page
    seen,       \* the state the page draws
    reason      \* what the page's row of reason tags is about

show   == <<modeVars, chaos, round, enough, window, banked, ticking, paid, beat, build, killed>>
socket == <<online, seen>>

consoleVars == <<show, tapped, socket, reason>>

NoWindow == 0
Windows  == 1..MaxWindows

\* buildState: of a build, what emitStage made current; of the windows, the one that is live
\* or else the banked one.
State ==
    [mode |-> mode, chaos |-> chaos, round |-> round,
     enough |-> enough, window |-> window # NoWindow \/ banked # NoWindow,
     build |-> IF build = "screening" THEN "none" ELSE build]

ConsoleInit ==
    /\ ModeInit
    /\ chaos = FALSE /\ round = "none" /\ enough = FALSE
    /\ window = NoWindow /\ banked = NoWindow /\ ticking = FALSE /\ paid = 0 /\ beat = NoWindow
    /\ build = "none" /\ killed = FALSE
    /\ tapped = FALSE
    /\ online = TRUE /\ seen = State
    /\ reason = "none"

\* pushState, and the page's handler, which draws what it is sent.  A message or a
\* request still under way is a page that is not online: it clicks on what it saw last.
Send(state) == seen' = (IF online THEN state ELSE seen) /\ UNCHANGED online
Push   == Send(State')
NoPush == UNCHANGED socket
PushIf(told) == IF told THEN Push ELSE NoPush

-----------------------------------------------------------------------------
(* The paid windows.                                                       *)

\* armWindowThirtyBeat, for a window of a minute or more.
ArmBeat(w) == beat' \in {w, NoWindow}

\* Mutant of ClearBeat: the timer of a window that is over stays armed.
KeepBeat == UNCHANGED beat

ClearBeat == beat' = NoWindow

\* #openFromPending, inside the transition to IDLE, and the beat of its WINDOW_OPENED.
Promote ==
    /\ mode' = "FREE_REIGN_WINDOW"
    /\ window' = banked /\ banked' = NoWindow /\ ticking' = TRUE
    /\ ArmBeat(banked)

\* A transition to IDLE and the listeners of its event.
GoIdle ==
    IF window = NoWindow /\ banked # NoWindow
    THEN Promote
    ELSE mode' = "IDLE" /\ UNCHANGED <<window, banked, ticking, beat>>

\* A tip or a redemption that open() grants: the window opens, or is banked.
Tip ==
    /\ paid < MaxWindows /\ paid' = paid + 1
    /\ window = NoWindow /\ banked = NoWindow /\ mode # "HALTED"
    /\ IF mode = "IDLE"
       THEN /\ mode' = "FREE_REIGN_WINDOW" /\ window' = paid' /\ ticking' = TRUE
            /\ ArmBeat(paid') /\ UNCHANGED banked
       ELSE banked' = paid' /\ UNCHANGED <<mode, window, ticking, beat>>
    /\ UNCHANGED <<haltedFrom, chaos, round, enough, build, killed, tapped, reason>>
    /\ Push

\* The line "30 seconds left" is said.
BeatFires ==
    /\ beat # NoWindow
    /\ beat' = NoWindow
    /\ UNCHANGED <<modeVars, chaos, round, enough, window, banked, ticking, paid, build, killed,
                   tapped, reason>>
    /\ NoPush

\* #expire: the mode is left before the window is forgotten, and the console hears
\* the mode; it hears of the end only if the cadence begins a phase on it.
Expire ==
    /\ window # NoWindow /\ ticking /\ beat # window
    /\ mode' = IF mode = "FREE_REIGN_WINDOW" THEN "IDLE" ELSE mode
    /\ window' = NoWindow /\ ticking' = FALSE
    /\ ClearBeat
    /\ UNCHANGED <<haltedFrom, chaos, round, enough, banked, paid, build, killed, tapped, reason>>
    /\ \/ Push
       \/ mode = "FREE_REIGN_WINDOW" /\ Send([State' EXCEPT !.window = TRUE])
       \/ mode # "FREE_REIGN_WINDOW" /\ NoPush

\* revoke: the live window, or else the banked one.
RevokeWindow ==
    /\ mode' = IF window # NoWindow /\ mode = "FREE_REIGN_WINDOW" THEN "IDLE" ELSE mode
    /\ window' = NoWindow
    /\ banked' = IF window # NoWindow THEN banked ELSE NoWindow
    /\ ticking' = FALSE
    /\ ClearBeat
    /\ UNCHANGED haltedFrom

-----------------------------------------------------------------------------
(* Rounds and builds.                                                      *)

\* The last candidate a round needs passes the gate; the console is not told.
Approved ==
    /\ ~enough /\ enough' = TRUE
    /\ UNCHANGED <<modeVars, chaos, round, window, banked, ticking, paid, beat, build, killed,
                   tapped, reason>>
    /\ NoPush

MayStartRound == round = "none" /\ mode \in {"IDLE", "BUILD_IN_PROGRESS"} /\ enough

OpenRound ==
    /\ round' = "open" /\ enough' = FALSE
    /\ mode' = IF mode = "IDLE" THEN "VOTING_ROUND" ELSE mode
    /\ UNCHANGED haltedFrom

\* The cadence opens a round on its own; it does not while chaos is on.
RoundOpens ==
    /\ MayStartRound /\ ~chaos
    /\ OpenRound
    /\ UNCHANGED <<chaos, window, banked, ticking, paid, beat, build, killed, tapped, reason>>
    /\ Push

RoundCloses ==
    /\ round = "open"
    /\ round' = "none"
    /\ IF mode = "VOTING_ROUND" THEN GoIdle ELSE UNCHANGED <<mode, window, banked, ticking, beat>>
    /\ UNCHANGED <<haltedFrom, chaos, enough, paid, build, killed, tapped, reason>>
    /\ Push

\* A winner, an instruction or a chaos pick is dispatched, and screened first.
BuildStarts ==
    /\ build = "none" /\ mode \in {"IDLE", "FREE_REIGN_WINDOW", "CHAOS_MODE"}
    /\ mode' = "BUILD_IN_PROGRESS"
    /\ build' = "screening"
    /\ UNCHANGED <<haltedFrom, chaos, round, enough, window, banked, ticking, paid, beat, killed,
                   tapped, reason>>
    /\ Push

Stages(stage) ==
    /\ build' = stage
    /\ UNCHANGED <<modeVars, chaos, round, enough, window, banked, ticking, paid, beat, killed,
                   tapped, reason>>
    /\ NoPush

\* emitStage: the console does not subscribe to BUILD_STAGE_CHANGED.
BuildBegins == build = "screening" /\ ~killed /\ Stages("building")
BuildFails  == build = "building" /\ ~killed /\ Stages("failed")

\* The way out of a build: to IDLE, and from there back to the window or to chaos.
LeaveBuild ==
    IF mode # "BUILD_IN_PROGRESS"
    THEN UNCHANGED <<mode, window, banked, ticking, beat>>
    ELSE \/ GoIdle
         \/ /\ \/ window # NoWindow /\ mode' = "FREE_REIGN_WINDOW"
               \/ chaos /\ banked = NoWindow /\ mode' = "CHAOS_MODE"
            /\ UNCHANGED <<window, banked, ticking, beat>>

\* finalize, or finalizeAborted for a build that was killed; a change of mode is pushed.
BuildEnds ==
    /\ build \in {"screening", "building"} /\ (killed \/ mode = "BUILD_IN_PROGRESS")
    /\ build' = "none" /\ killed' = FALSE
    /\ LeaveBuild
    /\ UNCHANGED <<haltedFrom, chaos, round, enough, paid, tapped, reason>>
    /\ PushIf(mode = "BUILD_IN_PROGRESS")

-----------------------------------------------------------------------------
(* The halt and the panic key.                                             *)

\* triggerHalt behind the check both callers make, with the listeners that freeze the
\* round and the window, and the abort of what is building.
HaltShow ==
    IF mode = "HALTED" THEN UNCHANGED <<modeVars, round, ticking, killed>>
    ELSE /\ ForceHalt
         /\ round' = IF round = "open" THEN "frozen" ELSE round
         /\ ticking' = FALSE
         /\ killed' = (killed \/ build \in {"screening", "building"})

\* The double-tap detector: the second tap in time halts and disarms.
Tap ==
    /\ IF tapped
       THEN tapped' = FALSE /\ HaltShow
       ELSE tapped' = TRUE /\ UNCHANGED <<modeVars, round, ticking, killed>>
    /\ UNCHANGED <<chaos, enough, window, banked, paid, beat, build, reason>>
    /\ PushIf(tapped /\ mode # "HALTED")

TapLapses ==
    /\ tapped /\ tapped' = FALSE
    /\ UNCHANGED <<show, socket, reason>>

\* Recovery: the round resumes or is discarded; the window resumes, expires if its time
\* is over, or is discarded with the banked one; anywhere else it is left frozen.
RecoverShow(action) ==
    LET target == RecoveryTarget(action, haltedFrom) IN
    /\ Recover(action) \/ (target = "FREE_REIGN_WINDOW" /\ mode' = "IDLE" /\ haltedFrom' = NoMode)
    /\ round' = IF round = "none" \/ target = "IDLE" THEN "none"
                ELSE IF target \in {"VOTING_ROUND", "BUILD_IN_PROGRESS"} THEN "open" ELSE round
    /\ enough' = (enough \/ (round # "none" /\ target = "IDLE"))
    /\ IF target = "IDLE" \/ (target # mode' /\ window # NoWindow)
       THEN /\ window' = NoWindow /\ ticking' = FALSE
            /\ banked' = IF target = "IDLE" THEN NoWindow ELSE banked
            /\ IF window # NoWindow \/ banked # NoWindow THEN ClearBeat ELSE UNCHANGED beat
       ELSE /\ ticking' = (window # NoWindow /\ target = "FREE_REIGN_WINDOW")
            /\ target = mode'
            /\ UNCHANGED <<window, banked, beat>>

-----------------------------------------------------------------------------
(* The page.                                                               *)

\* Mutant of RoundReason: the button does not look at chaos mode or at the mode.
RoundReasonOfPool(s) == IF s.round # "none" \/ ~s.enough THEN "disabled" ELSE "allowed"

\* roundDisabledReason
RoundReason(s) ==
    IF \/ s.round # "none" \/ s.chaos
       \/ s.mode \notin {"IDLE", "BUILD_IN_PROGRESS"}
       \/ ~s.enough
    THEN "disabled" ELSE "allowed"

\* chaosDisabledReason
ChaosReason(s) ==
    IF s.chaos \/ (~s.window /\ s.mode = "IDLE")
    THEN "allowed" ELSE "disabled"

\* newProjectDisabledReason
ProjectReason(s) == IF s.mode \in {"BUILD_IN_PROGRESS", "HALTED"} THEN "disabled" ELSE "allowed"

\* renderTriage replaces the panels while the show is halted.
TriageButtons(s) == IF s.mode = "HALTED" THEN RecoveryActions ELSE {}

\* renderBuildDecision
DecisionButtons(s) == IF s.build = "failed" THEN {"retry", "skip"} ELSE {}

\* renderWindowPanel
WindowButtons(s) == IF s.window THEN {"revoke"} ELSE {}

\* renderRound
RoundButtons(s) ==
    (IF RoundReason(s) = "allowed" THEN {"round"} ELSE {})
    \union (IF ChaosReason(s) = "allowed" THEN {"chaos"} ELSE {})
    \union (IF ProjectReason(s) = "allowed" THEN {"project"} ELSE {})

\* renderAll: what can be clicked in state s.
Buttons(s) ==
    {"halt"} \union
    IF s.mode = "HALTED" THEN TriageButtons(s)
    ELSE RoundButtons(s) \union DecisionButtons(s) \union WindowButtons(s)

SocketCloses ==
    /\ online /\ online' = FALSE
    /\ UNCHANGED <<show, tapped, seen, reason>>

\* Mutant of Reconnect: the server sends nothing until something changes.
ReconnectSilently ==
    /\ ~online /\ online' = TRUE
    /\ UNCHANGED <<show, tapped, seen, reason>>

\* connect after the backoff: the full state is sent on connect.
Reconnect ==
    /\ ~online /\ online' = TRUE
    /\ seen' = State
    /\ UNCHANGED <<show, tapped, reason>>

-----------------------------------------------------------------------------
(* The routes.                                                             *)

Clicked(b) == b \in Buttons(seen) /\ UNCHANGED tapped

\* showReasonRow, and sendReasonTag with a tag of the row.
ShowReasonRow(of) == reason' = of
SendTag(of) == reason = of /\ reason' = "none" /\ UNCHANGED tapped

\* POST /api/halt: the click, and its tag, which the page offers at once.
HaltRoute ==
    /\ \/ Clicked("halt") /\ ShowReasonRow("halt")
       \/ SendTag("halt")
    /\ HaltShow
    /\ UNCHANGED <<chaos, enough, window, banked, paid, beat, build>>
    /\ PushIf(mode # "HALTED")

\* POST /api/recover
RecoverRoute(action) ==
    /\ Clicked(action)
    /\ IF mode = "HALTED"
       THEN RecoverShow(action)
       ELSE UNCHANGED <<modeVars, round, enough, window, banked, ticking, beat>>
    /\ UNCHANGED <<chaos, paid, build, killed, reason>>
    /\ PushIf(mode = "HALTED")

\* POST /api/control-window/revoke: the click, and its tag, which the page offers after it.
RevokeRoute ==
    /\ \/ Clicked("revoke") /\ ShowReasonRow("revoke")
       \/ SendTag("revoke")
    /\ IF window # NoWindow \/ banked # NoWindow
       THEN RevokeWindow
       ELSE UNCHANGED <<modeVars, window, banked, ticking, beat>>
    /\ UNCHANGED <<chaos, round, enough, paid, build, killed>>
    /\ PushIf(window # NoWindow \/ banked # NoWindow)

\* POST /api/round/start
RoundRoute ==
    /\ Clicked("round")
    /\ IF MayStartRound THEN OpenRound ELSE UNCHANGED <<modeVars, round, enough>>
    /\ UNCHANGED <<chaos, window, banked, ticking, paid, beat, build, killed, reason>>
    /\ PushIf(MayStartRound)

\* POST /api/chaos/toggle: an illegal transition throws before the flag is set.
ChaosRoute ==
    LET to == IF chaos THEN "IDLE" ELSE "CHAOS_MODE" IN
    /\ Clicked("chaos")
    /\ IF to \in Transitions[mode]
       THEN /\ chaos' = ~chaos /\ UNCHANGED haltedFrom
            /\ IF chaos THEN GoIdle
               ELSE mode' = to /\ UNCHANGED <<window, banked, ticking, beat>>
       ELSE UNCHANGED <<modeVars, chaos, window, banked, ticking, beat>>
    /\ UNCHANGED <<round, enough, paid, build, killed, reason>>
    /\ PushIf(to \in Transitions[mode])

\* POST /api/workspace/new-project: the project turns over without a trace in this state.
ProjectRoute ==
    /\ Clicked("project")
    /\ UNCHANGED <<show, reason>>
    /\ PushIf(mode \notin {"BUILD_IN_PROGRESS", "HALTED"})

\* POST /api/tasks/:id/retry: the attempt's first stage is set before the push.
RetryRoute ==
    /\ Clicked("retry")
    /\ build' = IF build = "failed" /\ mode # "HALTED" THEN "building" ELSE build
    /\ UNCHANGED <<modeVars, chaos, round, enough, window, banked, ticking, paid, beat, killed, reason>>
    /\ Push

\* POST /api/tasks/:id/skip
SkipRoute ==
    /\ Clicked("skip")
    /\ IF build = "failed"
       THEN build' = "none" /\ LeaveBuild
       ELSE UNCHANGED <<build, mode, window, banked, ticking, beat>>
    /\ UNCHANGED <<haltedFrom, chaos, round, enough, paid, killed, reason>>
    /\ Push

-----------------------------------------------------------------------------
Routes ==
    \/ HaltRoute
    \/ \E a \in RecoveryActions : RecoverRoute(a)
    \/ RevokeRoute
    \/ RoundRoute
    \/ ChaosRoute
    \/ ProjectRoute
    \/ RetryRoute
    \/ SkipRoute

ConsoleNext ==
    \/ Tip
    \/ BeatFires
    \/ Expire
    \/ Approved
    \/ RoundOpens
    \/ RoundCloses
    \/ BuildStarts
    \/ BuildBegins
    \/ BuildFails
    \/ BuildEnds
    \/ Tap
    \/ TapLapses
    \/ SocketCloses
    \/ Reconnect
    \/ Routes

ConsoleSpec == ConsoleInit /\ [][ConsoleNext]_consoleVars

(***************************************************************************)
(* What the runtime guarantees: the page's backoff ends in another         *)
(* attempt, which a server on the same machine accepts.  Nobody is obliged *)
(* to click.                                                               *)
(***************************************************************************)
ConsoleLiveSpec == ConsoleSpec /\ WF_consoleVars(Reconnect)

-----------------------------------------------------------------------------
(* What the console promises.                                              *)

\* A button the page enables on a state that is still true is accepted by its route: the
\* page's disabled reasons and the server's own checks are two tables kept by hand
\* (console.js roundDisabledReason .. renderAll against the routes).
EnabledIsAccepted ==
    seen = State =>
        /\ "round" \in Buttons(seen) => MayStartRound
        /\ "chaos" \in Buttons(seen) /\ ~chaos => "CHAOS_MODE" \in Transitions[mode]
        /\ "project" \in Buttons(seen) => mode \notin {"BUILD_IN_PROGRESS", "HALTED"}
        /\ "revoke" \in Buttons(seen) => window # NoWindow \/ banked # NoWindow
        /\ {"retry", "skip"} \intersect Buttons(seen) # {} => build = "failed"

\* The 30-second line is only ever said of the window that is live: a window that
\* expires, is revoked or is discarded takes its timer with it (main.ts clearWindowBeat).
BeatIsOfTheWindow == beat # NoWindow => beat = window

\* A halt from any source reaches the page, over a lost socket too, unless the show has
\* been recovered by then (the push on HALT_TRIGGERED, and the state sent on connect).
OperatorSeesTheHalt == mode = "HALTED" ~> (seen.mode = "HALTED" \/ mode # "HALTED")
=============================================================================

-------------------------------- MODULE Preview --------------------------------
(***************************************************************************)
(* The preview page of the broadcast: it asks its own server whether the   *)
(* dev server has an app, and frames that app in two frames by turns.      *)
(*                                                                         *)
(* Polls overlap and their answers may pass each other.  The handler of a  *)
(* load, and the timeout of a load, look at whichever frame is the buffer  *)
(* when they run.  The dev server is stopped, started over another project *)
(* and written under at any time.                                          *)
(***************************************************************************)
EXTENDS Naturals

CONSTANTS
    MaxVersion,     \* bound: contents the dev server ever serves
    MaxPolls,       \* bound: polls under way at a time
    MaxTimers,      \* bound: timeouts of loadIntoBuffer under way at a time
    MaxFaults,      \* bound: probes that time out on an app that is up
    MaxReloads      \* bound: reloads of the page by OBS

PreviewAssumption ==
    /\ MaxVersion \in Nat /\ MaxPolls \in Nat \ {0} /\ MaxTimers \in Nat \ {0}
    /\ MaxFaults \in Nat /\ MaxReloads \in Nat

ASSUME PreviewAssumption

VARIABLES
    up, app, version,   \* the dev server answers; what it serves, 0 a bare listing; the newest
    asked, answers,     \* polls before the probe; answers under way, per outcome
    reached,            \* hasBeenReachable
    was,                \* wasReachable
    live,               \* the chrome: LIVE, or standing by with the placeholder over the frame
    refreshing,         \* the refresh interval is armed
    front,              \* which frame is visible; the other one is the buffer
    frame,              \* per frame: its src, its document, a navigation, the handler
    awaiting,           \* awaitingSwap
    timers,             \* timeouts that will put the url into the buffer
    faults, reloads

server == <<up, app, version>>
polls  == <<asked, answers>>
chrome == <<reached, was, live, refreshing>>
frames == <<front, frame, awaiting, timers>>
count  == <<faults, reloads>>

previewVars == <<server, polls, chrome, frames, count>>

Outcomes == {"app", "none"}     \* what a poll reports

Frames == {1, 2}
Other(f) == 3 - f

\* What a frame can show: an app, or the listing, or one of these.
Blank     == MaxVersion + 1
ErrorPage == MaxVersion + 2

Opened == [src |-> "none", doc |-> Blank, nav |-> "none", hooked |-> FALSE]

PageInit ==
    /\ asked = 0 /\ answers = [o \in Outcomes |-> 0]
    /\ reached = FALSE /\ was = FALSE /\ live = FALSE /\ refreshing = FALSE
    /\ front = 1 /\ frame = [f \in Frames |-> Opened]
    /\ awaiting = FALSE /\ timers = 0

PreviewInit ==
    /\ up = FALSE /\ app = 0 /\ version = 0
    /\ PageInit
    /\ faults = 0 /\ reloads = 0

-----------------------------------------------------------------------------
(* The dev server in the sandbox.                                          *)

\* stopPreviewDevServer, or the halt that terminates the whole distro.
StopServer ==
    /\ up /\ up' = FALSE
    /\ UNCHANGED <<app, version, polls, chrome, frames, count>>

\* startPreviewDevServer, over an empty workspace or over one with an app.
StartServer ==
    /\ ~up /\ up' = TRUE
    /\ \/ app' = 0 /\ UNCHANGED version
       \/ version < MaxVersion /\ version' = version + 1 /\ app' = version + 1
    /\ UNCHANGED <<polls, chrome, frames, count>>

\* The agent writes files into the workspace that is served.
BuildWrites ==
    /\ up /\ version < MaxVersion
    /\ version' = version + 1 /\ app' = version + 1
    /\ UNCHANGED <<up, polls, chrome, frames, count>>

-----------------------------------------------------------------------------
(* The probe.                                                              *)

\* appReady: the body of the front page, and no listing of a directory.
AppReady == up /\ app # 0
Found    == IF AppReady THEN "app" ELSE "none"

\* setInterval(poll).
Poll ==
    /\ asked + answers["app"] + answers["none"] < MaxPolls
    /\ asked' = asked + 1
    /\ UNCHANGED <<server, answers, chrome, frames, count>>

\* GET /api/reachable; a probe that times out or throws reads as not up.
Probe ==
    /\ asked > 0 /\ asked' = asked - 1
    /\ \/ answers' = [answers EXCEPT ![Found] = @ + 1] /\ UNCHANGED faults
       \/ /\ faults < MaxFaults /\ faults' = faults + 1
          /\ answers' = [answers EXCEPT !["none"] = @ + 1]
    /\ UNCHANGED <<server, chrome, frames, reloads>>

-----------------------------------------------------------------------------
(* The frames.                                                             *)

\* loadIntoBuffer: the buffer is blanked now, and given the url by a timeout.
LoadIntoBuffer ==
    /\ timers < MaxTimers
    /\ awaiting' = TRUE
    /\ frame' = [frame EXCEPT ![Other(front)] =
                    [@ EXCEPT !.src = "blank", !.nav = "blank", !.hooked = TRUE]]
    /\ timers' = timers + 1
    /\ UNCHANGED front

\* The timeout: whichever frame is the buffer by then gets the url.
TimeoutFires ==
    /\ timers > 0 /\ timers' = timers - 1
    /\ frame' = [frame EXCEPT ![Other(front)] = [@ EXCEPT !.src = "app", !.nav = "app"]]
    /\ UNCHANGED <<server, polls, chrome, front, awaiting, count>>

\* What a navigation arrives at; a server that is down is the browser's error page.
Document(nav) == IF nav = "blank" THEN Blank ELSE IF up THEN app ELSE ErrorPage

\* Mutant of Swaps: the load event of the blanked buffer is taken for the app's.
SwapsOnAny(f) == frame[f].hooked /\ awaiting

\* onBufferLoad: the blank load is ignored by the src of the buffer, a second load by the flag.
Swaps(f) == frame[f].hooked /\ frame[Other(front)].src # "blank" /\ awaiting

\* A navigation of a frame ends, and its load event runs the handler.
FrameLoads(f) ==
    /\ frame[f].nav # "none"
    /\ frame' = [frame EXCEPT ![f] = [@ EXCEPT !.doc = Document(frame[f].nav), !.nav = "none"]]
    /\ IF Swaps(f)
       THEN front' = Other(front) /\ awaiting' = FALSE
       ELSE UNCHANGED <<front, awaiting>>
    /\ UNCHANGED <<server, polls, chrome, timers, count>>

-----------------------------------------------------------------------------
(* The state machine of the page.                                          *)

StandBy ==
    /\ live' = FALSE /\ was' = FALSE /\ refreshing' = FALSE
    /\ UNCHANGED <<reached, frames>>

\* Mutant of GoLive: the refresh interval is armed at the first contact only.
GoLiveArmedOnce ==
    /\ reached' = TRUE /\ was' = TRUE /\ live' = TRUE
    /\ refreshing' = (refreshing \/ ~reached)
    /\ IF ~reached \/ ~was THEN LoadIntoBuffer ELSE UNCHANGED frames

\* The first contact and every return load the frame anew.
GoLive ==
    /\ reached' = TRUE /\ was' = TRUE /\ live' = TRUE /\ refreshing' = TRUE
    /\ IF ~reached \/ ~was THEN LoadIntoBuffer ELSE UNCHANGED frames

\* applyReachability, with an answer in whatever order it comes.
Answer(outcome) ==
    /\ answers[outcome] > 0
    /\ answers' = [answers EXCEPT ![outcome] = @ - 1]
    /\ IF outcome = "app" THEN GoLive ELSE StandBy
    /\ UNCHANGED <<server, asked, count>>

\* A fetch that fails is an answer of its own.
PollFails ==
    /\ asked > 0 /\ faults < MaxFaults
    /\ asked' = asked - 1 /\ faults' = faults + 1
    /\ StandBy
    /\ UNCHANGED <<server, answers, reloads>>

\* The refresh interval.
Refresh ==
    /\ refreshing
    /\ LoadIntoBuffer
    /\ UNCHANGED <<server, polls, chrome, count>>

\* OBS loads the page again.
ReloadPage ==
    /\ reloads < MaxReloads /\ reloads' = reloads + 1
    /\ asked' = 0 /\ answers' = [o \in Outcomes |-> 0]
    /\ reached' = FALSE /\ was' = FALSE /\ live' = FALSE /\ refreshing' = FALSE
    /\ front' = 1 /\ frame' = [f \in Frames |-> Opened]
    /\ awaiting' = FALSE /\ timers' = 0
    /\ UNCHANGED <<server, faults>>

-----------------------------------------------------------------------------

PreviewNext ==
    \/ StopServer \/ StartServer \/ BuildWrites
    \/ Poll \/ Probe \/ PollFails \/ (\E o \in Outcomes : Answer(o))
    \/ Refresh \/ TimeoutFires
    \/ (\E f \in Frames : FrameLoads(f))
    \/ ReloadPage

PreviewSpec == PreviewInit /\ [][PreviewNext]_previewVars

\* Intervals and timeouts fire, and every request ends.  An answer is not passed by others
\* forever, and the load of the app not overtaken by a refresh forever: refreshes are five
\* seconds apart, a load from this host is not.
Fairness ==
    /\ WF_previewVars(Poll) /\ WF_previewVars(Probe)
    /\ \A o \in Outcomes : SF_previewVars(Answer(o))
    /\ WF_previewVars(Refresh) /\ WF_previewVars(TimeoutFires)
    /\ \A f \in Frames : SF_previewVars(FrameLoads(f) /\ frame[f].nav = "app")

PreviewFairSpec == PreviewSpec /\ Fairness

-----------------------------------------------------------------------------

FrameState == [src : {"none", "blank", "app"}, doc : 0..ErrorPage,
               nav : {"none", "blank", "app"}, hooked : BOOLEAN]

ServerType == version \in 0..MaxVersion /\ app \in 0..version

PollsType ==
    /\ asked \in Nat /\ answers \in [Outcomes -> Nat]
    /\ asked + answers["app"] + answers["none"] <= MaxPolls

FramesType ==
    /\ front \in Frames /\ frame \in [Frames -> FrameState]
    /\ timers \in 0..MaxTimers

CountType == faults \in 0..MaxFaults /\ reloads \in 0..MaxReloads

PageFlagsType ==
    /\ up \in BOOLEAN /\ awaiting \in BOOLEAN
    /\ reached \in BOOLEAN /\ was \in BOOLEAN /\ live \in BOOLEAN /\ refreshing \in BOOLEAN

\* The page refreshes while it is live, and is live only after the first contact.
ChromeAgrees == refreshing = live /\ was = live /\ (live => reached)

PreviewTypeOK == ServerType /\ PollsType /\ FramesType /\ CountType /\ PageFlagsType /\ ChromeAgrees

\* The frame the viewers see, when the placeholder is not over it.
Shown == frame[front].doc
Apps  == 1..MaxVersion

\* Once an app was shown, no viewer ever sees a frame that is blank for a reload.
NeverBlank == live /\ frame[front].hooked => Shown # Blank

\* An app that stays up is on screen for good, whatever happened to polls, loads and the page
\* before.
NewestAppIsShown ==
    \A a \in Apps : <>[](up /\ app = a) => <>[](live /\ Shown = a)
=============================================================================

------------------------------ MODULE StreamMode ------------------------------
(***************************************************************************)
(* The six-state stream-mode machine every component of the show shares    *)
(* (src/state-machine/stream-mode.ts) and the halt / recover pair around   *)
(* it (src/state-machine/halt.ts).                                         *)
(*                                                                         *)
(* mode is what chat can currently do.  haltedFrom is                      *)
(* haltContext.frozen.mode: the mode the halt interrupted, or NoMode when  *)
(* there is no halt context.                                               *)
(*                                                                         *)
(* The operators below are the machine's methods.  Listeners run inside    *)
(* the emitting call, so a module that composes with the machine conjoins  *)
(* what its listener does to the operator it reacts to.                    *)
(***************************************************************************)
VARIABLES mode, haltedFrom

modeVars == <<mode, haltedFrom>>

ActiveModes == {"IDLE", "VOTING_ROUND", "BUILD_IN_PROGRESS",
                "FREE_REIGN_WINDOW", "CHAOS_MODE"}

Modes == ActiveModes \union {"HALTED"}

NoMode == "none"

RecoveryActions == {"resume", "discard-and-resume", "reset-to-idle"}

(***************************************************************************)
(* The table transition() checks.  HALTED is entered and left only by      *)
(* ForceHalt and RecoverTo.                                                *)
(***************************************************************************)
Transitions ==
  [m \in Modes |->
     CASE m = "IDLE"              -> {"VOTING_ROUND", "FREE_REIGN_WINDOW",
                                      "CHAOS_MODE", "BUILD_IN_PROGRESS"}
       [] m = "VOTING_ROUND"      -> {"IDLE", "BUILD_IN_PROGRESS"}
       [] m = "BUILD_IN_PROGRESS" -> {"IDLE", "FREE_REIGN_WINDOW", "CHAOS_MODE"}
       [] m = "FREE_REIGN_WINDOW" -> {"IDLE", "BUILD_IN_PROGRESS"}
       [] m = "CHAOS_MODE"        -> {"BUILD_IN_PROGRESS", "IDLE"}
       [] m = "HALTED"            -> {}]

ModeInit == mode = "IDLE" /\ haltedFrom = NoMode

\* transition(to): legal moves only; an illegal one throws and changes nothing.
Transition(to) ==
  /\ to \in Transitions[mode]
  /\ mode' = to
  /\ UNCHANGED haltedFrom

\* triggerHalt() -> forceTransition("HALTED").  Both callers return early when
\* the machine is already HALTED, so the frozen snapshot is never overwritten.
ForceHalt ==
  /\ mode # "HALTED"
  /\ mode' = "HALTED"
  /\ haltedFrom' = mode

\* Where recover(action) sends a machine that was halted out of mode m.
RecoveryTarget(action, m) ==
  CASE action = "resume"             -> m
    [] action = "discard-and-resume" -> IF m = "BUILD_IN_PROGRESS" THEN "IDLE" ELSE m
    [] action = "reset-to-idle"      -> "IDLE"

\* recover(): only from HALTED; the halt context is cleared.
Recover(action) ==
  /\ mode = "HALTED"
  /\ mode' = RecoveryTarget(action, haltedFrom)
  /\ haltedFrom' = NoMode

ModeTypeOK ==
  /\ mode \in Modes
  /\ haltedFrom \in ActiveModes \union {NoMode}
  /\ (mode = "HALTED") <=> (haltedFrom # NoMode)
===============================================================================

----------------------------- MODULE ControlWindow -----------------------------
(***************************************************************************)
(* Paid free-reign windows: the ControlWindow FSM                          *)
(* (src/control-window/control-window.ts), its SQLite table                *)
(* (src/control-window/persistence.ts) and its restoration at boot.        *)
(*                                                                         *)
(* A validated tip or redemption opens a window from IDLE and is banked    *)
(* while the show is busy; a banked window opens, with its full paid time, *)
(* when the show returns to IDLE.                                          *)
(*                                                                         *)
(* Durable state (status, donor, duration, left, age) is the               *)
(* control_windows table, one row per granted payment.  Time is relative:  *)
(* left[i] is ends_at_ms - now, floored at 0; age[i] is                    *)
(* now - opened_at_ms and sinceGrant[d] is now - #lastGrantedAtMs[d], both *)
(* stopped at Cooldown, where they no longer matter; timer is the delay    *)
(* left on the armed setTimeout.  Time is whole ticks: a fraction of a     *)
(* second that an amount buys is rounded away.                             *)
(***************************************************************************)
EXTENDS StreamMode, Integers, FiniteSets

CONSTANTS
  Donor,        \* donorIdentifier values
  NoDonor,      \* the donor of a row that is not there
  Amounts,      \* amounts tipped or points spent, hostile ones included
  NotANumber,   \* an amount that is no number (NaN)
  TicksPerUnit, \* DurationConfig.ratePerUnit, in ticks
  MinDuration,  \* the floor of a window money buys, in ticks (minSeconds)
  MaxDuration,  \* its cap, in ticks (maxSeconds)
  Cooldown,     \* WINDOW_COOLDOWN in ticks
  MaxWindows    \* bound: rows control_windows may hold

ASSUME WindowAssumption ==
  /\ NoDonor \notin Donor
  /\ Cooldown \in Nat
  /\ MaxWindows \in Nat

\* The environment may configure a floor above the cap: nothing compares the two.
ASSUME DurationAssumption ==
  /\ Amounts \subseteq Int \union {NotANumber}
  /\ NotANumber \notin Int
  /\ TicksPerUnit \in Nat \ {0}
  /\ MinDuration \in Nat \ {0}
  /\ MaxDuration \in Nat \ {0}

\* The longest time a window may have left.
Longest == IF MinDuration > MaxDuration THEN MinDuration ELSE MaxDuration

WindowId == 1..MaxWindows
Statuses == {"none", "pending", "active", "expired", "revoked"}

NoWindow == 0               \* #window === null, #pending === null
NoTimer == Longest + 1      \* #timer === null

VARIABLES
  up,          \* the process is running
  window,      \* #window.id, or NoWindow
  frozen,      \* #window.frozen
  pending,     \* #pending.id, or NoWindow
  timer,       \* delay left on #timer, or NoTimer
  sinceGrant,  \* #lastGrantedAtMs: [Donor -> 0..Cooldown]
  status,      \* control_windows.status; "none" when there is no such row
  donor,       \* control_windows.donor_identifier
  duration,    \* control_windows.duration_ms
  left,        \* control_windows.ends_at_ms, relative to now
  age,         \* control_windows.opened_at_ms, relative to now
  sincePaid    \* history: time since the donor's last grant, in any process

memory == <<window, frozen, pending, timer, sinceGrant>>
table == <<status, donor, duration, left, age>>
vars == <<mode, haltedFrom, up, memory, table, sincePaid>>

ActiveRows == {i \in WindowId : status[i] = "active"}
PendingRows == {i \in WindowId : status[i] = "pending"}

\* ORDER BY id DESC LIMIT 1, or NoWindow.
LatestOf(rows) ==
  IF rows = {} THEN NoWindow ELSE CHOOSE i \in rows : \A j \in rows : j <= i

-------------------------------------------------------------------------------
Init ==
  /\ ModeInit
  /\ up = TRUE
  /\ window = NoWindow
  /\ frozen = FALSE
  /\ pending = NoWindow
  /\ timer = NoTimer
  /\ sinceGrant = [d \in Donor |-> Cooldown]
  /\ status = [i \in WindowId |-> "none"]
  /\ donor = [i \in WindowId |-> NoDonor]
  /\ duration = [i \in WindowId |-> 0]
  /\ left = [i \in WindowId |-> 0]
  /\ age = [i \in WindowId |-> Cooldown]
  /\ sincePaid = [d \in Donor |-> Cooldown]

Later(f, bound) == [x \in DOMAIN f |-> IF f[x] < bound THEN f[x] + 1 ELSE bound]

\* Time passes for every deadline and every cooldown alike, in or out of a process.
Tick ==
  /\ left' = [i \in WindowId |-> IF left[i] > 0 THEN left[i] - 1 ELSE 0]
  /\ timer' = IF timer \in 1..Longest THEN timer - 1 ELSE timer
  /\ age' = Later(age, Cooldown)
  /\ sinceGrant' = Later(sinceGrant, Cooldown)
  /\ sincePaid' = Later(sincePaid, Cooldown)
  /\ UNCHANGED <<modeVars, up, window, frozen, pending, status, donor, duration>>

-------------------------------------------------------------------------------
(***************************************************************************)
(* Granting a window                                                       *)
(***************************************************************************)

\* amountToDurationSeconds: linear with a floor, which no amount (NaN) and a negative
\* amount fall to, and a cap for what reaches the floor.
AmountToDuration(amount) ==
  IF amount = NotANumber \/ amount * TicksPerUnit < MinDuration THEN MinDuration
  ELSE IF amount * TicksPerUnit > MaxDuration THEN MaxDuration
  ELSE amount * TicksPerUnit

\* What a payment buys: a donation in another currency than dollars earns the floor.
PaidTimes == {AmountToDuration(amount) : amount \in Amounts} \union {MinDuration}

\* Mutant of MayOpen: the cooldown is only checked for a window that opens at once.
MayOpenUncooled(d) ==
  /\ up
  /\ window = NoWindow /\ pending = NoWindow
  /\ mode # "HALTED"
  /\ mode = "IDLE" => sinceGrant[d] = Cooldown

\* open()'s guards, in their order; a refusal changes nothing.
MayOpen(d) ==
  /\ up
  /\ window = NoWindow /\ pending = NoWindow
  /\ mode # "HALTED"
  /\ sinceGrant[d] = Cooldown

\* insertWindow of a fresh row.
Insert(i, d, ticks, st) ==
  /\ status[i] = "none"
  /\ \A j \in 1..(i - 1) : status[j] # "none"
  /\ status' = [status EXCEPT ![i] = st]
  /\ donor' = [donor EXCEPT ![i] = d]
  /\ duration' = [duration EXCEPT ![i] = ticks]
  /\ left' = [left EXCEPT ![i] = ticks]
  /\ age' = [age EXCEPT ![i] = 0]

\* The donor's cooldown is stamped at the grant, banked or not.
Stamp(d) ==
  /\ sinceGrant' = [sinceGrant EXCEPT ![d] = 0]
  /\ sincePaid' = [sincePaid EXCEPT ![d] = 0]

OpenNow(i, d, ticks) ==
  /\ MayOpen(d) /\ mode = "IDLE"
  /\ Insert(i, d, ticks, "active")
  /\ Stamp(d)
  /\ window' = i
  /\ frozen' = FALSE
  /\ timer' = ticks
  /\ Transition("FREE_REIGN_WINDOW")
  /\ UNCHANGED <<up, pending>>

\* The show is busy: the payment is banked and its clock does not start.
Bank(i, d, ticks) ==
  /\ MayOpen(d) /\ mode # "IDLE"
  /\ Insert(i, d, ticks, "pending")
  /\ Stamp(d)
  /\ pending' = i
  /\ UNCHANGED <<modeVars, up, window, frozen, timer>>

\* Mutant of Promote: the window opens with what is left of the provisional deadline.
PromoteProvisional(i) ==
  /\ status' = [status EXCEPT ![i] = "active"]
  /\ age' = [age EXCEPT ![i] = 0]
  /\ timer' = left[i]
  /\ window' = i
  /\ frozen' = FALSE
  /\ pending' = NoWindow
  /\ mode' = "FREE_REIGN_WINDOW"
  /\ UNCHANGED <<donor, duration, left>>

\* #openFromPending of row i, in the STATE_CHANGED that brings the show back to IDLE:
\* the full paid time starts now and the show goes straight on to FREE_REIGN_WINDOW.
Promote(i) ==
  /\ status' = [status EXCEPT ![i] = "active"]
  /\ left' = [left EXCEPT ![i] = duration[i]]
  /\ age' = [age EXCEPT ![i] = 0]
  /\ timer' = duration[i]
  /\ window' = i
  /\ frozen' = FALSE
  /\ pending' = NoWindow
  /\ mode' = "FREE_REIGN_WINDOW"
  /\ UNCHANGED <<donor, duration>>

-------------------------------------------------------------------------------
(***************************************************************************)
(* The rest of the show                                                    *)
(***************************************************************************)

\* Rounds, builds and the chaos toggle drive the mode; the return to IDLE opens the
\* banked window.
OtherTransition(to) ==
  /\ up
  /\ to # "FREE_REIGN_WINDOW"
  /\ to \in Transitions[mode]
  /\ IF to = "IDLE" /\ window = NoWindow /\ pending # NoWindow
       THEN Promote(pending) /\ UNCHANGED sinceGrant
       ELSE mode' = to /\ UNCHANGED <<memory, table>>
  /\ UNCHANGED <<haltedFrom, up, sincePaid>>

\* A paid build is over and its window still live: the show returns to the window.
ReturnToWindow ==
  /\ up
  /\ mode = "IDLE"
  /\ window # NoWindow /\ left[window] > 0
  /\ Transition("FREE_REIGN_WINDOW")
  /\ UNCHANGED <<up, memory, table, sincePaid>>

-------------------------------------------------------------------------------
(***************************************************************************)
(* Closing a window                                                        *)
(***************************************************************************)

\* closeWindow, and the window forgotten.
Close(st) ==
  /\ status' = [status EXCEPT ![window] = st]
  /\ window' = NoWindow
  /\ frozen' = FALSE
  /\ timer' = NoTimer
  /\ UNCHANGED <<pending, sinceGrant, donor, duration, left, age>>

\* A close can never fight a halt: it only leaves FREE_REIGN_WINDOW.
LeaveWindowMode ==
  IF mode = "FREE_REIGN_WINDOW" THEN Transition("IDLE") ELSE UNCHANGED modeVars

Expire ==
  /\ up
  /\ timer = 0
  /\ Close("expired")
  /\ LeaveWindowMode
  /\ UNCHANGED <<up, sincePaid>>

DiscardPending ==
  /\ status' = [status EXCEPT ![pending] = "revoked"]
  /\ pending' = NoWindow
  /\ UNCHANGED <<window, frozen, timer, sinceGrant, donor, duration, left, age>>

\* The console's revoke, of the active window or of the banked one, in any mode.
Revoke ==
  /\ up
  /\ \/ window # NoWindow /\ Close("revoked") /\ LeaveWindowMode
     \/ window = NoWindow /\ pending # NoWindow /\ DiscardPending /\ UNCHANGED modeVars
  /\ UNCHANGED <<up, sincePaid>>

-------------------------------------------------------------------------------
(***************************************************************************)
(* Halt and recovery                                                       *)
(***************************************************************************)

Freeze == frozen' = TRUE /\ timer' = NoTimer

\* The halt, with ControlWindow's HALT_TRIGGERED listener.
Halt ==
  /\ up
  /\ ForceHalt
  /\ IF window # NoWindow /\ ~frozen THEN Freeze ELSE UNCHANGED <<frozen, timer>>
  /\ UNCHANGED <<up, window, pending, sinceGrant, table, sincePaid>>

\* #resume, re-armed from the absolute deadline; a window that ran out meanwhile expires.
ResumeWindow ==
  IF left[window] > 0
    THEN /\ frozen' = FALSE
         /\ timer' = left[window]
         /\ mode' = "FREE_REIGN_WINDOW"
         /\ UNCHANGED <<window, pending, sinceGrant, table>>
    ELSE Close("expired") /\ mode' = "IDLE"

\* #discard and #discardPending.
DiscardAll ==
  /\ status' = [i \in WindowId |-> IF i \in {window, pending} THEN "revoked" ELSE status[i]]
  /\ window' = NoWindow
  /\ pending' = NoWindow
  /\ frozen' = FALSE
  /\ timer' = NoTimer
  /\ UNCHANGED <<sinceGrant, donor, duration, left, age>>

\* Recovery, with ControlWindow's STATE_CHANGED listener.
RecoverWindow(action) ==
  LET target == RecoveryTarget(action, haltedFrom) IN
  /\ up
  /\ mode = "HALTED"
  /\ haltedFrom' = NoMode
  /\ CASE target = "FREE_REIGN_WINDOW" /\ window # NoWindow /\ frozen -> ResumeWindow
       [] target = "IDLE" -> DiscardAll /\ mode' = target
       [] OTHER -> mode' = target /\ UNCHANGED <<memory, table>>
  /\ UNCHANGED <<up, sincePaid>>

-------------------------------------------------------------------------------
(***************************************************************************)
(* Crash and boot.  Every operation writes the table in one statement, and *)
(* before it touches memory, so dying inside it leaves what dying just     *)
(* before or just after it leaves.                                         *)
(***************************************************************************)

Crash ==
  /\ up
  /\ up' = FALSE
  /\ window' = NoWindow
  /\ frozen' = FALSE
  /\ pending' = NoWindow
  /\ timer' = NoTimer
  /\ sinceGrant' = [d \in Donor |-> Cooldown]
  /\ UNCHANGED <<modeVars, table, sincePaid>>

\* readLastGrantsByDonor: the age of each donor's youngest row, whatever its status.
GrantAges ==
  [d \in Donor |->
     CHOOSE a \in 0..Cooldown :
       LET ages == {age[i] : i \in {j \in WindowId : status[j] # "none" /\ donor[j] = d}}
                     \union {Cooldown}
       IN  a \in ages /\ \A b \in ages : a <= b]

\* Where RoundManager's restoration, which runs first, may have left the mode.
BootModes == {"IDLE", "VOTING_ROUND", "HALTED"}

\* The halt context a boot into HALTED hand-builds: a round is what was frozen.
BootHaltContext(m) == IF m = "HALTED" THEN "VOTING_ROUND" ELSE NoMode

\* Mutant of BootLive: the restored window is not re-armed.
BootLiveUnarmed(m) ==
  /\ window' = LatestOf(ActiveRows)
  /\ frozen' = FALSE
  /\ UNCHANGED timer
  /\ pending' = LatestOf(PendingRows)
  /\ mode' = IF m = "IDLE" THEN "FREE_REIGN_WINDOW" ELSE m
  /\ UNCHANGED table

\* restore() with a window still live: re-armed for the remainder.
BootLive(m) ==
  /\ window' = LatestOf(ActiveRows)
  /\ frozen' = FALSE
  /\ timer' = left[LatestOf(ActiveRows)]
  /\ pending' = LatestOf(PendingRows)
  /\ mode' = IF m = "IDLE" THEN "FREE_REIGN_WINDOW" ELSE m
  /\ UNCHANGED table

\* restore() with a window that ran out during the downtime: it expires.
BootExpired(m) ==
  /\ status' = [status EXCEPT ![LatestOf(ActiveRows)] = "expired"]
  /\ pending' = LatestOf(PendingRows)
  /\ mode' = m
  /\ UNCHANGED <<window, frozen, timer, donor, duration, left, age>>

\* restore() with no active row: a banked window opens if the show boots IDLE.
BootBanked(m) ==
  IF PendingRows # {} /\ m = "IDLE"
    THEN Promote(LatestOf(PendingRows))
    ELSE /\ pending' = LatestOf(PendingRows)
         /\ mode' = m
         /\ UNCHANGED <<window, frozen, timer, table>>

Boot(m) ==
  /\ ~up
  /\ up' = TRUE
  /\ haltedFrom' = BootHaltContext(m)
  /\ sinceGrant' = GrantAges
  /\ IF ActiveRows = {} THEN BootBanked(m)
     ELSE IF left[LatestOf(ActiveRows)] > 0 THEN BootLive(m)
     ELSE BootExpired(m)
  /\ UNCHANGED sincePaid

-------------------------------------------------------------------------------
Next ==
  \/ Tick
  \/ \E i \in WindowId, d \in Donor, ticks \in PaidTimes :
       OpenNow(i, d, ticks) \/ Bank(i, d, ticks)
  \/ \E to \in Modes : OtherTransition(to)
  \/ ReturnToWindow
  \/ Expire
  \/ Revoke
  \/ Halt
  \/ \E a \in RecoveryActions : RecoverWindow(a)
  \/ Crash
  \/ \E m \in BootModes : Boot(m)

Spec == Init /\ [][Next]_vars

\* Time passes, an expired setTimeout fires, and a process that died is restarted.
Fairness == WF_vars(Tick) /\ WF_vars(Expire) /\ WF_vars(\E m \in BootModes : Boot(m))

FairSpec == Spec /\ Fairness

-------------------------------------------------------------------------------
(***************************************************************************)
(* Properties                                                              *)
(***************************************************************************)

TypeOK ==
  /\ ModeTypeOK
  /\ up \in BOOLEAN
  /\ window \in WindowId \union {NoWindow}
  /\ frozen \in BOOLEAN
  /\ pending \in WindowId \union {NoWindow}
  /\ timer \in 0..Longest \union {NoTimer}
  /\ sinceGrant \in [Donor -> 0..Cooldown]
  /\ status \in [WindowId -> Statuses]
  /\ donor \in [WindowId -> Donor \union {NoDonor}]
  /\ duration \in [WindowId -> 0..Longest]
  /\ left \in [WindowId -> 0..Longest]
  /\ age \in [WindowId -> 0..Cooldown]
  /\ sincePaid \in [Donor -> 0..Cooldown]

\* One window at a time (D-05), on disk as in memory: no payment is granted a second
\* slot while one is live or banked, and no restart loses or duplicates the one there is.
OneWindow ==
  /\ \A i, j \in ActiveRows \union PendingRows : i = j
  /\ up => window = LatestOf(ActiveRows) /\ pending = LatestOf(PendingRows)
  /\ ~up => window = NoWindow /\ pending = NoWindow

\* The expiry timer is armed exactly while a window is live and not frozen, for the
\* persisted deadline (D-06): no window runs on after it or is cut short before it.
TimerMatchesDeadline ==
  timer = IF window # NoWindow /\ ~frozen THEN left[window] ELSE NoTimer

\* A banked window waits for a busy show only: in IDLE it would be stranded, and every
\* later payment refused (window-pending).
BankedWindowIsWaiting == up /\ pending # NoWindow => mode # "IDLE"

\* The process remembers each donor's last grant, or takes it for a later one: neither a
\* restart nor what closed the window ever shortens a cooldown (WR-03).
CooldownRemembered == up => \A d \in Donor : sinceGrant[d] <= sincePaid[d]

\* Two grants to one donor are a cooldown apart, whatever closed the first window and
\* however often the process died in between (D-04).
CooldownHolds ==
  [][\A i \in WindowId : status[i] = "none" /\ status'[i] # "none" =>
       sincePaid[donor'[i]] = Cooldown]_vars

\* What money bought is what the donor gets: the full duration from the moment the
\* window opens, never extended by a halt or a restart, and expired only when used up.
PaidTimeIsExact ==
  [][\A i \in WindowId :
       /\ status[i] # "active" /\ status'[i] = "active" => left'[i] = duration'[i]
       /\ status[i] = "active" /\ status'[i] = "active" => left'[i] <= left[i]
       /\ status'[i] = "expired" /\ status[i] # "expired" => status[i] = "active" /\ left[i] = 0]_vars

\* A window never opens out of a halt (T-h73-04): the recovery that brings the show to
\* IDLE leaves no window, live or banked, behind.
NoWindowOutOfHalt ==
  [][up /\ mode = "HALTED" /\ mode' \in {"IDLE", "FREE_REIGN_WINDOW"} =>
       /\ window' \in {window, NoWindow}
       /\ mode' = "IDLE" => window' = NoWindow /\ pending' = NoWindow]_vars

\* A live window ends: it expires, is revoked, or is frozen by a halt.
WindowEventuallyEnds ==
  \A i \in WindowId : status[i] = "active" ~> (status[i] # "active" \/ frozen)
===============================================================================

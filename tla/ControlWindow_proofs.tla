------------------------ MODULE ControlWindow_proofs ------------------------
(***************************************************************************)
(* What holds of ControlWindow for every set of donors, every duration,    *)
(* cooldown and number of windows.                                         *)
(***************************************************************************)
EXTENDS ControlWindow, WellFoundedInduction, TLAPS

-------------------------------------------------------------------------------
(***************************************************************************)
(* Reading the table                                                       *)
(***************************************************************************)

LEMMA NoWindowIsNoId == \A i \in WindowId : i \in Int /\ i # NoWindow
BY WindowAssumption DEF WindowId, NoWindow

LEMMA LongestIs ==
  /\ Longest \in Nat \ {0}
  /\ MinDuration \in 1..Longest /\ MaxDuration \in 1..Longest
BY DurationAssumption DEF Longest

\* Whatever the amount, NaN and negative and absurdly large ones included, the window it
\* buys is never outside the configured floor and cap (T-04-07).  Nothing orders the two:
\* with a floor above the cap a payment buys the floor or, when it is worth that much, the
\* shorter cap, and so never more than the larger of them.
THEOREM PaidTimesBounded ==
  /\ MinDuration <= MaxDuration => PaidTimes \subseteq MinDuration..MaxDuration
  /\ MinDuration > MaxDuration => PaidTimes \subseteq {MinDuration, MaxDuration}
  /\ PaidTimes \subseteq 1..Longest
<1>1. MaxDuration \in Nat \ {0} /\ MinDuration \in Nat \ {0} /\ TicksPerUnit \in Nat
  BY DurationAssumption
<1>2. ASSUME NEW amount \in Amounts
      PROVE  \/ AmountToDuration(amount) = MinDuration
             \/ AmountToDuration(amount) = MaxDuration /\ MinDuration <= amount * TicksPerUnit
             \/ /\ AmountToDuration(amount) = amount * TicksPerUnit
                /\ amount * TicksPerUnit \in MinDuration..MaxDuration
  <2>1. CASE amount = NotANumber
    BY <2>1 DEF AmountToDuration
  <2>2. CASE amount # NotANumber
    <3> DEFINE raw == amount * TicksPerUnit
    <3>1. amount \in Int
      BY <2>2, DurationAssumption
    <3>2. raw \in Int
      BY <3>1, <1>1
    <3>3. AmountToDuration(amount) = IF raw < MinDuration THEN MinDuration
                                     ELSE IF raw > MaxDuration THEN MaxDuration ELSE raw
      BY <2>2, Zenon DEF AmountToDuration
    <3> HIDE DEF raw
    <3>4. \/ AmountToDuration(amount) = MinDuration
          \/ AmountToDuration(amount) = MaxDuration /\ MinDuration <= raw
          \/ AmountToDuration(amount) = raw /\ raw \in MinDuration..MaxDuration
      BY <1>1, <3>2, <3>3
    <3>5. QED
      BY <3>4 DEF raw
  <2>3. QED
    BY <2>1, <2>2
<1>3. \A ticks \in PaidTimes : ticks \in {MinDuration, MaxDuration} \/ ticks \in MinDuration..MaxDuration
  BY <1>2 DEF PaidTimes
<1>4. QED
  BY <1>1, <1>3, LongestIs

\* The latest row of a set that has at most one is that one.
LEMMA LatestOfOne ==
  ASSUME NEW rows, rows \subseteq WindowId, \A i, j \in rows : i = j
  PROVE  /\ \A i \in rows : LatestOf(rows) = i
         /\ rows = {} <=> LatestOf(rows) = NoWindow
<1>1. ASSUME NEW i \in rows
      PROVE  LatestOf(rows) = i
  <2>1. i \in Int /\ \A j \in rows : j <= i
    BY NoWindowIsNoId
  <2>2. LatestOf(rows) \in rows
    BY <2>1 DEF LatestOf
  <2>3. QED
    BY <2>2
<1>2. rows = {} => LatestOf(rows) = NoWindow
  BY DEF LatestOf
<1>3. QED
  BY <1>1, <1>2, NoWindowIsNoId

\* A non-empty set of naturals has a least element.
LEMMA LeastNat ==
  ASSUME NEW S, S \subseteq Nat, S # {}
  PROVE  \E a \in S : \A b \in S : a <= b
<1>1. IsWellFoundedOn(OpToRel(<, Nat), Nat)
  BY NatLessThanWellFounded
<1>2. PICK a \in S : \A b \in S : ~(<<b, a>> \in OpToRel(<, Nat))
  BY <1>1, WFMin
<1>3. \A b \in S : ~(b < a)
  BY <1>2 DEF OpToRel
<1>4. QED
  BY <1>3

\* What boot reads back is the age of the donor's youngest row.
LEMMA GrantAgesIsYoungest ==
  ASSUME age \in [WindowId -> 0..Cooldown], NEW d \in Donor
  PROVE  /\ GrantAges \in [Donor -> 0..Cooldown]
         /\ \A i \in WindowId : status[i] # "none" /\ donor[i] = d => GrantAges[d] <= age[i]
<1> DEFINE Ages(e) == {age[i] : i \in {j \in WindowId : status[j] # "none" /\ donor[j] = e}}
                        \union {Cooldown}
<1>0. Cooldown \in Nat
  BY WindowAssumption
<1>1. ASSUME NEW e \in Donor
      PROVE  \E a \in 0..Cooldown : a \in Ages(e) /\ \A b \in Ages(e) : a <= b
  <2>1. Ages(e) \subseteq 0..Cooldown /\ Ages(e) # {}
    BY <1>0
  <2> HIDE DEF Ages
  <2>2. PICK a \in Ages(e) : \A b \in Ages(e) : a <= b
    BY <2>1, LeastNat
  <2>3. QED
    BY <2>1, <2>2
<1>2. GrantAges = [e \in Donor |->
                     CHOOSE a \in 0..Cooldown : a \in Ages(e) /\ \A b \in Ages(e) : a <= b]
  BY DEF GrantAges
<1>3. \A i \in WindowId : status[i] # "none" /\ donor[i] = d => age[i] \in Ages(d)
  OBVIOUS
<1> HIDE DEF Ages
<1>4. \A e \in Donor : /\ GrantAges[e] \in 0..Cooldown
                       /\ \A b \in Ages(e) : GrantAges[e] <= b
  BY <1>1, <1>2
<1>5. QED
  BY <1>2, <1>3, <1>4

-------------------------------------------------------------------------------
(***************************************************************************)
(* The inductive invariant                                                 *)
(***************************************************************************)

Granted(i) == status[i] # "none"

\* OneWindow row by row: the table's open row is the one memory holds.
Slots ==
  /\ \A i, j \in ActiveRows \union PendingRows : i = j
  /\ up => \A i \in WindowId : /\ status[i] = "active" <=> i = window
                               /\ status[i] = "pending" <=> i = pending
  /\ ~up => window = NoWindow /\ pending = NoWindow

\* A donor whose cooldown still runs has a row that is no older than their last grant:
\* what boot reads back is never too long ago.
LastGrantIsOnDisk ==
  \A d \in Donor : sincePaid[d] < Cooldown =>
    \E i \in WindowId : Granted(i) /\ donor[i] = d /\ age[i] <= sincePaid[d]

IInv ==
  /\ TypeOK
  /\ Slots
  /\ TimerMatchesDeadline
  /\ BankedWindowIsWaiting
  /\ CooldownRemembered
  /\ LastGrantIsOnDisk

\* What the slots say of memory.
LEMMA SlotFacts ==
  ASSUME IInv
  PROVE  /\ window # NoWindow => up /\ window \in WindowId /\ status[window] = "active"
         /\ pending # NoWindow => up /\ pending \in WindowId /\ status[pending] = "pending"
         /\ window = NoWindow \/ pending = NoWindow
         /\ up => \A i \in WindowId : i \notin {window, pending} =>
                    status[i] \notin {"active", "pending"}
<1>1. /\ window # NoWindow => up /\ window \in WindowId /\ status[window] = "active"
      /\ pending # NoWindow => up /\ pending \in WindowId /\ status[pending] = "pending"
  BY DEF IInv, TypeOK, Slots
<1>2. window = NoWindow \/ pending = NoWindow
  <2> SUFFICES ASSUME window # NoWindow, pending # NoWindow PROVE FALSE
    OBVIOUS
  <2>1. window \in ActiveRows /\ pending \in PendingRows
    BY <1>1 DEF ActiveRows, PendingRows
  <2>2. QED
    BY <1>1, <2>1 DEF IInv, Slots
<1>3. QED
  BY <1>1, <1>2 DEF IInv, Slots

LEMMA InitIInv == Init => IInv
<1> SUFFICES ASSUME Init PROVE IInv
  OBVIOUS
<1> USE WindowAssumption DEF Init
<1>1. TypeOK
  <2>1. ModeTypeOK
    BY DEF ModeTypeOK, ModeInit, Modes, ActiveModes, NoMode
  <2>2. /\ up \in BOOLEAN /\ frozen \in BOOLEAN
        /\ window \in WindowId \union {NoWindow} /\ pending \in WindowId \union {NoWindow}
        /\ timer \in 0..Longest \union {NoTimer}
    OBVIOUS
  <2>3. /\ sinceGrant \in [Donor -> 0..Cooldown] /\ sincePaid \in [Donor -> 0..Cooldown]
        /\ age \in [WindowId -> 0..Cooldown]
    OBVIOUS
  <2>4. /\ status \in [WindowId -> Statuses] /\ donor \in [WindowId -> Donor \union {NoDonor}]
        /\ duration \in [WindowId -> 0..Longest] /\ left \in [WindowId -> 0..Longest]
    BY LongestIs DEF Statuses
  <2>5. QED
    BY <2>1, <2>2, <2>3, <2>4 DEF TypeOK
<1>2. Slots /\ TimerMatchesDeadline
  BY NoWindowIsNoId DEF Slots, TimerMatchesDeadline, ActiveRows, PendingRows
<1>3. BankedWindowIsWaiting /\ CooldownRemembered /\ LastGrantIsOnDisk
  BY DEF BankedWindowIsWaiting, CooldownRemembered, LastGrantIsOnDisk
<1>4. QED
  BY <1>1, <1>2, <1>3 DEF IInv

-------------------------------------------------------------------------------
(***************************************************************************)
(* IInv is inductive: one lemma per action                                 *)
(***************************************************************************)

LEMMA TickStep ==
  ASSUME IInv, Tick
  PROVE  IInv'
<1> USE WindowAssumption
<1>1. TypeOK'
  BY LongestIs DEF Tick, Later, IInv, TypeOK, ModeTypeOK, modeVars, NoTimer
<1>2. Slots' /\ BankedWindowIsWaiting'
  BY DEF Tick, IInv, Slots, ActiveRows, PendingRows, BankedWindowIsWaiting, modeVars
<1>3. TimerMatchesDeadline'
  BY SlotFacts, LongestIs DEF Tick, IInv, TypeOK, TimerMatchesDeadline, NoTimer
<1>4. CooldownRemembered'
  BY DEF Tick, Later, IInv, TypeOK, CooldownRemembered
<1>5. LastGrantIsOnDisk'
  <2> SUFFICES ASSUME NEW d \in Donor, sincePaid'[d] < Cooldown
               PROVE  \E i \in WindowId : Granted(i)' /\ donor'[i] = d /\ age'[i] <= sincePaid'[d]
    BY DEF LastGrantIsOnDisk
  <2>1. sincePaid[d] < Cooldown /\ sincePaid'[d] = sincePaid[d] + 1
    BY DEF Tick, Later, IInv, TypeOK
  <2>2. PICK i \in WindowId : Granted(i) /\ donor[i] = d /\ age[i] <= sincePaid[d]
    BY <2>1 DEF IInv, LastGrantIsOnDisk
  <2>3. age'[i] <= age[i] + 1
    BY DEF Tick, Later, IInv, TypeOK
  <2>4. age'[i] <= sincePaid'[d]
    BY <2>1, <2>2, <2>3 DEF Tick, Later, IInv, TypeOK
  <2>5. QED
    BY <2>2, <2>4 DEF Tick, Granted
<1>6. QED
  BY <1>1, <1>2, <1>3, <1>4, <1>5 DEF IInv

\* The rows of a fresh grant: the donor's cooldown starts anew and is on disk.
LEMMA GrantStep ==
  ASSUME IInv, NEW i \in WindowId, NEW d \in Donor, NEW ticks \in 1..Longest,
         NEW st \in {"active", "pending"},
         MayOpen(d), Insert(i, d, ticks, st), Stamp(d), up' = up
  PROVE  /\ status' \in [WindowId -> Statuses] /\ donor' \in [WindowId -> Donor \union {NoDonor}]
         /\ duration' \in [WindowId -> 0..Longest] /\ left' \in [WindowId -> 0..Longest]
         /\ age' \in [WindowId -> 0..Cooldown]
         /\ sinceGrant' \in [Donor -> 0..Cooldown] /\ sincePaid' \in [Donor -> 0..Cooldown]
         /\ \A j \in WindowId : /\ j = i => status'[j] = st /\ left'[j] = ticks
                                /\ j # i => status'[j] \notin {"active", "pending"}
         /\ CooldownRemembered' /\ LastGrantIsOnDisk'
<1> USE WindowAssumption DEF Insert, Stamp
<1>1. /\ status' \in [WindowId -> Statuses] /\ donor' \in [WindowId -> Donor \union {NoDonor}]
      /\ duration' \in [WindowId -> 0..Longest] /\ left' \in [WindowId -> 0..Longest]
      /\ age' \in [WindowId -> 0..Cooldown]
      /\ sinceGrant' \in [Donor -> 0..Cooldown] /\ sincePaid' \in [Donor -> 0..Cooldown]
  BY DEF IInv, TypeOK, Statuses
<1>2. \A j \in WindowId : /\ j = i => status'[j] = st /\ left'[j] = ticks
                          /\ j # i => status'[j] \notin {"active", "pending"}
  <2>1. up /\ window = NoWindow /\ pending = NoWindow
    BY DEF MayOpen
  <2>2. \A j \in WindowId : status[j] \notin {"active", "pending"}
    BY <2>1, NoWindowIsNoId DEF IInv, Slots
  <2>3. QED
    BY <2>2 DEF IInv, TypeOK
<1>3. CooldownRemembered'
  BY DEF IInv, TypeOK, CooldownRemembered
<1>4. LastGrantIsOnDisk'
  <2> SUFFICES ASSUME NEW e \in Donor, sincePaid'[e] < Cooldown
               PROVE  \E j \in WindowId : Granted(j)' /\ donor'[j] = e /\ age'[j] <= sincePaid'[e]
    BY DEF LastGrantIsOnDisk
  <2>1. CASE e = d
    <3>1. Granted(i)' /\ donor'[i] = e /\ age'[i] <= sincePaid'[e]
      BY <2>1 DEF IInv, TypeOK, Granted
    <3>2. QED
      BY <3>1
  <2>2. CASE e # d
    <3>1. sincePaid'[e] = sincePaid[e]
      BY <2>2 DEF IInv, TypeOK
    <3>2. PICK j \in WindowId : Granted(j) /\ donor[j] = e /\ age[j] <= sincePaid[e]
      BY <3>1 DEF IInv, LastGrantIsOnDisk
    <3>3. j # i
      BY <3>2 DEF Granted
    <3>4. QED
      BY <3>1, <3>2, <3>3 DEF IInv, TypeOK, Granted
  <2>3. QED
    BY <2>1, <2>2
<1>5. QED
  BY <1>1, <1>2, <1>3, <1>4

LEMMA OpenNowStep ==
  ASSUME IInv, NEW i \in WindowId, NEW d \in Donor, NEW ticks \in 1..Longest,
         OpenNow(i, d, ticks)
  PROVE  IInv'
<1>1. /\ MayOpen(d) /\ Insert(i, d, ticks, "active") /\ Stamp(d) /\ up' = up
      /\ up /\ pending = NoWindow /\ pending' = NoWindow
      /\ window' = i /\ frozen' = FALSE /\ timer' = ticks
      /\ mode' = "FREE_REIGN_WINDOW" /\ haltedFrom' = haltedFrom /\ mode = "IDLE"
  BY DEF OpenNow, MayOpen, Transition
<1>2. TypeOK'
  <2>1. ModeTypeOK'
    BY <1>1 DEF IInv, TypeOK, ModeTypeOK, Modes, ActiveModes
  <2>2. timer' \in 0..Longest \union {NoTimer}
    BY <1>1, WindowAssumption
  <2>3. QED
    BY <1>1, <2>1, <2>2, GrantStep DEF IInv, TypeOK
<1>3. Slots' /\ BankedWindowIsWaiting'
  BY <1>1, GrantStep, NoWindowIsNoId
     DEF Slots, ActiveRows, PendingRows, BankedWindowIsWaiting
<1>4. TimerMatchesDeadline'
  BY <1>1, GrantStep, NoWindowIsNoId DEF TimerMatchesDeadline
<1>5. QED
  BY <1>1, <1>2, <1>3, <1>4, GrantStep DEF IInv

LEMMA BankStep ==
  ASSUME IInv, NEW i \in WindowId, NEW d \in Donor, NEW ticks \in 1..Longest,
         Bank(i, d, ticks)
  PROVE  IInv'
<1>1. /\ MayOpen(d) /\ Insert(i, d, ticks, "pending") /\ Stamp(d) /\ up' = up
      /\ up /\ window = NoWindow /\ window' = NoWindow /\ pending' = i
      /\ frozen' = frozen /\ timer' = timer
      /\ mode' = mode /\ haltedFrom' = haltedFrom /\ mode # "IDLE"
  BY DEF Bank, MayOpen, modeVars
<1>2. TypeOK'
  BY <1>1, GrantStep DEF IInv, TypeOK, ModeTypeOK
<1>3. Slots' /\ BankedWindowIsWaiting'
  BY <1>1, GrantStep, NoWindowIsNoId
     DEF Slots, ActiveRows, PendingRows, BankedWindowIsWaiting
<1>4. TimerMatchesDeadline'
  BY <1>1 DEF IInv, TimerMatchesDeadline
<1>5. QED
  BY <1>1, <1>2, <1>3, <1>4, GrantStep DEF IInv

\* Nothing but a grant and time itself touches the cooldowns.
LEMMA GrantsStay ==
  ASSUME IInv, UNCHANGED <<donor, sincePaid>>, age' \in [WindowId -> 0..Cooldown],
         \A i \in WindowId : Granted(i) => Granted(i)' /\ age'[i] <= age[i]
  PROVE  LastGrantIsOnDisk'
<1> SUFFICES ASSUME NEW d \in Donor, sincePaid'[d] < Cooldown
             PROVE  \E i \in WindowId : Granted(i)' /\ donor'[i] = d /\ age'[i] <= sincePaid'[d]
  BY DEF LastGrantIsOnDisk
<1>1. PICK i \in WindowId : Granted(i) /\ donor[i] = d /\ age[i] <= sincePaid[d]
  BY DEF IInv, LastGrantIsOnDisk
<1>2. age'[i] <= sincePaid'[d]
  BY <1>1, WindowAssumption DEF IInv, TypeOK
<1>3. QED
  BY <1>1, <1>2

\* A banked row that opens: what its promotion leaves in the table and in memory.
LEMMA PromoteFacts ==
  ASSUME IInv, NEW i \in WindowId, status[i] = "pending", Promote(i),
         UNCHANGED sincePaid, up'
  PROVE  /\ window' = i /\ pending' = NoWindow /\ mode' = "FREE_REIGN_WINDOW"
         /\ frozen' = FALSE /\ timer' \in 0..Longest /\ donor' = donor /\ duration' = duration
         /\ status' \in [WindowId -> Statuses] /\ left' \in [WindowId -> 0..Longest]
         /\ age' \in [WindowId -> 0..Cooldown]
         /\ Slots' /\ TimerMatchesDeadline' /\ BankedWindowIsWaiting' /\ LastGrantIsOnDisk'
<1> USE WindowAssumption
<1>1. /\ window' = i /\ pending' = NoWindow /\ mode' = "FREE_REIGN_WINDOW"
      /\ frozen' = FALSE /\ timer' \in 0..Longest /\ donor' = donor /\ duration' = duration
  BY DEF Promote, IInv, TypeOK
<1>2. /\ status' \in [WindowId -> Statuses] /\ left' \in [WindowId -> 0..Longest]
      /\ age' \in [WindowId -> 0..Cooldown]
  BY DEF Promote, IInv, TypeOK, Statuses
<1>3. Slots'
  <2>1. i \in PendingRows
    BY DEF PendingRows
  <2>2. \A j \in WindowId : j # i => status[j] \notin {"active", "pending"}
    BY <2>1 DEF IInv, Slots, ActiveRows, PendingRows
  <2>3. \A j \in WindowId : /\ j = i => status'[j] = "active"
                            /\ j # i => status'[j] \notin {"active", "pending"}
    BY <2>2 DEF Promote, IInv, TypeOK
  <2>4. QED
    BY <1>1, <2>3, NoWindowIsNoId DEF Slots, ActiveRows, PendingRows
<1>4. TimerMatchesDeadline'
  BY <1>1, NoWindowIsNoId DEF Promote, IInv, TypeOK, TimerMatchesDeadline
<1>5. BankedWindowIsWaiting'
  BY <1>1 DEF BankedWindowIsWaiting
<1>6. LastGrantIsOnDisk'
  <2>1. \A j \in WindowId : Granted(j) => Granted(j)' /\ age'[j] <= age[j]
    BY DEF Promote, Granted, IInv, TypeOK
  <2>2. QED
    BY <1>1, <1>2, <2>1, GrantsStay
<1>7. QED
  BY <1>1, <1>2, <1>3, <1>4, <1>5, <1>6

\* The slots and the timer do not depend on the mode.
LEMMA ModeStep ==
  ASSUME IInv, UNCHANGED <<up, memory, table, sincePaid>>, ModeTypeOK',
         mode' = "IDLE" => pending = NoWindow
  PROVE  IInv'
<1>1. TypeOK' /\ TimerMatchesDeadline' /\ BankedWindowIsWaiting'
  BY DEF IInv, TypeOK, TimerMatchesDeadline, BankedWindowIsWaiting, memory, table
<1>2. Slots' /\ CooldownRemembered' /\ LastGrantIsOnDisk'
  BY DEF IInv, Slots, ActiveRows, PendingRows, CooldownRemembered, LastGrantIsOnDisk,
         Granted, memory, table
<1>3. QED
  BY <1>1, <1>2 DEF IInv

LEMMA OtherTransitionStep ==
  ASSUME IInv, NEW to \in Modes, OtherTransition(to)
  PROVE  IInv'
<1>1. /\ up /\ up' = up /\ haltedFrom' = haltedFrom /\ sincePaid' = sincePaid
      /\ mode # "HALTED" /\ to # "HALTED"
  BY DEF OtherTransition, Transitions, IInv, TypeOK, ModeTypeOK, Modes, ActiveModes
<1>2. CASE to = "IDLE" /\ window = NoWindow /\ pending # NoWindow
  <2>1. /\ pending \in WindowId /\ status[pending] = "pending" /\ Promote(pending)
        /\ sinceGrant' = sinceGrant
    BY <1>2, SlotFacts DEF OtherTransition
  <2>2. ModeTypeOK'
    BY <1>1, <2>1 DEF Promote, IInv, TypeOK, ModeTypeOK, Modes, ActiveModes
  <2>3. TypeOK'
    BY <1>1, <2>1, <2>2, PromoteFacts DEF IInv, TypeOK
  <2>4. CooldownRemembered'
    BY <1>1, <2>1 DEF IInv, CooldownRemembered
  <2>5. QED
    BY <1>1, <2>1, <2>3, <2>4, PromoteFacts DEF IInv
<1>3. CASE ~(to = "IDLE" /\ window = NoWindow /\ pending # NoWindow)
  <2>1. mode' = to /\ UNCHANGED <<memory, table>>
    BY <1>3 DEF OtherTransition
  <2>2. ModeTypeOK'
    BY <1>1, <2>1 DEF IInv, TypeOK, ModeTypeOK
  <2>3. mode' = "IDLE" => pending = NoWindow
    BY <1>3, <2>1, SlotFacts
  <2>4. QED
    BY <1>1, <2>1, <2>2, <2>3, ModeStep
<1>4. QED
  BY <1>2, <1>3

LEMMA ReturnToWindowStep ==
  ASSUME IInv, ReturnToWindow
  PROVE  IInv'
<1>1. ModeTypeOK' /\ mode' # "IDLE"
  BY DEF ReturnToWindow, Transition, IInv, TypeOK, ModeTypeOK, Modes, ActiveModes
<1>2. QED
  BY <1>1, ModeStep DEF ReturnToWindow

\* A window that is closed and forgotten, whatever closed it and whatever mode is left.
LEMMA CloseStep ==
  ASSUME IInv, NEW st \in {"expired", "revoked"}, window # NoWindow, Close(st),
         UNCHANGED <<up, sincePaid>>, ModeTypeOK'
  PROVE  IInv'
<1>1. /\ window \in WindowId /\ status[window] = "active" /\ up /\ pending = NoWindow
      /\ \A i \in WindowId : i # window => status[i] \notin {"active", "pending"}
  BY SlotFacts, NoWindowIsNoId
<1>2. status' \in [WindowId -> Statuses]
      /\ \A i \in WindowId : status'[i] = IF i = window THEN st ELSE status[i]
  BY <1>1 DEF Close, IInv, TypeOK, Statuses
<1>3. TypeOK'
  BY <1>2 DEF Close, IInv, TypeOK
<1>4. Slots' /\ TimerMatchesDeadline' /\ BankedWindowIsWaiting'
  BY <1>1, <1>2, NoWindowIsNoId
     DEF Close, Slots, ActiveRows, PendingRows, TimerMatchesDeadline, BankedWindowIsWaiting
<1>5. CooldownRemembered'
  BY DEF Close, IInv, CooldownRemembered
<1>6. LastGrantIsOnDisk'
  <2>1. \A i \in WindowId : Granted(i) => Granted(i)' /\ age'[i] <= age[i]
    BY <1>2 DEF Close, Granted, IInv, TypeOK
  <2>2. QED
    BY <1>3, <2>1, GrantsStay DEF Close, TypeOK
<1>7. QED
  BY <1>3, <1>4, <1>5, <1>6 DEF IInv

LEMMA ExpireStep ==
  ASSUME IInv, Expire
  PROVE  IInv'
<1>1. window # NoWindow
  BY LongestIs DEF Expire, IInv, TimerMatchesDeadline, NoTimer
<1>2. ModeTypeOK'
  BY DEF Expire, LeaveWindowMode, Transition, modeVars, IInv, TypeOK, ModeTypeOK, Modes,
         ActiveModes
<1>3. QED
  BY <1>1, <1>2, CloseStep DEF Expire

\* Dropping whatever the slots hold, the banked window included.
LEMMA DropStep ==
  ASSUME IInv, up, UNCHANGED <<up, sincePaid, sinceGrant, donor, duration, left, age>>,
         status' = [i \in WindowId |-> IF i \in {window, pending} THEN "revoked" ELSE status[i]],
         window' = NoWindow, pending' = NoWindow, timer' = NoTimer, frozen' \in BOOLEAN,
         ModeTypeOK'
  PROVE  IInv'
<1>1. TypeOK'
  BY WindowAssumption DEF IInv, TypeOK, Statuses
<1>2. Slots' /\ TimerMatchesDeadline' /\ BankedWindowIsWaiting'
  BY SlotFacts, NoWindowIsNoId
     DEF Slots, ActiveRows, PendingRows, TimerMatchesDeadline, BankedWindowIsWaiting
<1>3. CooldownRemembered'
  BY DEF IInv, CooldownRemembered
<1>4. LastGrantIsOnDisk'
  <2>1. \A i \in WindowId : Granted(i) => Granted(i)' /\ age'[i] <= age[i]
    BY DEF Granted, IInv, TypeOK
  <2>2. QED
    BY <1>1, <2>1, GrantsStay DEF TypeOK
<1>5. QED
  BY <1>1, <1>2, <1>3, <1>4 DEF IInv

LEMMA RevokeStep ==
  ASSUME IInv, Revoke
  PROVE  IInv'
<1>1. CASE window # NoWindow /\ Close("revoked") /\ LeaveWindowMode
  <2>1. ModeTypeOK'
    BY <1>1 DEF LeaveWindowMode, Transition, modeVars, IInv, TypeOK, ModeTypeOK, Modes,
                ActiveModes
  <2>2. QED
    BY <1>1, <2>1, CloseStep DEF Revoke
<1>2. CASE window = NoWindow /\ pending # NoWindow /\ DiscardPending /\ UNCHANGED modeVars
  <2>1. ModeTypeOK'
    BY <1>2 DEF modeVars, IInv, TypeOK, ModeTypeOK
  <2>2. /\ window' = NoWindow /\ pending' = NoWindow /\ frozen' \in BOOLEAN /\ up
        /\ UNCHANGED <<up, sincePaid, sinceGrant, donor, duration, left, age>>
        /\ timer' = NoTimer
    BY <1>2 DEF Revoke, DiscardPending, IInv, TypeOK, TimerMatchesDeadline
  <2>3. status' = [i \in WindowId |-> IF i \in {window, pending} THEN "revoked" ELSE status[i]]
    BY <1>2, SlotFacts, NoWindowIsNoId DEF DiscardPending, IInv, TypeOK
  <2>4. QED
    BY <2>1, <2>2, <2>3, DropStep
<1>3. QED
  BY <1>1, <1>2 DEF Revoke

LEMMA HaltStep ==
  ASSUME IInv, Halt
  PROVE  IInv'
<1>1. /\ up /\ mode' = "HALTED" /\ haltedFrom' = mode /\ mode # "HALTED"
      /\ UNCHANGED <<up, window, pending, sinceGrant, table, sincePaid>>
  BY DEF Halt, ForceHalt
<1>2. /\ frozen' \in BOOLEAN /\ timer' \in 0..Longest \union {NoTimer}
      /\ TimerMatchesDeadline'
  <2>1. CASE window # NoWindow /\ ~frozen
    BY <1>1, <2>1 DEF Halt, Freeze, IInv, TimerMatchesDeadline
  <2>2. CASE ~(window # NoWindow /\ ~frozen)
    BY <1>1, <2>2 DEF Halt, IInv, TypeOK, TimerMatchesDeadline, table
  <2>3. QED
    BY <2>1, <2>2
<1>3. TypeOK'
  <2>1. ModeTypeOK'
    BY <1>1 DEF IInv, TypeOK, ModeTypeOK, Modes, ActiveModes, NoMode
  <2>2. QED
    BY <1>1, <1>2, <2>1 DEF IInv, TypeOK, table
<1>4. Slots' /\ BankedWindowIsWaiting' /\ CooldownRemembered' /\ LastGrantIsOnDisk'
  BY <1>1 DEF IInv, Slots, ActiveRows, PendingRows, BankedWindowIsWaiting,
              CooldownRemembered, LastGrantIsOnDisk, Granted, table
<1>5. QED
  BY <1>2, <1>3, <1>4 DEF IInv

LEMMA ResumeWindowStep ==
  ASSUME IInv, window # NoWindow, ResumeWindow, haltedFrom' = NoMode,
         UNCHANGED <<up, sincePaid>>
  PROVE  IInv'
<1>1. ModeTypeOK' /\ mode' \in {"FREE_REIGN_WINDOW", "IDLE"}
  BY DEF ResumeWindow, ModeTypeOK, Modes, ActiveModes
<1>2. CASE left[window] > 0
  <2>1. /\ frozen' = FALSE /\ timer' = left[window] /\ mode' = "FREE_REIGN_WINDOW"
        /\ UNCHANGED <<window, pending, sinceGrant, table>>
    BY <1>2 DEF ResumeWindow
  <2>2. timer' \in 0..Longest
    BY <2>1, SlotFacts DEF IInv, TypeOK
  <2>3. TypeOK' /\ TimerMatchesDeadline' /\ BankedWindowIsWaiting'
    BY <1>1, <2>1, <2>2 DEF IInv, TypeOK, TimerMatchesDeadline, BankedWindowIsWaiting, table
  <2>4. Slots' /\ CooldownRemembered' /\ LastGrantIsOnDisk'
    BY <2>1 DEF IInv, Slots, ActiveRows, PendingRows, CooldownRemembered,
                LastGrantIsOnDisk, Granted, table
  <2>5. QED
    BY <2>3, <2>4 DEF IInv
<1>3. CASE ~(left[window] > 0)
  BY <1>1, <1>3, CloseStep DEF ResumeWindow
<1>4. QED
  BY <1>2, <1>3

\* Which of its three branches a recovery takes.
LEMMA RecoverCases ==
  ASSUME IInv, NEW a \in RecoveryActions, RecoverWindow(a)
  PROVE  /\ up /\ mode = "HALTED" /\ haltedFrom' = NoMode /\ UNCHANGED <<up, sincePaid>>
         /\ \/ window # NoWindow /\ frozen /\ ResumeWindow
            \/ DiscardAll /\ mode' = "IDLE"
            \/ UNCHANGED <<memory, table>> /\ mode' \in ActiveModes \ {"IDLE"}
<1> DEFINE target == RecoveryTarget(a, haltedFrom)
<1>1. target \in ActiveModes
  BY DEF RecoverWindow, RecoveryTarget, RecoveryActions, IInv, TypeOK, ModeTypeOK,
         ActiveModes
<1>2. /\ up /\ mode = "HALTED" /\ haltedFrom' = NoMode /\ UNCHANGED <<up, sincePaid>>
      /\ CASE target = "FREE_REIGN_WINDOW" /\ window # NoWindow /\ frozen -> ResumeWindow
           [] target = "IDLE" -> DiscardAll /\ mode' = target
           [] OTHER -> mode' = target /\ UNCHANGED <<memory, table>>
  BY DEF RecoverWindow
<1> HIDE DEF target
<1>3. CASE target = "FREE_REIGN_WINDOW" /\ window # NoWindow /\ frozen
  BY <1>2, <1>3
<1>4. CASE target = "IDLE"
  BY <1>2, <1>4
<1>5. CASE target # "IDLE" /\ ~(target = "FREE_REIGN_WINDOW" /\ window # NoWindow /\ frozen)
  BY <1>1, <1>2, <1>5
<1>6. QED
  BY <1>3, <1>4, <1>5

LEMMA RecoverStep ==
  ASSUME IInv, NEW a \in RecoveryActions, RecoverWindow(a)
  PROVE  IInv'
<1>1. CASE window # NoWindow /\ frozen /\ ResumeWindow
  BY <1>1, RecoverCases, ResumeWindowStep
<1>2. CASE DiscardAll /\ mode' = "IDLE"
  <2>1. ModeTypeOK' /\ frozen' \in BOOLEAN
    BY <1>2, RecoverCases DEF DiscardAll, ModeTypeOK, Modes, ActiveModes
  <2>2. QED
    BY <1>2, <2>1, RecoverCases, DropStep DEF DiscardAll
<1>3. CASE UNCHANGED <<memory, table>> /\ mode' \in ActiveModes \ {"IDLE"}
  <2>1. ModeTypeOK'
    BY <1>3, RecoverCases DEF ModeTypeOK, Modes, ActiveModes
  <2>2. QED
    BY <1>3, <2>1, RecoverCases, ModeStep
<1>4. QED
  BY <1>1, <1>2, <1>3, RecoverCases

LEMMA CrashStep ==
  ASSUME IInv, Crash
  PROVE  IInv'
<1> USE DEF Crash
<1>1. TypeOK'
  <2>1. sinceGrant' \in [Donor -> 0..Cooldown]
    BY WindowAssumption
  <2>2. QED
    BY <2>1 DEF IInv, TypeOK, ModeTypeOK, modeVars, table
<1>2. Slots'
  BY DEF IInv, Slots, ActiveRows, PendingRows, table
<1>3. TimerMatchesDeadline' /\ BankedWindowIsWaiting' /\ CooldownRemembered'
  BY DEF TimerMatchesDeadline, BankedWindowIsWaiting, CooldownRemembered
<1>4. LastGrantIsOnDisk'
  BY DEF IInv, LastGrantIsOnDisk, Granted, table
<1>5. QED
  BY <1>1, <1>2, <1>3, <1>4 DEF IInv

\* While the process is down memory holds nothing, and the table has at most one open row.
LEMMA DownFacts ==
  ASSUME IInv, ~up
  PROVE  /\ window = NoWindow /\ pending = NoWindow /\ timer = NoTimer
         /\ \A i \in ActiveRows : /\ i \in WindowId /\ LatestOf(ActiveRows) = i
                                  /\ LatestOf(PendingRows) = NoWindow
                                  /\ \A j \in WindowId : j # i => status[j] \notin {"active", "pending"}
         /\ \A i \in PendingRows : i \in WindowId /\ LatestOf(PendingRows) = i /\ ActiveRows = {}
         /\ ActiveRows = {} <=> LatestOf(ActiveRows) = NoWindow
         /\ PendingRows = {} <=> LatestOf(PendingRows) = NoWindow
<1>1. window = NoWindow /\ pending = NoWindow /\ timer = NoTimer
  BY DEF IInv, Slots, TimerMatchesDeadline
<1>2. \A i, j \in ActiveRows \union PendingRows : i = j
  BY DEF IInv, Slots
<1>3. /\ ActiveRows \subseteq WindowId /\ PendingRows \subseteq WindowId
      /\ ActiveRows \intersect PendingRows = {}
  BY DEF ActiveRows, PendingRows
<1>4. /\ \A i \in ActiveRows : PendingRows = {}
      /\ \A i \in PendingRows : ActiveRows = {}
  BY <1>2, <1>3
<1>5. \A i \in ActiveRows, j \in WindowId : j # i => status[j] \notin {"active", "pending"}
  BY <1>2, <1>3 DEF ActiveRows, PendingRows
<1>6. /\ \A i \in ActiveRows : LatestOf(ActiveRows) = i
      /\ ActiveRows = {} <=> LatestOf(ActiveRows) = NoWindow
  BY <1>2, <1>3, LatestOfOne
<1>7. /\ \A i \in PendingRows : LatestOf(PendingRows) = i
      /\ PendingRows = {} <=> LatestOf(PendingRows) = NoWindow
  BY <1>2, <1>3, LatestOfOne
<1>8. QED
  BY <1>1, <1>3, <1>4, <1>5, <1>6, <1>7

\* The cooldowns boot reads back are none too long ago.
LEMMA BootRemembers ==
  ASSUME IInv
  PROVE  GrantAges \in [Donor -> 0..Cooldown] /\ \A d \in Donor : GrantAges[d] <= sincePaid[d]
<1>1. age \in [WindowId -> 0..Cooldown] /\ sincePaid \in [Donor -> 0..Cooldown]
  BY DEF IInv, TypeOK
<1>2. GrantAges \in [Donor -> 0..Cooldown]
  BY <1>1, GrantAgesIsYoungest DEF GrantAges
<1>3. ASSUME NEW d \in Donor
      PROVE  GrantAges[d] <= sincePaid[d]
  <2>1. CASE sincePaid[d] < Cooldown
    <3>1. PICK i \in WindowId : Granted(i) /\ donor[i] = d /\ age[i] <= sincePaid[d]
      BY <2>1 DEF IInv, LastGrantIsOnDisk
    <3>2. GrantAges[d] <= age[i]
      BY <1>1, <3>1, GrantAgesIsYoungest DEF Granted
    <3>3. QED
      BY <1>1, <1>2, <3>1, <3>2, WindowAssumption
  <2>2. CASE ~(sincePaid[d] < Cooldown)
    BY <1>1, <1>2, <2>2, WindowAssumption
  <2>3. QED
    BY <2>1, <2>2
<1>4. QED
  BY <1>2, <1>3

LEMMA BootLiveStep ==
  ASSUME IInv, NEW m \in BootModes, ~up, up' = TRUE, haltedFrom' = BootHaltContext(m),
         sinceGrant' = GrantAges, UNCHANGED sincePaid,
         ActiveRows # {}, left[LatestOf(ActiveRows)] > 0, BootLive(m)
  PROVE  IInv'
<1>1. PICK i \in ActiveRows : TRUE
  OBVIOUS
<1>2. /\ i \in WindowId /\ i # NoWindow /\ status[i] = "active"
      /\ window' = i /\ timer' = left[i] /\ frozen' = FALSE /\ pending' = NoWindow
      /\ mode' = (IF m = "IDLE" THEN "FREE_REIGN_WINDOW" ELSE m) /\ UNCHANGED table
      /\ \A j \in WindowId : j # i => status[j] \notin {"active", "pending"}
  BY <1>1, DownFacts, NoWindowIsNoId DEF BootLive, ActiveRows
<1>3. ModeTypeOK'
  BY <1>2 DEF BootModes, BootHaltContext, ModeTypeOK, Modes, ActiveModes, NoMode
<1>4. timer' \in 0..Longest
  BY <1>2 DEF IInv, TypeOK
<1>5. TypeOK'
  BY <1>2, <1>3, <1>4, BootRemembers DEF IInv, TypeOK, table
<1>6. Slots' /\ TimerMatchesDeadline' /\ BankedWindowIsWaiting'
  BY <1>2, NoWindowIsNoId DEF Slots, ActiveRows, PendingRows, TimerMatchesDeadline,
                              BankedWindowIsWaiting, table
<1>7. CooldownRemembered' /\ LastGrantIsOnDisk'
  BY <1>2, BootRemembers DEF IInv, CooldownRemembered, LastGrantIsOnDisk, Granted, table
<1>8. QED
  BY <1>5, <1>6, <1>7 DEF IInv

LEMMA BootExpiredStep ==
  ASSUME IInv, NEW m \in BootModes, ~up, up' = TRUE, haltedFrom' = BootHaltContext(m),
         sinceGrant' = GrantAges, UNCHANGED sincePaid,
         ActiveRows # {}, BootExpired(m)
  PROVE  IInv'
<1>1. PICK i \in ActiveRows : TRUE
  OBVIOUS
<1>2. /\ i \in WindowId /\ i # NoWindow /\ status[i] = "active"
      /\ status' = [status EXCEPT ![i] = "expired"]
      /\ window' = NoWindow /\ timer' = NoTimer /\ frozen' = frozen /\ pending' = NoWindow
      /\ mode' = m /\ UNCHANGED <<donor, duration, left, age>>
      /\ \A j \in WindowId : j # i => status[j] \notin {"active", "pending"}
  BY <1>1, DownFacts, NoWindowIsNoId DEF BootExpired, ActiveRows
<1>3. ModeTypeOK'
  BY <1>2 DEF BootModes, BootHaltContext, ModeTypeOK, Modes, ActiveModes, NoMode
<1>4. status' \in [WindowId -> Statuses]
      /\ \A j \in WindowId : status'[j] = IF j = i THEN "expired" ELSE status[j]
  BY <1>2 DEF IInv, TypeOK, Statuses
<1>5. TypeOK'
  BY <1>2, <1>3, <1>4, BootRemembers DEF IInv, TypeOK
<1>6. Slots' /\ TimerMatchesDeadline' /\ BankedWindowIsWaiting'
  BY <1>2, <1>4, NoWindowIsNoId DEF Slots, ActiveRows, PendingRows, TimerMatchesDeadline,
                                    BankedWindowIsWaiting
<1>7. CooldownRemembered'
  BY BootRemembers DEF CooldownRemembered
<1>8. LastGrantIsOnDisk'
  <2>1. \A j \in WindowId : Granted(j) => Granted(j)' /\ age'[j] <= age[j]
    BY <1>2, <1>4 DEF Granted, IInv, TypeOK
  <2>2. QED
    BY <1>2, <1>5, <2>1, GrantsStay DEF TypeOK
<1>9. QED
  BY <1>5, <1>6, <1>7, <1>8 DEF IInv

LEMMA BootBankedStep ==
  ASSUME IInv, NEW m \in BootModes, ~up, up' = TRUE, haltedFrom' = BootHaltContext(m),
         sinceGrant' = GrantAges, UNCHANGED sincePaid,
         ActiveRows = {}, BootBanked(m)
  PROVE  IInv'
<1>1. CASE PendingRows # {} /\ m = "IDLE"
  <2>1. PICK i \in PendingRows : TRUE
    BY <1>1
  <2>2. i \in WindowId /\ status[i] = "pending" /\ Promote(i)
    BY <1>1, <2>1, DownFacts DEF BootBanked, PendingRows
  <2>3. ModeTypeOK'
    BY <1>1, <2>2 DEF Promote, BootHaltContext, ModeTypeOK, Modes, ActiveModes
  <2>4. TypeOK'
    BY <2>2, <2>3, PromoteFacts, BootRemembers DEF IInv, TypeOK
  <2>5. CooldownRemembered'
    BY BootRemembers DEF CooldownRemembered
  <2>6. QED
    BY <2>2, <2>4, <2>5, PromoteFacts DEF IInv
<1>2. CASE ~(PendingRows # {} /\ m = "IDLE")
  <2>1. /\ pending' = LatestOf(PendingRows) /\ mode' = m
        /\ UNCHANGED <<window, frozen, timer, table>>
    BY <1>2 DEF BootBanked
  <2>2. /\ LatestOf(PendingRows) \in WindowId \union {NoWindow}
        /\ window = NoWindow /\ timer = NoTimer
        /\ \A j \in WindowId : /\ status[j] # "active"
                               /\ status[j] = "pending" <=> j = LatestOf(PendingRows)
    <3>1. \A i \in PendingRows : \A j \in PendingRows : j = i
      BY DEF IInv, Slots
    <3>2. QED
      BY <3>1, DownFacts, NoWindowIsNoId DEF ActiveRows, PendingRows
  <2>3. ModeTypeOK'
    BY <2>1 DEF BootModes, BootHaltContext, ModeTypeOK, Modes, ActiveModes, NoMode
  <2>4. TypeOK'
    BY <2>1, <2>2, <2>3, BootRemembers DEF IInv, TypeOK, table
  <2>5. Slots' /\ TimerMatchesDeadline'
    BY <2>1, <2>2, NoWindowIsNoId DEF IInv, Slots, ActiveRows, PendingRows,
                                      TimerMatchesDeadline, table
  <2>6. BankedWindowIsWaiting'
    BY <1>2, <2>1, DownFacts DEF BankedWindowIsWaiting
  <2>7. CooldownRemembered' /\ LastGrantIsOnDisk'
    BY <2>1, BootRemembers DEF IInv, CooldownRemembered, LastGrantIsOnDisk, Granted, table
  <2>8. QED
    BY <2>4, <2>5, <2>6, <2>7 DEF IInv
<1>3. QED
  BY <1>1, <1>2

LEMMA BootStep ==
  ASSUME IInv, NEW m \in BootModes, Boot(m)
  PROVE  IInv'
<1>1. /\ ~up /\ up' = TRUE /\ haltedFrom' = BootHaltContext(m)
      /\ sinceGrant' = GrantAges /\ UNCHANGED sincePaid
  BY DEF Boot
<1>2. CASE ActiveRows = {}
  BY <1>1, <1>2, BootBankedStep DEF Boot
<1>3. CASE ActiveRows # {} /\ left[LatestOf(ActiveRows)] > 0
  BY <1>1, <1>3, BootLiveStep DEF Boot
<1>4. CASE ActiveRows # {} /\ ~(left[LatestOf(ActiveRows)] > 0)
  BY <1>1, <1>4, BootExpiredStep DEF Boot
<1>5. QED
  BY <1>2, <1>3, <1>4

LEMMA NextStep ==
  ASSUME IInv, [Next]_vars
  PROVE  IInv'
<1>1. CASE UNCHANGED vars
  BY <1>1, ModeStep, SlotFacts
     DEF vars, memory, table, IInv, TypeOK, ModeTypeOK, BankedWindowIsWaiting
<1>2. CASE \E i \in WindowId, d \in Donor, ticks \in PaidTimes :
             OpenNow(i, d, ticks) \/ Bank(i, d, ticks)
  BY <1>2, OpenNowStep, BankStep, PaidTimesBounded
<1>3. CASE (\E to \in Modes : OtherTransition(to)) \/ ReturnToWindow \/ Tick
  BY <1>3, OtherTransitionStep, ReturnToWindowStep, TickStep
<1>4. CASE Expire \/ Revoke \/ Halt \/ Crash
  BY <1>4, ExpireStep, RevokeStep, HaltStep, CrashStep
<1>5. CASE \E a \in RecoveryActions : RecoverWindow(a)
  BY <1>5, RecoverStep
<1>6. CASE \E m \in BootModes : Boot(m)
  BY <1>6, BootStep
<1>7. QED
  BY <1>1, <1>2, <1>3, <1>4, <1>5, <1>6 DEF Next

-------------------------------------------------------------------------------
(***************************************************************************)
(* The theorems                                                            *)
(***************************************************************************)

LEMMA Invariance == Spec => []IInv
<1>1. IInv /\ [Next]_vars => IInv'
  BY NextStep
<1>2. QED
  BY <1>1, InitIInv, PTL DEF Spec

\* Type correctness of the paid windows and of their table.
THEOREM TypeCorrect == Spec => []TypeOK
<1>1. IInv => TypeOK
  BY DEF IInv
<1>2. QED
  BY <1>1, Invariance, PTL

LEMMA SlotsAreOneWindow == IInv => OneWindow
<1> SUFFICES ASSUME IInv PROVE OneWindow
  OBVIOUS
<1>1. \A i, j \in ActiveRows \union PendingRows : i = j
  BY DEF IInv, Slots
<1>2. ASSUME up
      PROVE  window = LatestOf(ActiveRows) /\ pending = LatestOf(PendingRows)
  <2>1. \A i \in WindowId : /\ i \in ActiveRows <=> i = window
                            /\ i \in PendingRows <=> i = pending
    BY <1>2 DEF IInv, Slots, ActiveRows, PendingRows
  <2>2. /\ ActiveRows \subseteq WindowId /\ PendingRows \subseteq WindowId
        /\ window \in WindowId \union {NoWindow} /\ pending \in WindowId \union {NoWindow}
    BY DEF ActiveRows, PendingRows, IInv, TypeOK
  <2>3. /\ \A i \in ActiveRows : LatestOf(ActiveRows) = i
        /\ ActiveRows = {} <=> LatestOf(ActiveRows) = NoWindow
    BY <1>1, <2>2, LatestOfOne
  <2>4. /\ \A i \in PendingRows : LatestOf(PendingRows) = i
        /\ PendingRows = {} <=> LatestOf(PendingRows) = NoWindow
    BY <1>1, <2>2, LatestOfOne
  <2>5. window = LatestOf(ActiveRows)
    <3>1. window # NoWindow => window \in ActiveRows
      BY <2>1, <2>2
    <3>2. window = NoWindow => ActiveRows = {}
      BY <2>1, <2>2, NoWindowIsNoId
    <3>3. QED
      BY <2>3, <3>1, <3>2
  <2>6. pending = LatestOf(PendingRows)
    <3>1. pending # NoWindow => pending \in PendingRows
      BY <2>1, <2>2
    <3>2. pending = NoWindow => PendingRows = {}
      BY <2>1, <2>2, NoWindowIsNoId
    <3>3. QED
      BY <2>4, <3>1, <3>2
  <2>7. QED
    BY <2>5, <2>6
<1>3. QED
  BY <1>1, <1>2 DEF OneWindow, IInv, Slots

\* No payment is ever granted a second slot, and no restart loses or doubles the one there
\* is: the open row on disk is the one in memory.
THEOREM OneWindowAtATime == Spec => []OneWindow
BY SlotsAreOneWindow, Invariance, PTL

\* The expiry timer is armed exactly for a live window, at its persisted deadline.
THEOREM TimerIsTheDeadline == Spec => []TimerMatchesDeadline
<1>1. IInv => TimerMatchesDeadline
  BY DEF IInv
<1>2. QED
  BY <1>1, Invariance, PTL

\* A banked window never sits in an idle show.
THEOREM BankedWaits == Spec => []BankedWindowIsWaiting
<1>1. IInv => BankedWindowIsWaiting
  BY DEF IInv
<1>2. QED
  BY <1>1, Invariance, PTL

\* A process, restarted or not, never takes a donor's last grant for an older one.
THEOREM CooldownIsRemembered == Spec => []CooldownRemembered
<1>1. IInv => CooldownRemembered
  BY DEF IInv
<1>2. QED
  BY <1>1, Invariance, PTL

\* Only a grant makes a row.
LEMMA OnlyGrantsInsert ==
  ASSUME IInv, [Next]_vars, NEW i \in WindowId, status[i] = "none", status'[i] # "none"
  PROVE  \E d \in Donor : MayOpen(d) /\ donor'[i] = d
<1>1. CASE \E j \in WindowId, d \in Donor, ticks \in PaidTimes :
             OpenNow(j, d, ticks) \/ Bank(j, d, ticks)
  <2>1. PICK j \in WindowId, d \in Donor, ticks \in PaidTimes :
             OpenNow(j, d, ticks) \/ Bank(j, d, ticks)
    BY <1>1
  <2>2. MayOpen(d) /\ (Insert(j, d, ticks, "active") \/ Insert(j, d, ticks, "pending"))
    BY <2>1 DEF OpenNow, Bank
  <2>3. j = i /\ donor'[i] = d
    BY <2>2 DEF Insert, IInv, TypeOK
  <2>4. QED
    BY <2>2, <2>3
<1>2. CASE UNCHANGED status
  BY <1>2
<1>3. CASE UNCHANGED vars \/ Tick \/ ReturnToWindow \/ Halt \/ Crash
  BY <1>2, <1>3 DEF vars, table, Tick, ReturnToWindow, Halt, Crash
<1>4. CASE \E to \in Modes : OtherTransition(to)
  <2>1. UNCHANGED status \/ (pending # NoWindow /\ Promote(pending))
    BY <1>4 DEF OtherTransition, table
  <2>2. CASE pending # NoWindow /\ Promote(pending)
    BY <2>2, SlotFacts DEF Promote, IInv, TypeOK
  <2>3. QED
    BY <1>2, <2>1, <2>2
<1>5. CASE Expire \/ Revoke
  <2>1. window # NoWindow \/ ~Expire
    BY LongestIs DEF Expire, IInv, TimerMatchesDeadline, NoTimer
  <2>2. status'[i] = status[i]
    BY <1>5, <2>1, SlotFacts DEF Expire, Revoke, Close, DiscardPending, IInv, TypeOK
  <2>3. QED
    BY <2>2
<1>6. CASE \E a \in RecoveryActions : RecoverWindow(a)
  <2>1. \/ window # NoWindow /\ ResumeWindow
        \/ DiscardAll
        \/ UNCHANGED status
    BY <1>6, RecoverCases DEF table
  <2>2. status'[i] = status[i]
    BY <2>1, SlotFacts, NoWindowIsNoId DEF ResumeWindow, Close, DiscardAll, IInv, TypeOK, table
  <2>3. QED
    BY <2>2
<1>7. CASE \E m \in BootModes : Boot(m)
  <2>1. PICK m \in BootModes : Boot(m)
    BY <1>7
  <2>2. ~up /\ i \notin ActiveRows \union PendingRows
    BY <2>1 DEF Boot, ActiveRows, PendingRows
  <2>3. \/ UNCHANGED status
        \/ \E j \in ActiveRows \union PendingRows, st \in Statuses : status' = [status EXCEPT ![j] = st]
    BY <2>1, <2>2, DownFacts
       DEF Boot, BootBanked, BootLive, BootExpired, Promote, table, Statuses
  <2>4. status'[i] = status[i]
    BY <2>2, <2>3 DEF IInv, TypeOK
  <2>5. QED
    BY <2>4
<1>8. QED
  BY <1>1, <1>3, <1>4, <1>5, <1>6, <1>7 DEF Next

\* Two grants to one donor are a cooldown apart, through restarts, revocations and halts.
THEOREM CooldownIsKept == Spec => CooldownHolds
<1>1. ASSUME IInv, [Next]_vars, NEW i \in WindowId, status[i] = "none", status'[i] # "none"
      PROVE  sincePaid[donor'[i]] = Cooldown
  <2>1. PICK d \in Donor : MayOpen(d) /\ donor'[i] = d
    BY <1>1, OnlyGrantsInsert
  <2>2. sinceGrant[d] = Cooldown /\ sinceGrant[d] <= sincePaid[d] /\ sincePaid[d] \in 0..Cooldown
    BY <1>1, <2>1 DEF MayOpen, IInv, TypeOK, CooldownRemembered
  <2>3. QED
    BY <2>1, <2>2, WindowAssumption
<1>2. IInv /\ [Next]_vars =>
        [\A i \in WindowId : status[i] = "none" /\ status'[i] # "none" =>
           sincePaid[donor'[i]] = Cooldown]_vars
  BY <1>1
<1>3. QED
  BY <1>2, Invariance, PTL DEF Spec, CooldownHolds

\* What money bought is what the donor gets, through halts, restarts and promotions.
THEOREM PaidTimeIsKept == Spec => PaidTimeIsExact
<1>1. ASSUME IInv, [Next]_vars, NEW i \in WindowId
      PROVE  /\ status[i] # "active" /\ status'[i] = "active" => left'[i] = duration'[i]
             /\ status[i] = "active" /\ status'[i] = "active" => left'[i] <= left[i]
             /\ status'[i] = "expired" /\ status[i] # "expired" => status[i] = "active" /\ left[i] = 0
  <2> DEFINE Exact == /\ status[i] # "active" /\ status'[i] = "active" => left'[i] = duration'[i]
                      /\ status[i] = "active" /\ status'[i] = "active" => left'[i] <= left[i]
                      /\ status'[i] = "expired" /\ status[i] # "expired" =>
                           status[i] = "active" /\ left[i] = 0
  <2>1. left[i] \in Nat /\ Longest \in Nat \ {0}
    BY <1>1, LongestIs DEF IInv, TypeOK
  <2>2. CASE UNCHANGED <<status, left>>
    BY <2>1, <2>2
  <2>3. CASE UNCHANGED vars \/ ReturnToWindow \/ Halt \/ Crash
    BY <2>2, <2>3 DEF vars, table, ReturnToWindow, Halt, Crash
  <2>4. CASE Tick
    BY <1>1, <2>1, <2>4 DEF Tick, IInv, TypeOK
  <2>5. CASE \E j \in WindowId, d \in Donor, ticks \in PaidTimes :
               OpenNow(j, d, ticks) \/ Bank(j, d, ticks)
    <3>1. PICK j \in WindowId, d \in Donor, ticks \in PaidTimes, st \in {"active", "pending"} :
            Insert(j, d, ticks, st)
      BY <2>5 DEF OpenNow, Bank
    <3>2. QED
      BY <1>1, <2>1, <3>1 DEF Insert, IInv, TypeOK
  <2>6. ASSUME NEW j \in WindowId, status[j] = "pending", Promote(j)
        PROVE  Exact
    BY <1>1, <2>1, <2>6 DEF Promote, IInv, TypeOK
  <2>7. ASSUME window # NoWindow, NEW st \in {"expired", "revoked"}, Close(st),
               st = "expired" => left[window] = 0
        PROVE  Exact
    BY <1>1, <2>1, <2>7, SlotFacts DEF Close, IInv, TypeOK
  <2>8. CASE \E to \in Modes : OtherTransition(to)
    <3>1. UNCHANGED <<status, left>> \/ (pending # NoWindow /\ Promote(pending))
      BY <2>8 DEF OtherTransition, table
    <3>2. QED
      BY <1>1, <2>2, <2>6, <3>1, SlotFacts
  <2>9. CASE Expire \/ Revoke
    <3>1. CASE Expire
      <4>1. window # NoWindow /\ left[window] = 0
        BY <1>1, <2>1, <3>1 DEF Expire, IInv, TimerMatchesDeadline, NoTimer
      <4>2. QED
        BY <2>7, <3>1, <4>1 DEF Expire
    <3>2. CASE Revoke /\ window # NoWindow
      BY <2>7, <3>2 DEF Revoke
    <3>3. CASE Revoke /\ window = NoWindow
      <4>1. pending # NoWindow /\ DiscardPending
        BY <3>3 DEF Revoke
      <4>2. QED
        BY <1>1, <2>1, <4>1, SlotFacts DEF DiscardPending, IInv, TypeOK
    <3>4. QED
      BY <2>9, <3>1, <3>2, <3>3
  <2>10. CASE \E a \in RecoveryActions : RecoverWindow(a)
    <3>1. CASE window # NoWindow /\ ResumeWindow
      <4>1. left[window] \in Nat
        BY <1>1, <3>1, SlotFacts DEF IInv, TypeOK
      <4>2. UNCHANGED <<status, left>> \/ (Close("expired") /\ left[window] = 0)
        BY <3>1, <4>1 DEF ResumeWindow, table
      <4>3. QED
        BY <2>2, <2>7, <3>1, <4>2
    <3>2. CASE DiscardAll
      BY <1>1, <2>1, <3>2, NoWindowIsNoId DEF DiscardAll, IInv, TypeOK
    <3>3. CASE UNCHANGED <<memory, table>>
      BY <2>2, <3>3 DEF table
    <3>4. QED
      BY <1>1, <2>10, <3>1, <3>2, <3>3, RecoverCases
  <2>11. CASE \E m \in BootModes : Boot(m)
    <3>1. PICK m \in BootModes : Boot(m)
      BY <2>11
    <3>2. ~up
      BY <3>1 DEF Boot
    <3>3. CASE ActiveRows = {}
      <4>1. UNCHANGED <<status, left>> \/ \E j \in PendingRows : Promote(j)
        BY <1>1, <3>1, <3>2, <3>3, DownFacts DEF Boot, BootBanked, table
      <4>2. QED
        BY <2>2, <2>6, <4>1 DEF PendingRows
    <3>4. CASE ActiveRows # {} /\ left[LatestOf(ActiveRows)] > 0
      BY <2>2, <3>1, <3>4 DEF Boot, BootLive, table
    <3>5. CASE ActiveRows # {} /\ ~(left[LatestOf(ActiveRows)] > 0)
      <4>1. PICK j \in ActiveRows : j = LatestOf(ActiveRows)
        BY <1>1, <3>2, <3>5, DownFacts
      <4>2. /\ j \in WindowId /\ status[j] = "active" /\ left[j] = 0
            /\ status' = [status EXCEPT ![j] = "expired"] /\ left' = left
        BY <1>1, <3>1, <3>5, <4>1 DEF Boot, BootExpired, ActiveRows, IInv, TypeOK
      <4>3. QED
        BY <1>1, <2>1, <4>2 DEF IInv, TypeOK
    <3>6. QED
      BY <3>3, <3>4, <3>5
  <2>12. QED
    BY <1>1, <2>3, <2>4, <2>5, <2>8, <2>9, <2>10, <2>11 DEF Next
<1>2. IInv /\ [Next]_vars =>
        [\A i \in WindowId :
           /\ status[i] # "active" /\ status'[i] = "active" => left'[i] = duration'[i]
           /\ status[i] = "active" /\ status'[i] = "active" => left'[i] <= left[i]
           /\ status'[i] = "expired" /\ status[i] # "expired" =>
                status[i] = "active" /\ left[i] = 0]_vars
  BY <1>1
<1>3. QED
  BY <1>2, Invariance, PTL DEF Spec, PaidTimeIsExact

\* No window, live or banked, comes out of a halt into an idle show.
THEOREM NothingOpensOutOfHalt == Spec => NoWindowOutOfHalt
<1>1. ASSUME IInv, [Next]_vars, up, mode = "HALTED", mode' \in {"IDLE", "FREE_REIGN_WINDOW"}
      PROVE  /\ window' \in {window, NoWindow}
             /\ mode' = "IDLE" => window' = NoWindow /\ pending' = NoWindow
  <2>1. \E a \in RecoveryActions : RecoverWindow(a)
    BY <1>1 DEF Next, vars, Tick, OpenNow, Bank, OtherTransition, Transitions, Modes,
                ActiveModes, ReturnToWindow, Transition, Expire, LeaveWindowMode, Revoke,
                Halt, ForceHalt, Crash, Boot, modeVars
  <2>2. \/ window # NoWindow /\ ResumeWindow
        \/ DiscardAll
        \/ UNCHANGED memory /\ mode' # "IDLE"
    BY <1>1, <2>1, RecoverCases
  <2>3. QED
    BY <1>1, <2>2, SlotFacts DEF ResumeWindow, Close, DiscardAll, memory
<1>2. IInv /\ [Next]_vars =>
        [up /\ mode = "HALTED" /\ mode' \in {"IDLE", "FREE_REIGN_WINDOW"} =>
           /\ window' \in {window, NoWindow}
           /\ mode' = "IDLE" => window' = NoWindow /\ pending' = NoWindow]_vars
  BY <1>1
<1>3. QED
  BY <1>2, Invariance, PTL DEF Spec, NoWindowOutOfHalt
===============================================================================

----------------------------- MODULE PulseProofs -----------------------------
(***************************************************************************)
(* Theorems about PulseEngine, for every period, pulse length, margin,     *)
(* latency, set of rates and number of writes: exactly one edge is due,    *)
(* pulses have their full length and rise on full seconds of a clock that  *)
(* nobody touched, and a change of the rate moves the reading by no more   *)
(* than the latency correction, the slew and rounding.  If the constants   *)
(* are Tuned, every second has one pulse and it misses it by little, also  *)
(* on a clock that was written meanwhile.                                  *)
(***************************************************************************)
EXTENDS PulseEngine, ArithmeticLemmas, WellFoundedInduction

USE OneAssumption, PulseAssumption

----------------------------------------------------------------------------
\* What the clock shows is a number, and so is the time at which it shows one.
LEMMA NowType ==
    ASSUME NEW c \in Clock, NEW u \in Int
    PROVE  vclock_now(c, u) \in Int
<1>1. c.base_local \in Int /\ c.base_global \in Int /\ c.rate \in Int /\ c.lat_corr \in Int
  BY DEF Clock
<1>2. (u - c.base_local) * c.rate \in Int
  BY <1>1
<1>3. ((u - c.base_local) * c.rate) \div One \in Int
  BY <1>2, DivBounds
<1> QED
  BY <1>1, <1>3 DEF vclock_now, calc_now

LEMMA LocalType ==
    ASSUME NEW c \in Clock, NEW g \in Int
    PROVE  vclock_local_for_global(c, g) \in Int
<1>1. c.base_local \in Int /\ c.base_global \in Int /\ c.rate \in Nat \ {0} /\ c.lat_corr \in Int
  BY DEF Clock
<1>2. (g - c.base_global + c.lat_corr) * One \in Int
  BY <1>1
<1>3. Quotient((g - c.base_global + c.lat_corr) * One, c.rate) \in Int
  BY <1>1, <1>2, QuotientBounds
<1> QED
  BY <1>1, <1>3 DEF vclock_local_for_global

LEMMA SecondType ==
    ASSUME NEW g \in Int
    PROVE  next_second(g) \in Int
<1>1. g + Margin \in Int /\ Period \in Nat \ {0}
  OBVIOUS
<1>2. Quotient(g + Margin, Period) \in Int
  BY <1>1, QuotientBounds
<1> QED
  BY <1>1, <1>2 DEF next_second

\* The writes leave a clock.
LEMMA WritesType ==
    ASSUME NEW c \in Clock, NEW u \in Int
    PROVE  /\ vclock_init(u) \in Clock
           /\ \A d \in Int : vclock_step_offset(c, d, u) \in Clock
           /\ \A r \in Nat \ {0} : vclock_set_rate(c, r, u) \in Clock
           /\ \A l \in Int : vclock_set_lat_corr(c, l) \in Clock
<1>1. calc_now(c, u) \in Int
  BY NowType DEF vclock_now
<1>2. vclock_init(u) \in Clock
  BY DEF vclock_init, Clock
<1>3. ASSUME NEW d \in Int PROVE vclock_step_offset(c, d, u) \in Clock
  <2>1. calc_now(c, u) + d \in Int
    BY <1>1
  <2> QED
    BY <2>1 DEF vclock_step_offset, Clock
<1>4. ASSUME NEW r \in Nat \ {0} PROVE vclock_set_rate(c, r, u) \in Clock
  BY <1>1 DEF vclock_set_rate, Clock
<1>5. ASSUME NEW l \in Int PROVE vclock_set_lat_corr(c, l) \in Clock
  BY DEF vclock_set_lat_corr, Clock
<1> QED
  BY <1>2, <1>3, <1>4, <1>5

\* Arming leaves a target and one expiration.
LEMMA ArmType ==
    ASSUME NEW c \in Clock, t \in Nat, ArmRise(c)
    PROVE  aim' \in Int /\ rise_target' \in Int /\ timer_fd' = {rise_target' - BusyWait}
<1>1. next_second(vclock_now(c, t)) \in Int
  BY NowType, SecondType
<1> QED
  BY <1>1, LocalType DEF ArmRise

----------------------------------------------------------------------------
\* The rates in use are among those the controller answers.
RateInv == vc.rate \in Rates /\ main.rate \in Rates

ClockInv == PulseTypeOK /\ RateInv

\* The main thread that has nothing in hand.
LEMMA HandlingType ==
    \A pc \in {"ground", "calibrating", "idle", "step", "rate", "closed"} :
        /\ Handling(pc) \in [pc : {"ground", "calibrating", "idle", "step", "rate", "closed"},
                             t_now : Nat, theta : Int, rate : Nat \ {0}]
        /\ Handling(pc).pc = pc /\ Handling(pc).rate \in Rates /\ Handling(pc).t_now = 0
BY DEF Handling

\* Every step keeps the types.
LEMMA TypeStep == ASSUME ClockInv, [PulseNext]_pulseVars PROVE ClockInv'
<1> USE DEF ClockInv
<1>t. /\ t \in Nat /\ t \in Int /\ vc \in Clock /\ Rates \subseteq Nat \ {0}
      /\ main \in [pc : {"ground", "calibrating", "idle", "step", "rate", "closed"},
                   t_now : Nat, theta : Int, rate : Nat \ {0}]
      /\ thread \in [pc : {"poll", "spin", "low", "exited"}, low : BOOLEAN]
  BY DEF PulseTypeOK
<1>1. CASE Poll
  BY <1>1 DEF Poll, PulseTypeOK, RateInv, clockVars, Expired
<1>2. CASE Rise
  BY <1>2 DEF Rise, PulseTypeOK, RateInv, clockVars, timerVars
<1>3. CASE Fall
  <2>1. ArmRise(vc)
    BY <1>3 DEF Fall
  <2>2. aim' \in Int /\ rise_target' \in Int /\ timer_fd' \subseteq Int
    BY <2>1, <1>t, ArmType
  <2>3. writes' \in 0 .. MaxWrites
    BY <1>3 DEF Fall
  <2> QED
    BY <1>3, <2>2, <2>3 DEF Fall, PulseTypeOK, RateInv
<1>4. CASE Exit
  BY <1>4 DEF Exit, PulseTypeOK, RateInv, clockVars, timerVars
<1>5. CASE CalibrationBegins
  <2>1. vc' \in Clock /\ vc'.rate \in Rates
    BY <1>5, <1>t, WritesType DEF CalibrationBegins, vclock_init
  <2> QED
    BY <1>5, <2>1, HandlingType DEF CalibrationBegins, PulseTypeOK, RateInv, timerVars, threadVars
<1>6. CASE CalibrationEnds
  <2>1. CASE main' = Handling("ground") /\ UNCHANGED <<vc, timerVars>>
    BY <1>6, <2>1, HandlingType DEF CalibrationEnds, PulseTypeOK, RateInv, timerVars, threadVars
  <2>2. ASSUME NEW l \in LatCorrs,
               vc' = vclock_set_lat_corr(vc, l), ArmRise(vc'), main' = Handling("idle")
        PROVE  ClockInv'
    <3>1. vc' \in Clock
      <4>1. l \in Int /\ vc' = vclock_set_lat_corr(vc, l)
        BY <2>2
      <4> QED
        BY <1>t, <4>1, WritesType
    <3>2. vc'.rate = vc.rate
      BY <1>t, <2>2 DEF vclock_set_lat_corr, Clock
    <3>3. aim' \in Int /\ rise_target' \in Int /\ timer_fd' \subseteq Int
      BY <1>t, <2>2, <3>1, ArmType
    <3> QED
      BY <1>6, <2>2, <3>1, <3>2, <3>3, HandlingType DEF CalibrationEnds, PulseTypeOK, RateInv, threadVars
  <2> QED
    BY <1>6, <2>1, <2>2 DEF CalibrationEnds
<1>7. CASE Recalibrate
  <2>1. vc' \in Clock /\ vc'.rate = vc.rate
    <3>1. PICK l \in LatCorrs : vc' = vclock_set_lat_corr(vc, l)
      BY <1>7 DEF Recalibrate
    <3>2. vc' \in Clock
      <4>1. l \in Int /\ vc' = vclock_set_lat_corr(vc, l)
        BY <3>1
      <4> QED
        BY <1>t, <4>1, WritesType
    <3> QED
      BY <1>t, <3>1, <3>2 DEF vclock_set_lat_corr, Clock
  <2> QED
    BY <1>7, <2>1 DEF Recalibrate, PulseTypeOK, RateInv, timerVars, threadVars
<1>8. CASE SyncResp
  <2>1. /\ main' \in [pc : {"ground", "calibrating", "idle", "step", "rate", "closed"},
                      t_now : Nat, theta : Int, rate : Nat \ {0}]
        /\ main'.rate \in Rates
    <3>1. CASE \E r \in Rates : main' = [pc |-> "rate", t_now |-> t, theta |-> 0, rate |-> r]
      <4>1. PICK r \in Rates : main' = [pc |-> "rate", t_now |-> t, theta |-> 0, rate |-> r]
        BY <3>1
      <4>2. r \in Nat \ {0} /\ 0 \in Int
        BY <1>t
      <4> QED
        BY <1>t, <4>1, <4>2
    <3>2. CASE \E d \in Steps : main' = [pc |-> "step", t_now |-> t, theta |-> d, rate |-> One]
      <4>1. PICK d \in Steps : main' = [pc |-> "step", t_now |-> t, theta |-> d, rate |-> One]
        BY <3>2
      <4>2. d \in Int /\ One \in Rates /\ One \in Nat \ {0}
        OBVIOUS
      <4> QED
        BY <1>t, <4>1, <4>2
    <3> QED
      BY <1>8, <3>1, <3>2 DEF SyncResp
  <2> QED
    BY <1>8, <2>1 DEF SyncResp, PulseTypeOK, RateInv, timerVars, threadVars
<1>9. CASE StepOffset
  <2>1. vc' \in Clock
    BY <1>9, <1>t, WritesType DEF StepOffset
  <2>2. vc'.rate = vc.rate
    BY <1>9, <1>t DEF StepOffset, vclock_step_offset, Clock
  <2>3. /\ main' \in [pc : {"ground", "calibrating", "idle", "step", "rate", "closed"},
                      t_now : Nat, theta : Int, rate : Nat \ {0}]
        /\ main'.rate = main.rate
    BY <1>9, <1>t DEF StepOffset
  <2> QED
    BY <1>9, <2>1, <2>2, <2>3 DEF StepOffset, PulseTypeOK, RateInv, timerVars, threadVars
<1>10. CASE SetRate
  <2>1. vc' \in Clock
    BY <1>10, <1>t, WritesType DEF SetRate
  <2>2. vc'.rate = main.rate
    BY <1>10, <1>t DEF SetRate, vclock_set_rate, Clock
  <2> QED
    BY <1>10, <2>1, <2>2, HandlingType DEF SetRate, PulseTypeOK, RateInv, timerVars, threadVars
<1>11. CASE Close
  BY <1>11, HandlingType DEF Close, PulseTypeOK, RateInv, clockVars
<1>12. CASE Pass
  BY <1>12 DEF Pass, PulseTypeOK, RateInv, clockVars, timerVars, threadVars
<1>13. CASE UNCHANGED pulseVars
  BY <1>13 DEF pulseVars, PulseTypeOK, RateInv
<1> QED
  BY <1>1, <1>2, <1>3, <1>4, <1>5, <1>6, <1>7, <1>8, <1>9, <1>10, <1>11, <1>12, <1>13 DEF PulseNext

LEMMA TypeInit == PulseInit => ClockInv
<1> SUFFICES ASSUME PulseInit PROVE ClockInv
  OBVIOUS
<1>1. vc \in Clock /\ vc.rate \in Rates
  BY DEF PulseInit, vclock_init, Clock
<1>2. thread \in [pc : {"poll", "spin", "low", "exited"}, low : BOOLEAN]
  BY Zenon DEF PulseInit
<1> QED
  BY <1>1, <1>2, HandlingType DEF PulseInit, ClockInv, PulseTypeOK, RateInv

\* Every variable of the pulse engine keeps its type: no write makes a clock that
\* is none, and the timers hold times (vclock.c, pulse_engine.c).
THEOREM PulseTypeCorrect == PulseSpec => []PulseTypeOK
<1>1. PulseInit => ClockInv
  BY TypeInit
<1>2. ClockInv /\ [PulseNext]_pulseVars => ClockInv'
  BY TypeStep
<1>3. ClockInv => PulseTypeOK
  BY DEF ClockInv
<1> QED
  BY <1>1, <1>2, <1>3, PTL DEF PulseSpec

----------------------------------------------------------------------------
Armed == main.pc \in {"idle", "step", "rate"}

NothingDue == timer_fd = {} /\ pulse_low_fd = {}
RiseDue == timer_fd = {rise_target - BusyWait} /\ pulse_low_fd = {}
FallDue == timer_fd = {} /\ pulse_low_fd = {risen + High}

\* Of the two timers exactly one is armed while the thread sleeps, and which one
\* the pin tells.  A pulse is not up for longer than its length and the latency.
EdgeInv ==
    /\ main.pc \in {"ground", "calibrating"} => thread.pc = "poll" /\ pin = "low" /\ NothingDue
    /\ main.pc = "closed" => thread.pc \in {"poll", "exited"} /\ NothingDue
    /\ Armed =>
          \/ thread.pc = "poll" /\ pin = "low" /\ RiseDue
          \/ thread.pc = "poll" /\ pin = "high" /\ FallDue /\ t \in risen .. risen + High + Latency
          \/ thread.pc = "spin" /\ pin = "low" /\ NothingDue /\ ~ thread.low
          \/ thread.pc = "low" /\ pin = "high" /\ FallDue /\ t \in risen + High .. risen + High + Latency

\* Every step keeps one edge due.
LEMMA EdgeStep == ASSUME ClockInv, EdgeInv, [PulseNext]_pulseVars PROVE EdgeInv'
<1>t. /\ t \in Nat /\ risen \in Nat /\ rise_target \in Int /\ vc \in Clock
      /\ main \in [pc : {"ground", "calibrating", "idle", "step", "rate", "closed"},
                   t_now : Nat, theta : Int, rate : Nat \ {0}]
      /\ thread \in [pc : {"poll", "spin", "low", "exited"}, low : BOOLEAN]
      /\ ClockInv'
  BY TypeStep DEF ClockInv, PulseTypeOK
<1> USE DEF NothingDue, RiseDue, FallDue
<1>1. CASE Poll
  <2>1. Armed /\ thread.pc = "poll" /\ main' = main /\ t' = t /\ pin' = pin /\ risen' = risen
    BY <1>1, <1>t DEF Poll, EdgeInv, Armed, Expired, clockVars
  <2>2. CASE pin = "low" /\ RiseDue
    <3>1. Expired(timer_fd) /\ ~ Expired(pulse_low_fd)
      BY <1>1, <2>2 DEF Poll, Expired
    <3>2. thread'.pc = "spin" /\ timer_fd' = {} /\ pulse_low_fd' = {}
      BY <1>1, <2>2, <3>1 DEF Poll
    <3>3. ~ thread'.low
      <4>1. thread'.low = Expired(pulse_low_fd)
        BY <1>1, Zenon DEF Poll
      <4> QED
        BY <3>1, <4>1, Zenon
    <3> QED
      BY <2>1, <2>2, <3>2, <3>3 DEF EdgeInv, Armed
  <2>3. CASE pin = "high" /\ FallDue /\ t \in risen .. risen + High + Latency
    <3>1. ~ Expired(timer_fd) /\ Expired(pulse_low_fd)
      BY <1>1, <2>3 DEF Poll, Expired
    <3>2. risen + High <= t
      BY <3>1, <2>3 DEF Expired
    <3>3. thread'.pc = "low" /\ timer_fd' = timer_fd /\ pulse_low_fd' = pulse_low_fd
      BY <1>1, <3>1 DEF Poll
    <3>4. t \in risen + High .. risen + High + Latency
      BY <1>t, <2>3, <3>2
    <3> QED
      BY <2>1, <2>3, <3>3, <3>4 DEF EdgeInv, Armed
  <2> QED
    BY <2>1, <2>2, <2>3 DEF EdgeInv
<1>2. CASE Rise
  <2>1. Armed /\ thread.pc = "spin" /\ ~ thread.low /\ timer_fd = {}
    BY <1>2, <1>t DEF Rise, EdgeInv, Armed
  <2>2. /\ thread'.pc = "poll" /\ pin' = "high" /\ risen' = t /\ t' = t
        /\ timer_fd' = {} /\ pulse_low_fd' = {t + High} /\ main' = main
    BY <1>2, <1>t, <2>1 DEF Rise, timerVars
  <2> QED
    BY <1>t, <2>1, <2>2 DEF EdgeInv, Armed
<1>3. CASE Fall
  <2>1. Armed /\ FallDue /\ t >= risen + High
    BY <1>3, <1>t DEF Fall, EdgeInv, Armed
  <2>2. pulse_low_fd' = {} /\ pin' = "low" /\ thread'.pc = "poll" /\ main' = main
    BY <1>3, <1>t, <2>1 DEF Fall
  <2>3. timer_fd' = {rise_target' - BusyWait}
    BY <1>3, <1>t, ArmType DEF Fall
  <2> QED
    BY <2>1, <2>2, <2>3 DEF EdgeInv, Armed
<1>4. CASE Exit
  BY <1>4, <1>t DEF Exit, timerVars, EdgeInv, Armed
<1>5. CASE CalibrationBegins
  BY <1>5, HandlingType DEF CalibrationBegins, MainAt, timerVars, threadVars, EdgeInv, Armed
<1>6. CASE CalibrationEnds
  <2>0. thread.pc = "poll" /\ pin = "low" /\ NothingDue /\ thread' = thread /\ pin' = pin /\ pulse_low_fd' = {}
    BY <1>6 DEF CalibrationEnds, MainAt, threadVars, EdgeInv
  <2>1. CASE main' = Handling("ground") /\ UNCHANGED <<vc, timerVars>>
    BY <2>0, <2>1, HandlingType DEF timerVars, EdgeInv, Armed
  <2>2. CASE ArmRise(vc') /\ main' = Handling("idle")
    <3>1. timer_fd' = {rise_target' - BusyWait}
      <4>1. vc' \in Clock
        BY <1>t DEF ClockInv, PulseTypeOK
      <4> QED
        BY <1>t, <2>2, <4>1, ArmType
    <3> QED
      BY <2>0, <2>2, <3>1, HandlingType DEF EdgeInv, Armed
  <2> QED
    BY <1>6, <2>1, <2>2 DEF CalibrationEnds
<1>7. CASE Recalibrate
  BY <1>7 DEF Recalibrate, MainAt, timerVars, threadVars, EdgeInv, Armed
<1>8. CASE SyncResp
  <2>1. main'.pc \in {"step", "rate"} /\ main.pc = "idle"
    BY <1>8 DEF SyncResp, MainAt
  <2> QED
    BY <1>8, <2>1 DEF SyncResp, timerVars, threadVars, EdgeInv, Armed
<1>9. CASE StepOffset
  <2>1. main'.pc = "rate" /\ main.pc = "step"
    BY <1>9, <1>t DEF StepOffset, MainAt
  <2> QED
    BY <1>9, <2>1 DEF StepOffset, timerVars, threadVars, EdgeInv, Armed
<1>10. CASE SetRate
  <2>1. main'.pc = "idle" /\ main.pc = "rate"
    BY <1>10, HandlingType DEF SetRate, MainAt
  <2> QED
    BY <1>10, <2>1 DEF SetRate, timerVars, threadVars, EdgeInv, Armed
<1>11. CASE Close
  BY <1>11, HandlingType DEF Close, MainAt, EdgeInv, Armed
<1>12. CASE Pass
  <2>1. /\ t' = t + 1 /\ main' = main
        /\ UNCHANGED <<timer_fd, rise_target, pulse_low_fd, pin, thread, risen>>
        /\ thread.pc \in {"poll", "spin"}
        /\ thread.pc = "poll" => \A e \in timer_fd \cup pulse_low_fd : t < e + Latency
    BY <1>12 DEF Pass, timerVars, threadVars
  <2>2. CASE thread.pc = "poll" /\ pin = "high" /\ FallDue /\ t \in risen .. risen + High + Latency
    <3>1. t + 1 \in risen .. risen + High + Latency
      BY <1>t, <2>1, <2>2
    <3> QED
      BY <2>1, <2>2, <3>1 DEF EdgeInv, Armed
  <2> QED
    BY <1>t, <2>1, <2>2 DEF EdgeInv, Armed
<1>13. CASE UNCHANGED pulseVars
  BY <1>13 DEF pulseVars, EdgeInv, Armed
<1> QED
  BY <1>1, <1>2, <1>3, <1>4, <1>5, <1>6, <1>7, <1>8, <1>9, <1>10, <1>11, <1>12, <1>13 DEF PulseNext

LEMMA EdgeInit == PulseInit => EdgeInv
BY HandlingType DEF PulseInit, EdgeInv, Armed, NothingDue

\* Both together, for the theorems that need more.
LEMMA EdgeInvariance == PulseSpec => [](ClockInv /\ EdgeInv)
<1>1. PulseInit => ClockInv /\ EdgeInv
  BY TypeInit, EdgeInit
<1>2. ClockInv /\ EdgeInv /\ [PulseNext]_pulseVars => (ClockInv /\ EdgeInv)'
  BY TypeStep, EdgeStep
<1> QED
  BY <1>1, <1>2, PTL DEF PulseSpec

\* Every pulse has its length, however late the thread is and whatever is done
\* to the clock meanwhile: no expiration of an earlier pulse cuts it short
\* (pulse_thread_fn).
THEOREM PulsesKeepLength == PulseSpec => PulseWidth
<1>1. ClockInv /\ EdgeInv => [Fall => t - risen \in High .. High + Latency]_pulseVars
  <2> SUFFICES ASSUME ClockInv, EdgeInv, Fall
               PROVE  t - risen \in High .. High + Latency
    OBVIOUS
  <2>1. t \in risen + High .. risen + High + Latency /\ t \in Nat /\ risen \in Nat
    BY DEF ClockInv, PulseTypeOK, EdgeInv, Armed, Fall
  <2> QED
    BY <2>1
<1> QED
  BY <1>1, EdgeInvariance, PTL DEF PulseWidth

\* What NextEdgeNear says but for when the rising edge is.
EdgeDue ==
    main.pc \in {"idle", "step", "rate"} /\ thread.pc = "poll" =>
        IF pin = "high"
        THEN timer_fd = {} /\ \E e \in pulse_low_fd : e <= t + High
        ELSE pulse_low_fd = {} /\ timer_fd = {rise_target - BusyWait}

\* Once armed and until it is closed the engine always has exactly one edge due:
\* the two timers re-arm each other and neither is lost, whatever the clock does.
THEOREM PulseNeverStops == PulseSpec => []EdgeDue
<1>1. ClockInv /\ EdgeInv => EdgeDue
  BY DEF ClockInv, PulseTypeOK, EdgeInv, Armed, RiseDue, FallDue, EdgeDue
<1> QED
  BY <1>1, EdgeInvariance, PTL

----------------------------------------------------------------------------
\* The next second is more than the margin ahead, and no more than a period
\* beyond it, or two when the clock is further before its zero than the margin
\* (truncating division).
LEMMA SecondAhead ==
    ASSUME NEW g \in Int
    PROVE  /\ next_second(g) > g + Margin
           /\ g + Margin >= 0 => next_second(g) <= g + Margin + Period
           /\ next_second(g) <= g + Margin + 2 * Period
<1> DEFINE a == g + Margin
           q == Quotient(a, Period)
<1>1. a \in Int /\ Period \in Nat \ {0} /\ Margin \in Nat
  OBVIOUS
<1>2. /\ q \in Int
      /\ a >= 0 => q * Period <= a /\ a < q * Period + Period
      /\ a < 0  => q * Period >= a /\ a > q * Period - Period
  BY <1>1, QuotientBounds
<1>3. next_second(g) = (q + 1) * Period
  BY DEF next_second
<1> HIDE DEF a, q
<1>4. (q + 1) * Period = q * Period + Period /\ q * Period \in Int
  BY <1>1, <1>2
<1>5. /\ next_second(g) > a /\ (a >= 0 => next_second(g) <= a + Period)
      /\ next_second(g) <= a + 2 * Period
  BY <1>1, <1>2, <1>3, <1>4
<1> QED
  BY <1>5 DEF a

\* The steps of the clock since it was latched, of which vclock_now shows the
\* whole ones, and the global time since then of a second.
Gone(c, u) == (u - c.base_local) * c.rate
Ahead(c, g) == g - c.base_global + c.lat_corr

LEMMA ClockParts ==
    ASSUME NEW c \in Clock, NEW u \in Int, NEW g \in Int
    PROVE  /\ Gone(c, u) \in Int /\ Ahead(c, g) \in Int /\ Ahead(c, g) * One \in Int
           /\ Gone(c, u) \div One \in Int
           /\ vclock_now(c, u) = Gone(c, u) \div One + g - Ahead(c, g)
           /\ vclock_local_for_global(c, g) = c.base_local + Quotient(Ahead(c, g) * One, c.rate)
           /\ Quotient(Ahead(c, g) * One, c.rate) \in Int
<1>1. c.base_local \in Int /\ c.base_global \in Int /\ c.rate \in Nat \ {0} /\ c.lat_corr \in Int
  BY DEF Clock
<1>2. Gone(c, u) \in Int /\ Ahead(c, g) \in Int /\ Ahead(c, g) * One \in Int
  BY <1>1 DEF Gone, Ahead
<1>3. Gone(c, u) \div One \in Int /\ Quotient(Ahead(c, g) * One, c.rate) \in Int
  BY <1>1, <1>2, DivBounds, QuotientBounds
<1>4. vclock_now(c, u) = Gone(c, u) \div One + c.base_global - c.lat_corr
  BY DEF vclock_now, calc_now, Gone
<1>5. c.base_global - c.lat_corr = g - Ahead(c, g)
  BY <1>1 DEF Ahead
<1>6. vclock_now(c, u) = Gone(c, u) \div One + g - Ahead(c, g)
  BY <1>1, <1>2, <1>3, <1>4, <1>5
<1> QED
  BY <1>2, <1>3, <1>6 DEF vclock_local_for_global, Ahead

\* The rise for a second that is ahead is not in the past.
LEMMA RiseAhead ==
    ASSUME NEW c \in Clock, NEW u \in Int, NEW g \in Int, g >= vclock_now(c, u) + 2
    PROVE  vclock_local_for_global(c, g) >= u
<1> DEFINE r == c.rate
           D == u - c.base_local
           N == Gone(c, u) \div One
           G == Ahead(c, g)
           q == Quotient(G * One, r)
<1>1. c.base_local \in Int /\ r \in Nat \ {0} /\ One \in Nat \ {0}
  BY DEF Clock
<1>2. D \in Int /\ N \in Int /\ G \in Int /\ q \in Int /\ G * One \in Int
  BY <1>1, ClockParts
<1>3. G >= N + 2
  <2>1. vclock_now(c, u) = N + g - G
    BY ClockParts
  <2> HIDE DEF N, G
  <2> QED
    BY <1>2, <2>1
<1>4. D * r < N * One + One
  <2>1. Gone(c, u) = D * r /\ Gone(c, u) \in Int
    BY ClockParts DEF Gone
  <2> QED
    BY <2>1, DivBounds
<1>5. G * One >= (N + 2) * One
  <2> HIDE DEF N, G
  <2> QED
    BY <1>1, <1>2, <1>3, MulMono
<1>6. G * One < q * r + r
  <2>1. /\ G * One >= 0 => G * One < q * r + r
        /\ G * One < 0  => q * r >= G * One
    BY <1>1, <1>2, QuotientBounds
  <2> HIDE DEF r, q, G
  <2>2. q * r \in Int
    BY <1>1, <1>2
  <2> QED
    BY <1>1, <1>2, <2>1, <2>2
<1>7. vclock_local_for_global(c, g) = c.base_local + q
  BY ClockParts
<1> HIDE DEF r, D, N, G, q
<1>8. D * r < (q + 1) * r
  <2>1. N * One \in Int /\ (N + 2) * One = N * One + 2 * One
    BY <1>1, <1>2
  <2>2. D * r \in Int /\ q * r \in Int /\ (q + 1) * r = q * r + r
    BY <1>1, <1>2
  <2> QED
    BY <1>1, <1>2, <1>4, <1>5, <1>6, <2>1, <2>2
<1>9. D < q + 1
  BY <1>1, <1>2, <1>8, MulCancel
<1> QED
  BY <1>1, <1>2, <1>7, <1>9 DEF D

\* The rise for a second that the clock will show in B steps is soon.
LEMMA RiseSoon ==
    ASSUME NEW c \in Clock, NEW u \in Int, NEW g \in Int, NEW B \in Nat,
           NEW m \in Nat \ {0}, m <= c.rate, g <= vclock_now(c, u) + B
    PROVE  vclock_local_for_global(c, g) <= u + Quotient(B * One, m) + 1
<1> DEFINE r == c.rate
           D == u - c.base_local
           N == Gone(c, u) \div One
           G == Ahead(c, g)
           q == Quotient(G * One, r)
           s == Quotient(B * One, m)
<1>1. c.base_local \in Int /\ r \in Nat \ {0} /\ One \in Nat \ {0} /\ B * One \in Nat
  BY DEF Clock
<1>2. D \in Int /\ N \in Int /\ G \in Int /\ q \in Int /\ G * One \in Int
  BY <1>1, ClockParts
<1>3. G <= N + B
  <2>1. vclock_now(c, u) = N + g - G
    BY ClockParts
  <2> HIDE DEF N, G
  <2> QED
    BY <1>2, <2>1
<1>4. N * One <= D * r
  <2>1. Gone(c, u) = D * r /\ Gone(c, u) \in Int
    BY ClockParts DEF Gone
  <2> QED
    BY <2>1, DivBounds
<1>5. G * One <= (N + B) * One
  <2> HIDE DEF N, G
  <2>1. N + B \in Int /\ One \in Nat
    BY <1>2
  <2> QED
    BY <1>2, <1>3, <2>1, MulMono
<1>6. q * r - r < G * One
  <2>1. /\ G * One >= 0 => q * r <= G * One
        /\ G * One < 0  => G * One > q * r - r
    BY <1>1, <1>2, QuotientBounds
  <2> HIDE DEF r, q, G
  <2>2. q * r \in Int
    BY <1>1, <1>2
  <2> QED
    BY <1>1, <1>2, <2>1, <2>2
<1>7. s \in Int /\ B * One < s * m + m /\ s >= 0
  <2>1. B * One \in Int /\ B * One >= 0
    BY <1>1
  <2> QED
    BY <2>1, QuotientBounds
<1>8. vclock_local_for_global(c, g) = c.base_local + q
  BY ClockParts
<1>m. m <= r
  OBVIOUS
<1> HIDE DEF r, D, N, G, q, s
<1>9. s * m + m <= (s + 1) * r
  <2>1. (s + 1) * m = s * m + m /\ s + 1 \in Nat
    BY <1>7
  <2>2. m * (s + 1) <= r * (s + 1)
    BY <1>1, <1>m, <2>1, MulMono
  <2> QED
    BY <1>1, <1>7, <2>1, <2>2
<1>10. q * r < (D + s + 2) * r
  <2>1. (N + B) * One = N * One + B * One /\ N * One \in Int /\ B * One \in Int
    BY <1>1, <1>2
  <2>2. (D + s + 2) * r = D * r + (s + 1) * r + r /\ D * r \in Int /\ (s + 1) * r \in Int /\ q * r \in Int
    BY <1>1, <1>2, <1>7
  <2>3. s * m + m \in Int
    BY <1>7
  <2> QED
    BY <1>1, <1>2, <1>4, <1>5, <1>6, <1>7, <1>9, <2>1, <2>2, <2>3
<1>11. q < D + s + 2
  <2>1. D + s + 2 \in Int
    BY <1>2, <1>7
  <2> QED
    BY <1>1, <1>2, <1>10, <2>1, MulCancel
<1> QED
  BY <1>1, <1>2, <1>7, <1>8, <1>11 DEF D, s

\* vclock_local_for_global is the inverse of vclock_now, but for rounding: what
\* the clock shows at the time, or up to L later.
LEMMA NowInverts ==
    ASSUME NEW c \in Clock, NEW u \in Int, NEW g \in Int, NEW L \in Nat,
           c.rate <= 2 * One, Ahead(c, g) >= 0,
           vclock_local_for_global(c, g) <= u, u <= vclock_local_for_global(c, g) + L
    PROVE  vclock_now(c, u) >= g - 2 /\ vclock_now(c, u) <= g + 2 * L
<1> DEFINE r == c.rate
           D == u - c.base_local
           G == Ahead(c, g)
           q == Quotient(G * One, r)
           N == Gone(c, u) \div One
<1>1. c.base_local \in Int /\ r \in Nat \ {0} /\ One \in Nat \ {0} /\ r <= 2 * One /\ G >= 0
  BY DEF Clock
<1>2. D \in Int /\ N \in Int /\ G \in Int /\ q \in Int /\ G * One \in Int /\ G * One >= 0
  BY <1>1, ClockParts
<1>3. q * r <= G * One /\ G * One < q * r + r
  BY <1>1, <1>2, QuotientBounds
<1>4. q <= D /\ D <= q + L
  <2>1. vclock_local_for_global(c, g) = c.base_local + q
    BY ClockParts
  <2> HIDE DEF q
  <2> QED
    BY <1>1, <1>2, <2>1
<1>5. Gone(c, u) = D * r /\ vclock_now(c, u) = N + g - G
  BY ClockParts DEF Gone
<1> HIDE DEF r, D, G, q
<1>6. q * r <= D * r /\ D * r <= (q + L) * r /\ L * r <= L * (2 * One)
  <2>1. r * L <= (2 * One) * L
    BY <1>1, MulMono
  <2>2. q * r <= D * r /\ D * r <= (q + L) * r
    BY <1>1, <1>2, <1>4, MulMono
  <2> QED
    BY <1>1, <2>1, <2>2
<1>7. (G - 2) * One <= D * r
  <2>1. (G - 2) * One = G * One - 2 * One
    BY <1>1, <1>2
  <2>2. q * r \in Int /\ D * r \in Int
    BY <1>1, <1>2
  <2> QED
    BY <1>1, <1>2, <1>3, <1>6, <2>1, <2>2
<1>8. D * r < (G + 2 * L + 1) * One
  <2>1. (G + 2 * L + 1) * One = G * One + L * (2 * One) + One
    BY <1>1, <1>2
  <2>2. (q + L) * r = q * r + L * r /\ q * r \in Int /\ D * r \in Int /\ L * r \in Int /\ L * (2 * One) \in Int
    BY <1>1, <1>2
  <2> QED
    BY <1>1, <1>2, <1>3, <1>6, <2>1, <2>2
<1>9. N >= G - 2 /\ N <= G + 2 * L
  <2>1. Gone(c, u) \in Int /\ G - 2 \in Int /\ G + 2 * L \in Int
    BY <1>2, ClockParts
  <2> QED
    BY <1>1, <1>5, <1>7, <1>8, <2>1, DivAtLeast, DivAtMost
<1> HIDE DEF N
<1> QED
  BY <1>2, <1>5, <1>9

\* There is a slowest rate and a fastest one.
LEMMA RateBounds ==
    /\ MinRate \in Rates /\ MaxRate \in Rates
    /\ \A r \in Rates : MinRate <= r /\ r <= MaxRate
<1>1. ASSUME NEW S \in SUBSET Nat, S # {} PROVE \E x \in S : \A y \in S : x <= y
  <2>1. \E x \in S : \A y \in S : ~ (<<y, x>> \in OpToRel(<, Nat))
    BY <1>1, NatLessThanWellFounded, WFMin
  <2>2. PICK x \in S : \A y \in S : ~ (<<y, x>> \in OpToRel(<, Nat))
    BY <2>1
  <2>3. ASSUME NEW y \in S PROVE x <= y
    <3>1. x \in Nat /\ y \in Nat /\ <<y, x>> \in Nat \X Nat
      OBVIOUS
    <3>2. ~ (y < x)
      BY <2>2, <3>1, SMT DEF OpToRel
    <3> QED
      BY <3>1, <3>2
  <2> QED
    BY <2>3
<1>2. Rates \in SUBSET Nat /\ Rates # {} /\ \A r \in Rates : 2 * One - r \in Nat
  OBVIOUS
<1>3. \E r \in Rates : \A q \in Rates : r <= q
  BY <1>1, <1>2
<1>4. \E r \in Rates : \A q \in Rates : q <= r
  <2> DEFINE S == {2 * One - r : r \in Rates}
  <2>1. S \in SUBSET Nat /\ S # {}
    BY <1>2
  <2>2. PICK x \in S : \A y \in S : x <= y
    BY <1>1, <2>1
  <2>3. PICK r \in Rates : x = 2 * One - r
    BY <2>2
  <2>4. \A q \in Rates : 2 * One - r <= 2 * One - q
    BY <2>2, <2>3
  <2> QED
    BY <1>2, <2>4
<1>5. MinRate \in Rates /\ \A q \in Rates : MinRate <= q
  BY <1>3 DEF MinRate
<1>6. MaxRate \in Rates /\ \A q \in Rates : q <= MaxRate
  BY <1>4 DEF MaxRate
<1> QED
  BY <1>5, <1>6

\* The bound of NextEdgeNear is a second of the slowest clock; that of a clock that
\* is behind is two.
Far == Takes(Period + Margin)
Further == Takes(2 * Period + Margin)

LEMMA TakesType == Far \in Int /\ Further \in Int
<1>1. MinRate \in Nat \ {0} /\ (Period + Margin) * One \in Int /\ (2 * Period + Margin) * One \in Int
  <2>1. MinRate \in Rates
    BY RateBounds
  <2> QED
    BY <2>1
<1>2. Quotient((Period + Margin) * One, MinRate) \in Int /\ Quotient((2 * Period + Margin) * One, MinRate) \in Int
  BY <1>1, QuotientBounds
<1> QED
  BY <1>2 DEF Far, Further, Takes

\* Arming: the target is the inverse of the second aimed at, not in the past, and
\* near when the clock is not before its zero.
LEMMA Arming ==
    ASSUME NEW c \in Clock, c.rate \in Rates, c.base_local <= t, t \in Nat, ArmRise(c)
    PROVE  /\ rise_target' = vclock_local_for_global(c, aim')
           /\ Ahead(c, aim') >= 0
           /\ rise_target' >= t
           /\ vclock_now(c, t) + Margin >= 0 => rise_target' <= t + Far
           /\ rise_target' <= t + Further
<1> DEFINE now == vclock_now(c, t)
           g == next_second(now)
<1>1. now \in Int /\ t \in Int /\ g \in Int
  BY NowType, SecondType
<1>2. aim' = g /\ rise_target' = vclock_local_for_global(c, g)
  BY DEF ArmRise
<1>3. /\ g > now + Margin /\ (now + Margin >= 0 => g <= now + Margin + Period)
      /\ g <= now + Margin + 2 * Period
  BY <1>1, SecondAhead
<1> HIDE DEF g
<1>4. Ahead(c, g) >= 0
  <2>1. Gone(c, t) >= 0 /\ Gone(c, t) \in Int
    <3>1. t - c.base_local \in Nat /\ c.rate \in Nat /\ c.base_local \in Int
      BY DEF Clock
    <3> QED
      BY <3>1 DEF Gone
  <2>2. Gone(c, t) \div One >= 0
    BY <2>1, DivAtLeast
  <2>3. /\ now = Gone(c, t) \div One + g - Ahead(c, g)
        /\ Gone(c, t) \div One \in Int /\ Ahead(c, g) \in Int
    BY <1>1, ClockParts
  <2> HIDE DEF now
  <2> QED
    BY <1>1, <1>3, <2>2, <2>3
<1>5. vclock_local_for_global(c, g) >= t
  <2>1. g >= now + 2
    <3> HIDE DEF now
    <3> QED
      BY <1>1, <1>3
  <2> QED
    BY <1>1, <2>1, RiseAhead
<1>m. MinRate \in Nat \ {0} /\ MinRate <= c.rate
  <2>1. MinRate \in Rates /\ MinRate <= c.rate
    BY RateBounds
  <2> QED
    BY <2>1
<1>6. ASSUME NEW B \in Nat, g <= now + B PROVE vclock_local_for_global(c, g) <= t + Takes(B)
  <2>2. vclock_local_for_global(c, g) <= t + Quotient(B * One, MinRate) + 1
    BY <1>1, <1>6, <1>m, RiseSoon
  <2>3. Quotient(B * One, MinRate) \in Int
    <3>1. B * One \in Int
      OBVIOUS
    <3> QED
      BY <1>m, <3>1, QuotientBounds
  <2> QED
    BY <1>1, <2>2, <2>3 DEF Takes
<1>7. /\ now + Margin >= 0 => vclock_local_for_global(c, g) <= t + Far
      /\ vclock_local_for_global(c, g) <= t + Further
  <2>1. now + Margin >= 0 => g <= now + (Period + Margin)
    <3> HIDE DEF now
    <3> QED
      BY <1>1, <1>3
  <2>2. g <= now + (2 * Period + Margin)
    <3> HIDE DEF now
    <3> QED
      BY <1>1, <1>3
  <2>3. Period + Margin \in Nat /\ 2 * Period + Margin \in Nat
    OBVIOUS
  <2> HIDE DEF now
  <2> QED
    BY <1>6, <2>1, <2>2, <2>3 DEF Far, Further
<1> QED
  BY <1>2, <1>4, <1>5, <1>7

----------------------------------------------------------------------------
\* The thread is late for its target by no more than the latency, and as long as
\* nobody has touched the clock the target is still the inverse of the second.
TimeInv ==
    /\ vc.base_local <= t /\ main.t_now <= t
    /\ Armed /\ pin = "low" =>
          /\ t <= rise_target + Latency
          /\ touched = {} => rise_target = vclock_local_for_global(vc, aim) /\ Ahead(vc, aim) >= 0

\* While a SYNC_RESP is being handled time passes only in the busy wait of a rise,
\* once.
SpinInv ==
    main.pc \in {"step", "rate"} =>
        /\ thread.pc = "spin" => main.t_now >= rise_target - BusyWait
        /\ thread.pc # "spin" /\ t # main.t_now =>
              /\ thread.pc = "poll" /\ pin = "high" /\ risen = t
              /\ t - main.t_now <= BusyWait + Latency

\* Every step keeps TimeInv.
LEMMA TimeStep == ASSUME ClockInv, EdgeInv, TimeInv, [PulseNext]_pulseVars PROVE TimeInv'
<1>t. /\ t \in Nat /\ risen \in Nat /\ rise_target \in Int /\ vc \in Clock /\ vc.rate \in Rates
      /\ main \in [pc : {"ground", "calibrating", "idle", "step", "rate", "closed"},
                   t_now : Nat, theta : Int, rate : Nat \ {0}]
      /\ main.pc \in {"ground", "calibrating", "idle", "step", "rate", "closed"}
      /\ thread.pc \in {"poll", "spin", "low", "exited"}
      /\ vc.base_local \in Int /\ main.t_now \in Nat
      /\ vc' \in Clock /\ vc'.rate \in Rates
  BY TypeStep DEF ClockInv, PulseTypeOK, RateInv, Clock
<1>1. CASE Poll
  BY <1>1 DEF Poll, TimeInv, Armed, clockVars
<1>2. CASE Rise
  BY <1>2 DEF Rise, TimeInv, Armed, clockVars, timerVars
<1>3. CASE Fall
  <2>1. ArmRise(vc) /\ vc' = vc /\ t' = t /\ main' = main
    BY <1>3 DEF Fall
  <2>2. /\ rise_target' = vclock_local_for_global(vc, aim')
        /\ Ahead(vc, aim') >= 0 /\ rise_target' >= t
    BY <1>t, <2>1, Arming DEF TimeInv
  <2>3. rise_target' \in Int
    BY <1>t, <2>1, ArmType
  <2>4. t <= rise_target' + Latency
    BY <1>t, <2>2, <2>3
  <2> QED
    BY <2>1, <2>2, <2>4 DEF TimeInv
<1>4. CASE Exit
  BY <1>4 DEF Exit, TimeInv, Armed, clockVars, timerVars
<1>5. CASE CalibrationBegins
  <2>1. vc'.base_local = t /\ t' = t
    BY <1>5 DEF CalibrationBegins, vclock_init
  <2>2. ~ Armed' /\ main'.t_now = 0
    BY <1>5, HandlingType DEF CalibrationBegins, Armed
  <2> QED
    BY <1>t, <2>1, <2>2 DEF TimeInv
<1>6. CASE CalibrationEnds
  <2>1. CASE main' = Handling("ground") /\ UNCHANGED <<vc, timerVars>>
    <3>1. ~ Armed' /\ main'.t_now = 0 /\ t' = t
      BY <1>6, <2>1, HandlingType DEF CalibrationEnds, Armed
    <3> QED
      BY <1>t, <2>1, <3>1 DEF TimeInv
  <2>2. ASSUME NEW l \in LatCorrs,
               vc' = vclock_set_lat_corr(vc, l), ArmRise(vc'), main' = Handling("idle")
        PROVE  TimeInv'
    <3>1. vc'.base_local <= t
      BY <1>t, <2>2 DEF vclock_set_lat_corr, Clock, TimeInv
    <3>2. /\ rise_target' = vclock_local_for_global(vc', aim')
          /\ Ahead(vc', aim') >= 0 /\ rise_target' >= t
      BY <1>t, <2>2, <3>1, Arming
    <3>3. rise_target' \in Int
      BY <1>t, <2>2, ArmType
    <3>4. t' = t /\ main'.t_now = 0 /\ t <= rise_target' + Latency
      BY <1>6, <1>t, <2>2, <3>2, <3>3, HandlingType DEF CalibrationEnds
    <3> QED
      BY <1>t, <3>1, <3>2, <3>4 DEF TimeInv
  <2> QED
    BY <1>6, <2>1, <2>2 DEF CalibrationEnds
<1>7. CASE Recalibrate
  <2>1. vc'.base_local = vc.base_local
    BY <1>7, <1>t DEF Recalibrate, vclock_set_lat_corr, Clock
  <2>2. touched' # {} /\ UNCHANGED <<t, timerVars, threadVars, main>>
    BY <1>7 DEF Recalibrate
  <2> QED
    BY <2>1, <2>2 DEF TimeInv, Armed, timerVars, threadVars
<1>8. CASE SyncResp
  <2>1. main'.t_now = t /\ Armed /\ UNCHANGED <<t, vc, touched, timerVars, threadVars>>
    BY <1>8 DEF SyncResp, MainAt, Armed
  <2> QED
    BY <1>t, <2>1 DEF TimeInv, timerVars, threadVars
<1>9. CASE StepOffset
  <2>1. vc'.base_local = main.t_now
    BY <1>9, <1>t DEF StepOffset, vclock_step_offset, Clock
  <2>2. touched' # {} /\ Armed /\ UNCHANGED <<t, timerVars, threadVars>> /\ main'.t_now = main.t_now
    BY <1>9, <1>t DEF StepOffset, MainAt, Armed
  <2> QED
    BY <2>1, <2>2 DEF TimeInv, timerVars, threadVars
<1>10. CASE SetRate
  <2>1. vc'.base_local = main.t_now
    BY <1>10, <1>t DEF SetRate, vclock_set_rate, Clock
  <2>2. touched' # {} /\ Armed /\ UNCHANGED <<t, timerVars, threadVars>> /\ main'.t_now = 0
    BY <1>10, HandlingType DEF SetRate, MainAt, Armed
  <2> QED
    BY <1>t, <2>1, <2>2 DEF TimeInv, timerVars, threadVars
<1>11. CASE Close
  <2>1. ~ Armed' /\ main'.t_now = 0 /\ UNCHANGED <<t, vc>>
    BY <1>11, HandlingType DEF Close, Armed, clockVars
  <2> QED
    BY <1>t, <2>1 DEF TimeInv
<1>12. CASE Pass
  <2>1. /\ t' = t + 1 /\ UNCHANGED <<clockVars, timerVars, threadVars, main>>
        /\ thread.pc \in {"poll", "spin"}
        /\ thread.pc = "poll" => \A e \in timer_fd \cup pulse_low_fd : t < e + Latency
        /\ thread.pc = "spin" => t < rise_target + Latency
    BY <1>12 DEF Pass
  <2>2. Armed /\ pin = "low" => t + 1 <= rise_target + Latency
    BY <1>t, <2>1 DEF EdgeInv, RiseDue
  <2> QED
    BY <1>t, <2>1, <2>2 DEF TimeInv, Armed, clockVars, timerVars, threadVars
<1>13. CASE UNCHANGED pulseVars
  BY <1>13 DEF pulseVars, TimeInv, Armed
<1> QED
  BY <1>1, <1>2, <1>3, <1>4, <1>5, <1>6, <1>7, <1>8, <1>9, <1>10, <1>11, <1>12, <1>13 DEF PulseNext

\* Every step keeps SpinInv.
LEMMA SpinStep == ASSUME ClockInv, EdgeInv, TimeInv, SpinInv, [PulseNext]_pulseVars PROVE SpinInv'
<1>t. /\ t \in Nat /\ risen \in Nat /\ rise_target \in Int
      /\ main \in [pc : {"ground", "calibrating", "idle", "step", "rate", "closed"},
                   t_now : Nat, theta : Int, rate : Nat \ {0}]
      /\ thread \in [pc : {"poll", "spin", "low", "exited"}, low : BOOLEAN]
      /\ main.t_now \in Nat
  BY DEF ClockInv, PulseTypeOK
<1>1. CASE Poll
  <2> SUFFICES ASSUME main.pc \in {"step", "rate"} PROVE SpinInv'
    BY <1>1 DEF Poll, SpinInv
  <2>1. t = main.t_now
    BY <1>1, <1>t DEF Poll, Expired, SpinInv, EdgeInv, Armed, RiseDue, FallDue
  <2>2. /\ thread'.pc \in {"spin", "low"} /\ UNCHANGED <<t, main, rise_target>>
        /\ thread'.pc = "spin" => Expired(timer_fd)
    BY <1>1 DEF Poll
  <2>3. Expired(timer_fd) => t >= rise_target - BusyWait
    BY <1>1, <1>t DEF Poll, Expired, EdgeInv, Armed, RiseDue, FallDue
  <2> QED
    BY <2>1, <2>2, <2>3 DEF SpinInv
<1>2. CASE Rise
  <2> SUFFICES ASSUME main.pc \in {"step", "rate"} PROVE SpinInv'
    BY <1>2 DEF Rise, SpinInv
  <2>1. thread.pc = "spin" /\ pin = "low" /\ ~ thread.low /\ Armed
    BY <1>2 DEF Rise, EdgeInv, Armed
  <2>2. /\ thread'.pc = "poll" /\ pin' = "high" /\ risen' = t
        /\ UNCHANGED <<t, main, rise_target>>
    BY <1>2, <1>t, <2>1 DEF Rise, timerVars
  <2>3. t - main.t_now <= BusyWait + Latency
    BY <1>t, <2>1 DEF SpinInv, TimeInv
  <2> QED
    BY <2>2, <2>3 DEF SpinInv
<1>3. CASE Fall
  BY <1>3 DEF Fall, SpinInv
<1>4. CASE Exit
  BY <1>4 DEF Exit, SpinInv
<1>5. CASE CalibrationBegins \/ CalibrationEnds \/ SetRate \/ Close
  <2>1. main'.pc \in {"ground", "calibrating", "idle", "closed"}
    BY <1>5, HandlingType DEF CalibrationBegins, CalibrationEnds, SetRate, Close
  <2> QED
    BY <2>1 DEF SpinInv
<1>6. CASE Recalibrate
  BY <1>6 DEF Recalibrate, MainAt, SpinInv
<1>7. CASE SyncResp
  <2>1. thread.pc = "poll" /\ main'.t_now = t /\ UNCHANGED <<t, threadVars>>
    BY <1>7 DEF SyncResp, MainAt
  <2> QED
    BY <2>1 DEF SpinInv, threadVars
<1>8. CASE StepOffset
  <2>1. main.pc = "step" /\ main'.t_now = main.t_now /\ UNCHANGED <<t, timerVars, threadVars>>
    BY <1>8, <1>t DEF StepOffset, MainAt
  <2> QED
    BY <2>1 DEF SpinInv, timerVars, threadVars
<1>9. CASE Pass
  BY <1>9 DEF Pass, SpinInv, timerVars, threadVars
<1>10. CASE UNCHANGED pulseVars
  BY <1>10 DEF pulseVars, SpinInv
<1> QED
  BY <1>1, <1>2, <1>3, <1>4, <1>5, <1>6, <1>7, <1>8, <1>9, <1>10 DEF PulseNext

LEMMA TimeInvariance == PulseSpec => [](ClockInv /\ EdgeInv /\ TimeInv /\ SpinInv)
<1>1. PulseInit => TimeInv /\ SpinInv
  BY HandlingType DEF PulseInit, TimeInv, SpinInv, Armed, vclock_init
<1>2. ClockInv /\ EdgeInv /\ TimeInv /\ SpinInv /\ [PulseNext]_pulseVars => TimeInv' /\ SpinInv'
  BY TimeStep, SpinStep
<1> QED
  BY <1>1, <1>2, EdgeInvariance, PTL DEF PulseSpec

\* A pulse rises on a full second of the clock, but for rounding and the latency of
\* the thread, if nobody has touched the clock since the target was computed: for
\* every rate up to twice nominal (next_rise_raw, vclock_local_for_global).
THEOREM PulsesOnSeconds == PulseSpec => PulseOnSecond
<1>1. ClockInv /\ EdgeInv /\ TimeInv /\ SpinInv =>
        [Rise /\ touched = {} =>
            vclock_now(vc, t) >= aim - 2 /\ vclock_now(vc, t) <= aim + 2 * Latency]_pulseVars
  <2> SUFFICES ASSUME ClockInv, EdgeInv, TimeInv, Rise, touched = {}
               PROVE  vclock_now(vc, t) >= aim - 2 /\ vclock_now(vc, t) <= aim + 2 * Latency
    OBVIOUS
  <2>1. Armed /\ pin = "low" /\ t >= rise_target
    BY DEF ClockInv, PulseTypeOK, EdgeInv, Armed, Rise
  <2>2. /\ t <= rise_target + Latency
        /\ rise_target = vclock_local_for_global(vc, aim) /\ Ahead(vc, aim) >= 0
    BY <2>1 DEF TimeInv
  <2>3. vc \in Clock /\ t \in Int /\ aim \in Int /\ vc.rate <= 2 * One /\ Latency \in Nat
    <3>1. \A r \in Rates : r <= 2 * One
      OBVIOUS
    <3>2. vc \in Clock /\ t \in Nat /\ aim \in Int /\ vc.rate \in Rates
      BY DEF ClockInv, PulseTypeOK, RateInv
    <3>3. vc.rate <= 2 * One
      BY ONLY <3>1, <3>2
    <3>4. t \in Int /\ Latency \in Nat
      BY <3>2
    <3> QED
      BY ONLY <3>2, <3>3, <3>4
  <2>4. vclock_local_for_global(vc, aim) <= t /\ t <= vclock_local_for_global(vc, aim) + Latency
    BY <2>1, <2>2, <2>3, LocalType
  <2> QED
    BY <2>2, <2>3, <2>4, NowInverts
<1> QED
  BY <1>1, TimeInvariance, PTL DEF PulseOnSecond

----------------------------------------------------------------------------
\* What two clocks part in D, W at most, when they are latched at the same reading
\* and their rates are M apart.
LEMMA PartBy ==
    ASSUME NEW X \in Int, NEW D \in Nat, NEW W \in Nat, D <= W,
           NEW r \in Nat, NEW q \in Nat, NEW M \in Nat, q - r <= M, r - q <= M
    PROVE  (D * q) \div One + X \div One - (X + D * r) \div One
              \in 0 - (W * M) \div One - 2 .. (W * M) \div One + 1
<1> DEFINE a == D * q
           b == D * r
           V == W * M
           p == a \div One
           x == X \div One
           y == (X + b) \div One
           S == V \div One
<1>0. One \in Nat \ {0}
  OBVIOUS
<1>1. a \in Int /\ b \in Int /\ V \in Int /\ a - b <= V /\ b - a <= V
  <2>1. (q - r) * D <= M * D /\ (r - q) * D <= M * D /\ D * M <= W * M
    <3>1. q - r \in Int /\ r - q \in Int
      OBVIOUS
    <3> QED
      BY <3>1, MulMono
  <2>2. (q - r) * D = a - b /\ (r - q) * D = b - a /\ M * D = D * M
    OBVIOUS
  <2>3. a \in Int /\ b \in Int /\ V \in Int /\ D * M \in Int
    OBVIOUS
  <2> HIDE DEF a, b
  <2> QED
    BY <2>1, <2>2, <2>3
<1> HIDE DEF a, b, V
<1>2. p \in Int /\ p * One <= a /\ a < p * One + One
  BY <1>0, <1>1, DivBounds
<1>3. x \in Int /\ x * One <= X /\ X < x * One + One
  BY <1>0, DivBounds
<1>4. y \in Int /\ y * One <= X + b /\ X + b < y * One + One
  <2>1. X + b \in Int
    BY <1>1
  <2> QED
    BY <1>0, <2>1, DivBounds
<1>5. S \in Int /\ V < S * One + One
  BY <1>0, <1>1, DivBounds
<1> HIDE DEF p, x, y, S
<1>6. /\ (p + x - y) * One = p * One + x * One - y * One
      /\ (S + 2) * One = S * One + 2 * One /\ (0 - S - 3) * One = 0 - S * One - 3 * One
      /\ p * One \in Int /\ x * One \in Int /\ y * One \in Int /\ S * One \in Int
      /\ p + x - y \in Int /\ S + 2 \in Int /\ 0 - S - 3 \in Int
  BY <1>0, <1>2, <1>3, <1>4, <1>5
<1>7. (p + x - y) * One < (S + 2) * One /\ (0 - S - 3) * One < (p + x - y) * One
  BY <1>0, <1>1, <1>2, <1>3, <1>4, <1>5, <1>6
<1>8. p + x - y < S + 2 /\ 0 - S - 3 < p + x - y
  BY <1>0, <1>6, <1>7, MulCancel
<1>9. p + x - y \in 0 - S - 2 .. S + 1
  BY <1>2, <1>3, <1>4, <1>5, <1>8
<1> QED
  BY <1>9 DEF a, b, V, p, x, y, S

\* No calibration finds a negative latency.
LatInv == vc.lat_corr \in Nat

LEMMA LatInvariance == PulseSpec => []LatInv
<1>1. PulseInit => LatInv
  BY DEF PulseInit, LatInv, vclock_init
<1>2. ClockInv /\ LatInv /\ [PulseNext]_pulseVars => LatInv'
  <2> SUFFICES ASSUME vc \in Clock, vc.lat_corr \in Nat, [PulseNext]_pulseVars PROVE vc'.lat_corr \in Nat
    BY DEF ClockInv, PulseTypeOK, LatInv
  <2>1. CASE Poll \/ Rise \/ Fall \/ Exit \/ SyncResp \/ Close \/ Pass \/ UNCHANGED pulseVars
    BY <2>1 DEF Poll, Rise, Fall, Exit, SyncResp, Close, Pass, clockVars, pulseVars
  <2>2. CASE CalibrationBegins
    BY <2>2 DEF CalibrationBegins, vclock_init
  <2>3. CASE CalibrationEnds
    BY <2>3 DEF CalibrationEnds, vclock_set_lat_corr, Clock
  <2>4. CASE Recalibrate
    BY <2>4 DEF Recalibrate, vclock_set_lat_corr, Clock
  <2>5. CASE StepOffset
    BY <2>5 DEF StepOffset, vclock_step_offset, Clock
  <2>6. CASE SetRate
    BY <2>6 DEF SetRate, vclock_set_rate, Clock
  <2> QED
    BY <2>1, <2>2, <2>3, <2>4, <2>5, <2>6 DEF PulseNext
<1> QED
  BY <1>1, <1>2, EdgeInvariance, PTL DEF PulseSpec

\* A change of the rate never sets the clock forth, and back by the latency
\* correction, what two rates part in the busy wait of a rise, and rounding at most,
\* also when the pulse thread has run between the sample and the write
\* (vclock_set_rate).
THEOREM RateChangesBounded == PulseSpec => RateChangeBounded
<1>1. ClockInv /\ EdgeInv /\ TimeInv /\ SpinInv /\ LatInv =>
        [SetRate =>
            /\ vclock_now(vc', main.t_now) - vclock_now(vc, main.t_now) \in 0 - vc.lat_corr .. 0
            /\ vclock_now(vc', t) - vclock_now(vc, t)
                  \in 0 - vc.lat_corr - Slew - 2 .. Slew + 1]_pulseVars
  <2> SUFFICES ASSUME ClockInv, TimeInv, SpinInv, LatInv, SetRate
               PROVE  /\ vclock_now(vc', main.t_now) - vclock_now(vc, main.t_now) \in 0 - vc.lat_corr .. 0
                      /\ vclock_now(vc', t) - vclock_now(vc, t)
                            \in 0 - vc.lat_corr - Slew - 2 .. Slew + 1
    OBVIOUS
  <2> DEFINE n == main.t_now
             r == vc.rate
             q == main.rate
             D == t - n
             X == (n - vc.base_local) * r
             now == vclock_now(vc, n)
  <2>1. /\ vc \in Clock /\ n \in Nat /\ t \in Nat /\ n <= t /\ r \in Rates /\ q \in Rates
        /\ vc.base_local \in Int /\ vc.base_global \in Int /\ vc.lat_corr \in Int /\ r \in Nat /\ q \in Nat
    BY DEF ClockInv, PulseTypeOK, RateInv, TimeInv, Clock
  <2>2. now \in Int /\ X \in Int
    BY <2>1, NowType
  <2>3. D \in Nat /\ D <= BusyWait + Latency
    <3>1. main.pc = "rate" /\ thread.pc = "poll"
      BY DEF SetRate, MainAt
    <3> QED
      BY <2>1, <3>1 DEF SpinInv
  <2>4. vc' = [base_local |-> n, base_global |-> now, rate |-> q, lat_corr |-> vc.lat_corr]
    BY <2>1 DEF SetRate, vclock_set_rate, vclock_now, Clock
  <2>5. \A u \in Int : vclock_now(vc', u) = ((u - n) * q) \div One + now - vc.lat_corr
    <3> HIDE DEF n, q, now
    <3> QED
      BY <2>4 DEF vclock_now, calc_now
  <2>6. now = X \div One + vc.base_global - vc.lat_corr
    BY DEF vclock_now, calc_now
  <2>7. vclock_now(vc, t) = (X + D * r) \div One + vc.base_global - vc.lat_corr
    <3>1. (t - vc.base_local) * r = X + D * r
      BY <2>1
    <3> QED
      BY <3>1 DEF vclock_now, calc_now
  <2>8. vclock_now(vc', n) = now - vc.lat_corr
    <3>1. (n - n) * q = 0 /\ 0 \div One = 0 /\ n \in Int
      BY <2>1
    <3> HIDE DEF n, q, now
    <3> QED
      BY <2>1, <2>2, <2>5, <3>1
  <2>9. (D * q) \div One + X \div One - (X + D * r) \div One \in 0 - Slew - 2 .. Slew + 1
    <3>1. /\ MaxRate - MinRate \in Nat
          /\ q - r <= MaxRate - MinRate /\ r - q <= MaxRate - MinRate
      <4>1. MinRate \in Nat /\ MaxRate \in Nat /\ MinRate <= q /\ q <= MaxRate /\ MinRate <= r /\ r <= MaxRate
        <5>1. MinRate \in Rates /\ MaxRate \in Rates /\ \A x \in Rates : x \in Nat /\ MinRate <= x /\ x <= MaxRate
          BY RateBounds
        <5> QED
          BY <2>1, <5>1
      <4> HIDE DEF q, r
      <4> QED
        BY <2>1, <4>1
    <3>2. BusyWait + Latency \in Nat
      OBVIOUS
    <3> HIDE DEF D, X, q, r
    <3> QED
      BY <2>1, <2>2, <2>3, <3>1, <3>2, PartBy DEF Slew
  <2>10. vclock_now(vc', t) = (D * q) \div One + now - vc.lat_corr
    BY <2>1, <2>5
  <2>11. (D * q) \div One \in Int /\ X \div One \in Int /\ (X + D * r) \div One \in Int
    <3>1. D * q \in Int /\ X + D * r \in Int
      <4> HIDE DEF D, X, q, r
      <4> QED
        BY <2>1, <2>2, <2>3
    <3> QED
      BY <2>2, <3>1, DivBounds
  <2> HIDE DEF n, r, q, D, X, now
  <2>12. vclock_now(vc', t) - vclock_now(vc, t) + vc.lat_corr =
            (D * q) \div One + X \div One - (X + D * r) \div One
    BY <2>1, <2>2, <2>6, <2>7, <2>10, <2>11
  <2>13. vc.lat_corr \in Nat /\ Slew \in Int
    <3>1. (BusyWait + Latency) * (MaxRate - MinRate) \in Int
      <4>1. MaxRate \in Int /\ MinRate \in Int /\ BusyWait + Latency \in Int
        <5>1. MinRate \in Rates /\ MaxRate \in Rates /\ \A x \in Rates : x \in Nat
          BY RateBounds
        <5>2. MinRate \in Nat /\ MaxRate \in Nat
          BY ONLY <5>1, Zenon
        <5>3. \A x \in Nat : x \in Int
          OBVIOUS
        <5>4. BusyWait + Latency \in Int
          OBVIOUS
        <5> QED
          BY ONLY <5>2, <5>3, <5>4, Zenon
      <4> QED
        BY ONLY <4>1
    <3> QED
      BY <3>1, DivBounds DEF LatInv, Slew
  <2>14. vclock_now(vc', n) - now \in 0 - vc.lat_corr .. 0
    BY <2>2, <2>8, <2>13
  <2>15. vclock_now(vc', t) \in Int /\ vclock_now(vc, t) \in Int
    BY <2>1, <2>2, <2>7, <2>10, <2>11
  <2>16. vclock_now(vc', t) - vclock_now(vc, t) \in 0 - vc.lat_corr - Slew - 2 .. Slew + 1
    BY <2>9, <2>12, <2>13, <2>15
  <2> QED
    BY <2>14, <2>16 DEF n, now
<1> QED
  BY <1>1, TimeInvariance, LatInvariance, PTL DEF RateChangeBounded

----------------------------------------------------------------------------
\* The steps that arm a rise, and how far away the next one may be.
Arms == Fall \/ (CalibrationEnds /\ main'.pc = "idle")

Near(far) == Armed /\ pin = "low" => rise_target <= t + far

\* A step that arms leaves the rise near.
LEMMA ArmsNear ==
    ASSUME ClockInv, TimeInv, PulseNext, Arms
    PROVE  /\ rise_target' <= t + Further
           /\ vclock_now(vc', t) + Margin >= 0 => rise_target' <= t + Far
<1>t. t \in Nat /\ vc \in Clock /\ vc.rate \in Rates /\ vc' \in Clock /\ vc'.rate \in Rates
  BY TypeStep DEF ClockInv, PulseTypeOK, RateInv
<1>1. CASE Fall
  <2>1. ArmRise(vc) /\ vc' = vc
    BY <1>1 DEF Fall
  <2> QED
    BY <1>t, <2>1, Arming DEF TimeInv
<1>2. CASE CalibrationEnds /\ main'.pc = "idle"
  <2>1. PICK l \in LatCorrs : vc' = vclock_set_lat_corr(vc, l) /\ ArmRise(vc')
    BY <1>2, HandlingType DEF CalibrationEnds
  <2>2. vc'.base_local <= t
    BY <1>t, <2>1 DEF vclock_set_lat_corr, Clock, TimeInv
  <2> QED
    BY <1>t, <2>1, <2>2, Arming
<1> QED
  BY <1>1, <1>2 DEF Arms

\* Every step keeps the next rise near, if those that arm make it so.
LEMMA NearStep ==
    ASSUME ClockInv, [PulseNext]_pulseVars, NEW far \in Int, Near(far), Arms => rise_target' <= t + far
    PROVE  Near(far)'
<1>t. t \in Nat /\ rise_target \in Int
  BY DEF ClockInv, PulseTypeOK
<1>1. CASE Arms
  <2>1. t' = t
    BY <1>1 DEF Arms, Fall, CalibrationEnds
  <2> QED
    BY <1>1, <2>1 DEF Near
<1>2. CASE CalibrationEnds /\ ~ Arms
  <2>1. main' = Handling("ground")
    BY <1>2, HandlingType DEF CalibrationEnds, Arms
  <2> QED
    BY <2>1, HandlingType DEF Near, Armed
<1>3. CASE Pass
  <2>1. t' = t + 1 /\ UNCHANGED <<timerVars, threadVars, main>>
    BY <1>3 DEF Pass
  <2> QED
    BY <1>t, <2>1 DEF Near, Armed, timerVars, threadVars
<1>4. CASE Rise
  BY <1>4 DEF Rise, Near
<1>5. CASE CalibrationBegins \/ Close
  <2>1. ~ Armed'
    BY <1>5, HandlingType DEF CalibrationBegins, Close, Armed
  <2> QED
    BY <2>1 DEF Near
<1>6. CASE Poll \/ Exit \/ Recalibrate \/ SyncResp \/ StepOffset \/ SetRate \/ UNCHANGED pulseVars
  <2>1. UNCHANGED <<t, rise_target, pin>> /\ (main' = main \/ Armed)
    BY <1>6 DEF Poll, Exit, Recalibrate, SyncResp, StepOffset, SetRate, MainAt, Armed,
                clockVars, timerVars, threadVars, pulseVars
  <2> QED
    BY <2>1 DEF Near, Armed
<1> QED
  BY <1>1, <1>2, <1>3, <1>4, <1>5, <1>6 DEF PulseNext, Arms

\* No step but those of PulseNext arms.
LEMMA ArmsIsStep == ASSUME [PulseNext]_pulseVars, Arms PROVE PulseNext /\ pulseVars' # pulseVars
<1>1. thread'.pc # thread.pc \/ main'.pc # main.pc
  BY HandlingType DEF Arms, Fall, CalibrationEnds, MainAt
<1> QED
  BY <1>1 DEF pulseVars

\* The pulse neither stops nor runs away, whatever is done to the clock: one edge is
\* due and it is no further away than two seconds of the slowest clock
\* (pulse_engine_arm, pulse_thread_fn, next_rise_raw).
THEOREM PulseNeverRunsAway == PulseSpec => [](EdgeDue /\ Near(Further))
<1>1. PulseInit => Near(Further)
  BY HandlingType DEF PulseInit, Near, Armed
<1>2. ClockInv /\ TimeInv /\ Near(Further) /\ [PulseNext]_pulseVars => Near(Further)'
  BY NearStep, ArmsNear, ArmsIsStep, TakesType
<1> QED
  BY <1>1, <1>2, TimeInvariance, PulseNeverStops, PTL DEF PulseSpec

\* When a rise is armed the clock is not before its zero by more than the margin.
\* (Where it is, the truncating division finds the second after the next.)
NotBehind == Arms => vclock_now(vc', t) + Margin >= 0

\* If no clock is armed that is behind, one edge is due and it is no further away
\* than a second of the slowest clock (pulse_engine_arm, pulse_thread_fn,
\* next_rise_raw).
LEMMA NearUnlessBehind == PulseSpec /\ [][NotBehind]_pulseVars => []NextEdgeNear
<1>1. PulseInit => Near(Far)
  BY HandlingType DEF PulseInit, Near, Armed
<1>2. ClockInv /\ TimeInv /\ Near(Far) /\ [NotBehind]_pulseVars /\ [PulseNext]_pulseVars => Near(Far)'
  <2> SUFFICES ASSUME ClockInv, TimeInv, Near(Far), [NotBehind]_pulseVars, [PulseNext]_pulseVars
               PROVE  Near(Far)'
    OBVIOUS
  <2>1. Arms => rise_target' <= t + Far
    BY ArmsIsStep, ArmsNear DEF NotBehind
  <2> QED
    BY <2>1, NearStep, TakesType
<1>3. ClockInv /\ EdgeDue /\ Near(Far) => NextEdgeNear
  BY DEF ClockInv, PulseTypeOK, EdgeDue, Armed, Near, Far, NextEdgeNear
<1> QED
  BY <1>1, <1>2, <1>3, TimeInvariance, PulseNeverStops, PTL DEF PulseSpec

----------------------------------------------------------------------------
\* What the clock shows, in steps of 1/One, before vclock_now rounds it.
Scaled(c, u) == Gone(c, u) + (c.base_global - c.lat_corr) * One

LEMMA ScaledType ==
    ASSUME NEW c \in Clock, NEW u \in Int
    PROVE  /\ Scaled(c, u) \in Int /\ vclock_now(c, u) \in Int
           /\ vclock_now(c, u) * One <= Scaled(c, u)
           /\ Scaled(c, u) < vclock_now(c, u) * One + One
<1> DEFINE G == Gone(c, u)
           d == G \div One
           k == c.base_global - c.lat_corr
<1>0. One \in Nat \ {0}
  OBVIOUS
<1>1. G \in Int /\ c.base_global \in Int /\ c.lat_corr \in Int
  <2>1. c.base_local \in Int /\ c.rate \in Int /\ c.base_global \in Int /\ c.lat_corr \in Int
    BY DEF Clock
  <2> QED
    BY <2>1 DEF Gone
<1>2. vclock_now(c, u) = d + c.base_global - c.lat_corr
  BY DEF vclock_now, calc_now, Gone
<1> HIDE DEF G
<1>3. d \in Int /\ d * One <= G /\ G < d * One + One
  BY <1>0, <1>1, DivBounds
<1> HIDE DEF d
<1>4. vclock_now(c, u) = d + k /\ k \in Int
  BY <1>1, <1>2, <1>3
<1>5. Scaled(c, u) = G + k * One
  BY DEF Scaled, G
<1> HIDE DEF k
<1>6. (d + k) * One = d * One + k * One /\ d * One \in Int /\ k * One \in Int
  BY <1>0, <1>3, <1>4
<1> QED
  BY <1>0, <1>1, <1>3, <1>4, <1>5, <1>6

\* From u to v the clock goes on at its rate.
LEMMA ScaledMoves ==
    ASSUME NEW c \in Clock, NEW u \in Int, NEW v \in Int
    PROVE  Scaled(c, v) = Scaled(c, u) + (v - u) * c.rate
<1>1. \A a, b, x, r \in Int : (b - x) * r = (a - x) * r + (b - a) * r
  OBVIOUS
<1>2. c.base_local \in Int /\ c.rate \in Int /\ (c.base_global - c.lat_corr) * One \in Int
  BY DEF Clock
<1>3. Gone(c, v) = Gone(c, u) + (v - u) * c.rate
  BY <1>1, <1>2 DEF Gone
<1>4. Gone(c, u) \in Int /\ (v - u) * c.rate \in Int
  BY <1>2 DEF Gone
<1> QED
  BY <1>2, <1>3, <1>4 DEF Scaled

\* At the target of a second the clock shows it, but for one step of the raw clock.
LEMMA ScaledTarget ==
    ASSUME NEW c \in Clock, NEW g \in Int, NEW T, T = vclock_local_for_global(c, g), Ahead(c, g) >= 0
    PROVE  Scaled(c, T) > g * One - c.rate /\ Scaled(c, T) <= g * One
<1> DEFINE r == c.rate
           G == Ahead(c, g)
           q == Quotient(G * One, r)
           k == c.base_global - c.lat_corr
<1>1. /\ r \in Nat \ {0} /\ c.base_local \in Int /\ k \in Int /\ G \in Int /\ G = g - k
      /\ One \in Nat \ {0} /\ G >= 0
  BY DEF Clock, Ahead
<1>2. q \in Int /\ T = c.base_local + q
  BY ClockParts
<1>3. G * One \in Int /\ G * One >= 0
  <2> HIDE DEF G
  <2> QED
    BY <1>1
<1>4. q * r <= G * One /\ G * One < q * r + r
  BY <1>1, <1>3, QuotientBounds
<1>5. Scaled(c, T) = (T - c.base_local) * r + k * One
  BY DEF Scaled, Gone
<1> HIDE DEF r, G, q, k
<1>6. T - c.base_local = q
  BY <1>1, <1>2
<1>7. G * One = g * One - k * One /\ g * One \in Int /\ k * One \in Int /\ q * r \in Int
  BY <1>1, <1>2
<1>8. Scaled(c, T) = q * r + k * One
  BY <1>5, <1>6
<1>9. q * r + k * One > g * One - r /\ q * r + k * One <= g * One
  BY <1>1, <1>4, <1>7
<1> QED
  BY <1>8, <1>9 DEF r

\* A latency correction and one unit of rounding are a setback at most.
LEMMA LatBounds ==
    /\ MaxLat \in Nat /\ Setback \in Nat
    /\ \A l \in LatCorrs : l \in Nat /\ l <= MaxLat /\ l * One + One <= Setback
<1>1. MaxLat \in LatCorrs /\ \A l \in LatCorrs : l <= MaxLat
  BY LatAssumption DEF MaxLat
<1>2. MaxLat \in Nat /\ One \in Nat
  BY <1>1
<1>3. Setback = MaxLat * One + One /\ Setback \in Nat
  BY <1>2 DEF Setback
<1>4. ASSUME NEW l \in LatCorrs PROVE l \in Nat /\ l <= MaxLat /\ l * One + One <= Setback
  <2>1. l \in Nat /\ l <= MaxLat
    BY <1>1
  <2>2. l * One <= MaxLat * One
    BY <1>2, <2>1, MulMono
  <2> QED
    BY <1>2, <1>3, <2>1, <2>2
<1> QED
  BY <1>2, <1>3, <1>4

\* What the writes do to the reading at the time they latch it.
LEMMA WritesMove ==
    ASSUME NEW c \in Clock, c.lat_corr \in LatCorrs, NEW u \in Int
    PROVE  /\ \A r \in Nat \ {0} :
                 /\ Scaled(vclock_set_rate(c, r, u), u) >= Scaled(c, u) - Setback
                 /\ Scaled(vclock_set_rate(c, r, u), u) <= Scaled(c, u)
           /\ \A d \in Int : vclock_now(c, u) + d >= 0 =>
                 Scaled(vclock_step_offset(c, d, u), u) >= 0 - Setback
           /\ \A l \in LatCorrs :
                 /\ Scaled(vclock_set_lat_corr(c, l), u) >= Scaled(c, u) - Setback
                 /\ Scaled(vclock_set_lat_corr(c, l), u) <= Scaled(c, u) + Setback
<1> DEFINE now == vclock_now(c, u)
           S == Scaled(c, u)
           lat == c.lat_corr
<1>1. /\ S \in Int /\ now \in Int /\ now * One <= S /\ S < now * One + One
      /\ c.base_local \in Int /\ c.base_global \in Int /\ c.rate \in Nat \ {0}
  BY ScaledType DEF Clock
<1>2. lat \in Nat /\ lat * One + One <= Setback /\ Setback \in Nat
  BY LatBounds
<1>3. One \in Nat \ {0} /\ now * One \in Int /\ lat * One \in Int
  <2> HIDE DEF now, lat
  <2> QED
    BY <1>1, <1>2
<1>4. ASSUME NEW e, NEW b \in Int, e.base_local = u, e.base_global = b, e.rate \in Int, e.lat_corr = lat
      PROVE  Scaled(e, u) = (b - lat) * One
  <2>1. Scaled(e, u) = (u - u) * e.rate + (b - lat) * One
    BY <1>4 DEF Scaled, Gone
  <2>2. (u - u) * e.rate = 0 /\ (b - lat) * One \in Int
    BY <1>2, <1>4
  <2> QED
    BY <2>1, <2>2
<1>5. ASSUME NEW r \in Nat \ {0}
      PROVE  /\ Scaled(vclock_set_rate(c, r, u), u) >= S - Setback
             /\ Scaled(vclock_set_rate(c, r, u), u) <= S
  <2> DEFINE e == vclock_set_rate(c, r, u)
  <2>1. e.base_local = u /\ e.base_global = now /\ e.rate = r /\ e.lat_corr = lat
    BY DEF vclock_set_rate, vclock_now, Clock
  <2> HIDE DEF e, now, lat, S
  <2>2. Scaled(e, u) = (now - lat) * One
    BY <1>1, <1>4, <2>1
  <2>3. (now - lat) * One = now * One - lat * One /\ lat * One >= 0
    BY <1>1, <1>2
  <2>4. Scaled(e, u) >= S - Setback /\ Scaled(e, u) <= S
    BY <1>1, <1>2, <1>3, <2>2, <2>3
  <2> QED
    BY <2>4 DEF e
<1>6. ASSUME NEW d \in Int, now + d >= 0
      PROVE  Scaled(vclock_step_offset(c, d, u), u) >= 0 - Setback
  <2> DEFINE e == vclock_step_offset(c, d, u)
  <2>1. e.base_local = u /\ e.base_global = now + d /\ e.rate = c.rate /\ e.lat_corr = lat
    BY DEF vclock_step_offset, vclock_now, Clock
  <2> HIDE DEF e, now, lat, S
  <2>2. Scaled(e, u) = ((now + d) - lat) * One
    <3>1. now + d \in Int /\ c.rate \in Int
      BY <1>1
    <3> QED
      BY <1>4, <2>1, <3>1
  <2>3. ((now + d) - lat) * One = (now + d) * One - lat * One /\ (now + d) * One >= 0 /\ (now + d) * One \in Int
    BY <1>1, <1>2, <1>6
  <2>4. Scaled(e, u) >= 0 - Setback
    BY <1>2, <1>3, <2>2, <2>3
  <2> QED
    BY <2>4 DEF e
<1>7. ASSUME NEW l \in LatCorrs
      PROVE  /\ Scaled(vclock_set_lat_corr(c, l), u) >= S - Setback
             /\ Scaled(vclock_set_lat_corr(c, l), u) <= S + Setback
  <2>1. l \in Nat /\ l * One + One <= Setback
    BY LatBounds
  <2>2. Scaled(vclock_set_lat_corr(c, l), u) = Gone(c, u) + (c.base_global - l) * One
    BY DEF Scaled, Gone, vclock_set_lat_corr, Clock
  <2>3. S = Gone(c, u) + (c.base_global - lat) * One
    BY DEF Scaled
  <2>4. Gone(c, u) \in Int
    BY ClockParts
  <2> HIDE DEF S, lat
  <2>5. /\ (c.base_global - l) * One = c.base_global * One - l * One
        /\ (c.base_global - lat) * One = c.base_global * One - lat * One
        /\ c.base_global * One \in Int /\ l * One \in Int /\ l * One >= 0 /\ lat * One >= 0
    BY <1>1, <1>2, <2>1
  <2> QED
    BY <1>1, <1>2, <1>3, <2>1, <2>2, <2>3, <2>4, <2>5
<1> QED
  BY <1>5, <1>6, <1>7

----------------------------------------------------------------------------
\* A SYNC_RESP is being handled.  The clock will be latched at its t_now, and with
\* a rate not known yet: its reading is judged there.
InHand == main.pc \in {"step", "rate"}

Ref == IF InHand THEN main.t_now ELSE t

\* What the writes since the target was computed can have moved the reading by.
Slack == (IF InHand THEN writes ELSE writes + 1) * Setback

\* What the clock will show at the target if it goes on at rate r.
AtRise(r) == Scaled(vc, Ref) + (rise_target - Ref) * r

\* Whatever rates follow, the clock shows the second at the target, but for what
\* two rates part and the writes move.
OnCourse ==
    /\ AtRise(MinRate) >= aim * One - Drift - MaxRate - Slack
    /\ AtRise(MaxRate) <= aim * One + Drift + Slack

AboveZero == Scaled(vc, Ref) >= 0 - Slack - Setback

\* A clock that is being calibrated begins at zero; from then on it is on course for
\* the second aimed at, or has been stepped to where a leader's clock can be.
CourseInv ==
    /\ main.pc \in {"ground", "calibrating"} =>
          vc.base_global = 0 /\ vc.lat_corr = 0 /\ touched = {}
    /\ main.pc = "step" => vclock_now(vc, main.t_now) + main.theta >= 0
    /\ Armed =>
          /\ vc.lat_corr \in LatCorrs
          /\ \E k \in Nat : aim = k * Period
          /\ pin = "high" => risen \in rise_target .. rise_target + Latency
          /\ IF "step" \in touched THEN AboveZero ELSE OnCourse

LEMMA BoundTypes ==
    /\ MinRate \in Nat \ {0} /\ MaxRate \in Nat \ {0} /\ MinRate <= MaxRate
    /\ Far \in Nat /\ Drift \in Nat /\ Drift = Far * (MaxRate - MinRate)
    /\ Setback \in Nat
<1>1. MinRate \in Rates /\ MaxRate \in Rates /\ MinRate <= MaxRate
  BY RateBounds
<1>2. MinRate \in Nat \ {0} /\ MaxRate \in Nat \ {0}
  BY <1>1
<1>3. Far \in Nat
  <2> DEFINE a == (Period + Margin) * One
  <2>1. a \in Int /\ a >= 0
    OBVIOUS
  <2>2. Far = Quotient(a, MinRate) + 1
    BY DEF Far, Takes
  <2> HIDE DEF a
  <2>3. Quotient(a, MinRate) \in Int /\ Quotient(a, MinRate) >= 0
    BY <1>2, <2>1, QuotientBounds
  <2> QED
    BY <2>2, <2>3
<1>4. Drift = Far * (MaxRate - MinRate)
  BY DEF Drift, Far
<1>5. MaxRate - MinRate \in Nat
  BY <1>1, <1>2
<1>6. Drift \in Nat
  BY <1>3, <1>4, <1>5
<1> QED
  BY <1>1, <1>2, <1>3, <1>4, <1>6, LatBounds

CourseTypeOK ==
    /\ Ref \in Nat /\ Scaled(vc, Ref) \in Int /\ Slack \in Nat
    /\ rise_target \in Int /\ aim * One \in Int

LEMMA CourseTypes == ClockInv => CourseTypeOK
<1> SUFFICES ASSUME ClockInv PROVE CourseTypeOK
  OBVIOUS
<1>1. /\ t \in Nat /\ main.t_now \in Nat /\ vc \in Clock /\ writes \in Nat
      /\ rise_target \in Int /\ aim \in Int
  BY DEF ClockInv, PulseTypeOK
<1>2. Ref \in Nat /\ Ref \in Int
  BY <1>1 DEF Ref
<1>3. Slack \in Nat
  BY <1>1, LatBounds DEF Slack
<1> QED
  BY <1>1, <1>2, <1>3, ScaledType DEF CourseTypeOK

\* A step that writes the clock, or lets it go on, keeps it on course: what it moves
\* the reading by besides the time at some rate is added to the slack.
LEMMA CourseKept ==
    ASSUME ClockInv, ClockInv', NEW e \in Nat,
           aim' = aim, rise_target' = rise_target, Slack' = Slack + e, Ref' >= Ref,
           Scaled(vc, Ref)' >= Scaled(vc, Ref) + (Ref' - Ref) * MinRate - e,
           Scaled(vc, Ref)' <= Scaled(vc, Ref) + (Ref' - Ref) * MaxRate + e
    PROVE  (OnCourse => OnCourse') /\ (AboveZero => AboveZero')
<1> DEFINE T == rise_target
           X == Scaled(vc, Ref)
           Y == Scaled(vc, Ref)'
           u == Ref
           v == Ref'
           A == aim * One
           s == Slack
<1>1. T \in Int /\ X \in Int /\ u \in Nat /\ A \in Int /\ s \in Nat
  BY CourseTypes DEF CourseTypeOK
<1>2. ClockInv' => CourseTypeOK'
  BY CourseTypes, PTL
<1>3. Y \in Int /\ v \in Nat
  BY <1>2 DEF CourseTypeOK
<1>4. MinRate \in Nat /\ MaxRate \in Nat /\ Drift \in Nat /\ Setback \in Nat
  BY BoundTypes
<1>5. v >= u /\ Y >= X + (v - u) * MinRate - e /\ Y <= X + (v - u) * MaxRate + e /\ Slack' = s + e
  OBVIOUS
<1>6. /\ OnCourse <=> /\ X + (T - u) * MinRate >= A - Drift - MaxRate - s
                      /\ X + (T - u) * MaxRate <= A + Drift + s
      /\ AboveZero <=> X >= 0 - s - Setback
  BY DEF OnCourse, AtRise, AboveZero
<1>7. /\ OnCourse' <=> /\ Y + (T - v) * MinRate >= A - Drift - MaxRate - Slack'
                       /\ Y + (T - v) * MaxRate <= A + Drift + Slack'
      /\ AboveZero' <=> Y >= 0 - Slack' - Setback
  BY DEF OnCourse, AtRise, AboveZero
<1> HIDE DEF T, X, Y, u, v, A, s
<1>8. ASSUME NEW r \in Nat
      PROVE  /\ (T - v) * r = (T - u) * r - (v - u) * r
             /\ (T - v) * r \in Int /\ (T - u) * r \in Int /\ (v - u) * r \in Nat
  <2>1. v - u \in Nat
    BY <1>1, <1>3, <1>5
  <2> QED
    BY <1>1, <1>3, <2>1
<1>9. AboveZero => AboveZero'
  BY <1>1, <1>3, <1>4, <1>5, <1>6, <1>7, <1>8
<1>10. OnCourse => Y + (T - v) * MinRate >= A - Drift - MaxRate - Slack'
  BY <1>1, <1>3, <1>4, <1>5, <1>6, <1>8
<1>11. OnCourse => Y + (T - v) * MaxRate <= A + Drift + Slack'
  BY <1>1, <1>3, <1>4, <1>5, <1>6, <1>8
<1> QED
  BY <1>7, <1>9, <1>10, <1>11

\* Arming a clock that is not behind puts it on course.
LEMMA ArmsOnCourse ==
    ASSUME NEW c \in Clock, c.rate \in Rates, c.base_local <= t, t \in Nat, ArmRise(c),
           vclock_now(c, t) + Margin >= 0
    PROVE  /\ Scaled(c, t) + (rise_target' - t) * MinRate >= aim' * One - Drift - MaxRate
           /\ Scaled(c, t) + (rise_target' - t) * MaxRate <= aim' * One + Drift
           /\ \E k \in Nat : aim' = k * Period
<1> DEFINE T == rise_target'
           r == c.rate
           X == Scaled(c, t)
           Y == Scaled(c, T)
           A == aim' * One
           w == T - t
<1>1. T = vclock_local_for_global(c, aim') /\ Ahead(c, aim') >= 0 /\ T >= t /\ T <= t + Far
  BY Arming
<1>2. aim' \in Int /\ T \in Int /\ A \in Int
  BY ArmType
<1>3. Y > A - r /\ Y <= A
  BY <1>1, <1>2, ScaledTarget
<1>4. r \in Nat /\ MinRate <= r /\ r <= MaxRate
  <2>1. MinRate <= r /\ r <= MaxRate
    BY RateBounds
  <2> QED
    BY <2>1 DEF Clock
<1>5. Y = X + w * r /\ X \in Int /\ Y \in Int
  <2>1. t \in Int
    OBVIOUS
  <2> QED
    BY <1>2, <2>1, ScaledMoves, ScaledType
<1>6. w \in Nat /\ w <= Far
  BY <1>1, <1>2, BoundTypes
<1>b. MinRate \in Nat /\ MaxRate \in Nat /\ Far \in Nat /\ Drift \in Nat /\ Drift = Far * (MaxRate - MinRate)
  BY BoundTypes
<1> HIDE DEF T, r, X, Y, A, w
<1>7. w * (MaxRate - MinRate) <= Drift
  <2>1. MaxRate - MinRate \in Nat
    BY <1>4, <1>b
  <2> QED
    BY <1>6, <1>b, <2>1, MulMono
<1>8. w * r <= w * MinRate + Drift /\ w * MaxRate <= w * r + Drift
  <2>1. (r - MinRate) * w <= (MaxRate - MinRate) * w /\ (MaxRate - r) * w <= (MaxRate - MinRate) * w
    <3>1. r - MinRate \in Int /\ MaxRate - r \in Int /\ MaxRate - MinRate \in Int
      BY <1>4, <1>b
    <3>2. r - MinRate <= MaxRate - MinRate /\ MaxRate - r <= MaxRate - MinRate
      BY <1>4, <1>b
    <3> QED
      BY <1>6, <3>1, <3>2, MulMono
  <2>2. /\ (r - MinRate) * w = w * r - w * MinRate /\ (MaxRate - r) * w = w * MaxRate - w * r
        /\ (MaxRate - MinRate) * w = w * (MaxRate - MinRate)
        /\ w * r \in Int /\ w * MinRate \in Int /\ w * MaxRate \in Int /\ w * (MaxRate - MinRate) \in Int
    BY <1>4, <1>6, <1>b
  <2> QED
    BY <1>7, <1>b, <2>1, <2>2
<1>9. X + w * MinRate >= A - Drift - MaxRate /\ X + w * MaxRate <= A + Drift
  <2>1. w * r \in Int /\ w * MinRate \in Int /\ w * MaxRate \in Int
    BY <1>4, <1>6, <1>b
  <2> QED
    BY <1>2, <1>3, <1>4, <1>5, <1>8, <1>b, <2>1
<1>10. \E k \in Nat : aim' = k * Period
  <2> DEFINE a == vclock_now(c, t) + Margin
             q == Quotient(a, Period)
  <2>1. a \in Int /\ a >= 0 /\ Period \in Nat \ {0}
    BY NowType
  <2>2. aim' = (q + 1) * Period
    BY DEF ArmRise, next_second
  <2> HIDE DEF a
  <2>3. q \in Int /\ q >= 0
    BY <2>1, QuotientBounds
  <2> HIDE DEF q
  <2>4. q + 1 \in Nat
    BY <2>3
  <2> QED
    BY <2>2, <2>4
<1> QED
  BY <1>9, <1>10 DEF X, T, A, w

\* When the pulse falls the clock has passed the second that was aimed at, if it was
\* not stepped, and is far from the next; stepped or not it is not behind.
LEMMA FallOnCourse ==
    ASSUME Tuned, ClockInv, EdgeInv, TimeInv, SpinInv, CourseInv, Fall
    PROVE  /\ vclock_now(vc, t) + Margin >= 0
           /\ "step" \notin touched =>
                 aim <= vclock_now(vc, t) + Margin /\ vclock_now(vc, t) + Margin < aim + Period
<1> DEFINE now == vclock_now(vc, t)
           X == Scaled(vc, t)
           T == rise_target
           A == aim * One
           w == t - T
           W == (MaxWrites + 1) * Setback
           M == Margin * One
<1>1. /\ t \in Nat /\ risen \in Nat /\ vc \in Clock /\ T \in Int /\ aim \in Int /\ writes \in 0 .. MaxWrites
      /\ main.t_now \in Nat
  BY DEF ClockInv, PulseTypeOK
<1>2. Armed /\ thread.pc = "low" /\ pin = "high" /\ t \in risen + High .. risen + High + Latency
  BY DEF ClockInv, PulseTypeOK, EdgeInv, Armed, Fall
<1>3. w \in Int /\ High <= w /\ w <= High + 2 * Latency
  <2>1. risen \in T .. T + Latency
    BY <1>2 DEF CourseInv
  <2> QED
    BY <1>1, <1>2, <2>1
<1>4. Ref = t
  BY <1>2 DEF SpinInv, Ref, InHand
<1>5. now \in Int /\ X \in Int /\ now * One <= X /\ X < now * One + One
  <2>1. t \in Int
    BY <1>1
  <2> QED
    BY <1>1, <2>1, ScaledType
<1>b. /\ MinRate \in Nat \ {0} /\ MaxRate \in Nat \ {0} /\ Drift \in Nat /\ Setback \in Nat
      /\ MaxLat \in Nat /\ One \in Nat \ {0} /\ Margin \in Nat /\ High \in Nat /\ Latency \in Nat
      /\ Period \in Nat \ {0} /\ MaxWrites \in Nat /\ A \in Int
  BY <1>1, BoundTypes, LatBounds
<1>c. M \in Nat /\ W \in Nat
  BY <1>b
<1>6. Slack \in Nat /\ Slack <= W
  <2>1. PICK n \in Nat : n <= MaxWrites + 1 /\ Slack = n * Setback
    <3>1. CASE InHand
      BY <1>1, <1>b, <3>1 DEF Slack
    <3>2. CASE ~ InHand
      BY <1>1, <1>b, <3>2 DEF Slack
    <3> QED
      BY <3>1, <3>2
  <2>2. MaxWrites + 1 \in Int /\ n \in Int
    BY <1>b
  <2> QED
    BY <1>b, <2>1, <2>2, MulMono
<1>7. /\ Drift + W + MaxRate <= M + High * MinRate
      /\ (High + 2 * Latency) * MaxRate + Drift + W < (Period - Margin) * One
      /\ (MaxWrites + 2) * (MaxLat + 1) <= Margin
  BY DEF Tuned
<1>8. PICK k \in Nat : aim = k * Period
  BY <1>2 DEF CourseInv
<1>9. aim >= 0
  BY <1>8, <1>b
<1>10. CASE "step" \in touched
  <2>1. X >= 0 - Slack - Setback
    BY <1>2, <1>4, <1>10 DEF CourseInv, AboveZero
  <2>2. W + Setback <= M
    <3> DEFINE n == (MaxWrites + 2) * (MaxLat + 1)
    <3>1. n \in Nat /\ n <= Margin
      BY <1>7, <1>b
    <3>2. W + Setback = n * One
      <4>1. \A m, l, o \in Int : (m + 1) * ((l + 1) * o) + (l + 1) * o = ((m + 2) * (l + 1)) * o
        OBVIOUS
      <4>2. MaxWrites \in Int /\ MaxLat \in Int /\ One \in Int
        BY <1>b
      <4> QED
        BY <4>1, <4>2 DEF Setback
    <3> HIDE DEF n
    <3>3. n * One <= Margin * One
      BY <1>b, <3>1, MulMono
    <3> QED
      BY <3>2, <3>3
  <2> HIDE DEF X, now, W, M
  <2>3. X >= 0 - M
    BY <1>5, <1>6, <1>b, <1>c, <2>1, <2>2
  <2>4. (0 - Margin) * One < (now + 1) * One
    <3>1. (now + 1) * One = now * One + One /\ now * One \in Int /\ (0 - Margin) * One = 0 - M
      BY <1>5, <1>b DEF M
    <3> QED
      BY <1>5, <1>b, <1>c, <2>3, <3>1
  <2>5. 0 - Margin < now + 1
    <3>1. 0 - Margin \in Int /\ now + 1 \in Int
      BY <1>5, <1>b
    <3> QED
      BY <1>b, <2>4, <3>1, MulCancel
  <2>6. now + Margin >= 0
    BY <1>5, <1>b, <2>5
  <2> QED
    BY <1>10, <2>6 DEF now
<1>11. CASE "step" \notin touched
  <2>1. /\ X + (T - t) * MinRate >= A - Drift - MaxRate - Slack
        /\ X + (T - t) * MaxRate <= A + Drift + Slack
    BY <1>2, <1>4, <1>11 DEF CourseInv, OnCourse, AtRise
  <2>2. /\ (T - t) * MinRate = 0 - w * MinRate /\ (T - t) * MaxRate = 0 - w * MaxRate
        /\ w * MinRate \in Int /\ w * MaxRate \in Int
    BY <1>1, <1>b
  <2> DEFINE h == High + 2 * Latency
  <2>h. h \in Nat /\ w <= h /\ h * MaxRate + Drift + W < (Period - Margin) * One
    BY <1>3, <1>7, <1>b
  <2> HIDE DEF X, now, W, M, w, A, T, h
  <2>3. High * MinRate <= w * MinRate /\ w * MaxRate <= h * MaxRate
    BY <1>3, <1>b, <2>h, MulMono
  <2>4. High * MinRate \in Int /\ h * MaxRate \in Int /\ (Period - Margin) * One \in Int
    BY <1>b, <2>h
  <2>5. X >= A - M
    BY <1>5, <1>6, <1>7, <1>b, <1>c, <2>1, <2>2, <2>3, <2>4
  <2>6. X < A + (Period - Margin) * One
    BY <1>5, <1>6, <1>b, <1>c, <2>1, <2>2, <2>h, <2>3, <2>4
  <2>7. aim - Margin < now + 1
    <3>1. (now + 1) * One = now * One + One /\ now * One \in Int /\ (aim - Margin) * One = A - M
      BY <1>1, <1>5, <1>b DEF A, M
    <3>2. (aim - Margin) * One < (now + 1) * One
      BY <1>5, <1>b, <1>c, <2>5, <3>1
    <3>3. aim - Margin \in Int /\ now + 1 \in Int
      BY <1>1, <1>5, <1>b
    <3> QED
      BY <1>b, <3>2, <3>3, MulCancel
  <2>8. now < aim + (Period - Margin)
    <3>1. (aim + (Period - Margin)) * One = A + (Period - Margin) * One /\ now * One \in Int
      BY <1>1, <1>5, <1>b DEF A
    <3>2. now * One < (aim + (Period - Margin)) * One
      BY <1>5, <1>b, <2>4, <2>6, <3>1
    <3>3. aim + (Period - Margin) \in Int
      BY <1>1, <1>b
    <3> QED
      BY <1>5, <1>b, <3>2, <3>3, MulCancel
  <2>9. aim <= now + Margin /\ now + Margin < aim + Period /\ now + Margin >= 0
    BY <1>1, <1>5, <1>9, <1>b, <2>7, <2>8
  <2> QED
    BY <2>9 DEF now
<1> QED
  BY <1>10, <1>11

\* A clock that was just calibrated shows its latency correction less than zero, or
\* more.
LEMMA CalibratedNotBehind ==
    ASSUME Tuned, ClockInv, TimeInv, NEW c \in Clock, NEW l \in LatCorrs,
           c.base_local <= t, c.base_global = 0, c.lat_corr = l
    PROVE  vclock_now(c, t) + Margin >= 0
<1>1. t \in Int /\ c.base_local \in Int /\ c.rate \in Nat
  BY DEF ClockInv, PulseTypeOK, Clock
<1>2. Gone(c, t) \in Int /\ Gone(c, t) >= 0
  <2>1. t - c.base_local \in Nat
    BY <1>1
  <2> QED
    BY <1>1, <2>1 DEF Gone
<1>3. Gone(c, t) \div One \in Int /\ Gone(c, t) \div One >= 0
  <2>1. One \in Nat \ {0} /\ 0 * One <= Gone(c, t)
    BY <1>2
  <2> QED
    BY <1>2, <2>1, DivBounds, DivAtLeast
<1>4. vclock_now(c, t) = Gone(c, t) \div One + 0 - l
  BY DEF vclock_now, calc_now, Gone
<1>5. l <= Margin /\ l \in Nat
  <2>1. l \in Nat /\ l <= MaxLat /\ MaxLat \in Nat
    BY LatBounds
  <2>2. (MaxWrites + 2) * (MaxLat + 1) <= Margin /\ MaxWrites \in Nat /\ Margin \in Nat
    BY DEF Tuned
  <2>3. MaxLat + 1 \in Nat /\ MaxWrites + 2 \in Int /\ 1 <= MaxWrites + 2
    BY <2>1, <2>2
  <2>4. 1 * (MaxLat + 1) <= (MaxWrites + 2) * (MaxLat + 1)
    BY <2>3, MulMono
  <2>5. (MaxWrites + 2) * (MaxLat + 1) \in Int /\ 1 * (MaxLat + 1) = MaxLat + 1
    BY <2>3
  <2> QED
    BY <2>1, <2>2, <2>4, <2>5
<1> QED
  BY <1>3, <1>4, <1>5

\* Every step keeps the clock on course.
LEMMA CourseStep ==
    ASSUME Tuned, ClockInv, EdgeInv, TimeInv, SpinInv, CourseInv, [PulseNext]_pulseVars
    PROVE  CourseInv'
<1>t. /\ t \in Nat /\ t \in Int /\ rise_target \in Int /\ vc \in Clock /\ vc.rate \in Rates /\ main.rate \in Rates
      /\ writes \in Nat /\ main.t_now \in Nat /\ main.t_now <= t
      /\ main \in [pc : {"ground", "calibrating", "idle", "step", "rate", "closed"},
                   t_now : Nat, theta : Int, rate : Nat \ {0}]
      /\ main.pc \in {"ground", "calibrating", "idle", "step", "rate", "closed"}
      /\ ClockInv' /\ vc' \in Clock /\ vc'.rate \in Rates
  BY TypeStep DEF ClockInv, PulseTypeOK, RateInv, TimeInv
<1>b. /\ MinRate \in Nat /\ MaxRate \in Nat /\ Setback \in Nat /\ Drift \in Nat /\ 0 \in Nat
      /\ Slack \in Nat /\ Ref \in Nat /\ Scaled(vc, Ref) \in Int
  BY BoundTypes, CourseTypes DEF CourseTypeOK
<1>0. ASSUME UNCHANGED <<t, vc, rise_target, aim, pin, risen, main, writes, touched>>
      PROVE  CourseInv'
  BY <1>0 DEF CourseInv, Armed, AboveZero, OnCourse, AtRise, Slack, Ref, InHand
<1>1. CASE Poll \/ Exit \/ UNCHANGED pulseVars
  BY <1>0, <1>1 DEF Poll, Exit, clockVars, timerVars, pulseVars
<1>2. CASE Rise
  <2>1. Armed /\ pin = "low" /\ t >= rise_target
    BY <1>2 DEF Rise, ClockInv, PulseTypeOK, EdgeInv, Armed
  <2>2. t \in rise_target .. rise_target + Latency
    BY <1>t, <2>1 DEF TimeInv
  <2>3. risen' = t /\ UNCHANGED <<t, vc, rise_target, aim, main, writes, touched>>
    BY <1>2 DEF Rise, clockVars, timerVars
  <2> QED
    BY <2>1, <2>2, <2>3 DEF CourseInv, Armed, AboveZero, OnCourse, AtRise, Slack, Ref, InHand
<1>3. CASE Fall
  <2>1. /\ ArmRise(vc) /\ pin' = "low" /\ writes' = 0 /\ touched' = {}
        /\ thread.pc = "low" /\ UNCHANGED <<t, vc, main>>
    BY <1>3 DEF Fall
  <2>2. vclock_now(vc, t) + Margin >= 0
    BY <1>3, FallOnCourse
  <2>3. /\ Scaled(vc, t) + (rise_target' - t) * MinRate >= aim' * One - Drift - MaxRate
        /\ Scaled(vc, t) + (rise_target' - t) * MaxRate <= aim' * One + Drift
        /\ \E k \in Nat : aim' = k * Period
    <3>1. vc.base_local <= t
      BY DEF TimeInv
    <3> QED
      BY <1>t, <2>1, <2>2, <3>1, ArmsOnCourse
  <2>4. Ref' = t
    BY <2>1 DEF Ref, InHand, SpinInv
  <2>5. OnCourse'
    <3>1. Slack' \in Nat /\ aim' * One \in Int /\ rise_target' \in Int
      <4>1. ClockInv' => CourseTypeOK'
        BY CourseTypes, PTL
      <4> QED
        BY <1>t, <4>1 DEF CourseTypeOK
    <3>2. Scaled(vc, t) \in Int
      BY <1>t, ScaledType
    <3>3. (rise_target' - t) * MinRate \in Int /\ (rise_target' - t) * MaxRate \in Int
      BY <1>t, <1>b, <3>1
    <3>4. AtRise(MinRate)' = Scaled(vc, t) + (rise_target' - t) * MinRate
      BY <2>1, <2>4 DEF AtRise
    <3>5. AtRise(MaxRate)' = Scaled(vc, t) + (rise_target' - t) * MaxRate
      BY <2>1, <2>4 DEF AtRise
    <3>6. AtRise(MinRate)' >= aim' * One - Drift - MaxRate - Slack'
      BY <1>b, <2>3, <3>1, <3>2, <3>3, <3>4
    <3>7. AtRise(MaxRate)' <= aim' * One + Drift + Slack'
      BY <1>b, <2>3, <3>1, <3>2, <3>3, <3>5
    <3> QED
      BY <3>6, <3>7 DEF OnCourse
  <2>6. Armed /\ Armed'
    BY <1>3, <2>1 DEF Fall, EdgeInv, Armed, ClockInv, PulseTypeOK
  <2>7. vc'.lat_corr \in LatCorrs
    BY <2>1, <2>6 DEF CourseInv
  <2>8. main'.pc = "step" => vclock_now(vc', main'.t_now) + main'.theta >= 0
    BY <2>1 DEF CourseInv
  <2> QED
    BY <2>1, <2>3, <2>5, <2>6, <2>7, <2>8 DEF CourseInv, Armed
<1>4. CASE CalibrationBegins
  <2>1. main'.pc = "calibrating" /\ vc'.base_global = 0 /\ vc'.lat_corr = 0
    BY <1>4, HandlingType DEF CalibrationBegins, vclock_init
  <2>2. touched' = {}
    BY <1>4 DEF CalibrationBegins, MainAt, CourseInv
  <2> QED
    BY <2>1, <2>2 DEF CourseInv, Armed
<1>5. CASE CalibrationEnds
  <2>0. vc.base_global = 0 /\ vc.lat_corr = 0 /\ touched = {} /\ touched' = {} /\ t' = t /\ pin' = "low"
    BY <1>5 DEF CalibrationEnds, MainAt, CourseInv, EdgeInv, threadVars
  <2>1. CASE main' = Handling("ground") /\ UNCHANGED <<vc, timerVars>>
    BY <2>0, <2>1, HandlingType DEF CourseInv, Armed
  <2>2. ASSUME NEW l \in LatCorrs,
               vc' = vclock_set_lat_corr(vc, l), ArmRise(vc'), main' = Handling("idle")
        PROVE  CourseInv'
    <3>1. vc'.base_local <= t /\ vc'.base_global = 0 /\ vc'.lat_corr = l
      BY <1>t, <2>0, <2>2 DEF vclock_set_lat_corr, Clock, TimeInv
    <3>2. vclock_now(vc', t) + Margin >= 0
      BY <1>t, <3>1, CalibratedNotBehind
    <3>3. /\ Scaled(vc', t) + (rise_target' - t) * MinRate >= aim' * One - Drift - MaxRate
          /\ Scaled(vc', t) + (rise_target' - t) * MaxRate <= aim' * One + Drift
          /\ \E k \in Nat : aim' = k * Period
      BY <1>t, <2>2, <3>1, <3>2, ArmsOnCourse
    <3>4. main'.pc = "idle" /\ Ref' = t
      BY <2>0, <2>2, HandlingType DEF Ref, InHand
    <3>5. OnCourse'
      <4>1. Slack' \in Nat /\ aim' * One \in Int /\ rise_target' \in Int
        <5>1. ClockInv' => CourseTypeOK'
          BY CourseTypes, PTL
        <5> QED
          BY <1>t, <5>1 DEF CourseTypeOK
      <4>2. Scaled(vc', t) \in Int
        BY <1>t, ScaledType
      <4>3. (rise_target' - t) * MinRate \in Int /\ (rise_target' - t) * MaxRate \in Int
        BY <1>t, <1>b, <4>1
      <4>4. AtRise(MinRate)' = Scaled(vc', t) + (rise_target' - t) * MinRate
        BY <3>4 DEF AtRise
      <4>5. AtRise(MaxRate)' = Scaled(vc', t) + (rise_target' - t) * MaxRate
        BY <3>4 DEF AtRise
      <4>6. AtRise(MinRate)' >= aim' * One - Drift - MaxRate - Slack'
        BY <1>b, <3>3, <4>1, <4>2, <4>3, <4>4
      <4>7. AtRise(MaxRate)' <= aim' * One + Drift + Slack'
        BY <1>b, <3>3, <4>1, <4>2, <4>3, <4>5
      <4> QED
        BY <4>6, <4>7 DEF OnCourse
    <3> QED
      BY <2>0, <3>1, <3>3, <3>4, <3>5 DEF CourseInv, Armed
  <2> QED
    BY <1>5, <2>1, <2>2 DEF CalibrationEnds
<1>6. CASE Recalibrate
  <2>1. /\ main.pc = "idle" /\ writes' = writes + 1 /\ touched' = touched \cup {"lat_corr"}
        /\ UNCHANGED <<t, rise_target, aim, pin, risen, main>>
    BY <1>6 DEF Recalibrate, MainAt, timerVars, threadVars
  <2>2. PICK l \in LatCorrs : vc' = vclock_set_lat_corr(vc, l)
    BY <1>6 DEF Recalibrate
  <2>3. Ref = t /\ Ref' = t /\ Armed /\ Armed'
    BY <2>1 DEF Ref, InHand, Armed
  <2>4. Slack' = Slack + Setback
    <3>1. Slack' = ((writes + 1) + 1) * Setback /\ Slack = (writes + 1) * Setback
      BY <2>1 DEF Slack, InHand
    <3> QED
      BY <1>t, <1>b, <3>1
  <2>5. Scaled(vc', t) >= Scaled(vc, t) - Setback /\ Scaled(vc', t) <= Scaled(vc, t) + Setback
    BY <1>t, <2>2, <2>3, WritesMove DEF CourseInv
  <2>6. (OnCourse => OnCourse') /\ (AboveZero => AboveZero')
    <3>1. (t - t) * MinRate = 0 /\ (t - t) * MaxRate = 0 /\ t >= t /\ Scaled(vc', t) \in Int /\ Scaled(vc, t) \in Int
      BY <1>t, <1>b, ScaledType
    <3>2. /\ Scaled(vc', t) >= Scaled(vc, t) + (t - t) * MinRate - Setback
          /\ Scaled(vc', t) <= Scaled(vc, t) + (t - t) * MaxRate + Setback
      BY <1>b, <2>5, <3>1
    <3> QED
      BY <1>t, <1>b, <2>1, <2>3, <2>4, <3>1, <3>2, CourseKept
  <2>7. vc'.lat_corr \in LatCorrs
    BY <1>t, <2>2 DEF vclock_set_lat_corr, Clock
  <2>8. "step" \in touched' <=> "step" \in touched
    BY <2>1
  <2> QED
    BY <2>1, <2>3, <2>6, <2>7, <2>8 DEF CourseInv, Armed
<1>7. CASE SyncResp
  <2>1. /\ main.pc = "idle" /\ writes' = writes + 1 /\ main'.t_now = t
        /\ main'.pc \in {"step", "rate"}
        /\ main'.pc = "step" => vclock_now(vc, t) + main'.theta >= 0
        /\ UNCHANGED <<t, vc, touched, rise_target, aim, pin, risen>>
    BY <1>7 DEF SyncResp, MainAt, timerVars, threadVars
  <2>2. Ref = t /\ Ref' = t /\ Armed /\ Armed'
    BY <2>1 DEF Ref, InHand, Armed
  <2>3. Slack' = Slack
    BY <2>1 DEF Slack, InHand
  <2>4. (OnCourse => OnCourse') /\ (AboveZero => AboveZero')
    BY <2>1, <2>2, <2>3 DEF OnCourse, AboveZero, AtRise
  <2> QED
    BY <2>1, <2>2, <2>4 DEF CourseInv
<1>8. CASE StepOffset
  <2>1. /\ main.pc = "step" /\ main'.pc = "rate" /\ main'.t_now = main.t_now
        /\ vc' = vclock_step_offset(vc, main.theta, main.t_now)
        /\ touched' = touched \cup {"step"} /\ UNCHANGED <<t, rise_target, aim, pin, risen, writes>>
    BY <1>8, <1>t DEF StepOffset, MainAt, timerVars, threadVars
  <2>2. Ref' = main.t_now /\ Armed /\ Armed'
    BY <2>1 DEF Ref, InHand, Armed
  <2>3. vc.lat_corr \in LatCorrs /\ vclock_now(vc, main.t_now) + main.theta >= 0
    BY <2>1, <2>2 DEF CourseInv
  <2>4. Scaled(vc', main.t_now) >= 0 - Setback
    <3>1. main.t_now \in Int /\ main.theta \in Int
      BY <1>t
    <3> QED
      BY <1>t, <2>1, <2>3, <3>1, WritesMove
  <2>5. AboveZero'
    <3>1. ClockInv' => CourseTypeOK'
      BY CourseTypes, PTL
    <3>2. Slack' \in Nat /\ Scaled(vc', main.t_now) \in Int
      BY <1>t, <2>2, <3>1 DEF CourseTypeOK
    <3>3. Scaled(vc', main.t_now) >= 0 - Slack' - Setback
      BY <1>b, <2>4, <3>2
    <3> QED
      BY <2>2, <3>3 DEF AboveZero
  <2>6. vc'.lat_corr = vc.lat_corr
    BY <1>t, <2>1 DEF vclock_step_offset, Clock
  <2>7. "step" \in touched'
    BY <2>1
  <2> QED
    BY <2>1, <2>2, <2>3, <2>5, <2>6, <2>7 DEF CourseInv
<1>9. CASE SetRate
  <2> DEFINE n == main.t_now
  <2>1. /\ main.pc = "rate" /\ main'.pc = "idle" /\ vc' = vclock_set_rate(vc, main.rate, n)
        /\ touched' = touched \cup {"rate"} /\ UNCHANGED <<t, rise_target, aim, pin, risen, writes>>
    BY <1>9, HandlingType DEF SetRate, MainAt, timerVars, threadVars
  <2>2. Ref = n /\ Ref' = t /\ Armed /\ Armed'
    BY <2>1 DEF Ref, InHand, Armed
  <2>3. Slack' = Slack + Setback
    <3>1. Slack' = (writes + 1) * Setback /\ Slack = writes * Setback
      BY <2>1 DEF Slack, InHand
    <3> QED
      BY <1>t, <1>b, <3>1
  <2>4. vc.lat_corr \in LatCorrs /\ main.rate \in Nat \ {0} /\ n \in Int /\ n <= t
    BY <1>t, <2>2 DEF CourseInv
  <2>5. Scaled(vc', n) >= Scaled(vc, n) - Setback /\ Scaled(vc', n) <= Scaled(vc, n)
    BY <1>t, <2>1, <2>4, WritesMove
  <2>6. vc'.rate = main.rate /\ vc'.lat_corr = vc.lat_corr
    BY <1>t, <2>1 DEF vclock_set_rate, Clock
  <2>7. Scaled(vc', t) = Scaled(vc', n) + (t - n) * main.rate
    BY <1>t, <2>4, <2>6, ScaledMoves
  <2>8. MinRate <= main.rate /\ main.rate <= MaxRate
    BY <1>t, RateBounds
  <2> HIDE DEF n
  <2>9. (t - n) * MinRate <= (t - n) * main.rate /\ (t - n) * main.rate <= (t - n) * MaxRate
    <3>1. t - n \in Nat
      BY <1>t, <2>4
    <3>2. MinRate * (t - n) <= main.rate * (t - n) /\ main.rate * (t - n) <= MaxRate * (t - n)
      BY <1>b, <2>4, <2>8, <3>1, MulMono
    <3> QED
      BY <1>b, <2>4, <3>1, <3>2
  <2>10. (OnCourse => OnCourse') /\ (AboveZero => AboveZero')
    <3>1. /\ (t - n) * MinRate \in Int /\ (t - n) * main.rate \in Int /\ (t - n) * MaxRate \in Int
          /\ Scaled(vc', n) \in Int /\ Scaled(vc, n) \in Int /\ t >= n
      BY <1>t, <1>b, <2>4, ScaledType
    <3>2. /\ Scaled(vc', t) >= Scaled(vc, n) + (t - n) * MinRate - Setback
          /\ Scaled(vc', t) <= Scaled(vc, n) + (t - n) * MaxRate + Setback
      BY <1>b, <2>5, <2>7, <2>9, <3>1
    <3> QED
      BY <1>t, <1>b, <2>1, <2>2, <2>3, <3>1, <3>2, CourseKept
  <2>11. "step" \in touched' <=> "step" \in touched
    BY <2>1
  <2> QED
    BY <2>1, <2>2, <2>4, <2>6, <2>10, <2>11 DEF CourseInv
<1>10. CASE Close
  <2>1. main'.pc = "closed"
    BY <1>10, HandlingType DEF Close
  <2> QED
    BY <2>1 DEF CourseInv, Armed
<1>11. CASE Pass
  <2>1. t' = t + 1 /\ UNCHANGED <<vc, rise_target, aim, pin, risen, main, writes, touched>>
    BY <1>11 DEF Pass, clockVars, timerVars, threadVars
  <2>2. Armed' = Armed /\ Slack' = Slack
    BY <2>1 DEF Armed, Slack, InHand
  <2>3. CASE InHand
    <3>1. Ref' = Ref
      BY <2>1, <2>3 DEF Ref, InHand
    <3> QED
      BY <2>1, <2>2, <3>1 DEF CourseInv, OnCourse, AboveZero, AtRise, Armed
  <2>4. CASE ~ InHand
    <3>1. Ref = t /\ Ref' = t + 1 /\ t + 1 \in Int
      BY <1>t, <2>1, <2>4 DEF Ref, InHand
    <3>2. Scaled(vc, t + 1) = Scaled(vc, t) + ((t + 1) - t) * vc.rate
      BY <1>t, <3>1, ScaledMoves
    <3>3. MinRate <= vc.rate /\ vc.rate <= MaxRate /\ vc.rate \in Nat
      BY <1>t, RateBounds DEF Clock
    <3>4. ((t + 1) - t) * vc.rate = vc.rate /\ ((t + 1) - t) * MinRate = MinRate /\ ((t + 1) - t) * MaxRate = MaxRate
      BY <1>t, <1>b, <3>3
    <3>5. Scaled(vc, t) \in Int /\ Slack' = Slack + 0 /\ t + 1 >= t
      BY <1>t, <1>b, <2>2, ScaledType
    <3>6. /\ Scaled(vc, t + 1) >= Scaled(vc, t) + ((t + 1) - t) * MinRate - 0
          /\ Scaled(vc, t + 1) <= Scaled(vc, t) + ((t + 1) - t) * MaxRate + 0
      BY <1>b, <3>2, <3>3, <3>4, <3>5
    <3>7. (OnCourse => OnCourse') /\ (AboveZero => AboveZero')
      BY <1>t, <1>b, <2>1, <3>1, <3>5, <3>6, CourseKept
    <3> QED
      BY <2>1, <2>2, <2>4, <3>7 DEF CourseInv, InHand
  <2> QED
    BY <2>3, <2>4
<1> QED
  BY <1>1, <1>2, <1>3, <1>4, <1>5, <1>6, <1>7, <1>8, <1>9, <1>10, <1>11 DEF PulseNext

LEMMA CourseInvariance ==
    ASSUME Tuned
    PROVE  PulseSpec => [](ClockInv /\ EdgeInv /\ TimeInv /\ SpinInv /\ CourseInv)
<1>1. PulseInit => CourseInv
  BY HandlingType DEF PulseInit, CourseInv, Armed, vclock_init
<1>2. ClockInv /\ EdgeInv /\ TimeInv /\ SpinInv /\ CourseInv /\ [PulseNext]_pulseVars => CourseInv'
  BY CourseStep
<1> QED
  BY <1>1, <1>2, TimeInvariance, PTL DEF PulseSpec

\* The second after the k-th, from any reading that is within the margin of it.
LEMMA SecondAfter ==
    ASSUME NEW k \in Nat, NEW g \in Int, k * Period <= g + Margin, g + Margin < k * Period + Period
    PROVE  next_second(g) = k * Period + Period
<1> DEFINE a == g + Margin
           q == Quotient(a, Period)
<1>0. Period \in Nat \ {0} /\ k * Period \in Nat
  OBVIOUS
<1>1. a \in Int /\ a >= 0 /\ k * Period <= a /\ a < k * Period + Period
  BY <1>0
<1>2. next_second(g) = (q + 1) * Period
  BY DEF next_second
<1> HIDE DEF a
<1>3. q \in Int /\ q * Period <= a /\ a < q * Period + Period
  BY <1>0, <1>1, QuotientBounds
<1> HIDE DEF q
<1>4. (q + 1) * Period = q * Period + Period /\ (k + 1) * Period = k * Period + Period /\ q * Period \in Int
  BY <1>0, <1>3
<1>5. q < k + 1 /\ k < q + 1
  <2>1. q * Period < (k + 1) * Period /\ k * Period < (q + 1) * Period
    BY <1>0, <1>1, <1>3, <1>4
  <2>2. q + 1 \in Int /\ k + 1 \in Int
    BY <1>3
  <2> QED
    BY <1>0, <1>3, <2>1, <2>2, MulCancel
<1>6. q = k
  BY <1>3, <1>5
<1> QED
  BY <1>2, <1>4, <1>6

\* Slewing, the latency corrections and rounding never make the pulse skip or repeat
\* a second, for every period, margin and number of writes that fit together: only a
\* phase step may (next_rise_raw, pulse_thread_fn, vclock_set_rate).
THEOREM EverySecondHasOnePulse == ASSUME Tuned PROVE PulseSpec => EverySecondOnce
<1>1. ClockInv /\ EdgeInv /\ TimeInv /\ SpinInv /\ CourseInv =>
        [Fall => aim' = aim + Period \/ "step" \in touched]_pulseVars
  <2> SUFFICES ASSUME ClockInv, EdgeInv, TimeInv, SpinInv, CourseInv, Fall, "step" \notin touched
               PROVE  aim' = aim + Period
    OBVIOUS
  <2>1. aim <= vclock_now(vc, t) + Margin /\ vclock_now(vc, t) + Margin < aim + Period
    BY FallOnCourse
  <2>2. Armed
    BY DEF Fall, EdgeInv, Armed, ClockInv, PulseTypeOK
  <2>3. PICK k \in Nat : aim = k * Period
    BY <2>2 DEF CourseInv
  <2>4. vclock_now(vc, t) \in Int
    BY NowType DEF ClockInv, PulseTypeOK
  <2>5. aim' = next_second(vclock_now(vc, t))
    BY DEF Fall, ArmRise
  <2> QED
    BY <2>1, <2>3, <2>4, <2>5, SecondAfter
<1> QED
  BY <1>1, CourseInvariance, PTL DEF EverySecondOnce

\* If the constants fit together the pulse neither stops nor runs away: one edge is
\* due and it is no further away than a second of the slowest clock, since no clock
\* is behind when a rise is armed (pulse_engine_arm, pulse_thread_fn, next_rise_raw).
THEOREM NextEdgeIsNear == ASSUME Tuned PROVE PulseSpec => []NextEdgeNear
<1>1. ClockInv /\ EdgeInv /\ TimeInv /\ SpinInv /\ CourseInv /\ [PulseNext]_pulseVars => [NotBehind]_pulseVars
  <2> SUFFICES ASSUME ClockInv, EdgeInv, TimeInv, SpinInv, CourseInv, [PulseNext]_pulseVars, Arms
               PROVE  vclock_now(vc', t) + Margin >= 0
    BY DEF NotBehind
  <2>1. CASE Fall
    <3>1. vc' = vc
      BY <2>1 DEF Fall
    <3> QED
      BY <2>1, <3>1, FallOnCourse
  <2>2. CASE CalibrationEnds /\ main'.pc = "idle"
    <3>1. PICK l \in LatCorrs : vc' = vclock_set_lat_corr(vc, l)
      BY <2>2, HandlingType DEF CalibrationEnds
    <3>2. vc \in Clock /\ vc' \in Clock /\ vc.base_global = 0
      BY <2>2, TypeStep DEF ClockInv, PulseTypeOK, CalibrationEnds, MainAt, CourseInv
    <3>3. vc'.base_local <= t /\ vc'.base_global = 0 /\ vc'.lat_corr = l
      BY <3>1, <3>2 DEF vclock_set_lat_corr, Clock, TimeInv
    <3> QED
      BY <3>2, <3>3, CalibratedNotBehind
  <2> QED
    BY <2>1, <2>2 DEF Arms
<1> QED
  BY <1>1, CourseInvariance, NearUnlessBehind, PTL DEF PulseSpec

\* A pulse whose clock has been slewed and recalibrated, but not stepped, since its
\* target was computed misses its second by no more than the rates can part from one
\* pulse to the next, the writes can move, and rounding; a write that the pulse thread
\* has interrupted included (pulse_thread_fn, sm_on_sync_resp).
THEOREM SlewedPulsesOnSeconds == ASSUME Tuned PROVE PulseSpec => SlewedOnSecond
<1>1. ClockInv /\ EdgeInv /\ TimeInv /\ SpinInv /\ CourseInv =>
        [Rise /\ "step" \notin touched =>
            vclock_now(vc, t) \in aim - Miss .. aim + Miss + 2 * Latency]_pulseVars
  <2> SUFFICES ASSUME ClockInv, EdgeInv, TimeInv, CourseInv, Rise, "step" \notin touched
               PROVE  vclock_now(vc, t) \in aim - Miss .. aim + Miss + 2 * Latency
    OBVIOUS
  <2> DEFINE now == vclock_now(vc, t)
             X == Scaled(vc, Ref)
             Y == Scaled(vc, t)
             T == rise_target
             A == aim * One
             u == Ref
             W == (MaxWrites + 1) * Setback
             N == Drift + MaxRate + W
             m == N \div One
  <2>1. /\ t \in Nat /\ vc \in Clock /\ vc.rate \in Rates /\ T \in Int /\ aim \in Int
        /\ writes \in 0 .. MaxWrites
    BY DEF ClockInv, PulseTypeOK, RateInv
  <2>2. Armed /\ pin = "low" /\ T <= t /\ t <= T + Latency
    <3>1. Armed /\ pin = "low" /\ t >= T
      BY DEF Rise, ClockInv, PulseTypeOK, EdgeInv, Armed
    <3> QED
      BY <2>1, <3>1 DEF TimeInv
  <2>b. /\ MinRate \in Nat /\ MaxRate \in Nat /\ Drift \in Nat /\ Setback \in Nat /\ MaxRate <= 2 * One
        /\ One \in Nat \ {0} /\ Latency \in Nat /\ MaxWrites \in Nat
    <3>1. MaxRate \in Rates
      BY RateBounds
    <3>2. MaxRate <= 2 * One
      BY <3>1
    <3> QED
      BY <3>2, BoundTypes
  <2>c. W \in Nat /\ N \in Nat
    BY <2>b
  <2>3. u \in Nat /\ X \in Int /\ A \in Int /\ Slack \in Nat /\ u <= t
    <3>1. u <= t
      BY <2>1 DEF Ref, TimeInv
    <3> QED
      BY <3>1, CourseTypes DEF CourseTypeOK
  <2>4. now \in Int /\ Y \in Int /\ now * One <= Y /\ Y < now * One + One
    BY <2>1, ScaledType
  <2>5. Slack <= W
    <3>1. PICK n \in Nat : n <= MaxWrites + 1 /\ Slack = n * Setback
      <4>1. CASE InHand
        BY <2>1, <2>b, <4>1 DEF Slack
      <4>2. CASE ~ InHand
        BY <2>1, <2>b, <4>2 DEF Slack
      <4> QED
        BY <4>1, <4>2
    <3>2. MaxWrites + 1 \in Int /\ n \in Int
      BY <2>b
    <3> QED
      BY <2>b, <3>1, <3>2, MulMono
  <2>6. /\ X + (T - u) * MinRate >= A - Drift - MaxRate - Slack
        /\ X + (T - u) * MaxRate <= A + Drift + Slack
    BY <2>2 DEF CourseInv, OnCourse, AtRise
  <2>7. Y = X + (t - u) * vc.rate
    <3>1. t \in Int /\ u \in Int
      BY <2>1, <2>3
    <3> QED
      BY <2>1, <3>1, ScaledMoves
  <2>8. MinRate <= vc.rate /\ vc.rate <= MaxRate /\ vc.rate \in Nat
    BY <2>1, RateBounds DEF Clock
  <2>9. N < m * One + One /\ m \in Int
    <3> HIDE DEF N
    <3>1. N \in Int
      BY <2>c
    <3> QED
      BY <2>b, <3>1, DivBounds
  <2>10. Miss = m + 1
    BY DEF Miss
  <2> HIDE DEF X, Y, T, A, u, W, now, m
  <2>11. (t - u) * MinRate <= (t - u) * vc.rate /\ (t - u) * vc.rate <= (t - u) * MaxRate
    <3>1. t - u \in Nat
      BY <2>1, <2>3
    <3>2. MinRate * (t - u) <= vc.rate * (t - u) /\ vc.rate * (t - u) <= MaxRate * (t - u)
      BY <2>b, <2>8, <3>1, MulMono
    <3> QED
      BY <2>b, <2>8, <3>1, <3>2
  <2>12. /\ (T - u) * MinRate = (t - u) * MinRate - (t - T) * MinRate
         /\ (T - u) * MaxRate = (t - u) * MaxRate - (t - T) * MaxRate
         /\ (t - u) * MinRate \in Int /\ (t - T) * MinRate \in Int /\ (t - u) * vc.rate \in Int
         /\ (t - u) * MaxRate \in Int /\ (t - T) * MaxRate \in Int
    BY <2>1, <2>3, <2>8, <2>b
  <2>13. (t - T) * MinRate >= 0 /\ (t - T) * MaxRate <= (2 * Latency) * One
    <3>1. t - T \in Nat /\ t - T <= Latency
      BY <2>1, <2>2, <2>b
    <3>2. (t - T) * MaxRate <= Latency * MaxRate /\ MaxRate * Latency <= (2 * One) * Latency
      BY <2>b, <3>1, MulMono
    <3>3. Latency * MaxRate = MaxRate * Latency /\ (2 * One) * Latency = (2 * Latency) * One
      BY <2>b
    <3>4. (t - T) * MaxRate \in Int /\ Latency * MaxRate \in Int /\ (2 * Latency) * One \in Int /\ (t - T) * MinRate >= 0
      BY <2>b, <3>1
    <3> QED
      BY <3>2, <3>3, <3>4
  <2>14. Y >= A - N /\ Y <= A + N + (2 * Latency) * One
    <3>1. (2 * Latency) * One \in Int
      BY <2>b
    <3> QED
      BY <2>3, <2>4, <2>5, <2>6, <2>7, <2>11, <2>12, <2>13, <2>b, <2>c, <3>1
  <2> HIDE DEF N
  <2>15. /\ (aim - m - 2) * One < now * One
         /\ now * One < (aim + m + 1 + 2 * Latency) * One
    <3>1. /\ (aim - m - 2) * One = A - m * One - 2 * One
          /\ (aim + m + 1 + 2 * Latency) * One = A + m * One + One + (2 * Latency) * One
          /\ m * One \in Int /\ now * One \in Int /\ (2 * Latency) * One \in Int
      BY <2>1, <2>4, <2>9, <2>b DEF A
    <3> QED
      BY <2>3, <2>4, <2>9, <2>14, <2>b, <2>c, <3>1
  <2>16. aim - m - 2 < now /\ now < aim + m + 1 + 2 * Latency
    <3>1. aim - m - 2 \in Int /\ aim + m + 1 + 2 * Latency \in Int
      BY <2>1, <2>9, <2>b
    <3> QED
      BY <2>4, <2>15, <2>b, <3>1, MulCancel
  <2>17. now \in aim - Miss .. aim + Miss + 2 * Latency
    BY <2>1, <2>4, <2>9, <2>10, <2>16, <2>b
  <2> QED
    BY <2>17 DEF now
<1> QED
  BY <1>1, CourseInvariance, PTL DEF SlewedOnSecond

=============================================================================

----------------------------- MODULE PulseEngine -----------------------------
(***************************************************************************)
(* The pulse thread (pulse_engine.c) and the main thread's writes of the   *)
(* virtual clock, in time.  The pulse thread sleeps on two one-shot        *)
(* timers, raises GPIO 18 at a raw time it computed from the clock when    *)
(* the last pulse fell, and knows nothing of what happens to the clock in  *)
(* between.                                                                *)
(*                                                                         *)
(* The pulse thread is above the main thread on the same core: from the    *)
(* return of its poll to the next call it is not interrupted by the main   *)
(* thread, while the main thread may be interrupted between any two        *)
(* writes.  It may be late by Latency.  CLOCK_MONOTONIC and its raw form   *)
(* differ by a constant, as the code assumes, and are one clock here.      *)
(***************************************************************************)
EXTENDS VClock

CONSTANTS
    Period,     \* DRS_PULSE_PERIOD_NS
    High,       \* DRS_PULSE_HIGH_DURATION_NS
    Margin,     \* the 1 ms of next_rise_raw
    BusyWait,   \* BUSY_WAIT_NS
    Latency,    \* by how much the pulse thread may be late
    Rates,      \* the rates pi_ctrl_update may answer, clamped to DRS_RATE_MAX_PPM
                \* of One
    Steps,      \* the phase steps it may ask for
    LatCorrs,   \* the corrections a calibration may find
    CalibrateBy,\* bound: when the first good calibration begins and ends
    MaxTime,    \* bound: raw time explored
    MaxWrites   \* SYNC_RESPs and recalibrations that fit between two pulses: sm_tick
                \* asks for one every DRS_SYNC_EXCHANGE_NS at most

ASSUME PulseAssumption ==
    /\ {Period, High, Margin, BusyWait, MaxTime, MaxWrites} \subseteq Nat \ {0}
    /\ Latency \in Nat /\ CalibrateBy \in Nat
    /\ Rates \subseteq 1 .. 2 * One /\ One \in Rates
    /\ Steps \subseteq Int /\ LatCorrs \subseteq Nat

\* A calibration that waits longer than LOOPBACK_TIMEOUT_US finds none.
ASSUME LatAssumption == \E l \in LatCorrs : \A k \in LatCorrs : k <= l

VARIABLES
    t,              \* raw local time
    vc,             \* the virtual clock
    timer_fd,       \* the pending expiration of the rising-edge timer, or {}
    pulse_low_fd,   \* that of the falling-edge timer
    rise_target,    \* pe->rise_target_raw_ns
    pin,            \* GPIO 18
    thread,         \* the pulse thread: its step pc, and whether the last poll
                    \* reported pulse_low_fd
    main,           \* the main thread: its step pc, and t_now, theta and rate of
                    \* the SYNC_RESP it is handling
    writes,         \* SYNC_RESPs and recalibrations since aim was computed
    aim,            \* the global second the thread aims at
    risen,          \* when the last pulse rose
    touched         \* what has been done to the clock since aim was computed

pulseVars == <<t, vc, timer_fd, pulse_low_fd, rise_target, pin, thread, main,
               writes, aim, risen, touched>>

clockVars == <<vc, writes, touched>>
timerVars == <<timer_fd, rise_target, aim>>
threadVars == <<pulse_low_fd, pin, thread, risen>>

\* The main thread at a step without a SYNC_RESP in hand.
Handling(pc) == [pc |-> pc, t_now |-> 0, theta |-> 0, rate |-> One]

\* main: pulse_engine_init and pulse_engine_start, before calibration.
PulseInit ==
    /\ t = 0 /\ vc = vclock_init(0)
    /\ timer_fd = {} /\ pulse_low_fd = {} /\ rise_target = 0 /\ pin = "low"
    /\ thread = [pc |-> "poll", low |-> FALSE]
    /\ main = Handling("ground")
    /\ writes = 0 /\ aim = 0 /\ risen = 0 /\ touched = {}

----------------------------------------------------------------------------
\* Mutant: the next second is looked for without going one further.
SameSecond(t_global) == Quotient(t_global + Margin, Period) * Period

\* The global second after t_global, at least Margin ahead.
next_second(t_global) == (Quotient(t_global + Margin, Period) + 1) * Period

\* next_rise_raw on clock c, and the timer armed for it.
ArmRise(c) ==
    LET second == next_second(vclock_now(c, t))
        raw    == vclock_local_for_global(c, second)
    IN  /\ aim' = second
        /\ rise_target' = raw
        /\ timer_fd' = {raw - BusyWait}

\* The timers that poll reports.
Expired(fd) == \E e \in fd : e <= t

\* poll returns: read the rising-edge timer and spin, or go on to the other.
Poll ==
    /\ thread.pc = "poll" /\ main.pc # "closed"
    /\ Expired(timer_fd) \/ Expired(pulse_low_fd)
    /\ thread' = [pc |-> IF Expired(timer_fd) THEN "spin" ELSE "low", low |-> Expired(pulse_low_fd)]
    /\ timer_fd' = IF Expired(timer_fd) THEN {} ELSE timer_fd
    /\ UNCHANGED <<t, clockVars, pulse_low_fd, rise_target, pin, main, aim, risen>>

\* Mutant: the pulse is timed from its target, not from its rise.
RiseFromTarget ==
    /\ thread.pc = "spin" /\ t >= rise_target
    /\ pin' = "high" /\ risen' = t
    /\ pulse_low_fd' = {rise_target + High}
    /\ thread' = [thread EXCEPT !.pc = IF thread.low THEN "low" ELSE "poll"]
    /\ UNCHANGED <<t, clockVars, timerVars, main>>

\* The end of the busy wait: raise the pin, arm the falling edge.
Rise ==
    /\ thread.pc = "spin" /\ t >= rise_target
    /\ pin' = "high" /\ risen' = t
    /\ pulse_low_fd' = {t + High}
    /\ thread' = [thread EXCEPT !.pc = IF thread.low THEN "low" ELSE "poll"]
    /\ UNCHANGED <<t, clockVars, timerVars, main>>

\* Mutant: the next pulse is not armed.
FallOnce ==
    /\ thread.pc = "low"
    /\ pin' = "low"
    /\ pulse_low_fd' = {e \in pulse_low_fd : e > t}
    /\ writes' = 0 /\ touched' = {}
    /\ thread' = [pc |-> "poll", low |-> FALSE]
    /\ UNCHANGED <<t, vc, timerVars, main, risen>>

\* The falling edge: lower the pin, compute and arm the next rise.
Fall ==
    /\ thread.pc = "low"
    /\ pin' = "low"
    /\ pulse_low_fd' = {e \in pulse_low_fd : e > t}
    /\ ArmRise(vc)
    /\ writes' = 0 /\ touched' = {}
    /\ thread' = [pc |-> "poll", low |-> FALSE]
    /\ UNCHANGED <<t, vc, main, risen>>

\* while (!pe->stop): the thread ends when poll returns or times out.
Exit ==
    /\ thread.pc = "poll" /\ main.pc = "closed"
    /\ thread' = [thread EXCEPT !.pc = "exited"]
    /\ UNCHANGED <<t, clockVars, timerVars, pulse_low_fd, pin, main, risen>>

----------------------------------------------------------------------------
\* The main thread has the core while the pulse thread sleeps.
MainAt(pc) == thread.pc = "poll" /\ main.pc = pc

\* The CALIBRATION tick: a new clock, then the measurement, which takes time.
CalibrationBegins ==
    /\ MainAt("ground") /\ t <= CalibrateBy
    /\ vc' = vclock_init(t)
    /\ main' = Handling("calibrating")
    /\ UNCHANGED <<t, timerVars, threadVars, writes, touched>>

\* It fails and the next tick repeats it, or it ends with pulse_engine_arm.
CalibrationEnds ==
    /\ MainAt("calibrating") /\ t <= CalibrateBy
    /\ \/ /\ main' = Handling("ground")
          /\ UNCHANGED <<vc, timerVars>>
       \/ \E l \in LatCorrs :
             /\ vc' = vclock_set_lat_corr(vc, l)
             /\ ArmRise(vc')
             /\ main' = Handling("idle")
    /\ UNCHANGED <<t, threadVars, writes, touched>>

\* Mutant: every calibration begins with a new clock.
RecalibrateAnew ==
    /\ MainAt("idle") /\ writes < MaxWrites
    /\ \E l \in LatCorrs : vc' = vclock_set_lat_corr(vclock_init(t), l)
    /\ writes' = writes + 1
    /\ touched' = touched \cup {"lat_corr"}
    /\ UNCHANGED <<t, timerVars, threadVars, main>>

\* Promotion, RECALIBRATE and the end of HOLDOVER calibrate again.
Recalibrate ==
    /\ MainAt("idle") /\ writes < MaxWrites
    /\ \E l \in LatCorrs : vc' = vclock_set_lat_corr(vc, l)
    /\ writes' = writes + 1
    /\ touched' = touched \cup {"lat_corr"}
    /\ UNCHANGED <<t, timerVars, threadVars, main>>

\* Mutant: the controller's correction is taken for a rate.
SyncRespCorrection ==
    /\ MainAt("idle") /\ writes < MaxWrites
    /\ \E r \in Rates : main' = [pc |-> "rate", t_now |-> t, theta |-> 0, rate |-> r - One]
    /\ writes' = writes + 1
    /\ UNCHANGED <<t, vc, touched, timerVars, threadVars>>

\* sm_on_sync_resp takes t_now and the controller answers a rate, or a step to
\* the leader's clock, which never shows a time before its own calibration.
SyncResp ==
    /\ MainAt("idle") /\ writes < MaxWrites
    /\ \/ \E r \in Rates : main' = [pc |-> "rate", t_now |-> t, theta |-> 0, rate |-> r]
       \/ \E d \in Steps :
             /\ vclock_now(vc, t) + d >= 0
             /\ main' = [pc |-> "step", t_now |-> t, theta |-> d, rate |-> One]
    /\ writes' = writes + 1
    /\ UNCHANGED <<t, vc, touched, timerVars, threadVars>>

StepOffset ==
    /\ MainAt("step")
    /\ vc' = vclock_step_offset(vc, main.theta, main.t_now)
    /\ main' = [main EXCEPT !.pc = "rate"]
    /\ touched' = touched \cup {"step"}
    /\ UNCHANGED <<t, timerVars, threadVars, writes>>

SetRate ==
    /\ MainAt("rate")
    /\ vc' = vclock_set_rate(vc, main.rate, main.t_now)
    /\ main' = Handling("idle")
    /\ touched' = touched \cup {"rate"}
    /\ UNCHANGED <<t, timerVars, threadVars, writes>>

\* pulse_engine_close: stop the thread, close both timers.
Close ==
    /\ MainAt("idle") \/ MainAt("ground")
    /\ main' = Handling("closed")
    /\ timer_fd' = {} /\ pulse_low_fd' = {}
    /\ UNCHANGED <<t, clockVars, rise_target, pin, thread, aim, risen>>

\* Time passes, but not beyond what the pulse thread's latency allows.  The main
\* thread's handler of a SYNC_RESP takes no time unless the pulse thread has the
\* core.
Pass ==
    /\ t < MaxTime
    /\ thread.pc \in {"poll", "spin"}
    /\ main.pc \in {"step", "rate"} => thread.pc = "spin"
    /\ thread.pc = "poll" => \A e \in timer_fd \cup pulse_low_fd : t < e + Latency
    /\ thread.pc = "spin" => t < rise_target + Latency
    /\ t' = t + 1
    /\ UNCHANGED <<clockVars, timerVars, threadVars, main>>

PulseNext ==
    \/ Poll \/ Rise \/ Fall \/ Exit
    \/ CalibrationBegins \/ CalibrationEnds \/ Recalibrate
    \/ SyncResp \/ StepOffset \/ SetRate \/ Close
    \/ Pass

PulseSpec == PulseInit /\ [][PulseNext]_pulseVars

----------------------------------------------------------------------------
PulseTypeOK ==
    /\ t \in Nat /\ vc \in Clock /\ writes \in 0 .. MaxWrites
    /\ timer_fd \subseteq Int /\ pulse_low_fd \subseteq Int
    /\ rise_target \in Int /\ aim \in Int /\ risen \in Nat
    /\ pin \in {"low", "high"}
    /\ thread \in [pc : {"poll", "spin", "low", "exited"}, low : BOOLEAN]
    /\ main \in [pc : {"ground", "calibrating", "idle", "step", "rate", "closed"},
                 t_now : Nat, theta : Int, rate : Nat \ {0}]
    /\ touched \subseteq {"lat_corr", "step", "rate"}

\* The slowest rate and the fastest one, and the largest correction.
MinRate == CHOOSE r \in Rates : \A q \in Rates : r <= q
MaxRate == CHOOSE r \in Rates : \A q \in Rates : q <= r
MaxLat == CHOOSE l \in LatCorrs : \A k \in LatCorrs : k <= l

\* How long the slowest clock needs for n units.
Takes(n) == Quotient(n * One, MinRate) + 1

\* By how much, in steps of 1/One, two rates part from one pulse to the next, and
\* a write of the clock moves its reading, or sets it back: by the latency
\* correction and by rounding.
Drift == Takes(Period + Margin) * (MaxRate - MinRate)
Setback == (MaxLat + 1) * One

\* The constants fit together: what happens to a clock from one pulse to the next,
\* steps aside, is less than the margin and the length of a pulse make up for, and
\* does not come near the second after; and the latency corrections of as many
\* writes do not exceed the margin.
Tuned ==
    /\ Drift + (MaxWrites + 1) * Setback + MaxRate <= Margin * One + High * MinRate
    /\ (High + 2 * Latency) * MaxRate + Drift + (MaxWrites + 1) * Setback < (Period - Margin) * One
    /\ (MaxWrites + 2) * (MaxLat + 1) <= Margin

\* The pulse never stops and never runs away: once armed and until it is closed,
\* exactly one edge is due, the falling one while the pin is high and the rising
\* one while it is low, and no later than a second of the slowest clock from now
\* (pulse_engine_arm, pulse_thread_fn, next_rise_raw).
NextEdgeNear ==
    main.pc \in {"idle", "step", "rate"} /\ thread.pc = "poll" =>
        IF pin = "high"
        THEN timer_fd = {} /\ \E e \in pulse_low_fd : e <= t + High
        ELSE /\ pulse_low_fd = {}
             /\ rise_target <= t + Takes(Period + Margin)
             /\ timer_fd = {rise_target - BusyWait}

\* A clock that nobody touched since the thread computed its target shows a full
\* second when the pin rises, but for rounding and the thread's latency
\* (next_rise_raw: vclock_local_for_global is the inverse of vclock_now).
PulseOnSecond ==
    [][Rise /\ touched = {} =>
          /\ vclock_now(vc, t) >= aim - 2
          /\ vclock_now(vc, t) <= aim + 2 * Latency]_pulseVars

\* By how much the reading may have left the second since its target was computed.
Miss == (Drift + MaxRate + (MaxWrites + 1) * Setback) \div One + 1

\* The target is up to a second old when the pin rises, and the clock has been
\* slewed and recalibrated meanwhile.  Unless it was stepped the pulse misses its
\* second by what the rates can part in that time and the writes can move, also
\* when it interrupts the handler of a SYNC_RESP (pulse_thread_fn, sm_on_sync_resp).
SlewedOnSecond ==
    [][Rise /\ "step" \notin touched =>
          vclock_now(vc, t) \in aim - Miss .. aim + Miss + 2 * Latency]_pulseVars

\* Slewing and recalibration never make the pulse skip or repeat a second: only
\* a phase step may, whatever writes fall between the computation of a target
\* and its rise (the margin of next_rise_raw, the order of rise and re-arming).
EverySecondOnce ==
    [][Fall => aim' = aim + Period \/ "step" \in touched]_pulseVars

\* Every pulse is as long as it should be: no falling edge of an earlier pulse
\* cuts it short, however late the thread was (pulse_thread_fn).
PulseWidth ==
    [][Fall => t - risen \in High .. High + Latency]_pulseVars

\* By how much two rates part while the pulse thread has the core to spin.
Slew == ((BusyWait + Latency) * (MaxRate - MinRate)) \div One

\* A change of the rate never sets the reading forth, and back by the latency
\* correction at most, which calc_now takes off when it latches and again when it
\* is read.  When the pulse thread has had the core between the sample of t_now and
\* the write, what the two rates parted meanwhile is added, and rounding; nothing
\* of what they part since the last latch is (vclock_set_rate, sm_on_sync_resp).
RateChangeBounded ==
    [][SetRate =>
          /\ vclock_now(vc', main.t_now) - vclock_now(vc, main.t_now) \in 0 - vc.lat_corr .. 0
          /\ vclock_now(vc', t) - vclock_now(vc, t)
                \in 0 - vc.lat_corr - Slew - 2 .. Slew + 1]_pulseVars

\* "base_local / base_global are latched so there is no discontinuity in the virtual
\* time reading" (vclock.h:43): the clock reads the same at t_now before a change of
\* the rate and after it (vclock_set_rate).
RateChangeContinuous ==
    [][SetRate => vclock_now(vc', main.t_now) = vclock_now(vc, main.t_now)]_pulseVars

=============================================================================

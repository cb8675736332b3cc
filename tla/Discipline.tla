----------------------------- MODULE Discipline -----------------------------
(***************************************************************************)
(* What a FOLLOWER makes of a sample: the min-delay filter (min_delay.c)   *)
(* and the PI controller (pi_ctrl.c), as operators on their state.         *)
(*                                                                         *)
(* The filter's ring with head and count is the sequence of the RTTs it    *)
(* holds, oldest first.  The controller's record has the integrator and    *)
(* the step counter; step_accum_ns is written and never read.  A rate is   *)
(* its distance from nominal in parts of Mega; the conversion to Q32.32    *)
(* and the second clamp to the same limits lose nothing.                   *)
(***************************************************************************)
EXTENDS CInt, Sequences, FiniteSetsExt

CONSTANTS
    Window,         \* DRS_MIN_DELAY_WINDOW
    Tolerance,      \* DRS_MIN_DELAY_TOLERANCE_NS
    StepThreshold,  \* DRS_STEP_THRESHOLD_NS
    StepConfirm,    \* DRS_STEP_CONFIRM_SAMPLES
    KP, KI,         \* DRS_PI_KP_Q16, DRS_PI_KI_Q16
    Q,              \* 65536
    Mega,           \* 1000000
    MaxPpm,         \* DRS_RATE_MAX_PPM
    Int64           \* the number of values of an int64_t

ASSUME DisciplineAssumption ==
    /\ {Window, StepConfirm, KP, KI, Q, Mega, MaxPpm} \subseteq Nat \ {0}
    /\ {Tolerance, StepThreshold} \subseteq Nat
    /\ Int64 \in Nat /\ Int64 % 2 = 0 /\ Int64 > 0

\* min_delay_reset: an empty window.
min_delay_reset == <<>>

\* Mutant: the window forgets its newest sample, not its oldest.
WindowKeepsOldest(mdf, rtt) == IF Len(mdf) = Window THEN mdf ELSE Append(mdf, rtt)

\* Mutant: count is not held at the size of the window.
WindowUnbounded(mdf, rtt) == Append(mdf, rtt)

\* The window after min_delay_update, which keeps rejected samples too.
min_delay_update(mdf, rtt) ==
    Append(IF Len(mdf) = Window THEN Tail(mdf) ELSE mdf, rtt)

\* Is the sample accepted?  The minimum is that of the window with it.
min_delay_accepts(mdf, rtt) == rtt <= Min(Range(min_delay_update(mdf, rtt))) + Tolerance

----------------------------------------------------------------------------
pi_ctrl_init == [integrator |-> 0, step_counter |-> 0]

clamp64(v, lo, hi) == IF v < lo THEN lo ELSE IF v > hi THEN hi ELSE v

\* The error is outside the band in which the controller slews.
OverThreshold(e) == e > StepThreshold \/ e < 0 - StepThreshold

\* Mutant: only the sign of a positive error is looked at.
CountsPositive(pi, e) == IF e > StepThreshold THEN pi.step_counter + 1 ELSE 0

\* Samples in a row outside the band, this one included.
StepCounter(pi, e) == IF OverThreshold(e) THEN pi.step_counter + 1 ELSE 0

\* Mutant: the sign of the error is lost.
KpMagnitude(e, period) ==
    Quotient(Quotient(Wrap(KP * (IF e < 0 THEN 0 - e ELSE e) * Mega, Int64), period), Q)

\* The proportional term, the largest integral, the integral term.
kp_term(e, period) == Quotient(Quotient(Wrap(KP * e * Mega, Int64), period), Q)

max_integral(period) == Quotient(Wrap(MaxPpm * period * Q, Int64), KI * Mega)

ki_term(integrator, period) ==
    clamp64(Quotient(Wrap(integrator * Mega, Int64), period), 0 - MaxPpm, MaxPpm)

\* pi_ctrl_update: the controller it leaves, whether the caller has to step the
\* clock, and the new rate.
pi_ctrl_update(pi, e, period) ==
    LET counter == StepCounter(pi, e)
        limit   == max_integral(period)
        sum     == clamp64(pi.integrator + Quotient(KI * e, Q), 0 - limit, limit)
        ppm     == clamp64(kp_term(e, period) + ki_term(sum, period), 0 - MaxPpm, MaxPpm)
    IN  IF counter >= StepConfirm
        THEN [pi |-> [pi EXCEPT !.step_counter = counter], step |-> TRUE, ppm |-> 0]
        ELSE [pi |-> [integrator |-> sum, step_counter |-> counter], step |-> FALSE, ppm |-> ppm]

=============================================================================

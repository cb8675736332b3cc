------------------------------ MODULE HealthPin ------------------------------
(***************************************************************************)
(* The health pin, GPIO 23 (pulse_engine_update_health and gpio_bcm2711.c):*)
(* HIGH for a fault, LOW after a window in which every tick found the      *)
(* offset small.  The offset is that of the last accepted sample, 0 when   *)
(* there has been none.  Time is counted in ticks.                         *)
(***************************************************************************)
EXTENDS Naturals

CONSTANT StableWindow   \* DRS_STABLE_WINDOW_NS, in ticks

ASSUME HealthAssumption == StableWindow \in Nat \ {0}

VARIABLES
    pin,            \* the level of GPIO 23
    stable,         \* the last tick found the offset small
    stable_for,     \* ticks since stable_since_ns
    since_bad,      \* good ticks since the last bad one, or since the start
    faulted         \* there has been a bad tick since the start

healthVars == <<pin, stable, stable_for, since_bad, faulted>>

\* What update_telemetry reports: HOLDOVER, or an offset below the threshold or not.
Reports == {"holdover", "small", "large"}

CountTo(n, max) == IF n < max THEN n + 1 ELSE max

HealthInit == pin = "LOW" /\ stable = FALSE /\ stable_for = 0 /\ since_bad = 0 /\ faulted = FALSE

\* gpio_init and pulse_engine_init.  The pin starts LOW, without one good tick.
gpio_init ==
    pin' = "LOW" /\ stable' = FALSE /\ stable_for' = 0 /\ since_bad' = 0 /\ faulted' = FALSE

\* gpio_close drives it LOW too.
gpio_close == pin' = "LOW" /\ UNCHANGED <<stable, stable_for, since_bad, faulted>>

\* Mutant: HOLDOVER raises the pin and leaves the window running.
HoldoverKeepsWindow(report) ==
    IF report = "small"
    THEN /\ stable' = TRUE
         /\ stable_for' = IF stable THEN CountTo(stable_for, StableWindow) ELSE 0
         /\ pin' = IF stable_for' >= StableWindow THEN "LOW" ELSE pin
         /\ since_bad' = CountTo(since_bad, StableWindow + 1) /\ UNCHANGED faulted
    ELSE /\ pin' = "HIGH" /\ since_bad' = 0 /\ faulted' = TRUE
         /\ stable' = (stable /\ report = "holdover")
         /\ stable_for' = IF stable' THEN stable_for ELSE 0

\* pulse_engine_update_health, at the end of every tick.
update_health(report) ==
    IF report = "small"
    THEN /\ stable' = TRUE
         /\ stable_for' = IF stable THEN CountTo(stable_for, StableWindow) ELSE 0
         /\ pin' = IF stable_for' >= StableWindow THEN "LOW" ELSE pin
         /\ since_bad' = CountTo(since_bad, StableWindow + 1) /\ UNCHANGED faulted
    ELSE /\ pin' = "HIGH" /\ since_bad' = 0 /\ faulted' = TRUE
         /\ stable' = FALSE /\ stable_for' = 0

----------------------------------------------------------------------------
HealthTypeOK ==
    /\ pin \in {"LOW", "HIGH"} /\ stable \in BOOLEAN /\ faulted \in BOOLEAN
    /\ stable_for \in 0 .. StableWindow /\ since_bad \in 0 .. StableWindow + 1

\* In a running daemon a good window makes the pin LOW, and from the first bad
\* tick on it is LOW only after one: a single bad tick, of HOLDOVER or a large
\* offset, starts the window afresh (pulse_engine_update_health).
PinTellsWindow ==
    /\ since_bad > StableWindow => pin = "LOW"
    /\ faulted /\ pin = "LOW" => since_bad > StableWindow

=============================================================================

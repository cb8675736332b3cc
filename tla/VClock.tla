------------------------------- MODULE VClock -------------------------------
(***************************************************************************)
(* The arithmetic of the virtual clock (vclock.c): the affine map from raw *)
(* local time to global time, its inverse, and the writes that latch it.   *)
(*                                                                         *)
(* A clock is a record of base_local, base_global, rate and lat_corr.  The *)
(* rate is a fixed-point number with One in the place of 2^32.  offset_ns  *)
(* is left out: every function that stores it stores 0.  Each write is one *)
(* section of the seqlock, hence one value of the record.                  *)
(***************************************************************************)
EXTENDS CInt

CONSTANT One    \* DRS_RATE_NOMINAL_Q32: the rate 1.0

ASSUME OneAssumption == One \in Nat \ {0}

Clock == [base_local : Int, base_global : Int, rate : Nat \ {0}, lat_corr : Int]

\* scaled >> 32 rounds down.
calc_now(vc, t) ==
    ((t - vc.base_local) * vc.rate) \div One + vc.base_global - vc.lat_corr

vclock_init(t) ==
    [base_local |-> t, base_global |-> 0, rate |-> One, lat_corr |-> 0]

vclock_now(vc, t) == calc_now(vc, t)

vclock_step_offset(vc, delta, t_now) ==
    [vc EXCEPT !.base_local = t_now, !.base_global = calc_now(vc, t_now) + delta]

\* Mutant: the new rate is applied from the last latch on.
SetRateUnlatched(vc, rate, t_now) == [vc EXCEPT !.rate = rate]

vclock_set_rate(vc, rate, t_now) ==
    [vc EXCEPT !.base_local = t_now, !.base_global = calc_now(vc, t_now), !.rate = rate]

\* Mutant: the latency correction is taken off once more.
LocalUncorrected(vc, t_global) ==
    vc.base_local + Quotient((t_global - vc.base_global - vc.lat_corr) * One, vc.rate)

vclock_local_for_global(vc, t_global) ==
    vc.base_local + Quotient((t_global - vc.base_global + vc.lat_corr) * One, vc.rate)

vclock_set_lat_corr(vc, lat_corr) == [vc EXCEPT !.lat_corr = lat_corr]

=============================================================================

---------------------------- MODULE SyncExchange ----------------------------
(***************************************************************************)
(* One FOLLOWER and its leader: requests, timeouts and the rate gate of    *)
(* sm_tick, the leader's answer, and all that sm_on_sync_resp makes of it: *)
(* filter, controller, phase step.  The segment delays packets beyond the  *)
(* FOLLOWER's timeout, duplicates and loses them.                          *)
(*                                                                         *)
(* Time is counted in ticks of 50 ms.  A time stamp is kept as the number  *)
(* of ticks that have passed since; what happens between two ticks has the *)
(* stamp of the first one.  The two clocks differ by offset (the leader's  *)
(* reading minus the FOLLOWER's), which only a step changes: what a slew   *)
(* of 1000 ppm gains in a tick is far below the unit.                      *)
(*                                                                         *)
(* An answer echoes the request's seq and the FOLLOWER's last_leader_seq   *)
(* is the last echo, so no sequence jump is seen while it follows.  The    *)
(* t1 field of a SYNC_REQ is never filled in, and the echo of it not read. *)
(***************************************************************************)
EXTENDS Discipline

CONSTANTS
    Exchange,       \* DRS_SYNC_EXCHANGE_NS, in ticks
    ReqTimeout,     \* DRS_SYNC_REQ_TIMEOUT_NS
    StormThreshold, \* DRS_RETRY_STORM_THRESHOLD
    StormRate,      \* DRS_RETRY_STORM_RATE_NS
    PhaseReset,     \* DRS_PHASE_STEP_RESET_NS
    Offsets,        \* the differences of the two clocks to begin with
    MaxLife,        \* bound: a packet not delivered after this many ticks is lost
    MaxNet,         \* bound: packets in flight at a time
    MaxGap,         \* bound: ticks since the last update that are counted
    MaxUpsets       \* bound: silences of the leader and RESET_FILTERS commands

ASSUME ExchangeAssumption ==
    /\ {Exchange, ReqTimeout, StormThreshold, StormRate, MaxLife, MaxNet} \subseteq Nat \ {0}
    /\ PhaseReset \in Nat /\ MaxGap \in Nat /\ MaxUpsets \in Nat
    /\ MaxGap > StormRate /\ StormRate >= Exchange /\ StormRate >= ReqTimeout
    /\ Offsets \subseteq Int

VARIABLES
    state,      \* FOLLOWER or HOLDOVER
    pending,    \* sync_req_pending
    t1,         \* sync_req_t1 and sync_req_sent_ns
    fails,      \* sync_fail_count, up to the threshold
    sync_rate,  \* sync_rate_ns
    gap,        \* ticks since last_pi_update_ns
    mdf,        \* the min-delay window
    pi,         \* the controller
    rate,       \* the rate of the virtual clock
    offset,     \* the leader's clock minus the FOLLOWER's
    net,        \* packets in flight
    upsets      \* silences and resets so far

exchangeVars == <<state, pending, t1, fails, sync_rate, gap, mdf, pi, rate, offset, net, upsets>>

\* A packet knows how long ago its request was sent, which no field of it tells;
\* an answer also when the leader's clock gave it t2 and t3.
SyncReq == [type : {"SYNC_REQ"}, sent : 0 .. MaxLife]

SyncResp == [type : {"SYNC_RESP"}, sent : 0 .. MaxLife, t2 : 0 .. MaxLife]

\* Caps a duration that is only compared with smaller ones.
Capped(n, max) == IF n < max THEN n ELSE max

\* A node that has just become FOLLOWER.  last_pi_update_ns is 0: the gap is
\* the time since the host booted.
ExchangeInit ==
    /\ state = "FOLLOWER" /\ pending = FALSE /\ t1 = StormRate
    /\ fails = 0 /\ sync_rate = Exchange /\ gap = MaxGap
    /\ mdf = min_delay_reset /\ pi = pi_ctrl_init /\ rate = 0
    /\ offset \in Offsets
    /\ net = {} /\ upsets = 0

----------------------------------------------------------------------------
\* The packets in flight a tick later.
Aged(packets) ==
    {IF p.type = "SYNC_REQ" THEN [p EXCEPT !.sent = @ + 1]
                            ELSE [p EXCEPT !.sent = @ + 1, !.t2 = @ + 1] :
        p \in {q \in packets : q.sent < MaxLife}}

\* discipline_reset.  last_pi_update_ns stays.
discipline_reset ==
    /\ mdf' = min_delay_reset /\ pi' = pi_ctrl_init
    /\ fails' = 0 /\ sync_rate' = Exchange /\ pending' = FALSE

\* Mutant: a request is given up at the next tick.
TimesOutAtOnce == pending

\* The request outstanding has waited for too long.
RequestTimedOut == pending /\ t1 + 1 >= ReqTimeout

\* The FOLLOWER branch of sm_tick: the request outstanding times out, then the
\* next one is sent when the last update is long enough ago.  An update between
\* two ticks is less than gap ticks ago and more than gap - 1.
FollowerTick ==
    LET timed_out == RequestTimedOut
        failed    == Capped(IF timed_out THEN fails + 1 ELSE fails, StormThreshold)
        slower    == IF timed_out /\ failed >= StormThreshold THEN StormRate ELSE sync_rate
        due       == (~ pending \/ timed_out) /\ gap >= slower
        request   == [type |-> "SYNC_REQ", sent |-> 0]
    IN  /\ fails' = failed
        /\ sync_rate' = slower
        /\ \/ /\ due                                    \* sendto succeeds
              /\ pending' = TRUE /\ t1' = 0
              /\ net' = IF Cardinality(Aged(net)) < MaxNet THEN Aged(net) \cup {request} ELSE Aged(net)
           \/ /\ pending' = (pending /\ ~ timed_out)    \* nothing to send, or it fails
              /\ due \/ pending' \/ gap < slower
              /\ t1' = Capped(t1 + 1, StormRate)
              /\ net' = Aged(net)
        /\ UNCHANGED <<mdf, pi>>

\* A tick of a FOLLOWER whose leader is heard.
Tick ==
    /\ state = "FOLLOWER"
    /\ FollowerTick
    /\ gap' = Capped(gap + 1, MaxGap)
    /\ UNCHANGED <<state, rate, offset, upsets>>

\* A tick in HOLDOVER, or without anything to do for the exchange.
IdleTick ==
    /\ state' = "HOLDOVER"
    /\ \/ state = "HOLDOVER" /\ upsets' = upsets
       \/ state = "FOLLOWER" /\ upsets < MaxUpsets /\ upsets' = upsets + 1   \* 300 ms of silence
    /\ t1' = Capped(t1 + 1, StormRate)
    /\ gap' = Capped(gap + 1, MaxGap)
    /\ net' = Aged(net)
    /\ UNCHANGED <<pending, fails, sync_rate, mdf, pi, rate, offset>>

\* RESET_FILTERS or RECALIBRATE, polled at the end of a tick.
ResetFilters ==
    /\ upsets < MaxUpsets /\ upsets' = upsets + 1
    /\ discipline_reset
    /\ UNCHANGED <<state, t1, gap, rate, offset, net>>

\* The leader's ANNOUNCE ends HOLDOVER.
LeaderReturns ==
    /\ state = "HOLDOVER" /\ state' = "FOLLOWER"
    /\ discipline_reset
    /\ UNCHANGED <<t1, gap, rate, offset, net, upsets>>

----------------------------------------------------------------------------
\* sm_on_sync_req: the leader stamps and answers at once.
Answer(p, rest) ==
    /\ p.type = "SYNC_REQ"
    /\ net' = IF Cardinality(rest) < MaxNet
              THEN rest \cup {[type |-> "SYNC_RESP", sent |-> p.sent, t2 |-> 0]} ELSE rest
    /\ UNCHANGED <<state, pending, t1, fails, sync_rate, gap, mdf, pi, rate, offset, upsets>>

\* The time stamps of sm_on_sync_resp, with the present as 0.  t3 = t2 and the
\* request's t1 is the last one sent, whichever request this is the answer to.
rtt == t1

\* Mutant: the differences are taken the other way round.
ThetaReversed(p) ==
    LET vclock(t) == t - offset
        t2 == 0 - p.t2
    IN  Quotient((vclock(0 - t1) - t2) + (vclock(0) - t2), 2)

theta(p) ==
    LET vclock(t) == t - offset
        t2 == 0 - p.t2
    IN  Quotient((t2 - vclock(0 - t1)) + (t2 - vclock(0)), 2)

\* An accepted sample: step the clock, or set the rate the controller answers.
Update(p) ==
    LET e   == theta(p)
        upd == pi_ctrl_update(pi, e, IF gap = 0 THEN Exchange ELSE gap)
    IN  /\ gap' = 0
        /\ IF upd.step
           THEN /\ offset' = offset - e
                /\ rate' = 0
                /\ pi' = pi_ctrl_init
                /\ mdf' = IF e > PhaseReset \/ e < 0 - PhaseReset
                          THEN min_delay_reset ELSE min_delay_update(mdf, rtt)
           ELSE /\ rate' = upd.ppm
                /\ pi' = upd.pi
                /\ mdf' = min_delay_update(mdf, rtt)
                /\ UNCHANGED offset

Used == state = "FOLLOWER" /\ pending

sm_on_sync_resp(p) ==
    IF Used
    THEN /\ pending' = FALSE /\ fails' = 0 /\ sync_rate' = Exchange
         /\ IF min_delay_accepts(mdf, rtt)
            THEN Update(p)
            ELSE mdf' = min_delay_update(mdf, rtt) /\ UNCHANGED <<gap, pi, rate, offset>>
    ELSE UNCHANGED <<pending, fails, sync_rate, gap, mdf, pi, rate, offset>>

Sample(p, rest) ==
    /\ p.type = "SYNC_RESP"
    /\ sm_on_sync_resp(p)
    /\ net' = rest
    /\ UNCHANGED <<state, t1, upsets>>

\* rest is net without the packet, or all of it when it was duplicated.
Receive == \E p \in net : \E rest \in {net, net \ {p}} : Answer(p, rest) \/ Sample(p, rest)

ExchangeNext == Tick \/ IdleTick \/ ResetFilters \/ LeaderReturns \/ Receive

\* Ticks go on.  The segment is not cut: of the requests that are sent again and
\* again some reach the leader while they are outstanding, and of the answers to
\* them some come back in time.  A leader that fell silent is heard again.
ExchangeFairness ==
    /\ WF_exchangeVars(Tick \/ IdleTick)
    /\ WF_exchangeVars(LeaderReturns)
    /\ SF_exchangeVars(\E p \in net : Used /\ p.sent = t1 /\ Answer(p, net \ {p}))
    /\ SF_exchangeVars(\E p \in net : Used /\ Sample(p, net \ {p}))

ExchangeSpec == ExchangeInit /\ [][ExchangeNext]_exchangeVars /\ ExchangeFairness

----------------------------------------------------------------------------
ExchangeTypeOK ==
    /\ state \in {"FOLLOWER", "HOLDOVER"} /\ pending \in BOOLEAN
    /\ t1 \in 0 .. StormRate /\ fails \in 0 .. StormThreshold
    /\ sync_rate \in {Exchange, StormRate} /\ gap \in 0 .. MaxGap
    /\ Len(mdf) <= Window /\ pi.step_counter \in 0 .. StepConfirm - 1
    /\ rate \in 0 - MaxPpm .. MaxPpm
    /\ net \subseteq SyncReq \cup SyncResp /\ upsets \in 0 .. MaxUpsets

\* The time stamps that p would be paired with are those of another request.
Stale(p) == p.type = "SYNC_RESP" /\ p.sent # t1

\* A phase step removes the difference of the clocks but for half the RTT (and
\* the rounding of theta).  An answer that came after its request had timed out
\* is paired with the t1 of a later request, as sm_on_sync_resp does not look at
\* the echo: what it can leave is bounded by the life of a packet.
StepLandsClose ==
    [][offset' # offset =>
          \/ 2 * offset' \in 0 - t1 - 1 .. t1 + 1
          \/ (\E p \in net : Stale(p)) /\ offset' \in 0 - MaxLife .. MaxLife]_exchangeVars

\* A FOLLOWER whose clock is far from its leader's gets it close and keeps it
\* there: samples the filter rejects, timeouts, resets and silences between the
\* StepConfirm samples that a step of pi_ctrl_update needs only delay it.
EventuallyClose == <>[](offset \in 0 - MaxLife .. MaxLife)

\* The min-delay filter never shuts the node out: whatever delays the segment had
\* before, samples are accepted again and again (min_delay_update inserts what it
\* rejects, so that an old minimum leaves the window).
SamplesKeepComing == []<>(gap = 0)

\* After StormThreshold unanswered requests the next ones are StormRate apart,
\* although the gate of sm_tick measures from the last update of the controller,
\* long ago by then: what keeps them apart is the timeout of the request before.
StormSpaced ==
    [][Tick /\ fails' >= StormThreshold /\ pending' /\ t1' = 0 => t1 + 1 >= StormRate]_exchangeVars

\* p is taken as a sample by a controller without history, in this step.
FirstSample(p) ==
    /\ Used /\ pi = pi_ctrl_init /\ min_delay_accepts(mdf, rtt)
    /\ \E rest \in {net, net \ {p}} : Sample(p, rest)

\* The rate that a controller without history chooses moves the clock towards
\* the leader's.  It may turn away only where a product of pi_ctrl_update leaves
\* int64_t: with an error so large that a step is being confirmed, and with an
\* update so long ago that the limits of the integrator change places.
RateTowardsLeader ==
    [][\A p \in net :
          FirstSample(p) /\ rate' * theta(p) < 0 =>
             OverThreshold(theta(p)) \/ max_integral(gap) < 0]_exchangeVars

\* "Zero error should produce nominal rate" (tests/test_pi_ctrl.c:52).
ZeroErrorNominal ==
    [][\A p \in net : FirstSample(p) /\ theta(p) = 0 => rate' = 0]_exchangeVars

\* "intermediate products use `int64_t` with explicit division to avoid overflow"
\* (20_architecture.typ:184): the first rate moves the clock towards the leader's,
\* however far apart they are, also while a step is being confirmed (the product of
\* kp_term_ppm in pi_ctrl_update).  The limits of the integrator are in order.
FarRateTowardsLeader ==
    [][\A p \in net : FirstSample(p) /\ max_integral(gap) >= 0 => rate' * theta(p) >= 0]_exchangeVars

=============================================================================

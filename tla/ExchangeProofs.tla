--------------------------- MODULE ExchangeProofs ---------------------------
(***************************************************************************)
(* Theorems about SyncExchange, for every timing, every window and gain,   *)
(* every difference of the clocks and whatever the segment does: types,    *)
(* where a phase step lands, how far apart requests are in a storm of      *)
(* retries, and the direction of the first rate.                           *)
(***************************************************************************)
EXTENDS SyncExchange, ArithmeticLemmas

USE DisciplineAssumption, ExchangeAssumption

\* clamp64 stays between its limits, and is a number even when they change places.
LEMMA ClampType ==
    ASSUME NEW v \in Int, NEW lo \in Int, NEW hi \in Int
    PROVE  clamp64(v, lo, hi) \in Int /\ (lo <= hi => clamp64(v, lo, hi) \in lo .. hi)
BY DEF clamp64

LEMMA WrapType ==
    ASSUME NEW a \in Int
    PROVE  Wrap(a, Int64) \in Int
<1>1. Int64 \in Nat \ {0}
  OBVIOUS
<1>2. Int64 \div 2 \in Int
  BY <1>1, DivBounds
<1>3. a + Int64 \div 2 \in Int
  BY <1>2
<1>4. (a + Int64 \div 2) % Int64 \in Int
  BY <1>1, <1>3, SlotInRing
<1> QED
  BY <1>2, <1>4 DEF Wrap

Controller == [integrator : Int, step_counter : 0 .. StepConfirm - 1]

\* The terms of the controller are numbers.
LEMMA TermsType ==
    ASSUME NEW e \in Int, NEW period \in Nat \ {0}
    PROVE  /\ kp_term(e, period) \in Int /\ max_integral(period) \in Int
           /\ \A i \in Int : ki_term(i, period) \in Int
<1>1. {KP, KI, Q, Mega, MaxPpm} \subseteq Nat \ {0}
  OBVIOUS
<1>2. kp_term(e, period) \in Int
  <2>1. KP * e * Mega \in Int
    BY <1>1
  <2>2. Quotient(Wrap(KP * e * Mega, Int64), period) \in Int
    BY <2>1, WrapType, QuotientBounds
  <2> QED
    BY <1>1, <2>2, QuotientBounds DEF kp_term
<1>3. max_integral(period) \in Int
  <2>1. MaxPpm * period * Q \in Int /\ KI * Mega \in Nat \ {0}
    BY <1>1
  <2> QED
    BY <2>1, WrapType, QuotientBounds DEF max_integral
<1>4. ASSUME NEW i \in Int PROVE ki_term(i, period) \in Int
  <2>1. i * Mega \in Int
    BY <1>1
  <2>2. Quotient(Wrap(i * Mega, Int64), period) \in Int
    BY <2>1, WrapType, QuotientBounds
  <2>3. 0 - MaxPpm \in Int /\ MaxPpm \in Int
    BY <1>1
  <2> QED
    BY <2>2, <2>3, ClampType DEF ki_term
<1> QED
  BY <1>2, <1>3, <1>4

\* What pi_ctrl_update answers.
LEMMA UpdateType ==
    ASSUME NEW c \in Controller, NEW e \in Int, NEW period \in Nat \ {0}
    PROVE  LET upd == pi_ctrl_update(c, e, period)
           IN  ~ upd.step => upd.pi \in Controller /\ upd.ppm \in 0 - MaxPpm .. MaxPpm
<1> DEFINE counter == StepCounter(c, e)
           limit   == max_integral(period)
           sum     == clamp64(c.integrator + Quotient(KI * e, Q), 0 - limit, limit)
           ppm     == clamp64(kp_term(e, period) + ki_term(sum, period), 0 - MaxPpm, MaxPpm)
           upd     == pi_ctrl_update(c, e, period)
<1>1. counter \in Nat /\ c.integrator \in Int
  BY DEF Controller, StepCounter
<1>2. sum \in Int
  <2>1. limit \in Int /\ 0 - limit \in Int
    <3>1. limit \in Int
      BY TermsType
    <3> HIDE DEF limit
    <3> QED
      BY <3>1
  <2>2. KI * e \in Int /\ Q \in Nat \ {0}
    OBVIOUS
  <2>3. Quotient(KI * e, Q) \in Int
    BY <2>2, QuotientBounds
  <2>4. c.integrator + Quotient(KI * e, Q) \in Int
    BY <1>1, <2>3
  <2> HIDE DEF limit
  <2> QED
    BY <2>1, <2>4, ClampType
<1>3. ppm \in 0 - MaxPpm .. MaxPpm
  <2> HIDE DEF sum
  <2>1. kp_term(e, period) + ki_term(sum, period) \in Int
    BY <1>2, TermsType
  <2>2. 0 - MaxPpm \in Int /\ MaxPpm \in Int /\ 0 - MaxPpm <= MaxPpm
    OBVIOUS
  <2> QED
    BY <2>1, <2>2, ClampType
<1>4. CASE counter >= StepConfirm
  <2>1. upd.step = TRUE
    BY <1>4 DEF pi_ctrl_update
  <2> QED
    BY <2>1
<1>5. CASE ~ (counter >= StepConfirm)
  <2>1. upd = [pi |-> [integrator |-> sum, step_counter |-> counter], step |-> FALSE, ppm |-> ppm]
    BY <1>5, Zenon DEF pi_ctrl_update
  <2>2. counter \in 0 .. StepConfirm - 1
    BY <1>1, <1>5
  <2> HIDE DEF counter, sum, ppm, upd
  <2>3. upd.pi = [integrator |-> sum, step_counter |-> counter] /\ upd.ppm = ppm
    BY <2>1
  <2>4. upd.pi \in Controller
    BY <1>2, <2>2, <2>3 DEF Controller
  <2> QED
    BY <1>3, <2>3, <2>4 DEF upd
<1> QED
  BY <1>4, <1>5

\* The window of the filter.
Windows == {s \in Seq(Nat) : Len(s) <= Window}

LEMMA WindowType ==
    ASSUME NEW s \in Windows, NEW d \in Nat
    PROVE  min_delay_update(s, d) \in Windows
<1>1. s \in Seq(Nat) /\ Len(s) <= Window /\ Len(s) \in Nat /\ Window \in Nat \ {0}
  BY DEF Windows
<1>2. CASE Len(s) = Window
  <2>1. s # <<>> /\ Tail(s) \in Seq(Nat) /\ Len(Tail(s)) = Len(s) - 1
    BY <1>1, <1>2
  <2>2. Append(Tail(s), d) \in Seq(Nat) /\ Len(Append(Tail(s), d)) = Len(s)
    BY <1>1, <2>1
  <2> QED
    BY <1>1, <1>2, <2>2 DEF min_delay_update, Windows
<1>3. CASE Len(s) # Window
  <2>1. Append(s, d) \in Seq(Nat) /\ Len(Append(s, d)) = Len(s) + 1
    BY <1>1
  <2> QED
    BY <1>1, <1>3, <2>1 DEF min_delay_update, Windows
<1> QED
  BY <1>2, <1>3

----------------------------------------------------------------------------
\* An answer is stamped after its request was sent.
Packets == {p \in SyncReq \cup SyncResp : p.type = "SYNC_RESP" => p.t2 <= p.sent}

\* Every state's types.  A request of a FOLLOWER is outstanding for less than its
\* timeout, and since it was sent at least one tick has passed since the last
\* update.
ExchangeInv ==
    /\ state \in {"FOLLOWER", "HOLDOVER"} /\ pending \in BOOLEAN
    /\ t1 \in 0 .. StormRate /\ fails \in 0 .. StormThreshold
    /\ sync_rate \in {Exchange, StormRate} /\ gap \in 0 .. MaxGap
    /\ mdf \in Windows /\ pi \in Controller
    /\ rate \in 0 - MaxPpm .. MaxPpm /\ offset \in Int
    /\ net \subseteq Packets /\ upsets \in 0 .. MaxUpsets
    /\ state = "FOLLOWER" /\ pending => t1 < ReqTimeout
    /\ pending => gap > 0

\* Packets stay packets when they age.
LEMMA AgedPackets == ASSUME NEW packets \in SUBSET Packets PROVE Aged(packets) \subseteq Packets
<1> DEFINE older(p) == IF p.type = "SYNC_REQ" THEN [p EXCEPT !.sent = @ + 1]
                       ELSE [p EXCEPT !.sent = @ + 1, !.t2 = @ + 1]
<1> SUFFICES ASSUME NEW p \in packets, p.sent < MaxLife PROVE older(p) \in Packets
  BY DEF Aged
<1>1. p \in Packets /\ MaxLife \in Nat
  OBVIOUS
<1>2. CASE p \in SyncReq
  <2>1. p = [type |-> "SYNC_REQ", sent |-> p.sent] /\ p.sent \in 0 .. MaxLife /\ p.type = "SYNC_REQ"
    BY <1>2 DEF SyncReq
  <2>2. older(p) = [type |-> "SYNC_REQ", sent |-> p.sent + 1] /\ p.sent + 1 \in 0 .. MaxLife
    BY <1>1, <2>1
  <2> QED
    BY <2>2 DEF Packets, SyncReq
<1>3. CASE p \in SyncResp
  <2>1. /\ p = [type |-> "SYNC_RESP", sent |-> p.sent, t2 |-> p.t2] /\ p.type = "SYNC_RESP"
        /\ p.sent \in 0 .. MaxLife /\ p.t2 \in 0 .. MaxLife /\ p.t2 <= p.sent
    BY <1>1, <1>3 DEF SyncResp, Packets
  <2>2. p.sent + 1 \in 0 .. MaxLife /\ p.t2 + 1 \in 0 .. MaxLife /\ p.t2 + 1 <= p.sent + 1
    BY <1>1, <2>1
  <2>3. older(p) = [type |-> "SYNC_RESP", sent |-> p.sent + 1, t2 |-> p.t2 + 1]
    BY <2>1
  <2> QED
    BY <2>2, <2>3 DEF Packets, SyncResp
<1> QED
  BY <1>1, <1>2, <1>3 DEF Packets

\* What discipline_reset leaves: an empty window and a controller without history.
LEMMA ResetType == min_delay_reset \in Windows /\ pi_ctrl_init \in Controller
<1>1. <<>> \in Seq(Nat) /\ Len(<<>>) = 0 /\ Len(<<>>) <= Window
  OBVIOUS
<1>2. min_delay_reset \in Windows
  BY <1>1 DEF min_delay_reset, Windows
<1>3. 0 \in Int /\ 0 \in 0 .. StepConfirm - 1
  OBVIOUS
<1>4. pi_ctrl_init \in Controller
  BY <1>3 DEF pi_ctrl_init, Controller
<1> QED
  BY <1>2, <1>4

\* A tick of a FOLLOWER: what it leaves of the request, the counters and the net.
LEMMA FollowerTickDoes ==
    ASSUME ExchangeInv, FollowerTick
    PROVE  /\ fails' \in 0 .. StormThreshold /\ sync_rate' \in {Exchange, StormRate}
           /\ pending' \in BOOLEAN /\ t1' \in 0 .. StormRate /\ net' \subseteq Packets
           /\ pending' => t1' < ReqTimeout
           /\ UNCHANGED <<mdf, pi>>
           /\ fails' > 0 => fails > 0 \/ RequestTimedOut
           /\ \/ t1' = 0 /\ pending' /\ (~ pending \/ RequestTimedOut)
              \/ t1' = Capped(t1 + 1, StormRate) /\ pending' = (pending /\ ~ RequestTimedOut)
<1> DEFINE timed_out == RequestTimedOut
           failed    == Capped(IF timed_out THEN fails + 1 ELSE fails, StormThreshold)
           slower    == IF timed_out /\ failed >= StormThreshold THEN StormRate ELSE sync_rate
           due       == (~ pending \/ timed_out) /\ gap >= slower
           request   == [type |-> "SYNC_REQ", sent |-> 0]
<1>t. /\ pending \in BOOLEAN /\ t1 \in 0 .. StormRate /\ fails \in 0 .. StormThreshold
      /\ sync_rate \in {Exchange, StormRate} /\ net \in SUBSET Packets
  BY DEF ExchangeInv
<1>1. failed \in 0 .. StormThreshold /\ (failed > 0 => fails > 0 \/ timed_out)
  BY <1>t DEF Capped
<1>2. slower \in {Exchange, StormRate}
  BY <1>t
<1>3. fails' = failed /\ sync_rate' = slower /\ UNCHANGED <<mdf, pi>>
  BY DEF FollowerTick
<1>4. Aged(net) \subseteq Packets /\ request \in Packets
  <2>1. Aged(net) \subseteq Packets
    BY <1>t, AgedPackets
  <2>2. request \in SyncReq /\ request.type # "SYNC_RESP"
    BY DEF SyncReq
  <2> QED
    BY <2>1, <2>2 DEF Packets
<1>5. \/ /\ due /\ pending' = TRUE /\ t1' = 0
         /\ net' = IF Cardinality(Aged(net)) < MaxNet THEN Aged(net) \cup {request} ELSE Aged(net)
      \/ /\ pending' = (pending /\ ~ timed_out)
         /\ t1' = Capped(t1 + 1, StormRate) /\ net' = Aged(net)
  BY DEF FollowerTick
<1>6. net' \subseteq Packets
  BY <1>4, <1>5
<1>7. CASE due /\ pending' = TRUE /\ t1' = 0
  <2>1. pending' \in BOOLEAN /\ pending'
    BY <1>7, Zenon
  <2>2. t1' \in 0 .. StormRate /\ t1' < ReqTimeout
    BY <1>7
  <2>3. ~ pending \/ RequestTimedOut
    BY <1>7
  <2> QED
    BY <1>1, <1>2, <1>3, <1>6, <1>7, <2>1, <2>2, <2>3
<1>8. CASE pending' = (pending /\ ~ timed_out) /\ t1' = Capped(t1 + 1, StormRate)
  <2>1. pending' \in BOOLEAN /\ (pending' => pending /\ ~ RequestTimedOut)
    BY <1>8, Zenon
  <2>2. t1' \in 0 .. StormRate
    BY <1>t, <1>8 DEF Capped
  <2>3. pending' => t1' < ReqTimeout
    BY <1>t, <1>8, <2>1 DEF Capped, RequestTimedOut
  <2> QED
    BY <1>1, <1>2, <1>3, <1>6, <1>8, <2>1, <2>2, <2>3
<1> QED
  BY <1>5, <1>7, <1>8

\* The time stamps of an answer: theta is half of a sum.
LEMMA ThetaBounds ==
    ASSUME ExchangeInv, NEW p \in net, p.type = "SYNC_RESP"
    PROVE  /\ theta(p) \in Int
           /\ 2 * theta(p) \in t1 + 2 * offset - 2 * p.t2 - 1 .. t1 + 2 * offset - 2 * p.t2 + 1
           /\ p.t2 \in 0 .. p.sent /\ p.sent \in 0 .. MaxLife
<1>1. p \in Packets
  BY DEF ExchangeInv
<1>2. p.t2 \in 0 .. MaxLife /\ p.sent \in 0 .. MaxLife /\ p.t2 <= p.sent
  BY <1>1 DEF Packets, SyncReq, SyncResp
<1>3. t1 \in Int /\ offset \in Int
  BY DEF ExchangeInv
<1> DEFINE a == t1 + 2 * offset - 2 * p.t2
<1>4. theta(p) = Quotient(a, 2)
  <2>1. ((0 - p.t2) - ((0 - t1) - offset)) + ((0 - p.t2) - (0 - offset)) = a
    BY <1>2, <1>3
  <2> QED
    BY <2>1 DEF theta
<1>5. a \in Int /\ 2 \in Nat \ {0}
  BY <1>2, <1>3
<1> HIDE DEF a
<1>6. /\ Quotient(a, 2) \in Int
      /\ a >= 0 => Quotient(a, 2) * 2 <= a /\ a < Quotient(a, 2) * 2 + 2
      /\ a < 0  => Quotient(a, 2) * 2 >= a /\ a > Quotient(a, 2) * 2 - 2
  BY <1>5, QuotientBounds
<1>7. 2 * theta(p) \in a - 1 .. a + 1 /\ theta(p) \in Int
  BY <1>4, <1>5, <1>6
<1>8. p.t2 \in 0 .. p.sent
  BY <1>2
<1>9. 2 * theta(p) \in t1 + 2 * offset - 2 * p.t2 - 1 .. t1 + 2 * offset - 2 * p.t2 + 1
  BY <1>2, <1>3, <1>7 DEF a
<1> QED
  BY <1>2, <1>7, <1>8, <1>9

\* An answer: what it does to the controller, the window, the rate and the offset.
LEMMA SampleDoes ==
    ASSUME ExchangeInv, NEW p \in net, p.type = "SYNC_RESP", sm_on_sync_resp(p)
    PROVE  /\ pending' \in BOOLEAN /\ (pending' => pending /\ gap' = gap)
           /\ fails' \in 0 .. StormThreshold /\ (~ pending' /\ fails' > 0 => fails' = fails /\ pending' = pending)
           /\ sync_rate' \in {Exchange, StormRate} /\ gap' \in 0 .. MaxGap
           /\ mdf' \in Windows /\ pi' \in Controller /\ rate' \in 0 - MaxPpm .. MaxPpm
           /\ offset' \in Int
           /\ offset' # offset => Used /\ offset' = offset - theta(p)
<1>t. /\ pending \in BOOLEAN /\ fails \in 0 .. StormThreshold /\ t1 \in Nat
      /\ sync_rate \in {Exchange, StormRate} /\ gap \in 0 .. MaxGap
      /\ mdf \in Windows /\ pi \in Controller
      /\ rate \in 0 - MaxPpm .. MaxPpm /\ offset \in Int
  BY DEF ExchangeInv
<1>1. CASE ~ Used
  BY <1>1, <1>t DEF sm_on_sync_resp
<1>2. CASE Used
  <2>1. pending' = FALSE /\ fails' = 0 /\ sync_rate' = Exchange
    BY <1>2 DEF sm_on_sync_resp
  <2>2. pending' \in BOOLEAN /\ ~ pending'
    BY <2>1, Zenon
  <2>3. fails' \in 0 .. StormThreshold /\ ~ (fails' > 0)
    BY <2>1
  <2>4. min_delay_update(mdf, rtt) \in Windows /\ min_delay_reset \in Windows /\ pi_ctrl_init \in Controller
    <3>1. min_delay_update(mdf, rtt) \in Windows
      BY <1>t, WindowType DEF rtt
    <3> QED
      BY <3>1, ResetType
  <2>5. CASE ~ min_delay_accepts(mdf, rtt)
    BY <1>2, <1>t, <2>1, <2>2, <2>3, <2>4, <2>5 DEF sm_on_sync_resp
  <2>6. CASE min_delay_accepts(mdf, rtt)
    <3> DEFINE e   == theta(p)
               upd == pi_ctrl_update(pi, e, IF gap = 0 THEN Exchange ELSE gap)
    <3>1. Update(p)
      BY <1>2, <2>6 DEF sm_on_sync_resp
    <3>2. e \in Int
      BY ThetaBounds
    <3>3. gap' = 0
      BY <3>1 DEF Update
    <3>4. CASE upd.step
      <4>1. /\ offset' = offset - e /\ rate' = 0 /\ pi' = pi_ctrl_init
            /\ mdf' \in {min_delay_reset, min_delay_update(mdf, rtt)}
        BY <3>1, <3>4 DEF Update
      <4>2. offset' \in Int
        <5> HIDE DEF e
        <5> QED
          BY <1>t, <3>2, <4>1
      <4> QED
        BY <1>2, <2>1, <2>2, <2>3, <2>4, <3>3, <4>1, <4>2
    <3>5. CASE ~ upd.step
      <4>1. rate' = upd.ppm /\ pi' = upd.pi /\ mdf' = min_delay_update(mdf, rtt) /\ offset' = offset
        BY <3>1, <3>5 DEF Update
      <4>2. (IF gap = 0 THEN Exchange ELSE gap) \in Nat \ {0}
        BY <1>t
      <4>3. upd.pi \in Controller /\ upd.ppm \in 0 - MaxPpm .. MaxPpm
        BY <1>t, <3>2, <3>5, <4>2, UpdateType
      <4> HIDE DEF upd
      <4> QED
        BY <1>t, <2>1, <2>2, <2>3, <2>4, <3>3, <4>1, <4>3
    <3> QED
      BY <3>4, <3>5
  <2> QED
    BY <2>5, <2>6
<1> QED
  BY <1>1, <1>2

\* Every step keeps ExchangeInv.
LEMMA ExchangeStep == ASSUME ExchangeInv, [ExchangeNext]_exchangeVars PROVE ExchangeInv'
<1>t. /\ state \in {"FOLLOWER", "HOLDOVER"} /\ pending \in BOOLEAN
      /\ t1 \in 0 .. StormRate /\ fails \in 0 .. StormThreshold
      /\ sync_rate \in {Exchange, StormRate} /\ gap \in 0 .. MaxGap
      /\ mdf \in Windows /\ pi \in Controller
      /\ rate \in 0 - MaxPpm .. MaxPpm /\ offset \in Int
      /\ net \in SUBSET Packets /\ upsets \in 0 .. MaxUpsets
      /\ MaxGap \in Nat \ {0}
  BY DEF ExchangeInv
<1>c. /\ Capped(gap + 1, MaxGap) \in 1 .. MaxGap
      /\ Capped(t1 + 1, StormRate) \in 0 .. StormRate
  BY <1>t DEF Capped
<1>r. /\ discipline_reset =>
            /\ mdf' \in Windows /\ pi' \in Controller /\ fails' \in 0 .. StormThreshold
            /\ sync_rate' \in {Exchange, StormRate} /\ pending' \in BOOLEAN /\ ~ pending'
  <2> SUFFICES ASSUME discipline_reset
               PROVE  /\ mdf' \in Windows /\ pi' \in Controller /\ fails' \in 0 .. StormThreshold
                      /\ sync_rate' \in {Exchange, StormRate} /\ pending' \in BOOLEAN /\ ~ pending'
    OBVIOUS
  <2>1. pending' \in BOOLEAN /\ ~ pending'
    BY Zenon DEF discipline_reset
  <2>3. mdf' \in Windows /\ pi' \in Controller
    BY ResetType DEF discipline_reset
  <2> QED
    BY <2>1, <2>3 DEF discipline_reset
<1>1. CASE Tick
  <2>1. FollowerTick /\ gap' = Capped(gap + 1, MaxGap) /\ UNCHANGED <<state, rate, offset, upsets>>
    BY <1>1 DEF Tick
  <2>2. gap' \in 0 .. MaxGap /\ gap' > 0
    BY <1>c, <2>1
  <2> QED
    BY <1>t, <2>1, <2>2, FollowerTickDoes DEF ExchangeInv
<1>2. CASE IdleTick
  <2>1. /\ state' = "HOLDOVER" /\ t1' = Capped(t1 + 1, StormRate) /\ gap' = Capped(gap + 1, MaxGap)
        /\ net' = Aged(net) /\ UNCHANGED <<pending, fails, sync_rate, mdf, pi, rate, offset>>
    BY <1>2 DEF IdleTick
  <2>2. upsets' \in 0 .. MaxUpsets
    BY <1>2, <1>t DEF IdleTick
  <2>3. gap' \in 0 .. MaxGap /\ gap' > 0 /\ t1' \in 0 .. StormRate
    BY <1>c, <2>1
  <2>4. net' \subseteq Packets
    BY <1>t, <2>1, AgedPackets
  <2> QED
    BY <1>t, <2>1, <2>2, <2>3, <2>4 DEF ExchangeInv
<1>3. CASE ResetFilters
  <2>1. upsets' \in 0 .. MaxUpsets /\ discipline_reset /\ UNCHANGED <<state, t1, gap, rate, offset, net>>
    BY <1>3, <1>t DEF ResetFilters
  <2> QED
    BY <1>t, <1>r, <2>1 DEF ExchangeInv
<1>4. CASE LeaderReturns
  <2>1. state' = "FOLLOWER" /\ discipline_reset /\ UNCHANGED <<t1, gap, rate, offset, net, upsets>>
    BY <1>4 DEF LeaderReturns
  <2> QED
    BY <1>t, <1>r, <2>1 DEF ExchangeInv
<1>5. CASE Receive
  <2>1. PICK p \in net, rest \in SUBSET net : Answer(p, rest) \/ Sample(p, rest)
    BY <1>5 DEF Receive
  <2>2. rest \subseteq Packets /\ p \in Packets
    BY <1>t
  <2>3. CASE Answer(p, rest)
    <3>1. /\ UNCHANGED <<state, pending, t1, fails, sync_rate, gap, mdf, pi, rate, offset, upsets>>
          /\ net' \subseteq rest \cup {[type |-> "SYNC_RESP", sent |-> p.sent, t2 |-> 0]}
      BY <2>3 DEF Answer
    <3>2. [type |-> "SYNC_RESP", sent |-> p.sent, t2 |-> 0] \in Packets
      <4>1. p.sent \in 0 .. MaxLife /\ 0 \in 0 .. MaxLife /\ 0 <= p.sent
        BY <2>2 DEF Packets, SyncReq, SyncResp
      <4> QED
        BY <4>1 DEF Packets, SyncResp
    <3> QED
      BY <1>t, <2>2, <3>1, <3>2 DEF ExchangeInv
  <2>4. CASE Sample(p, rest)
    <3>1. p.type = "SYNC_RESP" /\ sm_on_sync_resp(p) /\ net' = rest /\ UNCHANGED <<state, t1, upsets>>
      BY <2>4 DEF Sample
    <3>2. /\ pending' \in BOOLEAN /\ (pending' => pending /\ gap' = gap)
          /\ fails' \in 0 .. StormThreshold
          /\ sync_rate' \in {Exchange, StormRate} /\ gap' \in 0 .. MaxGap
          /\ mdf' \in Windows /\ pi' \in Controller /\ rate' \in 0 - MaxPpm .. MaxPpm
          /\ offset' \in Int
      BY <3>1, SampleDoes
    <3> QED
      BY <1>t, <2>2, <3>1, <3>2 DEF ExchangeInv
  <2> QED
    BY <2>1, <2>3, <2>4
<1>6. CASE UNCHANGED exchangeVars
  BY <1>6 DEF exchangeVars, ExchangeInv
<1> QED
  BY <1>1, <1>2, <1>3, <1>4, <1>5, <1>6 DEF ExchangeNext

LEMMA ExchangeInvariance == ExchangeSpec => []ExchangeInv
<1>1. ExchangeInit => ExchangeInv
  <2> SUFFICES ASSUME ExchangeInit PROVE ExchangeInv
    OBVIOUS
  <2>1. pending \in BOOLEAN /\ ~ pending
    BY Zenon DEF ExchangeInit
  <2>3. mdf \in Windows /\ pi \in Controller
    BY ResetType DEF ExchangeInit
  <2> QED
    BY <2>1, <2>3 DEF ExchangeInit, ExchangeInv
<1>2. ExchangeInv /\ [ExchangeNext]_exchangeVars => ExchangeInv'
  BY ExchangeStep
<1> QED
  BY <1>1, <1>2, PTL DEF ExchangeSpec

\* Every variable of the exchange keeps its type and its limits: the window never
\* outgrows its ring, the controller never confirms more samples than it needs
\* before a step, and the rate stays within DRS_RATE_MAX_PPM although products of
\* pi_ctrl_update overflow (min_delay_update, pi_ctrl_update, sm_on_sync_resp).
THEOREM ExchangeTypeCorrect == ExchangeSpec => []ExchangeTypeOK
<1>1. ExchangeInv => ExchangeTypeOK
  BY DEF ExchangeInv, ExchangeTypeOK, Windows, Controller, Packets
<1> QED
  BY <1>1, ExchangeInvariance, PTL

\* No packet is younger than the request sent last: an answer that is paired with
\* another request belongs to an earlier one.
AgeInv == \A p \in net : p.sent >= t1

\* Packets age by a tick.
LEMMA AgedByOne ==
    ASSUME NEW packets \in SUBSET Packets, NEW q \in Aged(packets)
    PROVE  \E p \in packets : q.sent = p.sent + 1
<1> DEFINE older(p) == IF p.type = "SYNC_REQ" THEN [p EXCEPT !.sent = @ + 1]
                       ELSE [p EXCEPT !.sent = @ + 1, !.t2 = @ + 1]
<1>1. PICK p \in packets : q = older(p)
  BY DEF Aged
<1>2. CASE p \in SyncReq
  <2>1. p = [type |-> "SYNC_REQ", sent |-> p.sent] /\ p.type = "SYNC_REQ"
    BY <1>2 DEF SyncReq
  <2>2. q = [type |-> "SYNC_REQ", sent |-> p.sent + 1]
    BY <1>1, <2>1
  <2> QED
    BY <2>2
<1>3. CASE p \in SyncResp
  <2>1. p = [type |-> "SYNC_RESP", sent |-> p.sent, t2 |-> p.t2] /\ p.type = "SYNC_RESP"
    BY <1>3 DEF SyncResp
  <2>2. q = [type |-> "SYNC_RESP", sent |-> p.sent + 1, t2 |-> p.t2 + 1]
    BY <1>1, <2>1
  <2> QED
    BY <2>2
<1> QED
  BY <1>2, <1>3 DEF Packets

\* Every step keeps the packets older than the last request.
LEMMA AgeStep == ASSUME ExchangeInv, AgeInv, [ExchangeNext]_exchangeVars PROVE AgeInv'
<1>t. t1 \in 0 .. StormRate /\ net \in SUBSET Packets /\ StormRate \in Nat
  BY DEF ExchangeInv
<1>n. \A p \in net : p.sent \in Nat
  BY <1>t DEF Packets, SyncReq, SyncResp
<1>a. \A q \in Aged(net) : q.sent \in Nat /\ q.sent >= Capped(t1 + 1, StormRate)
  <2> SUFFICES ASSUME NEW q \in Aged(net) PROVE q.sent \in Nat /\ q.sent >= Capped(t1 + 1, StormRate)
    OBVIOUS
  <2>1. PICK p \in net : q.sent = p.sent + 1
    BY <1>t, AgedByOne
  <2>2. p.sent \in Nat /\ p.sent >= t1
    BY <1>n DEF AgeInv
  <2> QED
    BY <1>t, <2>1, <2>2 DEF Capped
<1>1. CASE Tick
  <2> DEFINE request == [type |-> "SYNC_REQ", sent |-> 0]
  <2>1. \/ t1' = 0 /\ net' \subseteq Aged(net) \cup {request}
        \/ t1' = Capped(t1 + 1, StormRate) /\ net' = Aged(net)
    BY <1>1 DEF Tick, FollowerTick
  <2>2. request.sent = 0
    OBVIOUS
  <2> HIDE DEF request
  <2> QED
    BY <1>a, <2>1, <2>2 DEF AgeInv
<1>2. CASE IdleTick
  BY <1>2, <1>a DEF IdleTick, AgeInv
<1>3. CASE ResetFilters \/ LeaderReturns
  BY <1>3 DEF ResetFilters, LeaderReturns, AgeInv
<1>4. CASE Receive
  <2>1. PICK p \in net, rest \in SUBSET net : Answer(p, rest) \/ Sample(p, rest)
    BY <1>4 DEF Receive
  <2> DEFINE answer == [type |-> "SYNC_RESP", sent |-> p.sent, t2 |-> 0]
  <2>2. t1' = t1 /\ net' \subseteq net \cup {answer}
    BY <2>1 DEF Answer, Sample
  <2>3. answer.sent = p.sent
    OBVIOUS
  <2> HIDE DEF answer
  <2> QED
    BY <2>2, <2>3 DEF AgeInv
<1>5. CASE UNCHANGED exchangeVars
  BY <1>5 DEF exchangeVars, AgeInv
<1> QED
  BY <1>1, <1>2, <1>3, <1>4, <1>5 DEF ExchangeNext

\* A phase step lands within half the RTT of the leader's clock, or within the life
\* of a packet when it was taken from the answer to another request, for every
\* difference of the clocks and every delay (sm_on_sync_resp, theta).
THEOREM StepsLandClose == ExchangeSpec => StepLandsClose
<1>1. ExchangeInv /\ AgeInv /\ [ExchangeNext]_exchangeVars =>
        [offset' # offset =>
            \/ 2 * offset' \in 0 - t1 - 1 .. t1 + 1
            \/ (\E p \in net : Stale(p)) /\ offset' \in 0 - MaxLife .. MaxLife]_exchangeVars
  <2> SUFFICES ASSUME ExchangeInv, AgeInv, ExchangeNext, offset' # offset
               PROVE  \/ 2 * offset' \in 0 - t1 - 1 .. t1 + 1
                      \/ (\E p \in net : Stale(p)) /\ offset' \in 0 - MaxLife .. MaxLife
    BY DEF exchangeVars
  <2>1. PICK p \in net : p.type = "SYNC_RESP" /\ sm_on_sync_resp(p)
    BY DEF ExchangeNext, Tick, IdleTick, ResetFilters, LeaderReturns, Receive, Answer, Sample
  <2>2. Used /\ offset' = offset - theta(p)
    BY <2>1, SampleDoes
  <2>3. /\ theta(p) \in Int
        /\ 2 * theta(p) \in t1 + 2 * offset - 2 * p.t2 - 1 .. t1 + 2 * offset - 2 * p.t2 + 1
        /\ p.t2 \in 0 .. p.sent /\ p.sent \in 0 .. MaxLife
    BY <2>1, ThetaBounds
  <2>4. t1 \in Nat /\ offset \in Int /\ t1 <= p.sent /\ MaxLife \in Nat
    BY DEF ExchangeInv, AgeInv
  <2>5. offset' \in Int /\ 2 * offset' \in 2 * p.t2 - t1 - 1 .. 2 * p.t2 - t1 + 1
    BY <2>2, <2>3, <2>4
  <2>6. CASE p.sent = t1
    <3>1. p.t2 \in Int /\ 0 <= p.t2 /\ p.t2 <= t1
      BY <2>3, <2>4, <2>6
    <3>2. \A x, y, u \in Int :
             0 <= x /\ x <= u /\ 2 * y \in 2 * x - u - 1 .. 2 * x - u + 1 => 2 * y \in 0 - u - 1 .. u + 1
      OBVIOUS
    <3>3. 2 * offset' \in 0 - t1 - 1 .. t1 + 1
      BY <2>4, <2>5, <3>1, <3>2
    <3> QED
      BY <3>3
  <2>7. CASE p.sent # t1
    <3>1. p.t2 \in Nat /\ p.t2 <= MaxLife /\ t1 <= MaxLife
      BY <2>3, <2>4
    <3>2. \A x, u, l \in Nat, y \in Int :
             x <= l /\ u <= l /\ 2 * y \in 2 * x - u - 1 .. 2 * x - u + 1 => y \in 0 - l .. l
      OBVIOUS
    <3>3. offset' \in 0 - MaxLife .. MaxLife
      BY <2>4, <2>5, <3>1, <3>2
    <3> QED
      BY <2>1, <2>7, <3>3 DEF Stale
  <2> QED
    BY <2>6, <2>7
<1>2. ExchangeInit => AgeInv
  BY DEF ExchangeInit, AgeInv
<1>3. ExchangeInv /\ AgeInv /\ [ExchangeNext]_exchangeVars => AgeInv'
  BY AgeStep
<1> QED
  BY <1>1, <1>2, <1>3, ExchangeInvariance, PTL DEF ExchangeSpec, StepLandsClose

----------------------------------------------------------------------------
\* A request that has timed out and not been repeated is StormRate old.
StormInv == ~ pending /\ fails > 0 => t1 = StormRate

\* In a storm of retries requests are StormRate apart, as the timeout of a request
\* is no shorter than that (both are 200 ms in drs_sync_config.h), although the gate of
\* sm_tick measures from the last update.
THEOREM StormsSpaced ==
    ASSUME ReqTimeout >= StormRate
    PROVE  ExchangeSpec => StormSpaced
<1>1. ExchangeInit => StormInv
  BY DEF ExchangeInit, StormInv
<1>2. ExchangeInv /\ StormInv /\ [ExchangeNext]_exchangeVars => StormInv'
  <2> SUFFICES ASSUME ExchangeInv, StormInv, [ExchangeNext]_exchangeVars,
                      ~ pending', fails' > 0
               PROVE  t1' = StormRate
    BY DEF StormInv
  <2>t. t1 \in 0 .. StormRate /\ StormRate \in Nat
    BY DEF ExchangeInv
  <2>1. CASE Tick
    <3>1. /\ t1' = Capped(t1 + 1, StormRate) /\ pending' = (pending /\ ~ RequestTimedOut)
          /\ fails > 0 \/ RequestTimedOut
      BY <2>1, FollowerTickDoes DEF Tick
    <3>2. CASE RequestTimedOut
      BY <2>t, <3>1, <3>2 DEF RequestTimedOut, Capped
    <3>3. CASE ~ RequestTimedOut
      <4>1. ~ pending /\ fails > 0
        BY <3>1, <3>3
      <4> QED
        BY <2>t, <3>1, <4>1 DEF StormInv, Capped
    <3> QED
      BY <3>2, <3>3
  <2>2. CASE IdleTick
    BY <2>t, <2>2 DEF IdleTick, StormInv, Capped
  <2>3. CASE ResetFilters \/ LeaderReturns
    BY <2>3 DEF ResetFilters, LeaderReturns, discipline_reset
  <2>4. CASE Receive
    <3>1. PICK p \in net, rest \in SUBSET net : Answer(p, rest) \/ Sample(p, rest)
      BY <2>4 DEF Receive
    <3>2. t1' = t1 /\ fails' = fails /\ pending' = pending
      <4>1. CASE Answer(p, rest)
        BY <4>1 DEF Answer
      <4>2. CASE Sample(p, rest)
        BY <4>2, SampleDoes DEF Sample
      <4> QED
        BY <3>1, <4>1, <4>2
    <3> QED
      BY <3>2 DEF StormInv
  <2>5. CASE UNCHANGED exchangeVars
    BY <2>5 DEF exchangeVars, StormInv
  <2> QED
    BY <2>1, <2>2, <2>3, <2>4, <2>5 DEF ExchangeNext
<1>3. ExchangeInv /\ StormInv =>
        [Tick /\ fails' >= StormThreshold /\ pending' /\ t1' = 0 => t1 + 1 >= StormRate]_exchangeVars
  <2> SUFFICES ASSUME ExchangeInv, StormInv, Tick, fails' >= StormThreshold, pending', t1' = 0
               PROVE  t1 + 1 >= StormRate
    OBVIOUS
  <2>1. t1 \in 0 .. StormRate /\ StormRate \in Nat \ {0} /\ StormThreshold \in Nat \ {0} /\ fails' \in Nat
    <3>1. fails' \in 0 .. StormThreshold
      BY FollowerTickDoes DEF Tick
    <3> QED
      BY <3>1 DEF ExchangeInv
  <2>2. fails > 0 \/ RequestTimedOut
    BY <2>1, FollowerTickDoes DEF Tick
  <2>3. t1' # Capped(t1 + 1, StormRate)
    BY <2>1 DEF Capped
  <2>4. ~ pending \/ RequestTimedOut
    BY <2>3, FollowerTickDoes DEF Tick
  <2> QED
    BY <2>1, <2>2, <2>4 DEF StormInv, RequestTimedOut
<1> QED
  BY <1>1, <1>2, <1>3, ExchangeInvariance, PTL DEF ExchangeSpec, StormSpaced

----------------------------------------------------------------------------
\* A product that fits is not changed.
LEMMA WrapSmall ==
    ASSUME NEW a \in Int, 0 - Int64 \div 2 <= a, a < Int64 \div 2
    PROVE  Wrap(a, Int64) = a
<1> DEFINE h == Int64 \div 2
<1>1. h \in Int /\ Int64 = 2 * h /\ Int64 \in Nat \ {0}
  OBVIOUS
<1>2. 0 - h <= a /\ a < h
  OBVIOUS
<1>3. (a + h) % Int64 = a + h
  <2> HIDE DEF h
  <2>1. a + h \in 0 .. Int64 - 1
    BY <1>1, <1>2
  <2> QED
    BY <1>1, <2>1
<1>4. Wrap(a, Int64) = ((a + h) % Int64) - h
  BY DEF Wrap
<1> HIDE DEF h
<1> QED
  BY <1>1, <1>3, <1>4

\* A quotient has the sign of its numerator and is not larger.
LEMMA QuotientSign ==
    ASSUME NEW a \in Int, NEW b \in Nat \ {0}
    PROVE  /\ a >= 0 => Quotient(a, b) \in 0 .. a
           /\ a <= 0 => Quotient(a, b) \in a .. 0
<1> DEFINE q == Quotient(a, b)
<1>1. /\ q \in Int
      /\ a >= 0 => q * b <= a /\ a < q * b + b /\ q >= 0
      /\ a < 0  => q * b >= a /\ a > q * b - b
  BY QuotientBounds
<1> HIDE DEF q
<1>2. q >= 0 => q <= q * b
  BY <1>1
<1>3. q <= 0 => q >= q * b
  BY <1>1
<1>4. q >= 1 => q * b >= b
  BY <1>1
<1>5. q * b \in Int
  BY <1>1
<1>6. a >= 0 => q \in 0 .. a
  BY <1>1, <1>2, <1>5
<1>7. a < 0 => q \in a .. 0
  BY <1>1, <1>3, <1>4, <1>5
<1>8. a = 0 => q \in a .. 0
  BY <1>6
<1> QED
  BY <1>6, <1>7, <1>8 DEF q

\* A quotient does not change the sign of what is divided.
LEMMA QuotientKeepsSign ==
    ASSUME NEW a \in Int, NEW b \in Nat \ {0}
    PROVE  /\ Quotient(a, b) \in Int
           /\ a >= 0 => Quotient(a, b) >= 0
           /\ a <= 0 => Quotient(a, b) <= 0
<1> DEFINE q == Quotient(a, b)
<1>1. q \in Int
  BY QuotientBounds
<1>2. (a >= 0 => q \in 0 .. a) /\ (a <= 0 => q \in a .. 0)
  BY QuotientSign
<1> HIDE DEF q
<1>3. (a >= 0 => q >= 0) /\ (a <= 0 => q <= 0)
  BY <1>1, <1>2
<1> QED
  BY <1>1, <1>3 DEF q

\* Times k \in Nat in size: a product with an error within the band.
LEMMA WithinBand ==
    ASSUME NEW k \in Nat, NEW e \in Int, ~ OverThreshold(e), k * StepThreshold * Mega < Int64 \div 2
    PROVE  /\ k * e * Mega \in Int
           /\ 0 - Int64 \div 2 <= k * e * Mega /\ k * e * Mega < Int64 \div 2
           /\ e >= 0 => k * e * Mega >= 0
           /\ e <= 0 => k * e * Mega <= 0
<1> DEFINE m == k * Mega
           h == Int64 \div 2
<1>1. m \in Nat /\ StepThreshold \in Nat /\ h \in Int
  OBVIOUS
<1>2. e <= StepThreshold /\ 0 - StepThreshold <= e
  BY <1>1 DEF OverThreshold
<1>3. k * e * Mega = e * m /\ k * StepThreshold * Mega = StepThreshold * m
  OBVIOUS
<1>b. StepThreshold * m < h
  BY <1>3
<1> HIDE DEF m, h
<1>4. e * m <= StepThreshold * m /\ (0 - StepThreshold) * m <= e * m
  <2>1. 0 - StepThreshold \in Int
    BY <1>1
  <2> QED
    BY <1>1, <1>2, <2>1, MulMono
<1>5. (0 - StepThreshold) * m = 0 - StepThreshold * m /\ e * m \in Int /\ StepThreshold * m \in Int
  BY <1>1
<1>6. (e >= 0 => e * m >= 0) /\ (e <= 0 => e * m <= 0)
  BY <1>1
<1>7. e * m \in Int /\ 0 - h <= e * m /\ e * m < h
  BY <1>1, <1>b, <1>4, <1>5
<1> QED
  BY <1>3, <1>6, <1>7 DEF h

\* The first rate has the sign of the error, when no product overflows and the
\* limits of the integrator are in order.
LEMMA FirstRate ==
    ASSUME KP * StepThreshold * Mega < Int64 \div 2, KI * StepThreshold * Mega < Int64 \div 2,
           NEW e \in Int, ~ OverThreshold(e),
           NEW period \in Nat \ {0}, max_integral(period) >= 0
    PROVE  LET ppm == pi_ctrl_update(pi_ctrl_init, e, period).ppm
           IN  ppm \in Int /\ (e >= 0 => ppm >= 0) /\ (e <= 0 => ppm <= 0)
<1> DEFINE limit == max_integral(period)
           i     == Quotient(KI * e, Q)
           sum   == clamp64(pi_ctrl_init.integrator + i, 0 - limit, limit)
           kp    == kp_term(e, period)
           ki    == ki_term(sum, period)
           ppm   == clamp64(kp + ki, 0 - MaxPpm, MaxPpm)
           h     == Int64 \div 2
<1>c. {KP, KI, Q, Mega, MaxPpm} \subseteq Nat \ {0} /\ h \in Int /\ limit \in Int /\ limit >= 0
  <2>1. limit \in Int
    BY TermsType
  <2> HIDE DEF limit
  <2> QED
    BY <2>1 DEF limit
\* The proportional term.
<1>1. kp \in Int /\ (e >= 0 => kp >= 0) /\ (e <= 0 => kp <= 0)
  <2> DEFINE a == KP * e * Mega
             b == Quotient(a, period)
  <2>1. a \in Int /\ Wrap(a, Int64) = a /\ (e >= 0 => a >= 0) /\ (e <= 0 => a <= 0)
    <3>1. KP \in Nat
      BY <1>c
    <3> QED
      BY <3>1, WithinBand, WrapSmall
  <2>2. kp = Quotient(b, Q)
    BY <2>1 DEF kp_term
  <2>3. b \in Int /\ (a >= 0 => b >= 0) /\ (a <= 0 => b <= 0)
    <3> HIDE DEF a
    <3> QED
      BY <2>1, QuotientKeepsSign
  <2>4. Quotient(b, Q) \in Int /\ (b >= 0 => Quotient(b, Q) >= 0) /\ (b <= 0 => Quotient(b, Q) <= 0)
    <3> HIDE DEF b
    <3>1. Q \in Nat \ {0}
      BY <1>c
    <3> QED
      BY <2>3, <3>1, QuotientKeepsSign
  <2> HIDE DEF a, b, kp
  <2> QED
    BY <2>1, <2>2, <2>3, <2>4
\* The integral term.
<1>2. /\ sum \in Int /\ (e >= 0 => 0 <= sum /\ sum <= KI * e) /\ (e <= 0 => KI * e <= sum /\ sum <= 0)
  <2>1. KI * e \in Int /\ Q \in Nat \ {0} /\ (e >= 0 => KI * e >= 0) /\ (e <= 0 => KI * e <= 0)
    BY <1>c
  <2>2. i \in Int /\ (e >= 0 => i \in 0 .. KI * e) /\ (e <= 0 => i \in KI * e .. 0)
    BY <2>1, QuotientSign, QuotientBounds
  <2>3. pi_ctrl_init.integrator + i = i
    <3> HIDE DEF i
    <3> QED
      BY <2>2 DEF pi_ctrl_init
  <2>4. sum = clamp64(i, 0 - limit, limit)
    BY <2>3
  <2> HIDE DEF i, limit, sum
  <2> QED
    BY <1>c, <2>1, <2>2, <2>4 DEF clamp64
<1>3. ki \in Int /\ (e >= 0 => ki >= 0) /\ (e <= 0 => ki <= 0)
  <2> DEFINE a == sum * Mega
             b == Quotient(a, period)
             w == KI * e * Mega
  <2>1. /\ w \in Int /\ 0 - h <= w /\ w < h
        /\ (e >= 0 => w >= 0) /\ (e <= 0 => w <= 0)
    <3>1. KI \in Nat
      BY <1>c
    <3> QED
      BY <3>1, WithinBand
  <2>m. (KI * e) * Mega = w /\ KI * e \in Int /\ Mega \in Nat
    BY <1>c
  <2>2. a \in Int /\ (e >= 0 => 0 <= a /\ a <= w) /\ (e <= 0 => w <= a /\ a <= 0)
    <3> HIDE DEF sum, w
    <3>1. (e >= 0 => 0 * Mega <= a /\ a <= (KI * e) * Mega) /\ (e <= 0 => (KI * e) * Mega <= a /\ a <= 0 * Mega)
      BY <1>2, <2>m, MulMono
    <3>2. a \in Int /\ 0 * Mega = 0
      BY <1>2, <2>m
    <3> QED
      BY <2>m, <3>1, <3>2
  <2>3. Wrap(a, Int64) = a
    <3>1. 0 - h <= a /\ a < h
      <4> HIDE DEF a, w, h
      <4> QED
        BY <1>c, <2>1, <2>2
    <3> HIDE DEF a
    <3> QED
      BY <2>2, <3>1, WrapSmall
  <2>4. ki = clamp64(b, 0 - MaxPpm, MaxPpm)
    BY <2>3 DEF ki_term
  <2>5. b \in Int /\ (a >= 0 => b >= 0) /\ (a <= 0 => b <= 0)
    <3> HIDE DEF a
    <3> QED
      BY <2>2, QuotientKeepsSign
  <2> HIDE DEF a, b, ki, w
  <2>6. MaxPpm \in Nat
    BY <1>c
  <2>7. (e >= 0 => a >= 0) /\ (e <= 0 => a <= 0)
    BY <2>1, <2>2
  <2> QED
    BY <2>4, <2>5, <2>6, <2>7 DEF clamp64
<1>4. ppm \in Int /\ (e >= 0 => ppm >= 0) /\ (e <= 0 => ppm <= 0)
  <2> HIDE DEF kp, ki
  <2>1. MaxPpm \in Nat /\ kp + ki \in Int /\ (e >= 0 => kp + ki >= 0) /\ (e <= 0 => kp + ki <= 0)
    BY <1>c, <1>1, <1>3
  <2> QED
    BY <2>1 DEF clamp64
<1>5. pi_ctrl_update(pi_ctrl_init, e, period).ppm \in {0, ppm}
  BY DEF pi_ctrl_update
<1> HIDE DEF ppm
<1> QED
  BY <1>4, <1>5

\* The rate that a controller without history chooses moves the clock towards its
\* leader's, for all gains and periods for which a product with an error within the
\* band fits an int64_t. Those of drs_sync_config.h do: 6554 for the larger gain, a
\* threshold of 10^6 ns and the factor 10^6 make 6.6 * 10^15 (pi_ctrl_update).
THEOREM FirstRateTowardsLeader ==
    ASSUME KP * StepThreshold * Mega < Int64 \div 2, KI * StepThreshold * Mega < Int64 \div 2
    PROVE  ExchangeSpec => RateTowardsLeader
<1>1. ExchangeInv =>
        [\A p \in net :
            FirstSample(p) /\ rate' * theta(p) < 0 =>
               OverThreshold(theta(p)) \/ max_integral(gap) < 0]_exchangeVars
  <2> SUFFICES ASSUME ExchangeInv, NEW p \in net, FirstSample(p), ~ OverThreshold(theta(p)),
                      ~ (max_integral(gap) < 0)
               PROVE  ~ (rate' * theta(p) < 0)
    OBVIOUS
  <2> DEFINE e   == theta(p)
             upd == pi_ctrl_update(pi, e, IF gap = 0 THEN Exchange ELSE gap)
  <2>1. /\ p.type = "SYNC_RESP" /\ Update(p) /\ pi = pi_ctrl_init /\ pending
    BY DEF FirstSample, Sample, sm_on_sync_resp, Used
  <2>2. gap \in Nat \ {0} /\ e \in Int
    BY <2>1, ThetaBounds DEF ExchangeInv
  <2>3. max_integral(gap) >= 0
    <3>1. max_integral(gap) \in Int
      BY <2>2, TermsType
    <3> QED
      BY <3>1
  <2>4. upd = pi_ctrl_update(pi_ctrl_init, e, gap)
    BY <2>1, <2>2
  <2>5. rate' = 0 \/ rate' = upd.ppm
    BY <2>1 DEF Update
  <2>6. upd.ppm \in Int /\ (e >= 0 => upd.ppm >= 0) /\ (e <= 0 => upd.ppm <= 0)
    BY <2>2, <2>3, <2>4, FirstRate
  <2> HIDE DEF upd, e
  <2>7. rate' \in Int /\ (e >= 0 => rate' >= 0) /\ (e <= 0 => rate' <= 0)
    BY <2>5, <2>6
  <2>8. rate' * e >= 0 /\ rate' * e \in Int
    <3>1. \A x, y \in Int : (y >= 0 => x >= 0) /\ (y <= 0 => x <= 0) => x * y >= 0 /\ x * y \in Int
      OBVIOUS
    <3>2. e \in Int
      BY <2>2
    <3> QED
      BY <2>7, <3>1, <3>2
  <2> QED
    BY <2>8 DEF e
<1> QED
  BY <1>1, ExchangeInvariance, PTL DEF RateTowardsLeader

=============================================================================

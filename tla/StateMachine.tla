---------------------------- MODULE StateMachine ----------------------------
(***************************************************************************)
(* The seven-state machine of one drs_syncd process (statemachine.c): each *)
(* handler of the C code is an operator from a state-machine record to the *)
(* record, or the set of records, it may leave behind.                     *)
(*                                                                         *)
(* Fields of a record s (sm_t with its election_t and the leader address   *)
(* of net_io_t):                                                           *)
(*   state             sm->state                                           *)
(*   own_term, lock_mode, leader_node_id     sm->el                        *)
(*   leader_addr       net->leader_addr, as the node ID of its host        *)
(*   timer             ticks until the wait of the current state elapses:  *)
(*                     GROUND, election timeout, leader silence, HOLDOVER  *)
(*   calibrated        vc.lat_corr_ns holds the result of a calibration    *)
(*   armed             pulse_engine_arm has been called                    *)
(*   sync_req_pending  sm->sync_req_pending                                *)
(*   samples           the nodes whose SYNC_RESPs the min-delay window and *)
(*                     the PI controller currently hold                    *)
(***************************************************************************)
EXTENDS Election

CONSTANTS
    GroundTicks,   \* DRS_GROUND_DURATION_NS, in ticks
    FollowerTicks, \* DRS_FOLLOWER_TIMEOUT_NS
    HoldoverTicks, \* DRS_HOLDOVER_MAX_NS
    ElectionTicks  \* the set of timeouts election_arm_timeout may draw

ASSUME TicksAssumption ==
    /\ GroundTicks \in Nat /\ FollowerTicks \in Nat /\ HoldoverTicks \in Nat
    /\ ElectionTicks \subseteq Nat /\ ElectionTicks # {}

States == {"GROUND", "CALIBRATION", "LISTEN", "CANDIDATE", "FOLLOWER", "LEADER", "HOLDOVER"}

Commands == {"RECALIBRATE", "FORCE_HOLDOVER", "FORCE_DEMOTE", "RESET_FILTERS",
             "FORCE_LEADER", "FORCE_FOLLOWER", "AUTO_MODE"}

SM(node) ==
    [state : States, own_term : Nat, lock_mode : LockModes,
     leader_node_id : node \cup {NoLeader}, leader_addr : node \cup {NoLeader},
     timer : Nat, calibrated : BOOLEAN, armed : BOOLEAN,
     sync_req_pending : BOOLEAN, samples : SUBSET node]

enter_state(s, next, ticks) == [s EXCEPT !.state = next, !.timer = ticks]

\* LISTEN and CANDIDATE draw a fresh election timeout.
enter_listen(s) == {enter_state(s, "LISTEN", d) : d \in ElectionTicks}

enter_candidate(s) == {enter_state(s, "CANDIDATE", d) : d \in ElectionTicks}

\* Mutant: the outstanding request is not forgotten.
ResetKeepsRequest(s) == [s EXCEPT !.samples = {}]

\* Empties the filter and the controller and forgets the outstanding request.
discipline_reset(s) == [s EXCEPT !.samples = {}, !.sync_req_pending = FALSE]

sm_is_active(s) == s.state \notin {"GROUND", "CALIBRATION"}

enter_follower(s, pkt) ==
    LET leader_changed == s.leader_node_id # pkt.node_id
        f == [s EXCEPT !.leader_node_id = pkt.node_id, !.leader_addr = pkt.node_id]
    IN  IF sm_is_active(s)
        THEN enter_state(IF leader_changed THEN discipline_reset(f) ELSE f,
                         "FOLLOWER", FollowerTicks)
        ELSE s

\* The loopback measurement fails, or it stores a latency correction.
calibrate_loopback(s) == {s, [s EXCEPT !.calibrated = TRUE]}

enter_leader(self, s) ==
    calibrate_loopback(enter_state(election_promote(self, s), "LEADER", 0))

enter_holdover(s) == enter_state(s, "HOLDOVER", HoldoverTicks)

\* The record of a process that has just started, locked as its unit file says.
sm_init(lock) ==
    [state |-> "GROUND", own_term |-> election_init_term(lock), lock_mode |-> lock,
     leader_node_id |-> NoLeader, leader_addr |-> NoLeader, timer |-> GroundTicks,
     calibrated |-> FALSE, armed |-> FALSE, sync_req_pending |-> FALSE, samples |-> {}]

----------------------------------------------------------------------------
\* Mutant: the pulse engine is not armed.
CalibrationUnarmed(s) ==
    UNION {IF c.calibrated THEN enter_listen(c) ELSE {c} :
              c \in calibrate_loopback([s EXCEPT !.calibrated = FALSE])}

\* Mutant: a failed calibration is not retried.
CalibrationOnce(s) ==
    UNION {enter_listen([c EXCEPT !.armed = TRUE]) :
              c \in calibrate_loopback([s EXCEPT !.calibrated = FALSE])}

\* CALIBRATION: the clock is re-initialised, which clears its latency
\* correction; a failed measurement is retried on the next tick, a good one
\* arms the pulse engine and starts listening.
calibration_tick(s) ==
    UNION {IF c.calibrated THEN enter_listen([c EXCEPT !.armed = TRUE]) ELSE {c} :
              c \in calibrate_loopback([s EXCEPT !.calibrated = FALSE])}

\* Mutant: the budget is exhausted and nobody stands for election.
HoldoverForever(s) == {discipline_reset(c) : c \in calibrate_loopback(s)}

\* HOLDOVER budget exhausted: recalibrate, reset, stand for election.
holdover_expired(s) ==
    UNION {enter_candidate(discipline_reset(c)) : c \in calibrate_loopback(s)}

\* FOLLOWER: after FollowerTicks without an ANNOUNCE into HOLDOVER.  Otherwise
\* the outstanding SYNC_REQ stays, or times out, or a new one is sent.  When
\* each happens depends on the rate gate and on sendto, which this model leaves
\* open.
follower_tick(s) ==
    IF s.timer = 0
    THEN {[sm |-> enter_holdover(s), sync_req |-> FALSE]}
    ELSE {[sm |-> s, sync_req |-> FALSE],
          [sm |-> [s EXCEPT !.sync_req_pending = FALSE], sync_req |-> FALSE],
          [sm |-> [s EXCEPT !.sync_req_pending = TRUE], sync_req |-> TRUE]}

\* The records sm_tick may leave, each with whether a SYNC_REQ went out.
sm_tick(self, s) ==
    LET Quiet(S) == [sm : S, sync_req : {FALSE}]
    IN  CASE s.state = "GROUND" /\ s.timer = 0 -> Quiet({enter_state(s, "CALIBRATION", 0)})
          [] s.state = "CALIBRATION" -> Quiet(calibration_tick(s))
          [] s.state = "LISTEN" /\ election_timed_out(s) -> Quiet(enter_candidate(s))
          [] s.state = "CANDIDATE" /\ election_timed_out(s) -> Quiet(enter_leader(self, s))
          [] s.state = "FOLLOWER" -> follower_tick(s)
          [] s.state = "HOLDOVER" /\ s.timer = 0 -> Quiet(holdover_expired(s))
          [] OTHER -> Quiet({s})

----------------------------------------------------------------------------
\* An ANNOUNCE.  The election rules apply in every state, GROUND and
\* CALIBRATION included; what the state machine does next depends on its state.
\* Every ANNOUNCE carries the LEADER flag: only main's heartbeat sends them.
sm_on_announce(self, s, pkt) ==
    LET e == election_on_announce(self, s, pkt)
        res == e.become_follower
        same_term_leader == pkt.election_term = e.sm.own_term /\ pkt.node_id < self
    IN  CASE s.state \in {"LISTEN", "CANDIDATE"} /\ (res \/ same_term_leader)
               -> enter_follower(e.sm, pkt)
          [] s.state = "FOLLOWER"
               -> LET refreshed == [e.sm EXCEPT !.timer = FollowerTicks]
                  IN  IF res THEN enter_follower(refreshed, pkt) ELSE refreshed
          [] s.state = "LEADER" /\ res -> enter_follower(discipline_reset(e.sm), pkt)
          [] s.state = "HOLDOVER" /\ (res \/ pkt.node_id = e.sm.leader_node_id)
               -> enter_follower(discipline_reset(e.sm), pkt)
          [] OTHER -> e.sm

\* A SYNC_RESP is used by a FOLLOWER with a request outstanding, whoever sent
\* it.  Rejected or accepted, its RTT enters the window; a step of more than
\* 5 ms empties window and controller.
sm_on_sync_resp(s, pkt) ==
    IF s.state = "FOLLOWER" /\ s.sync_req_pending
    THEN {[s EXCEPT !.sync_req_pending = FALSE, !.samples = h] :
             h \in {s.samples \cup {pkt.node_id}, {}}}
    ELSE {s}

sm_on_command(self, s, cmd) ==
    CASE cmd = "RECALIBRATE" -> {discipline_reset(c) : c \in calibrate_loopback(s)}
      [] cmd = "FORCE_HOLDOVER" -> {enter_holdover(s)}
      [] cmd = "FORCE_DEMOTE" /\ s.state = "LEADER" -> enter_candidate(s)
      [] cmd = "RESET_FILTERS" -> {discipline_reset(s)}
      [] cmd = "FORCE_LEADER"
           -> enter_leader(self, [s EXCEPT !.lock_mode = "AS_LEADER", !.own_term = @ + TermBoost])
      [] cmd = "FORCE_FOLLOWER"
           -> LET l == [s EXCEPT !.lock_mode = "AS_FOLLOWER"]
              IN  IF s.state = "LEADER" THEN enter_listen(l) ELSE {l}
      [] cmd = "AUTO_MODE" -> {[s EXCEPT !.lock_mode = "AUTO"]}
      [] OTHER -> {s}

=============================================================================

--------------------------- MODULE ClusterProofs ---------------------------
(***************************************************************************)
(* Proofs about Cluster for every set of nodes, every assignment of lock   *)
(* modes, every subset of the commands and every value of the durations.   *)
(*                                                                         *)
(* The argument is about one node at a time.  A node's record is Sound     *)
(* when the leader it names never has a higher ID than its own, and more   *)
(* in the states FOLLOWER and LEADER.  Every handler keeps a record Sound  *)
(* as long as the packets it is given are: ANNOUNCEs of other nodes, and   *)
(* SYNC_RESPs of lower ones.  Packets are, because a SYNC_REQ goes to the  *)
(* address of a lower node and only its receiver answers it.               *)
(***************************************************************************)
EXTENDS Cluster, TLAPS

Sound(n, s) ==
    /\ s \in SM(Node)
    /\ s.leader_node_id <= n
    /\ s.state = "FOLLOWER" => /\ s.leader_node_id \in Node
                               /\ s.leader_node_id < n
                               /\ s.leader_addr = s.leader_node_id
    /\ \A m \in s.samples : m < n
    /\ s.state = "LEADER" => s.leader_node_id = n /\ s.lock_mode # "AS_FOLLOWER"

SoundPacket(p) ==
    /\ p \in Announce \cup SyncPacket
    /\ p.type = "ANNOUNCE"  => p.node_id # p.to
    /\ p.type = "SYNC_REQ"  => p.to < p.node_id
    /\ p.type = "SYNC_RESP" => p.node_id < p.to

IndInv ==
    /\ sm \in [Node -> SM(Node)]
    /\ \A n \in Node : Sound(n, sm[n])
    /\ up \subseteq Node
    /\ \A p \in net : SoundPacket(p)

USE TermBoostAssumption, TicksAssumption, ClusterAssumption

----------------------------------------------------------------------------
\* The record sm_init builds is Sound.
LEMMA InitSound ==
    ASSUME NEW n \in Node, NEW lock \in LockModes
    PROVE  Sound(n, sm_init(lock))
BY DEF Sound, SM, sm_init, election_init_term, States, LockModes, NoLeader

\* enter_state changes the state and the wait and nothing else.
LEMMA EnterState ==
    ASSUME NEW s \in SM(Node), NEW q \in States, NEW d \in Nat
    PROVE  /\ enter_state(s, q, d) \in SM(Node)
           /\ enter_state(s, q, d).state = q
           /\ enter_state(s, q, d).timer = d
           /\ enter_state(s, q, d).own_term = s.own_term
           /\ enter_state(s, q, d).lock_mode = s.lock_mode
           /\ enter_state(s, q, d).leader_node_id = s.leader_node_id
           /\ enter_state(s, q, d).leader_addr = s.leader_addr
           /\ enter_state(s, q, d).samples = s.samples
           /\ enter_state(s, q, d).armed = s.armed
           /\ enter_state(s, q, d).calibrated = s.calibrated
           /\ enter_state(s, q, d).sync_req_pending = s.sync_req_pending
BY DEF SM, enter_state

\* Moving to a state other than FOLLOWER and LEADER, with any wait, keeps a
\* record Sound.
LEMMA EnterSound ==
    ASSUME NEW n \in Node, NEW s, Sound(n, s), NEW d \in Nat,
           NEW q \in States \ {"FOLLOWER", "LEADER"}
    PROVE  Sound(n, enter_state(s, q, d))
BY EnterState DEF Sound

\* discipline_reset keeps a record Sound, and leaves its state, leader and
\* lock mode alone.
LEMMA ResetSound ==
    ASSUME NEW n \in Node, NEW s, Sound(n, s)
    PROVE  /\ Sound(n, discipline_reset(s))
           /\ discipline_reset(s).state = s.state
           /\ discipline_reset(s).leader_node_id = s.leader_node_id
           /\ discipline_reset(s).lock_mode = s.lock_mode
BY DEF Sound, SM, discipline_reset

\* A calibration, good or bad, keeps a record Sound.
LEMMA CalibrateSound ==
    ASSUME NEW n \in Node, NEW s, Sound(n, s), NEW c \in calibrate_loopback(s)
    PROVE  Sound(n, c) /\ c.state = s.state
BY DEF Sound, SM, calibrate_loopback

\* A node that is not locked as follower may become LEADER.
LEMMA LeaderSound ==
    ASSUME NEW n \in Node, NEW s \in SM(Node), NEW t \in enter_leader(n, s),
           s.lock_mode # "AS_FOLLOWER", \A m \in s.samples : m < n
    PROVE  Sound(n, t)
<1> DEFINE p == election_promote(n, s)
<1> DEFINE e == enter_state(p, "LEADER", 0)
<1>1. s.own_term + 1 \in Nat
  BY DEF SM
<1>2. /\ p \in SM(Node) /\ p.leader_node_id = n
      /\ p.lock_mode = s.lock_mode /\ p.samples = s.samples
  BY <1>1 DEF SM, election_promote
<1> HIDE DEF p
<1>3. Sound(n, e)
  <2>1. "LEADER" \in States /\ 0 \in Nat
    BY DEF States
  <2> QED
    BY <1>2, <2>1, EnterState DEF Sound
<1> QED
  BY <1>3, CalibrateSound DEF enter_leader, p

\* Following a lower node keeps a record Sound, from any active state.
LEMMA FollowSound ==
    ASSUME NEW n \in Node, NEW s \in SM(Node), \A m \in s.samples : m < n, sm_is_active(s),
           NEW pkt, pkt.node_id \in Node, pkt.node_id < n
    PROVE  Sound(n, enter_follower(s, pkt))
<1> DEFINE f == [s EXCEPT !.leader_node_id = pkt.node_id, !.leader_addr = pkt.node_id]
<1>1. /\ f \in SM(Node) /\ f.leader_node_id = pkt.node_id /\ f.leader_addr = pkt.node_id
      /\ \A m \in f.samples : m < n
  BY DEF SM
<1>2. /\ discipline_reset(f) \in SM(Node)
      /\ discipline_reset(f).leader_node_id = pkt.node_id
      /\ discipline_reset(f).leader_addr = pkt.node_id
      /\ discipline_reset(f).samples = {}
  BY <1>1 DEF discipline_reset, SM
<1>3. "FOLLOWER" \in States /\ FollowerTicks \in Nat
  BY DEF States
<1>4. PICK g \in {f, discipline_reset(f)} :
               enter_follower(s, pkt) = enter_state(g, "FOLLOWER", FollowerTicks)
  BY DEF enter_follower
<1>5. /\ g \in SM(Node) /\ g.leader_node_id = pkt.node_id /\ g.leader_addr = pkt.node_id
      /\ \A m \in g.samples : m < n
  BY <1>1, <1>2
<1> HIDE DEF f
<1> DEFINE e == enter_state(g, "FOLLOWER", FollowerTicks)
<1>6. /\ e \in SM(Node) /\ e.state = "FOLLOWER" /\ e.samples = g.samples
      /\ e.leader_node_id = pkt.node_id /\ e.leader_addr = pkt.node_id
  BY <1>3, <1>5, EnterState
<1> HIDE DEF e
<1>7. Sound(n, e)
  BY <1>5, <1>6 DEF Sound
<1> QED
  BY <1>4, <1>7 DEF e

----------------------------------------------------------------------------
\* A tick keeps a record Sound, and a SYNC_REQ is only sent by a FOLLOWER, to
\* the lower node it follows.
LEMMA TickSound ==
    ASSUME NEW n \in Node, NEW s, Sound(n, s), NEW r \in sm_tick(n, s)
    PROVE  /\ Sound(n, r.sm)
           /\ r.sync_req => r.sm.leader_addr \in Node /\ r.sm.leader_addr < n
<1> USE DEF sm_tick
<1>s. s.state \in States /\ s \in SM(Node)
  BY DEF Sound, SM
<1>q. {"CALIBRATION", "LISTEN", "CANDIDATE", "HOLDOVER"} \subseteq States \ {"FOLLOWER", "LEADER"}
  BY DEF States
<1>1. CASE s.state = "GROUND" /\ s.timer = 0
  <2>1. r.sm = enter_state(s, "CALIBRATION", 0) /\ ~ r.sync_req
    <3>1. r \in [sm : {enter_state(s, "CALIBRATION", 0)}, sync_req : {FALSE}]
      BY <1>1
    <3> QED
      BY <3>1
  <2>2. Sound(n, enter_state(s, "CALIBRATION", 0))
    BY ONLY Sound(n, s), n \in Node, <1>q, EnterSound
  <2> QED
    BY <2>1, <2>2
<1>2. CASE s.state = "CALIBRATION"
  <2>1. r.sm \in calibration_tick(s) /\ ~ r.sync_req
    <3>1. r \in [sm : calibration_tick(s), sync_req : {FALSE}]
      BY <1>2
    <3> QED
      BY <3>1
  <2> DEFINE z == [s EXCEPT !.calibrated = FALSE]
  <2>2. Sound(n, z)
    BY DEF Sound, SM
  <2>3. PICK c \in calibrate_loopback(z) :
           r.sm \in (IF c.calibrated THEN enter_listen([c EXCEPT !.armed = TRUE]) ELSE {c})
    BY <2>1 DEF calibration_tick
  <2>4. Sound(n, c)
    BY <2>2, <2>3, CalibrateSound
  <2> DEFINE a == [c EXCEPT !.armed = TRUE]
  <2>5. Sound(n, a)
    BY <2>4 DEF Sound, SM
  <2> HIDE DEF a
  <2>6. \A t \in enter_listen(a) : Sound(n, t)
    BY ONLY <2>5, <1>q, EnterSound, TicksAssumption, n \in Node DEF enter_listen
  <2> QED
    BY <2>1, <2>3, <2>4, <2>6 DEF a
<1>3. CASE s.state = "LISTEN" /\ election_timed_out(s)
  <2>1. r.sm \in enter_candidate(s) /\ ~ r.sync_req
    BY <1>3
  <2> QED
    BY <2>1, <1>q, EnterSound DEF enter_candidate
<1>4. CASE s.state = "CANDIDATE" /\ election_timed_out(s)
  <2>1. r.sm \in enter_leader(n, s) /\ ~ r.sync_req
    BY <1>4
  <2>2. s.lock_mode # "AS_FOLLOWER" /\ \A m \in s.samples : m < n
    BY <1>4 DEF election_timed_out, Sound
  <2> QED
    BY <2>1, <2>2, <1>s, LeaderSound
<1>5. CASE s.state = "FOLLOWER"
  <2>1. r \in follower_tick(s)
    BY <1>5
  <2> DEFINE idle == [s EXCEPT !.sync_req_pending = FALSE]
  <2> DEFINE sent == [s EXCEPT !.sync_req_pending = TRUE]
  <2>2. Sound(n, idle) /\ Sound(n, sent) /\ idle.state = s.state /\ sent.state = s.state
    BY DEF Sound, SM
  <2>3. CASE s.timer = 0
    <3>1. r.sm = enter_state(s, "HOLDOVER", HoldoverTicks) /\ ~ r.sync_req
      BY <2>1, <2>3 DEF follower_tick, enter_holdover
    <3> QED
      BY <3>1, <1>q, EnterSound
  <2>4. CASE s.timer # 0
    <3>1. r \in {[sm |-> s, sync_req |-> FALSE], [sm |-> idle, sync_req |-> FALSE],
                [sm |-> sent, sync_req |-> TRUE]}
      BY <2>1, <2>4 DEF follower_tick
    <3> HIDE DEF idle, sent
    <3>2. r.sm.state = "FOLLOWER"
      BY <2>2, <3>1, <1>5
    <3>3. Sound(n, r.sm)
      BY <2>2, <3>1
    <3> QED
      BY <3>2, <3>3 DEF Sound
  <2> QED
    BY <2>3, <2>4
<1>6. CASE s.state = "HOLDOVER" /\ s.timer = 0
  <2>1. r.sm \in holdover_expired(s) /\ ~ r.sync_req
    BY <1>6
  <2>2. PICK c \in calibrate_loopback(s) : r.sm \in enter_candidate(discipline_reset(c))
    BY <2>1 DEF holdover_expired
  <2>3. Sound(n, discipline_reset(c))
    BY <2>2, CalibrateSound, ResetSound
  <2> QED
    BY <2>1, <2>2, <2>3, <1>q, EnterSound DEF enter_candidate
<1>7. CASE r.sm = s /\ ~ r.sync_req
  BY <1>7
<1> QED
  BY <1>1, <1>2, <1>3, <1>4, <1>5, <1>6, <1>7

\* What the election rules make of a record: they leave the state and the
\* samples alone, and they name the sender as leader just when it is to be
\* followed, which takes a lower ID.
LEMMA ElectionFacts ==
    ASSUME NEW n \in Node, NEW s \in SM(Node), NEW pkt \in Announce, pkt.node_id # n
    PROVE  LET e == election_on_announce(n, s, pkt) IN
           /\ e.sm \in SM(Node)
           /\ e.sm.state = s.state
           /\ e.sm.samples = s.samples
           /\ e.sm.lock_mode = s.lock_mode
           /\ e.sm.leader_addr = s.leader_addr
           /\ e.become_follower \in BOOLEAN
           /\ e.become_follower => pkt.node_id < n /\ e.sm.leader_node_id = pkt.node_id
           /\ ~ e.become_follower => e.sm.leader_node_id = s.leader_node_id
<1>p. /\ pkt.node_id \in Node /\ pkt.election_term \in Nat
      /\ n \in Nat /\ pkt.node_id \in Nat /\ s.own_term \in Nat
  BY DEF Announce, SM
<1> DEFINE el == election_on_announce(n, s, pkt)
<1> DEFINE adopted == [s EXCEPT !.own_term = pkt.election_term]
<1>1. CASE el = NoChange(s)
  BY <1>1 DEF NoChange
<1>2. CASE el = NoChange(adopted)
  <2>1. /\ adopted \in SM(Node) /\ adopted.state = s.state /\ adopted.samples = s.samples
        /\ adopted.lock_mode = s.lock_mode /\ adopted.leader_addr = s.leader_addr
        /\ adopted.leader_node_id = s.leader_node_id
    BY <1>p DEF SM
  <2> HIDE DEF adopted, el
  <2>2. el.sm = adopted /\ el.become_follower = FALSE
    BY <1>2 DEF NoChange
  <2> QED
    BY <2>1, <2>2 DEF el
<1>3. CASE el = Yield(s, pkt) /\ pkt.node_id < n
  <2> DEFINE y == [s EXCEPT !.own_term = pkt.election_term, !.leader_node_id = pkt.node_id]
  <2>1. /\ y \in SM(Node) /\ y.state = s.state /\ y.samples = s.samples
        /\ y.lock_mode = s.lock_mode /\ y.leader_addr = s.leader_addr
        /\ y.leader_node_id = pkt.node_id
    BY <1>p DEF SM
  <2>2. Yield(s, pkt) = [sm |-> y, become_follower |-> TRUE]
    BY DEF Yield
  <2> HIDE DEF y, el
  <2>3. el.sm = y /\ el.become_follower = TRUE
    BY <1>3, <2>2
  <2> QED
    BY <1>3, <2>1, <2>3 DEF el
<1>4. \/ el = NoChange(s)
      \/ el = NoChange(adopted)
      \/ el = Yield(s, pkt) /\ pkt.node_id < n
  BY <1>p DEF election_on_announce
<1> QED
  BY <1>1, <1>2, <1>3, <1>4

\* An ANNOUNCE of another node keeps a record Sound.
LEMMA AnnounceSound ==
    ASSUME NEW n \in Node, NEW s, Sound(n, s),
           NEW pkt \in Announce, pkt.node_id # n
    PROVE  Sound(n, sm_on_announce(n, s, pkt))
<1> DEFINE el == election_on_announce(n, s, pkt)
<1> DEFINE e == el.sm
<1> DEFINE refreshed == [e EXCEPT !.timer = FollowerTicks]
<1>p. pkt.node_id \in Node /\ pkt.node_id \in Nat /\ n \in Nat
  BY DEF Announce
<1>s. s \in SM(Node)
  BY DEF Sound
<1>e. /\ e \in SM(Node) /\ e.state = s.state /\ e.samples = s.samples
      /\ e.lock_mode = s.lock_mode /\ e.leader_addr = s.leader_addr
      /\ el.become_follower => pkt.node_id < n /\ e.leader_node_id = pkt.node_id
      /\ ~ el.become_follower => e.leader_node_id = s.leader_node_id
  BY <1>s, ElectionFacts
<1>l. ~ el.become_follower => Sound(n, e)
  BY <1>e DEF Sound
<1>a. s.state \in {"LISTEN", "CANDIDATE", "FOLLOWER", "LEADER", "HOLDOVER"} => sm_is_active(e)
  BY <1>e DEF sm_is_active
<1>d. /\ discipline_reset(e) \in SM(Node)
      /\ discipline_reset(e).samples = {}
      /\ discipline_reset(e).state = s.state
  BY <1>e DEF discipline_reset, SM
<1>t. /\ refreshed \in SM(Node) /\ refreshed.state = s.state /\ refreshed.samples = s.samples
      /\ ~ el.become_follower => Sound(n, refreshed)
  BY <1>e, <1>l DEF SM, Sound
<1>m. \A m \in s.samples : m < n
  BY DEF Sound
<1>f. /\ sm_is_active(e) /\ pkt.node_id < n => Sound(n, enter_follower(e, pkt))
      /\ sm_is_active(refreshed) /\ pkt.node_id < n => Sound(n, enter_follower(refreshed, pkt))
      /\ sm_is_active(discipline_reset(e)) /\ pkt.node_id < n
         => Sound(n, enter_follower(discipline_reset(e), pkt))
  <2> HIDE DEF e, refreshed
  <2> QED
    BY <1>p, <1>e, <1>d, <1>t, <1>m, FollowSound
<1>1. CASE s.state \in {"GROUND", "CALIBRATION"}
  <2>1. sm_on_announce(n, s, pkt) = e
    BY <1>1 DEF sm_on_announce
  <2> HIDE DEF e, el
  <2> QED
    BY <1>1, <1>p, <1>e, <1>m, <2>1 DEF Sound
<1>2. CASE s.state \in {"LISTEN", "CANDIDATE"}
  <2>1. \/ sm_on_announce(n, s, pkt) = enter_follower(e, pkt) /\ pkt.node_id < n
        \/ sm_on_announce(n, s, pkt) = e /\ ~ el.become_follower
    BY <1>2, <1>e DEF sm_on_announce
  <2> HIDE DEF e, el
  <2> QED
    BY <1>2, <1>a, <1>f, <1>l, <2>1
<1>3. CASE s.state = "FOLLOWER"
  <2>1. \/ sm_on_announce(n, s, pkt) = enter_follower(refreshed, pkt) /\ el.become_follower
        \/ sm_on_announce(n, s, pkt) = refreshed /\ ~ el.become_follower
    BY <1>3 DEF sm_on_announce
  <2>2. sm_is_active(refreshed)
    BY <1>3, <1>t DEF sm_is_active
  <2> HIDE DEF e, el, refreshed
  <2> QED
    BY <1>e, <1>f, <1>t, <2>1, <2>2
<1>4. CASE s.state = "LEADER"
  <2>1. \/ sm_on_announce(n, s, pkt) = enter_follower(discipline_reset(e), pkt) /\ el.become_follower
        \/ sm_on_announce(n, s, pkt) = e /\ ~ el.become_follower
    BY <1>4 DEF sm_on_announce
  <2>2. sm_is_active(discipline_reset(e))
    BY <1>4, <1>d DEF sm_is_active
  <2> HIDE DEF e, el
  <2> QED
    BY <1>e, <1>f, <1>l, <2>1, <2>2
<1>5. CASE s.state = "HOLDOVER"
  <2>1. \/ /\ sm_on_announce(n, s, pkt) = enter_follower(discipline_reset(e), pkt)
           /\ el.become_follower \/ pkt.node_id = e.leader_node_id
        \/ sm_on_announce(n, s, pkt) = e /\ ~ el.become_follower
    BY <1>5 DEF sm_on_announce
  <2>2. sm_is_active(discipline_reset(e))
    BY <1>5, <1>d DEF sm_is_active
  <2> HIDE DEF e, el
  <2>3. pkt.node_id = e.leader_node_id => pkt.node_id < n
    BY <1>p, <1>e DEF Sound
  <2> QED
    BY <1>e, <1>f, <1>l, <2>1, <2>2, <2>3
<1> QED
  BY <1>1, <1>2, <1>3, <1>4, <1>5, <1>s DEF SM, States

\* A SYNC_RESP of a lower node keeps a record Sound.
LEMMA SyncRespSound ==
    ASSUME NEW n \in Node, NEW s, Sound(n, s), NEW pkt \in SyncPacket, pkt.node_id < n,
           NEW t \in sm_on_sync_resp(s, pkt)
    PROVE  Sound(n, t)
<1>1. CASE t = s
  BY <1>1
<1>2. CASE \E h \in {s.samples \cup {pkt.node_id}, {}} :
              t = [s EXCEPT !.sync_req_pending = FALSE, !.samples = h]
  <2>1. PICK h \in {s.samples \cup {pkt.node_id}, {}} :
              t = [s EXCEPT !.sync_req_pending = FALSE, !.samples = h]
    BY <1>2
  <2>2. h \in SUBSET Node /\ \A m \in h : m < n
    BY <2>1 DEF Sound, SM, SyncPacket
  <2> QED
    BY <2>1, <2>2 DEF Sound, SM
<1> QED
  BY <1>1, <1>2 DEF sm_on_sync_resp

\* Every command keeps a record Sound.
LEMMA CommandSound ==
    ASSUME NEW n \in Node, NEW s, Sound(n, s), NEW cmd, NEW t \in sm_on_command(n, s, cmd)
    PROVE  Sound(n, t)
<1>s. s \in SM(Node) /\ \A m \in s.samples : m < n
  BY DEF Sound
<1>q. {"LISTEN", "CANDIDATE", "HOLDOVER"} \subseteq States \ {"FOLLOWER", "LEADER"}
  BY DEF States
<1>1. CASE cmd = "RECALIBRATE"
  <2>1. PICK c \in calibrate_loopback(s) : t = discipline_reset(c)
    BY <1>1 DEF sm_on_command
  <2> QED
    BY <2>1, CalibrateSound, ResetSound
<1>2. CASE cmd = "FORCE_HOLDOVER"
  <2>1. t = enter_state(s, "HOLDOVER", HoldoverTicks)
    BY <1>2 DEF sm_on_command, enter_holdover
  <2> QED
    BY <2>1, <1>q, EnterSound
<1>3. CASE cmd = "FORCE_DEMOTE" /\ s.state = "LEADER"
  <2>1. t \in enter_candidate(s)
    BY <1>3 DEF sm_on_command
  <2> QED
    BY <2>1, <1>q, EnterSound DEF enter_candidate
<1>4. CASE cmd = "RESET_FILTERS"
  BY <1>4, ResetSound DEF sm_on_command
<1>5. CASE cmd = "FORCE_LEADER"
  <2> DEFINE l == [s EXCEPT !.lock_mode = "AS_LEADER", !.own_term = @ + TermBoost]
  <2>1. t \in enter_leader(n, l)
    BY <1>5 DEF sm_on_command
  <2>2. s.own_term + TermBoost \in Nat
    BY <1>s DEF SM
  <2>3. l \in SM(Node) /\ l.samples = s.samples /\ l.lock_mode = "AS_LEADER"
    BY <1>s, <2>2 DEF SM, LockModes
  <2> HIDE DEF l
  <2> QED
    BY <1>s, <2>1, <2>3, LeaderSound
<1>6. CASE cmd = "FORCE_FOLLOWER"
  <2> DEFINE l == [s EXCEPT !.lock_mode = "AS_FOLLOWER"]
  <2>1. t \in (IF s.state = "LEADER" THEN enter_listen(l) ELSE {l})
    BY <1>6 DEF sm_on_command
  <2>2. /\ l \in SM(Node) /\ l.samples = s.samples /\ l.state = s.state
        /\ l.leader_node_id = s.leader_node_id /\ l.leader_addr = s.leader_addr
    BY <1>s DEF SM, LockModes
  <2> HIDE DEF l
  <2>3. CASE s.state = "LEADER"
    <3>1. PICK d \in ElectionTicks : t = enter_state(l, "LISTEN", d)
      BY <2>1, <2>3 DEF enter_listen
    <3>2. d \in Nat /\ "LISTEN" \in States
      BY <1>q
    <3>3. /\ t \in SM(Node) /\ t.state = "LISTEN" /\ t.samples = l.samples
          /\ t.leader_node_id = l.leader_node_id
      BY <2>2, <3>1, <3>2, EnterState
    <3> QED
      BY <2>2, <3>3 DEF Sound
  <2>4. CASE s.state # "LEADER"
    BY <2>1, <2>2, <2>4 DEF Sound
  <2> QED
    BY <2>3, <2>4
<1>7. CASE cmd = "AUTO_MODE"
  <2>1. t = [s EXCEPT !.lock_mode = "AUTO"]
    BY <1>7 DEF sm_on_command
  <2> QED
    BY <2>1 DEF Sound, SM, LockModes
<1>8. CASE t = s
  BY <1>8
<1> QED
  BY <1>1, <1>2, <1>3, <1>4, <1>5, <1>6, <1>7, <1>8 DEF sm_on_command

----------------------------------------------------------------------------
\* Writing one node's record and keeping the packets Sound keeps IndInv.
LEMMA UpdateSound ==
    ASSUME IndInv, NEW n \in Node, NEW t, Sound(n, t), sm' = [sm EXCEPT ![n] = t],
           up' \subseteq Node, \A p \in net' : SoundPacket(p)
    PROVE  IndInv'
BY DEF IndInv, Sound

\* What is put on the segment is a part of what is sent.
LEMMA SendSound ==
    ASSUME NEW P, Send(P), \A p \in net : SoundPacket(p),
           \A p \in P : p.to \in up => SoundPacket(p)
    PROVE  \A p \in net' : SoundPacket(p)
BY DEF Send

\* Every handler, fault and restart preserves the inductive invariant.
LEMMA IndInvStep == IndInv /\ [Next]_vars => IndInv'
<1> SUFFICES ASSUME IndInv, [Next]_vars PROVE IndInv'
  OBVIOUS
<1>1. ASSUME NEW n \in Node, MainTick(n) PROVE IndInv'
  <2> DEFINE s == Elapse(sm[n])
  <2>1. Sound(n, s)
    BY DEF IndInv, Elapse, Sound, SM
  <2> HIDE DEF s
  <2>2. PICK r \in sm_tick(n, s) : \E cmd \in Enabled \cup {"NONE"} :
          \E t \in sm_on_command(n, r.sm, cmd) :
             /\ sm' = [sm EXCEPT ![n] = t]
             /\ IF r.sync_req
                THEN Send({[to |-> r.sm.leader_addr, type |-> "SYNC_REQ", node_id |-> n]})
                ELSE UNCHANGED net
    BY <1>1 DEF MainTick, s
  <2>3. PICK cmd \in Enabled \cup {"NONE"} : \E t \in sm_on_command(n, r.sm, cmd) :
             sm' = [sm EXCEPT ![n] = t]
    BY <2>2
  <2>4. PICK t \in sm_on_command(n, r.sm, cmd) : sm' = [sm EXCEPT ![n] = t]
    BY <2>3
  <2>5. /\ Sound(n, r.sm)
        /\ r.sync_req => r.sm.leader_addr \in Node /\ r.sm.leader_addr < n
    BY <2>1, <2>2, TickSound
  <2>6. Sound(n, t)
    BY <2>4, <2>5, CommandSound
  <2>7. \A p \in net' : SoundPacket(p)
    <3>1. CASE r.sync_req
      <4> DEFINE q == [to |-> r.sm.leader_addr, type |-> "SYNC_REQ", node_id |-> n]
      <4>1. SoundPacket(q)
        BY <2>5, <3>1 DEF SoundPacket, SyncPacket
      <4>2. Send({q})
        BY <2>2, <3>1
      <4> HIDE DEF q
      <4> QED
        BY <4>1, <4>2, SendSound DEF IndInv
    <3>2. CASE ~ r.sync_req
      BY <2>2, <3>2 DEF IndInv
    <3> QED
      BY <3>1, <3>2
  <2>8. up' \subseteq Node
    BY <1>1 DEF MainTick, IndInv
  <2> QED
    BY <2>4, <2>6, <2>7, <2>8, UpdateSound
<1>2. ASSUME NEW n \in Node, Heartbeat(n) PROVE IndInv'
  <2> DEFINE P == {[to |-> p, type |-> "ANNOUNCE", node_id |-> n, election_term |-> sm[n].own_term] :
                     p \in Node \ {n}}
  <2>1. Send(P) /\ UNCHANGED <<sm, up>>
    BY <1>2 DEF Heartbeat
  <2>2. sm[n].own_term \in Nat
    BY DEF IndInv, SM
  <2>3. \A p \in P : SoundPacket(p)
    BY <2>2 DEF SoundPacket, Announce
  <2> HIDE DEF P
  <2>4. \A p \in net' : SoundPacket(p)
    BY <2>1, <2>3, SendSound DEF IndInv
  <2> QED
    BY <2>1, <2>4 DEF IndInv
<1>3. ASSUME NEW p \in net, NEW rest \in {net, net \ {p}}, ReceiveAnnounce(p, rest), UNCHANGED up
      PROVE  IndInv'
  <2>1. p \in Announce /\ p.node_id # p.to /\ p.to \in Node
    BY <1>3 DEF ReceiveAnnounce, IndInv, SoundPacket, Announce, SyncPacket
  <2>2. Sound(p.to, sm_on_announce(p.to, sm[p.to], p))
    BY <2>1, AnnounceSound DEF IndInv
  <2>3. sm' = [sm EXCEPT ![p.to] = sm_on_announce(p.to, sm[p.to], p)] /\ net' \subseteq net
    BY <1>3 DEF ReceiveAnnounce
  <2>4. up' \subseteq Node /\ \A q \in net' : SoundPacket(q)
    BY <1>3, <2>3 DEF IndInv
  <2> QED
    BY <2>1, <2>2, <2>3, <2>4, UpdateSound
<1>4. ASSUME NEW p \in net, NEW rest \in {net, net \ {p}}, ReceiveSyncReq(p, rest), UNCHANGED up
      PROVE  IndInv'
  <2> DEFINE q == [to |-> p.node_id, type |-> "SYNC_RESP", node_id |-> p.to]
  <2>1. p \in SyncPacket /\ p.to < p.node_id
    BY <1>4 DEF ReceiveSyncReq, IndInv, SoundPacket, Announce, SyncPacket
  <2>2. SoundPacket(q)
    BY <2>1 DEF SoundPacket, SyncPacket
  <2>3. net' \subseteq net \cup {q} /\ sm' = sm
    BY <1>4 DEF ReceiveSyncReq
  <2> HIDE DEF q
  <2> QED
    BY <1>4, <2>2, <2>3 DEF IndInv
<1>5. ASSUME NEW p \in net, NEW rest \in {net, net \ {p}}, ReceiveSyncResp(p, rest), UNCHANGED up
      PROVE  IndInv'
  <2>1. p \in SyncPacket /\ p.node_id < p.to /\ p.to \in Node
    BY <1>5 DEF ReceiveSyncResp, IndInv, SoundPacket, Announce, SyncPacket
  <2>2. PICK t \in sm_on_sync_resp(sm[p.to], p) : sm' = [sm EXCEPT ![p.to] = t]
    BY <1>5 DEF ReceiveSyncResp
  <2>3. Sound(p.to, t)
    BY <2>1, <2>2, SyncRespSound DEF IndInv
  <2>4. up' \subseteq Node /\ \A q \in net' : SoundPacket(q)
    BY <1>5 DEF IndInv, ReceiveSyncResp
  <2> QED
    BY <2>1, <2>2, <2>3, <2>4, UpdateSound
<1>6. ASSUME NEW p \in net, Lose(p) PROVE IndInv'
  BY <1>6 DEF Lose, IndInv
<1>7. ASSUME NEW n \in Node, Crash(n) PROVE IndInv'
  <2>1. Sound(n, sm_init(BootLock[n]))
    BY InitSound
  <2>2. /\ sm' = [sm EXCEPT ![n] = sm_init(BootLock[n])]
        /\ up' \subseteq Node /\ \A p \in net' : SoundPacket(p)
    BY <1>7 DEF Crash, IndInv
  <2> QED
    BY <2>1, <2>2, UpdateSound
<1>8. ASSUME NEW n \in Node, Start(n) PROVE IndInv'
  BY <1>8 DEF Start, IndInv
<1>9. CASE UNCHANGED vars
  BY <1>9 DEF vars, IndInv
<1> QED
  BY <1>1, <1>2, <1>3, <1>4, <1>5, <1>6, <1>7, <1>8, <1>9 DEF Next, Receive

\* The inductive invariant holds of every reachable state.
THEOREM Invariance == Spec => []IndInv
<1>1. Init => IndInv
  BY InitSound DEF Init, IndInv, Sound
<1> QED
  BY <1>1, IndInvStep, PTL DEF Spec

\* Type correctness of the cluster.
THEOREM TypeCorrect == Spec => []TypeOK
<1>1. IndInv => TypeOK
  BY DEF IndInv, TypeOK, SoundPacket
<1> QED
  BY <1>1, Invariance, PTL

\* No chain of nodes disciplines its clocks in a circle: every FOLLOWER follows
\* and asks a lower-ID node, and every sample it holds came from one.
THEOREM TimingLoopFree == Spec => []NoTimingLoop
<1>1. IndInv => NoTimingLoop
  BY DEF IndInv, NoTimingLoop, Sound
<1> QED
  BY <1>1, Invariance, PTL

\* A LEADER names itself as leader and is not locked as follower.
THEOREM LeaderSelfConfident == Spec => []LeaderIsSelfConfident
<1>1. IndInv => LeaderIsSelfConfident
  BY DEF IndInv, LeaderIsSelfConfident, Sound
<1> QED
  BY <1>1, Invariance, PTL

=============================================================================

------------------------- MODULE ClusterStepProofs --------------------------
(***************************************************************************)
(* Proofs about the steps of a cluster, on top of ClusterProofs: what a    *)
(* handler may never do to the record of a node, for every set of nodes,   *)
(* packets, lock modes and durations.                                      *)
(*                                                                         *)
(* Two results need to know that certain commands are not given, and say   *)
(* so: FORCE_LEADER takes a node's term back, and it and FORCE_HOLDOVER    *)
(* take a node out of GROUND without a calibration.                        *)
(***************************************************************************)
EXTENDS ClusterProofs, TimedCluster

USE TermBoostAssumption, TicksAssumption, ClusterAssumption

\* A node locked as leader has the boosted term.
Boosted(s) == s.lock_mode = "AS_LEADER" => s.own_term = TermBoost

\* An active node has calibrated and armed the pulse engine.
Ready(s) == sm_is_active(s) => s.armed /\ s.calibrated

\* What a tick or command that leaves t of s does not do: make a FOLLOWER of a
\* node that was none, take back a term, leave GROUND and CALIBRATION too early.
NoFollower(s, t) == t.state = "FOLLOWER" => s.state = "FOLLOWER"
TermKept(s, t) == Boosted(s) => Boosted(t) /\ t.own_term >= s.own_term
ReadyKept(s, t) == Ready(s) => Ready(t)

\* What enter_state, discipline_reset, a failed or good calibration and the
\* flags of a request leave alone.
SameCore(s, t) == t.own_term = s.own_term /\ t.lock_mode = s.lock_mode
SameFlags(s, t) == t.armed = s.armed /\ (s.calibrated => t.calibrated)

LEMMA ResetFacts ==
    ASSUME NEW s \in SM(Node)
    PROVE  /\ discipline_reset(s) \in SM(Node)
           /\ discipline_reset(s).state = s.state
           /\ discipline_reset(s).samples = {} /\ discipline_reset(s).sync_req_pending = FALSE
           /\ discipline_reset(s).leader_node_id = s.leader_node_id
           /\ SameCore(s, discipline_reset(s)) /\ SameFlags(s, discipline_reset(s))
BY DEF SM, discipline_reset, SameCore, SameFlags

LEMMA CalibrateFacts ==
    ASSUME NEW s \in SM(Node), NEW c \in calibrate_loopback(s)
    PROVE  c \in SM(Node) /\ c.state = s.state /\ SameCore(s, c) /\ SameFlags(s, c)
BY DEF SM, calibrate_loopback, SameCore, SameFlags

LEMMA EnterFacts ==
    ASSUME NEW s \in SM(Node), NEW q \in States, NEW d \in Nat, NEW t, t = enter_state(s, q, d)
    PROVE  t \in SM(Node) /\ t.state = q /\ SameCore(s, t) /\ SameFlags(s, t)
BY EnterState DEF SameCore, SameFlags

\* A change of the state alone, to one that is not FOLLOWER and not active
\* unless the old one was.
LEMMA EnterKept ==
    ASSUME NEW s \in SM(Node), NEW t \in SM(Node), SameCore(s, t), SameFlags(s, t),
           NoFollower(s, t), sm_is_active(t) => sm_is_active(s)
    PROVE  TermKept(s, t) /\ ReadyKept(s, t)
BY DEF SM, SameCore, SameFlags, TermKept, ReadyKept, Boosted, Ready

\* A promotion goes to the next term, or the boosted one.
LEMMA LeaderKept ==
    ASSUME NEW n \in Node, NEW s \in SM(Node), NEW t \in enter_leader(n, s)
    PROVE  /\ t \in SM(Node) /\ t.state = "LEADER" /\ TermKept(s, t)
           /\ sm_is_active(s) => ReadyKept(s, t)
<1> DEFINE p == election_promote(n, s)
<1> DEFINE e == enter_state(p, "LEADER", 0)
<1>1. s.own_term \in Nat /\ s.own_term + 1 \in Nat /\ "LEADER" \in States /\ 0 \in Nat
  BY DEF SM, States
<1>2. /\ p \in SM(Node) /\ p.lock_mode = s.lock_mode
      /\ p.own_term = IF s.lock_mode = "AS_LEADER" THEN TermBoost ELSE s.own_term + 1
      /\ p.armed = s.armed /\ p.calibrated = s.calibrated
  BY <1>1 DEF SM, election_promote
<1> HIDE DEF p
<1>3. /\ e \in SM(Node) /\ e.state = "LEADER" /\ e.own_term = p.own_term /\ e.lock_mode = p.lock_mode
      /\ e.armed = p.armed /\ e.calibrated = p.calibrated
  BY <1>1, <1>2, EnterState
<1>4. t \in calibrate_loopback(e)
  BY DEF enter_leader, p
<1> HIDE DEF e
<1>5. t \in SM(Node) /\ t.state = "LEADER" /\ SameCore(e, t) /\ SameFlags(e, t)
  BY <1>3, <1>4, CalibrateFacts
<1> QED
  BY <1>1, <1>2, <1>3, <1>5 DEF SameCore, SameFlags, TermKept, ReadyKept, Boosted, Ready, sm_is_active

----------------------------------------------------------------------------
\* A tick makes no FOLLOWER, takes back no term, and leaves GROUND and
\* CALIBRATION for LISTEN only with the pulse engine armed.
LEMMA TickKept ==
    ASSUME NEW n \in Node, NEW s \in SM(Node), NEW r \in sm_tick(n, s)
    PROVE  r.sm \in SM(Node) /\ NoFollower(s, r.sm) /\ TermKept(s, r.sm) /\ ReadyKept(s, r.sm)
<1>q. {"CALIBRATION", "LISTEN", "CANDIDATE", "HOLDOVER"} \subseteq States
  BY DEF States
<1>1. CASE s.state = "GROUND" /\ s.timer = 0
  <2>1. r.sm = enter_state(s, "CALIBRATION", 0)
    BY <1>1 DEF sm_tick
  <2>2. /\ r.sm \in SM(Node) /\ r.sm.state = "CALIBRATION"
        /\ SameCore(s, r.sm) /\ SameFlags(s, r.sm)
    BY <1>q, <2>1, EnterFacts
  <2> QED
    BY <2>2, EnterKept DEF NoFollower, sm_is_active
<1>2. CASE s.state = "CALIBRATION"
  <2>1. r.sm \in calibration_tick(s)
    BY <1>2 DEF sm_tick
  <2> DEFINE z == [s EXCEPT !.calibrated = FALSE]
  <2>2. z \in SM(Node) /\ z.state = s.state /\ SameCore(s, z)
    BY DEF SM, SameCore
  <2>3. PICK c \in calibrate_loopback(z) :
           r.sm \in (IF c.calibrated THEN enter_listen([c EXCEPT !.armed = TRUE]) ELSE {c})
    BY <2>1 DEF calibration_tick
  <2> HIDE DEF z
  <2>4. c \in SM(Node) /\ c.state = "CALIBRATION" /\ SameCore(s, c)
    BY <1>2, <2>2, <2>3, CalibrateFacts DEF SameCore
  <2>5. CASE ~ c.calibrated
    <3>1. r.sm = c
      BY <2>3, <2>5
    <3> QED
      BY <2>4, <3>1 DEF NoFollower, TermKept, ReadyKept, Boosted, Ready, SameCore, sm_is_active, SM
  <2>6. CASE c.calibrated
    <3> DEFINE a == [c EXCEPT !.armed = TRUE]
    <3>1. a \in SM(Node) /\ a.armed /\ a.calibrated /\ SameCore(c, a)
      BY <2>4, <2>6 DEF SM, SameCore
    <3>2. r.sm \in enter_listen(a)
      BY <2>3, <2>6
    <3> HIDE DEF a
    <3>3. PICK d \in ElectionTicks : r.sm = enter_state(a, "LISTEN", d)
      BY <3>2 DEF enter_listen
    <3>4. /\ r.sm \in SM(Node) /\ r.sm.state = "LISTEN"
          /\ SameCore(a, r.sm) /\ SameFlags(a, r.sm)
      BY <1>q, <3>1, <3>3, EnterFacts
    <3> QED
      BY <2>4, <3>1, <3>4
      DEF NoFollower, TermKept, ReadyKept, Boosted, Ready, SameCore, SameFlags, SM
  <2> QED
    BY <2>5, <2>6
<1>3. CASE s.state = "LISTEN" /\ election_timed_out(s)
  <2>1. PICK d \in ElectionTicks : r.sm = enter_state(s, "CANDIDATE", d)
    BY <1>3 DEF sm_tick, enter_candidate
  <2>2. /\ r.sm \in SM(Node) /\ r.sm.state = "CANDIDATE"
        /\ SameCore(s, r.sm) /\ SameFlags(s, r.sm)
    BY <1>q, <2>1, EnterFacts
  <2> QED
    BY <1>3, <2>2, EnterKept DEF NoFollower, sm_is_active
<1>4. CASE s.state = "CANDIDATE" /\ election_timed_out(s)
  <2>1. r.sm \in enter_leader(n, s)
    BY <1>4 DEF sm_tick
  <2>2. sm_is_active(s)
    BY <1>4 DEF sm_is_active
  <2> QED
    BY <2>1, <2>2, LeaderKept DEF NoFollower
<1>5. CASE s.state = "FOLLOWER" /\ s.timer = 0
  <2>1. r.sm = enter_state(s, "HOLDOVER", HoldoverTicks)
    BY <1>5 DEF sm_tick, follower_tick, enter_holdover
  <2>2. /\ r.sm \in SM(Node) /\ r.sm.state = "HOLDOVER"
        /\ SameCore(s, r.sm) /\ SameFlags(s, r.sm)
    BY <1>q, <2>1, EnterFacts
  <2> QED
    BY <1>5, <2>2, EnterKept DEF NoFollower, sm_is_active
<1>6. CASE s.state = "FOLLOWER" /\ s.timer # 0
  <2> DEFINE idle == [s EXCEPT !.sync_req_pending = FALSE]
             sent == [s EXCEPT !.sync_req_pending = TRUE]
  <2>1. r.sm \in {s, idle, sent}
    BY <1>6 DEF sm_tick, follower_tick
  <2>2. \A x \in {s, idle, sent} : x \in SM(Node) /\ x.state = s.state /\ SameCore(s, x) /\ SameFlags(s, x)
    BY DEF SM, SameCore, SameFlags
  <2> HIDE DEF idle, sent
  <2> QED
    BY <1>6, <2>1, <2>2, EnterKept DEF NoFollower, sm_is_active
<1>7. CASE s.state = "HOLDOVER" /\ s.timer = 0
  <2>1. PICK c \in calibrate_loopback(s) : r.sm \in enter_candidate(discipline_reset(c))
    BY <1>7 DEF sm_tick, holdover_expired
  <2> DEFINE z == discipline_reset(c)
  <2>2. z \in SM(Node) /\ SameCore(s, z) /\ SameFlags(s, z)
    <3>1. c \in SM(Node) /\ SameCore(s, c) /\ SameFlags(s, c)
      BY <2>1, CalibrateFacts
    <3>2. z \in SM(Node) /\ SameCore(c, z) /\ SameFlags(c, z)
      BY <3>1, ResetFacts
    <3> HIDE DEF z
    <3> QED
      BY <3>1, <3>2 DEF SameCore, SameFlags
  <2>3. PICK d \in ElectionTicks : r.sm = enter_state(z, "CANDIDATE", d)
    BY <2>1 DEF enter_candidate
  <2> HIDE DEF z
  <2>4. /\ r.sm \in SM(Node) /\ r.sm.state = "CANDIDATE"
        /\ SameCore(s, r.sm) /\ SameFlags(s, r.sm)
    <3>1. /\ r.sm \in SM(Node) /\ r.sm.state = "CANDIDATE"
          /\ SameCore(z, r.sm) /\ SameFlags(z, r.sm)
      BY <1>q, <2>2, <2>3, EnterFacts
    <3> QED
      BY <2>2, <3>1 DEF SameCore, SameFlags
  <2> QED
    BY <1>7, <2>4, EnterKept DEF NoFollower, sm_is_active
<1>8. CASE r.sm = s
  BY <1>8 DEF NoFollower, TermKept, ReadyKept, SM
<1> QED
  <2>1. s.state \in States
    BY DEF SM
  <2> QED
    BY <1>1, <1>2, <1>3, <1>4, <1>5, <1>6, <1>7, <1>8, <2>1 DEF sm_tick

\* No command makes a FOLLOWER; only FORCE_LEADER takes back a term, and only it
\* and FORCE_HOLDOVER make a node active.
LEMMA CommandKept ==
    ASSUME NEW n \in Node, NEW s \in SM(Node), NEW cmd, NEW t \in sm_on_command(n, s, cmd)
    PROVE  /\ t \in SM(Node) /\ NoFollower(s, t)
           /\ cmd # "FORCE_LEADER" => TermKept(s, t)
           /\ cmd \notin {"FORCE_LEADER", "FORCE_HOLDOVER"} => ReadyKept(s, t)
<1>q. {"LISTEN", "CANDIDATE", "HOLDOVER"} \subseteq States
  BY DEF States
<1>1. CASE cmd = "RECALIBRATE"
  <2>1. PICK c \in calibrate_loopback(s) : t = discipline_reset(c)
    BY <1>1 DEF sm_on_command
  <2>2. t \in SM(Node) /\ t.state = s.state /\ SameCore(s, t) /\ SameFlags(s, t)
    <3>1. c \in SM(Node) /\ c.state = s.state /\ SameCore(s, c) /\ SameFlags(s, c)
      BY <2>1, CalibrateFacts
    <3>2. t \in SM(Node) /\ t.state = c.state /\ SameCore(c, t) /\ SameFlags(c, t)
      BY <2>1, <3>1, ResetFacts
    <3> QED
      BY <3>1, <3>2 DEF SameCore, SameFlags
  <2> QED
    BY <2>2, EnterKept DEF NoFollower, sm_is_active
<1>2. CASE cmd = "FORCE_HOLDOVER"
  <2>1. t = enter_state(s, "HOLDOVER", HoldoverTicks)
    BY <1>2 DEF sm_on_command, enter_holdover
  <2>2. /\ t \in SM(Node) /\ t.state = "HOLDOVER"
        /\ SameCore(s, t) /\ SameFlags(s, t)
    BY <1>q, <2>1, EnterFacts
  <2> QED
    BY <1>2, <2>2 DEF NoFollower, TermKept, Boosted, SameCore, SM
<1>3. CASE cmd = "FORCE_DEMOTE" /\ s.state = "LEADER"
  <2>1. PICK d \in ElectionTicks : t = enter_state(s, "CANDIDATE", d)
    BY <1>3 DEF sm_on_command, enter_candidate
  <2>2. /\ t \in SM(Node) /\ t.state = "CANDIDATE"
        /\ SameCore(s, t) /\ SameFlags(s, t)
    BY <1>q, <2>1, EnterFacts
  <2> QED
    BY <1>3, <2>2, EnterKept DEF NoFollower, sm_is_active
<1>4. CASE cmd = "RESET_FILTERS"
  <2>1. t = discipline_reset(s)
    BY <1>4 DEF sm_on_command
  <2> QED
    BY <2>1, ResetFacts, EnterKept DEF NoFollower, sm_is_active
<1>5. CASE cmd = "FORCE_LEADER"
  <2> DEFINE l == [s EXCEPT !.lock_mode = "AS_LEADER", !.own_term = @ + TermBoost]
  <2>1. t \in enter_leader(n, l)
    BY <1>5 DEF sm_on_command
  <2>2. s.own_term + TermBoost \in Nat
    BY DEF SM
  <2>3. l \in SM(Node)
    BY <2>2 DEF SM, LockModes
  <2> HIDE DEF l
  <2> QED
    BY <1>5, <2>1, <2>3, LeaderKept DEF NoFollower
<1>6. CASE cmd = "FORCE_FOLLOWER"
  <2> DEFINE l == [s EXCEPT !.lock_mode = "AS_FOLLOWER"]
  <2>1. t \in (IF s.state = "LEADER" THEN enter_listen(l) ELSE {l})
    BY <1>6 DEF sm_on_command
  <2>2. /\ l \in SM(Node) /\ l.state = s.state /\ l.lock_mode = "AS_FOLLOWER"
        /\ l.own_term = s.own_term /\ l.armed = s.armed /\ l.calibrated = s.calibrated
    BY DEF SM, LockModes
  <2> HIDE DEF l
  <2>3. CASE s.state = "LEADER"
    <3>1. PICK d \in ElectionTicks : t = enter_state(l, "LISTEN", d)
      BY <2>1, <2>3 DEF enter_listen
    <3>2. /\ t \in SM(Node) /\ t.state = "LISTEN"
          /\ SameCore(l, t) /\ SameFlags(l, t)
      BY <1>q, <2>2, <3>1, EnterFacts
    <3> QED
      BY <2>2, <2>3, <3>2
      DEF NoFollower, TermKept, ReadyKept, Boosted, Ready, SameCore, SameFlags, sm_is_active, SM
  <2>4. CASE s.state # "LEADER"
    BY <2>1, <2>2, <2>4 DEF NoFollower, TermKept, ReadyKept, Boosted, Ready, sm_is_active, SM
  <2> QED
    BY <2>3, <2>4
<1>7. CASE cmd = "AUTO_MODE"
  <2>1. t = [s EXCEPT !.lock_mode = "AUTO"]
    BY <1>7 DEF sm_on_command
  <2>2. /\ t \in SM(Node) /\ t.state = s.state /\ t.lock_mode = "AUTO"
        /\ t.own_term = s.own_term /\ t.armed = s.armed /\ t.calibrated = s.calibrated
    BY <2>1 DEF SM, LockModes
  <2> QED
    BY <2>2 DEF NoFollower, TermKept, ReadyKept, Boosted, Ready, sm_is_active, SM
<1>8. CASE t = s
  BY <1>8 DEF NoFollower, TermKept, ReadyKept, SM
<1> QED
  BY <1>1, <1>2, <1>3, <1>4, <1>5, <1>6, <1>7, <1>8 DEF sm_on_command

----------------------------------------------------------------------------
\* The discipline is empty.
Blank(s) == s.samples = {} /\ ~ s.sync_req_pending

\* The election rules never go back to an older term, and do not move a node
\* locked as leader.
LEMMA ElectionKept ==
    ASSUME NEW n \in Node, NEW s \in SM(Node), NEW pkt \in Announce, pkt.node_id # n
    PROVE  LET e == election_on_announce(n, s, pkt) IN
           /\ SameFlags(s, e.sm)
           /\ e.sm.own_term >= s.own_term
           /\ s.lock_mode = "AS_LEADER" => e.sm = s /\ ~ e.become_follower
<1>p. pkt.election_term \in Nat /\ s.own_term \in Nat /\ pkt.node_id \in Node
  BY DEF Announce, SM
<1> DEFINE el == election_on_announce(n, s, pkt)
           adopted == [s EXCEPT !.own_term = pkt.election_term]
           y == [s EXCEPT !.own_term = pkt.election_term, !.leader_node_id = pkt.node_id]
<1>1. /\ adopted.own_term = pkt.election_term /\ SameFlags(s, adopted)
      /\ y.own_term = pkt.election_term /\ SameFlags(s, y)
  BY DEF SM, SameFlags
<1>2. \/ el = [sm |-> s, become_follower |-> FALSE]
      \/ /\ el = [sm |-> adopted, become_follower |-> FALSE]
         /\ s.lock_mode # "AS_LEADER" /\ pkt.election_term >= s.own_term
      \/ /\ el = [sm |-> y, become_follower |-> TRUE]
         /\ s.lock_mode # "AS_LEADER" /\ pkt.election_term >= s.own_term
  BY <1>p DEF election_on_announce, NoChange, Yield
<1> HIDE DEF el, adopted, y
<1>3. CASE el = [sm |-> s, become_follower |-> FALSE]
  <2>1. el.sm = s /\ el.become_follower = FALSE
    BY <1>3
  <2> QED
    BY <1>p, <2>1 DEF SameFlags, el
<1>4. CASE s.lock_mode # "AS_LEADER" /\ el.sm \in {adopted, y} /\ pkt.election_term >= s.own_term
  BY <1>p, <1>1, <1>4 DEF el
<1> QED
  BY <1>2, <1>3, <1>4

\* Whoever enters FOLLOWER keeps his term and his calibration, and an empty
\* discipline stays empty.
LEMMA FollowKept ==
    ASSUME NEW s \in SM(Node), sm_is_active(s), NEW pkt, pkt.node_id \in Node,
           NEW t, t = enter_follower(s, pkt)
    PROVE  /\ t \in SM(Node) /\ t.state = "FOLLOWER" /\ SameCore(s, t) /\ SameFlags(s, t)
           /\ Blank(s) => Blank(t)
<1> DEFINE f == [s EXCEPT !.leader_node_id = pkt.node_id, !.leader_addr = pkt.node_id]
<1>1. /\ f \in SM(Node) /\ SameCore(s, f) /\ SameFlags(s, f)
      /\ f.samples = s.samples /\ f.sync_req_pending = s.sync_req_pending
  BY DEF SM, SameCore, SameFlags
<1>2. PICK g \in {f, discipline_reset(f)} : t = enter_state(g, "FOLLOWER", FollowerTicks)
  BY DEF enter_follower
<1> HIDE DEF f
<1>3. /\ g \in SM(Node) /\ SameCore(f, g) /\ SameFlags(f, g)
      /\ Blank(f) => Blank(g)
  <2>1. CASE g = f
    BY <1>1, <2>1 DEF SameCore, SameFlags
  <2>2. CASE g = discipline_reset(f)
    BY <1>1, <2>2, ResetFacts DEF Blank
  <2> QED
    BY <1>2, <2>1, <2>2
<1>4. "FOLLOWER" \in States /\ FollowerTicks \in Nat
  BY DEF States
<1>5. /\ t \in SM(Node) /\ t.state = "FOLLOWER" /\ SameCore(g, t) /\ SameFlags(g, t)
      /\ t.samples = g.samples /\ t.sync_req_pending = g.sync_req_pending
  BY <1>2, <1>3, <1>4, EnterState, EnterFacts
<1> QED
  BY <1>1, <1>3, <1>5 DEF SameCore, SameFlags, Blank

\* What an ANNOUNCE does to a node: it takes back no term, it makes nobody a
\* FOLLOWER who has not calibrated, it moves a LEADER only if it comes from
\* below, who stops leading or comes back from HOLDOVER does so empty, and a node
\* locked as leader yields in the two cases of LockedLeaderYields.
LEMMA AnnounceKept ==
    ASSUME NEW n \in Node, NEW s \in SM(Node), NEW pkt \in Announce, pkt.node_id # n,
           NEW t, t = sm_on_announce(n, s, pkt)
    PROVE  /\ TermKept(s, t) /\ ReadyKept(s, t)
           /\ s.state = "LEADER" /\ t.state # "LEADER" => pkt.node_id < n
           /\ s.state \in {"LEADER", "HOLDOVER"} /\ t.state = "FOLLOWER" => Blank(t)
           /\ s.lock_mode = "AS_LEADER" /\ s.state # "FOLLOWER" /\ t.state = "FOLLOWER" =>
                 \/ /\ s.state \in {"LISTEN", "CANDIDATE"}
                    /\ pkt.election_term = s.own_term /\ pkt.node_id < n
                 \/ s.state = "HOLDOVER" /\ pkt.node_id = s.leader_node_id
<1> DEFINE el == election_on_announce(n, s, pkt)
           e == el.sm
           refreshed == [e EXCEPT !.timer = FollowerTicks]
<1>p. pkt.node_id \in Node /\ s.own_term \in Nat
  BY DEF Announce, SM
<1>e. /\ e \in SM(Node) /\ e.state = s.state /\ e.lock_mode = s.lock_mode
      /\ el.become_follower \in BOOLEAN
      /\ el.become_follower => pkt.node_id < n
  BY ElectionFacts
<1>k. /\ SameFlags(s, e) /\ e.own_term >= s.own_term
      /\ s.lock_mode = "AS_LEADER" => e = s /\ ~ el.become_follower
  BY ElectionKept
<1>r. /\ refreshed \in SM(Node) /\ refreshed.state = s.state
      /\ SameCore(e, refreshed) /\ SameFlags(e, refreshed)
  BY <1>e DEF SM, SameCore, SameFlags
<1> DEFINE d == discipline_reset(e)
<1>d. d \in SM(Node) /\ d.state = s.state /\ SameCore(e, d) /\ SameFlags(e, d) /\ Blank(d)
  BY <1>e, ResetFacts DEF Blank
\* The record that is left is e or refreshed, or the FOLLOWER made of one of three.
<1>1. \/ t \in {e, refreshed}
      \/ sm_is_active(s) /\ \E x \in {e, refreshed, d} : t = enter_follower(x, pkt)
  BY DEF sm_on_announce, sm_is_active
<1>2. /\ s.state \in {"LEADER", "HOLDOVER"} => t = e \/ t = enter_follower(d, pkt)
      /\ s.state = "LEADER" /\ ~ el.become_follower => t = e
      /\ s.state = "HOLDOVER" /\ t # e => el.become_follower \/ pkt.node_id = e.leader_node_id
      /\ s.state \in {"LISTEN", "CANDIDATE"} /\ t # e =>
            el.become_follower \/ (pkt.election_term = e.own_term /\ pkt.node_id < n)
      /\ s.state \in {"GROUND", "CALIBRATION"} => t = e
  BY DEF sm_on_announce
<1> HIDE DEF el, e, refreshed, d
<1>3. ASSUME NEW x \in {e, refreshed, d}
      PROVE  x \in SM(Node) /\ x.state = s.state /\ SameCore(e, x) /\ SameFlags(e, x)
  BY <1>e, <1>r, <1>d DEF SameCore, SameFlags
<1>4. /\ t \in SM(Node) /\ SameCore(e, t) /\ SameFlags(e, t)
      /\ t.state = s.state \/ (t.state = "FOLLOWER" /\ sm_is_active(s))
  <2>1. CASE t \in {e, refreshed}
    BY <1>3, <2>1
  <2>2. CASE sm_is_active(s) /\ \E x \in {e, refreshed, d} : t = enter_follower(x, pkt)
    <3>1. PICK x \in {e, refreshed, d} : t = enter_follower(x, pkt)
      BY <2>2
    <3>2. x \in SM(Node) /\ x.state = s.state /\ SameCore(e, x) /\ SameFlags(e, x) /\ sm_is_active(x)
      BY <1>3, <2>2 DEF sm_is_active
    <3>3. t \in SM(Node) /\ t.state = "FOLLOWER" /\ SameCore(x, t) /\ SameFlags(x, t)
      BY <1>p, <3>1, <3>2, FollowKept
    <3> QED
      BY <2>2, <3>2, <3>3 DEF SameCore, SameFlags
  <2> QED
    BY <1>1, <2>1, <2>2
<1>5. TermKept(s, t)
  BY <1>e, <1>k, <1>4 DEF TermKept, Boosted, SameCore
<1>6. ReadyKept(s, t)
  BY <1>k, <1>4 DEF ReadyKept, Ready, SameFlags, sm_is_active
<1>7. s.state = "LEADER" /\ t.state # "LEADER" => pkt.node_id < n
  BY <1>e, <1>2
<1>8. s.state \in {"LEADER", "HOLDOVER"} /\ t.state = "FOLLOWER" => Blank(t)
  <2> SUFFICES ASSUME s.state \in {"LEADER", "HOLDOVER"}, t.state = "FOLLOWER" PROVE Blank(t)
    OBVIOUS
  <2>1. t = enter_follower(d, pkt) /\ sm_is_active(d)
    BY <1>2, <1>e, <1>d DEF sm_is_active
  <2> QED
    BY <2>1, <1>d, <1>p, FollowKept
<1>9. s.lock_mode = "AS_LEADER" /\ s.state # "FOLLOWER" /\ t.state = "FOLLOWER" =>
         \/ /\ s.state \in {"LISTEN", "CANDIDATE"}
            /\ pkt.election_term = s.own_term /\ pkt.node_id < n
         \/ s.state = "HOLDOVER" /\ pkt.node_id = s.leader_node_id
  <2>1. s.state \in States
    BY DEF SM
  <2> QED
    BY <1>e, <1>k, <1>2, <2>1 DEF States
<1> QED
  BY <1>5, <1>6, <1>7, <1>8, <1>9

\* A SYNC_RESP changes no state, term, lock or flag.
LEMMA SyncRespKept ==
    ASSUME NEW s \in SM(Node), NEW pkt \in SyncPacket, NEW t \in sm_on_sync_resp(s, pkt)
    PROVE  /\ t \in SM(Node) /\ t.state = s.state /\ SameCore(s, t) /\ SameFlags(s, t)
           /\ TermKept(s, t) /\ ReadyKept(s, t)
<1>1. t \in SM(Node) /\ t.state = s.state /\ SameCore(s, t) /\ SameFlags(s, t)
  <2>1. CASE t = s
    BY <2>1 DEF SameCore, SameFlags
  <2>2. CASE t # s
    <3>1. PICK h \in {s.samples \cup {pkt.node_id}, {}} :
                t = [s EXCEPT !.sync_req_pending = FALSE, !.samples = h]
      BY <2>2 DEF sm_on_sync_resp
    <3>2. h \in SUBSET Node
      BY <3>1 DEF SM, SyncPacket
    <3> QED
      BY <3>1, <3>2 DEF SM, SameCore, SameFlags
  <2> QED
    BY <2>1, <2>2
<1> QED
  BY <1>1, EnterKept DEF NoFollower, sm_is_active

----------------------------------------------------------------------------
\* What may have happened to a node in a step.
LEMMA StepOfNode ==
    ASSUME IndInv, [Next]_vars, NEW n \in Node
    PROVE  \/ sm'[n] = sm[n]
           \/ n \notin up' /\ sm'[n] = sm_init(BootLock[n])
           \/ \E r \in sm_tick(n, Elapse(sm[n])) : \E cmd \in Enabled \cup {"NONE"} :
                 sm'[n] \in sm_on_command(n, r.sm, cmd)
           \/ \E p \in net : /\ p \in Announce /\ p.to = n /\ p.node_id # n
                             /\ sm'[n] = sm_on_announce(n, sm[n], p)
           \/ \E p \in net : p \in SyncPacket /\ sm'[n] \in sm_on_sync_resp(sm[n], p)
<1>1. sm \in [Node -> SM(Node)]
  BY DEF IndInv
<1>2. ASSUME NEW m \in Node, MainTick(m)
      PROVE  \/ sm'[n] = sm[n]
             \/ \E r \in sm_tick(n, Elapse(sm[n])) : \E cmd \in Enabled \cup {"NONE"} :
                   sm'[n] \in sm_on_command(n, r.sm, cmd)
  <2>1. PICK r \in sm_tick(m, Elapse(sm[m])) : \E cmd \in Enabled \cup {"NONE"} :
           \E t \in sm_on_command(m, r.sm, cmd) : sm' = [sm EXCEPT ![m] = t]
    BY <1>2 DEF MainTick
  <2>2. CASE m = n
    BY <1>1, <2>1, <2>2
  <2>3. CASE m # n
    BY <1>1, <2>1, <2>3
  <2> QED
    BY <2>2, <2>3
<1>3. ASSUME NEW m \in Node, Heartbeat(m) \/ Crash(m) \/ Start(m)
      PROVE  sm'[n] = sm[n] \/ (n \notin up' /\ sm'[n] = sm_init(BootLock[n]))
  BY <1>1, <1>3 DEF Heartbeat, Crash, Start
<1>4. ASSUME NEW p \in net, Receive(p)
      PROVE  \/ sm'[n] = sm[n]
             \/ /\ p \in Announce /\ p.to = n /\ p.node_id # n
                /\ sm'[n] = sm_on_announce(n, sm[n], p)
             \/ p \in SyncPacket /\ sm'[n] \in sm_on_sync_resp(sm[n], p)
  <2>1. SoundPacket(p)
    BY DEF IndInv
  <2>2. CASE p.type = "ANNOUNCE" /\ sm' = [sm EXCEPT ![p.to] = sm_on_announce(p.to, sm[p.to], p)]
    <3>1. p \in Announce /\ p.node_id # p.to
      BY <2>1, <2>2 DEF SoundPacket, SyncPacket
    <3> QED
      BY <1>1, <2>2, <3>1
  <2>3. CASE sm' = sm
    BY <2>3
  <2>4. CASE p.type = "SYNC_RESP" /\ \E t \in sm_on_sync_resp(sm[p.to], p) : sm' = [sm EXCEPT ![p.to] = t]
    <3>1. p \in SyncPacket
      BY <2>1, <2>4 DEF SoundPacket, Announce
    <3> QED
      BY <1>1, <2>4, <3>1
  <2> QED
    BY <1>4, <2>2, <2>3, <2>4 DEF Receive, ReceiveAnnounce, ReceiveSyncReq, ReceiveSyncResp
<1>5. ASSUME NEW p \in net, Lose(p) PROVE sm'[n] = sm[n]
  BY <1>5 DEF Lose
<1>6. CASE UNCHANGED vars
  BY <1>6 DEF vars
<1> QED
  BY <1>2, <1>3, <1>4, <1>5, <1>6 DEF Next

\* The passing of 50 ms only counts down.
LEMMA ElapseKept ==
    ASSUME NEW s \in SM(Node)
    PROVE  LET t == Elapse(s) IN
           t \in SM(Node) /\ t.state = s.state /\ SameCore(s, t) /\ SameFlags(s, t)
BY DEF SM, Elapse, SameCore, SameFlags

\* The main loop's tick, sm_tick and the command after it.
LEMMA MainTickKept ==
    ASSUME NEW n \in Node, NEW s \in SM(Node), NEW r \in sm_tick(n, Elapse(s)), NEW cmd,
           NEW t \in sm_on_command(n, r.sm, cmd)
    PROVE  /\ NoFollower(s, t)
           /\ cmd # "FORCE_LEADER" => TermKept(s, t)
           /\ cmd \notin {"FORCE_LEADER", "FORCE_HOLDOVER"} => ReadyKept(s, t)
<1> DEFINE x == Elapse(s)
<1>1. /\ x \in SM(Node) /\ x.state = s.state /\ SameCore(s, x) /\ SameFlags(s, x)
      /\ r \in sm_tick(n, x)
  BY ElapseKept
<1> HIDE DEF x
<1>2. NoFollower(s, x) /\ TermKept(s, x) /\ ReadyKept(s, x)
  BY <1>1, EnterKept DEF NoFollower, sm_is_active
<1>3. r.sm \in SM(Node) /\ NoFollower(x, r.sm) /\ TermKept(x, r.sm) /\ ReadyKept(x, r.sm)
  BY <1>1, TickKept
<1>4. /\ t \in SM(Node) /\ NoFollower(r.sm, t)
      /\ cmd # "FORCE_LEADER" => TermKept(r.sm, t)
      /\ cmd \notin {"FORCE_LEADER", "FORCE_HOLDOVER"} => ReadyKept(r.sm, t)
  BY <1>3, CommandKept
<1>5. s.own_term \in Nat /\ x.own_term \in Nat /\ r.sm.own_term \in Nat /\ t.own_term \in Nat
  BY <1>1, <1>3, <1>4 DEF SM
<1> QED
  BY <1>2, <1>3, <1>4, <1>5 DEF NoFollower, TermKept, ReadyKept

----------------------------------------------------------------------------
\* No packet displaces the lowest ID from leadership, for any number of nodes
\* and any terms (election_on_announce, sm_on_announce).
THEOREM LowestStays == Spec => LowestLeaderStays
<1>1. IndInv => [\A p \in net :
                    /\ sm[p.to].state = "LEADER" /\ sm'[p.to].state # "LEADER"
                    /\ \A m \in Node : p.to <= m
                    => ~ Receive(p)]_vars
  <2> SUFFICES ASSUME IndInv, NEW p \in net, sm[p.to].state = "LEADER", sm'[p.to].state # "LEADER",
                      \A m \in Node : p.to <= m, Receive(p)
               PROVE  FALSE
    OBVIOUS
  <2>1. SoundPacket(p) /\ sm \in [Node -> SM(Node)]
    BY DEF IndInv
  <2>2. p.to \in Node /\ sm[p.to] \in SM(Node)
    BY <2>1 DEF SoundPacket, Announce, SyncPacket
  <2>3. CASE p.type = "ANNOUNCE" /\ sm' = [sm EXCEPT ![p.to] = sm_on_announce(p.to, sm[p.to], p)]
    <3>1. p \in Announce /\ p.node_id # p.to /\ p.node_id \in Node
      BY <2>1, <2>3 DEF SoundPacket, Announce, SyncPacket
    <3>2. sm'[p.to] = sm_on_announce(p.to, sm[p.to], p)
      BY <2>1, <2>2, <2>3
    <3>3. p.node_id < p.to
      BY <2>2, <3>1, <3>2, AnnounceKept
    <3>4. p.to <= p.node_id /\ p.to \in Nat /\ p.node_id \in Nat
      BY <2>2, <3>1
    <3> QED
      BY ONLY <3>3, <3>4
  <2>4. CASE sm' = sm
    BY <2>4
  <2>5. CASE p.type = "SYNC_RESP" /\ \E t \in sm_on_sync_resp(sm[p.to], p) : sm' = [sm EXCEPT ![p.to] = t]
    <3>1. p \in SyncPacket /\ sm'[p.to] \in sm_on_sync_resp(sm[p.to], p)
      BY <2>1, <2>2, <2>5 DEF SoundPacket, Announce
    <3>2. sm'[p.to].state = sm[p.to].state
      BY ONLY <2>2, <3>1, SyncRespKept
    <3> QED
      BY <3>2
  <2> QED
    BY <2>3, <2>4, <2>5 DEF Receive, ReceiveAnnounce, ReceiveSyncReq, ReceiveSyncResp
<1> QED
  BY <1>1, Invariance, PTL DEF LowestLeaderStays

\* A leader that steps down, and a node that comes back from HOLDOVER, starts its
\* discipline afresh, whatever commands are given (sm_on_announce).
THEOREM ReacquireResets == Spec => ResetOnReacquire
<1>1. IndInv /\ [Next]_vars =>
         [\A n \in up \cap up' :
             /\ sm[n].state \in {"LEADER", "HOLDOVER"}
             /\ sm'[n].state = "FOLLOWER"
             => sm'[n].samples = {} /\ ~ sm'[n].sync_req_pending]_vars
  <2> SUFFICES ASSUME IndInv, [Next]_vars, NEW n \in up \cap up',
                      sm[n].state \in {"LEADER", "HOLDOVER"}, sm'[n].state = "FOLLOWER"
               PROVE  Blank(sm'[n])
    BY DEF Blank
  <2>1. n \in Node /\ sm[n] \in SM(Node)
    BY DEF IndInv
  <2>2. ASSUME NEW r \in sm_tick(n, Elapse(sm[n])), NEW cmd \in Enabled \cup {"NONE"},
               sm'[n] \in sm_on_command(n, r.sm, cmd)
        PROVE  FALSE
    <3>1. NoFollower(sm[n], sm'[n])
      BY <2>1, <2>2, MainTickKept
    <3> QED
      BY <3>1 DEF NoFollower
  <2>3. ASSUME NEW p \in net, p \in Announce, p.to = n, p.node_id # n,
               sm'[n] = sm_on_announce(n, sm[n], p)
        PROVE  Blank(sm'[n])
    <3>1. sm[n].state \in {"LEADER", "HOLDOVER"} /\ sm'[n].state = "FOLLOWER" => Blank(sm'[n])
      BY ONLY <2>1, <2>3, AnnounceKept
    <3> QED
      BY <3>1
  <2>4. ASSUME NEW p \in net, p \in SyncPacket, sm'[n] \in sm_on_sync_resp(sm[n], p)
        PROVE  FALSE
    BY <2>1, <2>4, SyncRespKept
  <2> QED
    BY <2>1, <2>2, <2>3, <2>4, StepOfNode
<1> QED
  BY <1>1, Invariance, PTL DEF Spec, ResetOnReacquire

\* The leader lock holds against packets but for the two cases named, whatever
\* commands are given (election_on_announce, sm_on_announce).
THEOREM LockYieldsOnlyThen == Spec => LockedLeaderYields
<1>1. IndInv /\ [Next]_vars =>
         [\A n \in up \cap up' :
             /\ sm[n].lock_mode = "AS_LEADER"
             /\ sm[n].state # "FOLLOWER" /\ sm'[n].state = "FOLLOWER"
             => \E p \in net :
                   /\ p.to = n /\ p.type = "ANNOUNCE"
                   /\ \/ /\ sm[n].state \in {"LISTEN", "CANDIDATE"}
                         /\ p.election_term = sm[n].own_term /\ p.node_id < n
                      \/ sm[n].state = "HOLDOVER" /\ p.node_id = sm[n].leader_node_id]_vars
  <2> SUFFICES ASSUME IndInv, [Next]_vars, NEW n \in up \cap up', sm[n].lock_mode = "AS_LEADER",
                      sm[n].state # "FOLLOWER", sm'[n].state = "FOLLOWER"
               PROVE  \E p \in net :
                   /\ p.to = n /\ p.type = "ANNOUNCE"
                   /\ \/ /\ sm[n].state \in {"LISTEN", "CANDIDATE"}
                         /\ p.election_term = sm[n].own_term /\ p.node_id < n
                      \/ sm[n].state = "HOLDOVER" /\ p.node_id = sm[n].leader_node_id
    OBVIOUS
  <2>1. n \in Node /\ sm[n] \in SM(Node)
    BY DEF IndInv
  <2>2. ASSUME NEW r \in sm_tick(n, Elapse(sm[n])), NEW cmd \in Enabled \cup {"NONE"},
               sm'[n] \in sm_on_command(n, r.sm, cmd)
        PROVE  FALSE
    <3>1. NoFollower(sm[n], sm'[n])
      BY <2>1, <2>2, MainTickKept
    <3> QED
      BY <3>1 DEF NoFollower
  <2>4. ASSUME NEW p \in net, p \in SyncPacket, sm'[n] \in sm_on_sync_resp(sm[n], p)
        PROVE  FALSE
    BY <2>1, <2>4, SyncRespKept
  <2>5. PICK p \in net : p \in Announce /\ p.to = n /\ p.node_id # n /\ sm'[n] = sm_on_announce(n, sm[n], p)
    BY <2>1, <2>2, <2>4, StepOfNode
  <2>6. p.type = "ANNOUNCE"
    BY <2>5 DEF Announce
  <2>7. \/ /\ sm[n].state \in {"LISTEN", "CANDIDATE"}
           /\ p.election_term = sm[n].own_term /\ p.node_id < n
        \/ sm[n].state = "HOLDOVER" /\ p.node_id = sm[n].leader_node_id
    <3> DEFINE s == sm[n]
               t == sm'[n]
    <3>1. s \in SM(Node) /\ t = sm_on_announce(n, s, p) /\ p \in Announce /\ p.node_id # n /\ n \in Node
      BY <2>1, <2>5
    <3>2. s.lock_mode = "AS_LEADER" /\ s.state # "FOLLOWER" /\ t.state = "FOLLOWER"
      OBVIOUS
    <3> HIDE DEF s, t
    <3>3. \/ /\ s.state \in {"LISTEN", "CANDIDATE"}
             /\ p.election_term = s.own_term /\ p.node_id < n
          \/ s.state = "HOLDOVER" /\ p.node_id = s.leader_node_id
      BY ONLY <3>1, <3>2, AnnounceKept
    <3> QED
      BY <3>3 DEF s
  <2> QED
    BY <2>5, <2>6, <2>7
<1> QED
  BY <1>1, Invariance, PTL DEF Spec, LockedLeaderYields

----------------------------------------------------------------------------
\* The record of a node that has crashed or not started is that of sm_init.
LEMMA InitKept ==
    ASSUME NEW lock \in LockModes
    PROVE  Boosted(sm_init(lock)) /\ Ready(sm_init(lock))
BY DEF Boosted, Ready, sm_init, election_init_term, sm_is_active

\* One step of the term and readiness of one node.
LEMMA StepKept ==
    ASSUME IndInv, [Next]_vars, NEW n \in Node
    PROVE  \/ n \notin up' /\ sm'[n] = sm_init(BootLock[n])
           \/ /\ "FORCE_LEADER" \notin Enabled => TermKept(sm[n], sm'[n])
              /\ {"FORCE_LEADER", "FORCE_HOLDOVER"} \cap Enabled = {} => ReadyKept(sm[n], sm'[n])
<1> DEFINE s == sm[n]
           t == sm'[n]
<1>1. s \in SM(Node)
  BY DEF IndInv
<1>2. \/ t = s
      \/ n \notin up' /\ t = sm_init(BootLock[n])
      \/ \E r \in sm_tick(n, Elapse(s)) : \E cmd \in Enabled \cup {"NONE"} : t \in sm_on_command(n, r.sm, cmd)
      \/ \E p \in net : p \in Announce /\ p.node_id # n /\ t = sm_on_announce(n, s, p)
      \/ \E p \in net : p \in SyncPacket /\ t \in sm_on_sync_resp(s, p)
  BY StepOfNode
<1> HIDE DEF s, t
<1>3. CASE t = s
  BY <1>1, <1>3 DEF TermKept, ReadyKept, SM, s, t
<1>4. ASSUME NEW r \in sm_tick(n, Elapse(s)), NEW cmd \in Enabled \cup {"NONE"},
             t \in sm_on_command(n, r.sm, cmd)
      PROVE  /\ "FORCE_LEADER" \notin Enabled => TermKept(s, t)
             /\ {"FORCE_LEADER", "FORCE_HOLDOVER"} \cap Enabled = {} => ReadyKept(s, t)
  <2>1. /\ cmd # "FORCE_LEADER" => TermKept(s, t)
        /\ cmd \notin {"FORCE_LEADER", "FORCE_HOLDOVER"} => ReadyKept(s, t)
    BY ONLY <1>1, <1>4, n \in Node, MainTickKept
  <2> QED
    BY <2>1
<1>5. ASSUME NEW p \in net, p \in Announce, p.node_id # n, t = sm_on_announce(n, s, p)
      PROVE  TermKept(s, t) /\ ReadyKept(s, t)
  BY ONLY <1>1, <1>5, n \in Node, AnnounceKept
<1>6. ASSUME NEW p \in net, p \in SyncPacket, t \in sm_on_sync_resp(s, p)
      PROVE  TermKept(s, t) /\ ReadyKept(s, t)
  BY ONLY <1>1, <1>6, SyncRespKept
<1> QED
  BY <1>2, <1>3, <1>4, <1>5, <1>6 DEF s, t

\* While a process runs its term never decreases, as long as nobody gives the
\* command FORCE_LEADER: a node locked as leader on its command line has the
\* boosted term from the start (election_init, election_promote,
\* election_on_announce).
THEOREM TermsNeverDecrease ==
    ASSUME "FORCE_LEADER" \notin Enabled
    PROVE  Spec => TermNeverDecreases
<1> DEFINE BoostInv == \A n \in Node : Boosted(sm[n])
<1>1. Init => BoostInv
  BY InitKept DEF Init
<1>2. IndInv /\ BoostInv /\ [Next]_vars => BoostInv'
  <2> SUFFICES ASSUME IndInv, BoostInv, [Next]_vars, NEW n \in Node PROVE Boosted(sm'[n])
    BY DEF Boosted
  <2>1. Boosted(sm_init(BootLock[n])) /\ Boosted(sm[n])
    BY InitKept
  <2> QED
    BY <2>1, StepKept DEF TermKept
<1>3. IndInv /\ BoostInv /\ [Next]_vars =>
         [\A n \in up \cap up' : sm'[n].own_term >= sm[n].own_term]_vars
  <2> SUFFICES ASSUME IndInv, BoostInv, [Next]_vars, NEW n \in up \cap up'
               PROVE  sm'[n].own_term >= sm[n].own_term
    OBVIOUS
  <2>1. n \in Node
    BY DEF IndInv
  <2> QED
    BY <2>1, StepKept DEF TermKept
<1> QED
  BY <1>1, <1>2, <1>3, Invariance, PTL DEF Spec, TermNeverDecreases

\* As long as nobody gives FORCE_LEADER or FORCE_HOLDOVER, every active node has
\* calibrated and armed the pulse engine.
LEMMA AlwaysReady ==
    ASSUME {"FORCE_LEADER", "FORCE_HOLDOVER"} \cap Enabled = {}
    PROVE  Spec => [](\A n \in Node : Ready(sm[n]))
<1> DEFINE ReadyInv == \A n \in Node : Ready(sm[n])
<1>1. Init => ReadyInv
  BY InitKept DEF Init
<1>2. IndInv /\ ReadyInv /\ [Next]_vars => ReadyInv'
  <2> SUFFICES ASSUME IndInv, ReadyInv, [Next]_vars, NEW n \in Node PROVE Ready(sm'[n])
    BY DEF Ready, sm_is_active
  <2>1. Ready(sm_init(BootLock[n])) /\ Ready(sm[n])
    BY InitKept
  <2> QED
    BY <2>1, StepKept DEF ReadyKept
<1> QED
  BY <1>1, <1>2, Invariance, PTL DEF Spec

\* GPIO 18 pulses in every operational state (sm_tick, pulse_engine_arm), for
\* every cluster in which nobody forces a node out of GROUND.
THEOREM OperationalPulses ==
    ASSUME {"FORCE_LEADER", "FORCE_HOLDOVER"} \cap Enabled = {}
    PROVE  Spec => []PulseWhenOperational
<1>1. (\A n \in Node : Ready(sm[n])) => PulseWhenOperational
  BY DEF Ready, PulseWhenOperational
<1> QED
  BY <1>1, AlwaysReady, PTL

\* The Active-Before-Follower guard: every FOLLOWER has calibrated
\* (enter_follower, sm_tick), for every cluster in which nobody forces a node
\* out of GROUND.
THEOREM FollowersCalibrated ==
    ASSUME {"FORCE_LEADER", "FORCE_HOLDOVER"} \cap Enabled = {}
    PROVE  Spec => []CalibratedBeforeFollower
<1>1. (\A n \in Node : Ready(sm[n])) => CalibratedBeforeFollower
  BY DEF Ready, CalibratedBeforeFollower, sm_is_active
<1> QED
  BY <1>1, AlwaysReady, PTL

----------------------------------------------------------------------------
\* TimedCluster only leaves behaviours out: a step of it is a step of Cluster, or
\* ends a period and changes nothing that Cluster has.  The theorems above hold
\* in it too (the timers of main.c, which fire once in each period).
THEOREM TimedImplements == TimedSpec => Spec
<1>1. TimedInit => Init
  BY DEF TimedInit
<1>2. [TimedNext]_timedVars => [Next]_vars
  <2> SUFFICES ASSUME [TimedNext]_timedVars
               PROVE  [Next]_vars
    OBVIOUS
  <2>1. ASSUME NEW n \in Node, TimedTick(n) \/ TimedHeartbeat(n) \/ TimedCrash(n) \/ TimedStart(n)
        PROVE  MainTick(n) \/ Heartbeat(n) \/ Crash(n) \/ Start(n)
    BY <2>1, Zenon DEF TimedTick, TimedHeartbeat, TimedCrash, TimedStart
  <2>2. ASSUME NEW p \in net, TimedReceive(p) \/ TimedLose(p)
        PROVE  Receive(p) \/ Lose(p)
    BY <2>2, Zenon DEF TimedReceive, TimedLose
  <2>3. CASE Advance
    BY <2>3 DEF Advance, vars
  <2>4. CASE UNCHANGED timedVars
    BY <2>4 DEF timedVars, vars
  <2> QED
    BY <2>1, <2>2, <2>3, <2>4, Zenon DEF TimedNext, Next
<1> QED
  BY <1>1, <1>2, PTL DEF TimedSpec, Spec

=============================================================================

------------------------------ MODULE Cluster ------------------------------
(***************************************************************************)
(* A cluster of drs_syncd processes on one Ethernet segment.  Each process *)
(* runs the main loop of main.c: the 50 ms tick (sm_tick, then the command *)
(* channel), the 100 ms heartbeat and the packet handlers, one at a time.  *)
(* Processes are not synchronised with each other; UDP may lose, duplicate *)
(* and reorder packets; a process may crash and be restarted by systemd    *)
(* with nothing but its command line.                                      *)
(*                                                                         *)
(* Multicast loopback is off and the leader address is always another      *)
(* host's, so a node never receives its own packets.                       *)
(***************************************************************************)
EXTENDS StateMachine, FiniteSets

CONSTANTS
    Node,       \* the node IDs: last octets of the hosts' IPv4 addresses
    BootLock,   \* the lock mode on each host's command line
    Enabled,    \* the commands operators may send through the command channel
    MaxTerm,    \* bound: terms up to this one are explored
    MaxNet      \* bound: packets in flight at a time

ASSUME ClusterAssumption ==
    /\ Node \subseteq Nat \ {0}
    /\ BootLock \in [Node -> LockModes]
    /\ Enabled \subseteq Commands
    /\ MaxTerm \in Nat /\ MaxNet \in Nat

VARIABLES
    sm,     \* the state-machine record of every node
    up,     \* the nodes whose process is running
    net     \* packets in flight

vars == <<sm, up, net>>

Announce == [to : Node, type : {"ANNOUNCE"}, node_id : Node, election_term : Nat]

SyncPacket == [to : Node, type : {"SYNC_REQ", "SYNC_RESP"}, node_id : Node]

TypeOK ==
    /\ sm \in [Node -> SM(Node)]
    /\ up \subseteq Node
    /\ net \subseteq Announce \cup SyncPacket

Init ==
    /\ sm = [n \in Node |-> sm_init(BootLock[n])]
    /\ up = {}
    /\ net = {}

----------------------------------------------------------------------------
\* A packet that the sender's sendto accepts and the segment carries: packets
\* to hosts whose process is down vanish, and the bound MaxNet makes the
\* segment drop what exceeds it.
Send(packets) ==
    LET arriving == {p \in packets : p.to \in up}
    IN  net' = IF Cardinality(net \cup arriving) <= MaxNet THEN net \cup arriving ELSE net

\* Mutant: the wait is not over when it reaches zero.
ElapsePastZero(s) == [s EXCEPT !.timer = @ - 1]

\* 50 ms pass on n and its tick timer fires: sm_tick, then the command poll.
Elapse(s) == [s EXCEPT !.timer = IF @ > 0 THEN @ - 1 ELSE 0]

MainTick(n) ==
    /\ n \in up
    /\ \E r \in sm_tick(n, Elapse(sm[n])) :
       \E cmd \in Enabled \cup {"NONE"} :
       \E t \in sm_on_command(n, r.sm, cmd) :
          /\ t.own_term <= MaxTerm
          /\ sm' = [sm EXCEPT ![n] = t]
          /\ IF r.sync_req
             THEN Send({[to |-> r.sm.leader_addr, type |-> "SYNC_REQ", node_id |-> n]})
             ELSE UNCHANGED net
    /\ UNCHANGED up

\* The 100 ms heartbeat of a LEADER: one ANNOUNCE to the multicast group.
Heartbeat(n) ==
    /\ n \in up
    /\ sm[n].state = "LEADER"
    /\ Send({[to |-> p, type |-> "ANNOUNCE", node_id |-> n, election_term |-> sm[n].own_term] :
                p \in Node \ {n}})
    /\ UNCHANGED <<sm, up>>

\* The handlers of the two sockets.  rest is net without the packet, or all of
\* net when the segment has duplicated it.
ReceiveAnnounce(p, rest) ==
    /\ p.type = "ANNOUNCE"
    /\ sm' = [sm EXCEPT ![p.to] = sm_on_announce(p.to, @, p)]
    /\ net' = rest

\* sm_on_sync_req: a LEADER answers, any other state ignores the request.
ReceiveSyncReq(p, rest) ==
    /\ p.type = "SYNC_REQ"
    /\ LET answer == [to |-> p.node_id, type |-> "SYNC_RESP", node_id |-> p.to]
           answered == sm[p.to].state = "LEADER" /\ p.node_id \in up
       IN  net' = IF answered /\ Cardinality(rest) < MaxNet THEN rest \cup {answer} ELSE rest
    /\ UNCHANGED sm

ReceiveSyncResp(p, rest) ==
    /\ p.type = "SYNC_RESP"
    /\ \E t \in sm_on_sync_resp(sm[p.to], p) : sm' = [sm EXCEPT ![p.to] = t]
    /\ net' = rest

Receive(p) ==
    /\ \E rest \in {net, net \ {p}} :
          \/ ReceiveAnnounce(p, rest)
          \/ ReceiveSyncReq(p, rest)
          \/ ReceiveSyncResp(p, rest)
    /\ UNCHANGED up

Lose(p) ==
    /\ net' = net \ {p}
    /\ UNCHANGED <<sm, up>>

\* The process dies and what was on its way to it is lost.  Nothing survives it
\* but the command line, so its record is the one sm_init will build again.
Crash(n) ==
    /\ n \in up
    /\ up' = up \ {n}
    /\ net' = {p \in net : p.to # n}
    /\ sm' = [sm EXCEPT ![n] = sm_init(BootLock[n])]

\* systemd starts the process, for the first time or again.
Start(n) ==
    /\ n \notin up
    /\ up' = up \cup {n}
    /\ UNCHANGED <<sm, net>>

Next ==
    \/ \E n \in Node : MainTick(n) \/ Heartbeat(n) \/ Crash(n) \/ Start(n)
    \/ \E p \in net : Receive(p) \/ Lose(p)

Spec == Init /\ [][Next]_vars

----------------------------------------------------------------------------
\* The nodes whose clock could disturb one another's: a node disciplines its
\* clock only by samples of lower-ID nodes, and its requests go to the leader
\* it follows, which has a lower ID.  So no chain of followers closes into a
\* loop of clocks chasing each other, whatever packets arrive late or twice
\* (enter_follower, election_on_announce, the unchecked source of a SYNC_RESP).
NoTimingLoop ==
    \A n \in Node :
        /\ sm[n].state = "FOLLOWER" => /\ sm[n].leader_node_id \in Node
                                       /\ sm[n].leader_node_id < n
                                       /\ sm[n].leader_addr = sm[n].leader_node_id
        /\ \A m \in sm[n].samples : m < n

\* A LEADER names itself as leader and is not locked as follower: no order of
\* ANNOUNCEs, timeouts and lock commands leaves a node announcing itself while
\* it believes in another leader (enter_leader, sm_on_announce, sm_on_command).
LeaderIsSelfConfident ==
    \A n \in Node : sm[n].state = "LEADER" =>
        /\ sm[n].leader_node_id = n
        /\ sm[n].lock_mode # "AS_FOLLOWER"

\* GPIO 18 pulses in every operational state: whoever left GROUND and
\* CALIBRATION has armed the pulse engine, the only place that starts it
\* (sm_tick, pulse_engine_arm).
PulseWhenOperational ==
    \A n \in Node : sm_is_active(sm[n]) => sm[n].armed

\* The Active-Before-Follower guard: a FOLLOWER has a latency correction from a
\* completed calibration (enter_follower, sm_tick).
CalibratedBeforeFollower ==
    \A n \in Node : sm[n].state = "FOLLOWER" => sm[n].calibrated

\* While a process runs its election term never decreases (election_promote,
\* election_on_announce).
TermNeverDecreases ==
    [][\A n \in up \cap up' : sm'[n].own_term >= sm[n].own_term]_vars

\* No packet displaces the lowest ID from leadership, whatever terms the others
\* reached: a late joiner with a higher term makes it adopt the term, not yield
\* (election_on_announce, sm_on_announce).
LowestLeaderStays ==
    [][\A p \in net :
          /\ sm[p.to].state = "LEADER" /\ sm'[p.to].state # "LEADER"
          /\ \A m \in Node : p.to <= m
          => ~ Receive(p)]_vars

\* A node that starts to follow another leader does so with an empty filter, an
\* empty controller and no request outstanding (F-14; enter_follower).
ResetOnLeaderChange ==
    [][\A n \in up \cap up' :
          /\ sm'[n].state = "FOLLOWER"
          /\ sm'[n].leader_node_id # sm[n].leader_node_id
          => sm'[n].samples = {} /\ ~ sm'[n].sync_req_pending]_vars

\* A leader that steps down, and a node that comes back from HOLDOVER, starts
\* its discipline afresh (sm_on_announce).
ResetOnReacquire ==
    [][\A n \in up \cap up' :
          /\ sm[n].state \in {"LEADER", "HOLDOVER"}
          /\ sm'[n].state = "FOLLOWER"
          => sm'[n].samples = {} /\ ~ sm'[n].sync_req_pending]_vars

\* The leader lock holds against packets: a node locked as leader that leads is
\* never made a FOLLOWER.  One that has still to be elected yields to a leader
\* with a lower ID and the very same term, although the election code has told
\* it to ignore the ANNOUNCE, and one in HOLDOVER to the leader it had
\* (election_on_announce, the second test of LISTEN and CANDIDATE).
LockedLeaderYields ==
    [][\A n \in up \cap up' :
          /\ sm[n].lock_mode = "AS_LEADER"
          /\ sm[n].state # "FOLLOWER" /\ sm'[n].state = "FOLLOWER"
          => \E p \in net :
                /\ p.to = n /\ p.type = "ANNOUNCE"
                /\ \/ /\ sm[n].state \in {"LISTEN", "CANDIDATE"}
                      /\ p.election_term = sm[n].own_term /\ p.node_id < n
                   \/ sm[n].state = "HOLDOVER" /\ p.node_id = sm[n].leader_node_id]_vars

=============================================================================

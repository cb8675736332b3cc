---------------------------- MODULE TimedCluster ----------------------------
(***************************************************************************)
(* The cluster with time.  The processes of Cluster run on clocks of the   *)
(* same speed: in every heartbeat period each running process takes one    *)
(* tick and, if it leads, sends one ANNOUNCE, in any order; a packet is    *)
(* delivered within the period it was sent in, or lost.  Every step is a   *)
(* step of Cluster or an Advance, which only ends the period.              *)
(*                                                                         *)
(* Faults are bounded: in all MaxFaults packets are lost or processes die. *)
(* Hosts are started at any time.  A process that dies may be started      *)
(* again by systemd, or its host stays off.                                *)
(***************************************************************************)
EXTENDS Cluster

CONSTANTS
    MaxFaults,   \* bound: packets lost and processes that die
    Restarts     \* a process that died may be started again

ASSUME TimedAssumption == MaxFaults \in Nat /\ Restarts \in BOOLEAN

VARIABLES
    ticked,     \* nodes whose tick of this period is done
    beaten,     \* leaders whose heartbeat of this period is done
    faults,     \* faults so far
    off         \* hosts that stay off

timedVars == <<sm, up, net, ticked, beaten, faults, off>>

TimedInit ==
    /\ Init
    /\ ticked = {} /\ beaten = {}
    /\ faults = 0 /\ off = {}

\* The SYNC exchanges are left out, as if every sendto of a SYNC_REQ failed:
\* neither a timeout nor the handler of an ANNOUNCE reads what they change.
\* Calibration succeeds: its packets never leave the host.  The heartbeat timer
\* of a node that is promoted may have fired already in this period.
TimedTick(n) ==
    /\ n \notin ticked
    /\ MainTick(n)
    /\ ~ sm'[n].sync_req_pending
    /\ sm[n].state # "GROUND" => sm'[n].calibrated
    /\ ticked' = ticked \cup {n}
    /\ \/ beaten' = beaten
       \/ /\ sm[n].state # "LEADER" /\ sm'[n].state = "LEADER"
          /\ beaten' = beaten \cup {n}
    /\ UNCHANGED <<faults, off>>

TimedHeartbeat(n) ==
    /\ n \notin beaten
    /\ Heartbeat(n)
    /\ beaten' = beaten \cup {n}
    /\ UNCHANGED <<ticked, faults, off>>

TimedReceive(p) ==
    /\ Receive(p)
    /\ p \notin net'
    /\ UNCHANGED <<ticked, beaten, faults, off>>

TimedLose(p) ==
    /\ faults < MaxFaults
    /\ Lose(p)
    /\ faults' = faults + 1
    /\ UNCHANGED <<ticked, beaten, off>>

TimedCrash(n) ==
    /\ faults < MaxFaults
    /\ Crash(n)
    /\ faults' = faults + 1
    /\ off' = IF Restarts THEN off ELSE off \cup {n}
    /\ ticked' = ticked \ {n} /\ beaten' = beaten \ {n}

TimedStart(n) ==
    /\ n \notin off
    /\ Start(n)
    /\ UNCHANGED <<ticked, beaten, faults, off>>

\* The period ends when every running process has done its work.
Advance ==
    /\ net = {}
    /\ up \subseteq ticked
    /\ \A n \in up : sm[n].state = "LEADER" => n \in beaten
    /\ ticked' = {} /\ beaten' = {}
    /\ UNCHANGED <<sm, up, net, faults, off>>

TimedNext ==
    \/ \E n \in Node : TimedTick(n) \/ TimedHeartbeat(n) \/ TimedCrash(n) \/ TimedStart(n)
    \/ \E p \in net : TimedReceive(p) \/ TimedLose(p)
    \/ Advance

\* Time passes and the epoll loop runs: some step is always taken.
TimedSpec == TimedInit /\ [][TimedNext]_timedVars /\ WF_timedVars(TimedNext)

----------------------------------------------------------------------------
\* The running node with the lowest ID leads and every other one follows it.
LowestLeads ==
    \A n \in up :
        IF \A m \in up : n <= m
        THEN sm[n].state = "LEADER"
        ELSE sm[n].state = "FOLLOWER" /\ \A m \in up : sm[n].leader_node_id <= m

\* Once starts, crashes and losses have ceased, the cluster settles for good on
\* the running node with the lowest ID, whatever order the hosts were started
\* in, whatever terms they reached alone and whatever timeouts they draw
\* (election.c, sm_tick, sm_on_announce; F-4).
EventuallyLowestLeads == <>[]LowestLeads

\* A FOLLOWER whose leader has stopped leading, because its process died or
\* stepped down, does not go on following it for ever: its silence sends the
\* FOLLOWER to HOLDOVER, or another leader takes over (sm_tick, sm_on_announce).
EventuallyNoOrphan ==
    <>[](\A n \in up : sm[n].state = "FOLLOWER" =>
            /\ sm[n].leader_node_id \in up
            /\ sm[sm[n].leader_node_id].state = "LEADER")

=============================================================================

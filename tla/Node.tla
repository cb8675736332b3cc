-------------------------------- MODULE Node --------------------------------
(***************************************************************************)
(* One node seen from outside: the main thread with the work it does at    *)
(* every tick besides the protocol (health pin, link monitor, command      *)
(* channel, error ring), the agent, which is another process, the cable,   *)
(* and the service manager.                                                *)
(*                                                                         *)
(* The state machine appears as the reports it makes to the pin and the    *)
(* errors it pushes; Cluster and SyncExchange model where they come from.  *)
(***************************************************************************)
EXTENDS CmdChannel, ErrorRing, LinkMonitor, HealthPin

CONSTANT MaxEvents      \* bound: errors, commands, copies, changes of the
                        \* carrier, bad ticks and ends of the daemon, together

ASSUME NodeAssumption == MaxEvents \in Nat

VARIABLE events

nodeVars == <<at, cmdVars, errorVars, linkVars, healthVars, events>>

\* The main thread waits for events, polls the commands, or has seen one; it
\* starts up; or the daemon is down.
Places == {"wait", "poll", "code", "start", "down"}

NodeInit ==
    /\ at = "wait" /\ events = 0
    /\ CmdInit /\ ErrorInit /\ LinkInit /\ HealthInit

\* Something that the bound counts.
Event == events < MaxEvents /\ events' = events + 1

----------------------------------------------------------------------------
\* The main thread is in its loop.
Up == at \notin {"start", "down"}

\* It is there, and not in the middle of errors_push.
Free == Up /\ todo = {}

\* A tick as far as the poll of the commands.
NodeTick ==
    /\ Free /\ at = "wait" /\ at' = "poll"
    /\ \E report \in Reports :
          /\ update_health(report)
          /\ IF report = "small" THEN UNCHANGED events ELSE Event
    /\ LinkTick
    /\ UNCHANGED <<cmdVars, errorVars>>

NodePoll ==
    /\ Free
    /\ PollSeq \/ PollCode
    /\ UNCHANGED <<errorVars, linkVars, healthVars, events>>

\* sm_tick, sm_on_command or a handler of packets reports an error.
NodePush ==
    /\ Free /\ at = "wait" /\ Event
    /\ PushBegin
    /\ UNCHANGED <<at, cmdVars, linkVars, healthVars>>

\* A store of errors_push, or of errors_init while the daemon starts up.
NodeStore ==
    /\ at # "down"
    /\ PushStore \/ ClearStore
    /\ UNCHANGED <<at, cmdVars, linkVars, healthVars, events>>

\* SIGTERM ends the loop of main; a crash ends the daemon anywhere.
Stop ==
    /\ Free /\ at = "wait" /\ Event
    /\ at' = "down"
    /\ gpio_close
    /\ UNCHANGED <<cmdVars, errorVars, linkVars>>

NodeCrash ==
    /\ at # "down" /\ Event
    /\ at' = "down"
    /\ UNCHANGED <<cmdVars, errorVars, linkVars, healthVars>>

\* systemd starts it again: errors_init, which takes its time, and then the rest.
NodeStart ==
    /\ at = "down" /\ at' = "start"
    /\ errors_init
    /\ UNCHANGED <<cmdVars, linkVars, healthVars, events>>

NodeUp ==
    /\ at = "start" /\ clearing = {} /\ at' = "wait"
    /\ cmd_init /\ gpio_init /\ net_io_init
    /\ UNCHANGED <<errorVars, events>>

----------------------------------------------------------------------------
\* The agent, one thread, does one thing after the other.
AgentCommand ==
    /\ want = {} /\ Event
    /\ write_cmd
    /\ UNCHANGED <<errorVars, linkVars, healthVars>>

AgentCopies ==
    /\ CopyBegin /\ Event
    /\ UNCHANGED <<at, cmdVars, linkVars, healthVars>>

AgentCopy ==
    /\ CopyWord
    /\ UNCHANGED <<at, cmdVars, linkVars, healthVars, events>>

Cable ==
    /\ CarrierChange /\ Event
    /\ UNCHANGED <<at, cmdVars, errorVars, healthVars>>

NodeNext ==
    \/ NodeTick \/ NodePoll \/ NodePush \/ NodeStore \/ Stop \/ NodeCrash \/ NodeStart \/ NodeUp
    \/ AgentCommand \/ AgentCopies \/ AgentCopy \/ Cable

\* The main thread goes on: the tick timer wakes it again and again.
NodeFairness == WF_nodeVars(NodeTick \/ NodePoll \/ NodeStore \/ NodeUp)

NodeSpec == NodeInit /\ [][NodeNext]_nodeVars /\ NodeFairness

----------------------------------------------------------------------------
NodeTypeOK ==
    /\ at \in Places /\ events \in 0 .. MaxEvents
    /\ CmdTypeOK /\ ErrorTypeOK /\ LinkTypeOK /\ HealthTypeOK

\* PinTellsWindow, for as long as there is a daemon to move the pin.
PinWhileUp == Up => PinTellsWindow

\* F-7: "GPIO 23 transitions LOW only after |offset| < 100 us is sustained for 10
\* continuous seconds" (10_requirements.typ:37).  A pin that shows a fault shows it
\* until a running daemon has seen a good window (gpio_init, update_health).
LowOnlyAfterWindow == [][pin = "HIGH" /\ pin' = "LOW" /\ Up' => since_bad' > StableWindow]_nodeVars

\* F-22: "multicast IGMP membership is re-established automatically after an
\* Ethernet cable reconnect" (10_requirements.typ:51): a node that is deaf with its
\* carrier back hears the group again, unless the carrier or the daemon goes
\* (net_check_recover).
Rejoins == Up /\ carrier /\ ~ joined ~> joined \/ ~ carrier \/ ~ Up

=============================================================================

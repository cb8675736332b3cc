----------------------------- MODULE CmdChannel -----------------------------
(***************************************************************************)
(* The command page (cmd.c and ShmWriter of the agent): one command with a *)
(* sequence number, overwritten by the next one.                           *)
(*                                                                         *)
(* The n-th command written has seq n.  The agent, the only writer, stores *)
(* seq and code, which share an aligned word of eight bytes, at once; the  *)
(* daemon loads them one after the other.  The page outlives the daemon.   *)
(* cmd_send has no caller.                                                 *)
(***************************************************************************)
EXTENDS Naturals

CONSTANT MaxCmds    \* bound: commands written

ASSUME CmdAssumption == MaxCmds \in Nat

VARIABLES
    at,             \* where the daemon's main thread is
    cmd_seq,        \* seq of the page, and the command in it
    g_last_seq,     \* the daemon's
    ran             \* how often each command was carried out

cmdVars == <<cmd_seq, g_last_seq, ran>>

CmdInit == cmd_seq = 0 /\ g_last_seq = 0 /\ ran = [c \in 1 .. MaxCmds |-> 0]

\* Mutant: whatever the page holds counts as new.
CmdReplays == g_last_seq' = 0 /\ UNCHANGED <<cmd_seq, ran>>

\* cmd_init: what the page holds when the daemon starts is not carried out.
cmd_init == g_last_seq' = cmd_seq /\ UNCHANGED <<cmd_seq, ran>>

\* write_cmd of the agent.
write_cmd ==
    /\ cmd_seq < MaxCmds
    /\ cmd_seq' = cmd_seq + 1
    /\ UNCHANGED <<at, g_last_seq, ran>>

\* Mutant: the next number is taken for seen.
PollSkips ==
    /\ at = "poll"
    /\ IF cmd_seq = g_last_seq
       THEN at' = "wait" /\ UNCHANGED g_last_seq
       ELSE at' = "code" /\ g_last_seq' = cmd_seq + 1
    /\ UNCHANGED <<cmd_seq, ran>>

\* Mutant: the number is kept before it is compared.
PollKeepsFirst == at = "poll" /\ at' = "wait" /\ g_last_seq' = cmd_seq /\ UNCHANGED <<cmd_seq, ran>>

\* cmd_poll, as far as the sequence number.
PollSeq ==
    /\ at = "poll"
    /\ IF cmd_seq = g_last_seq
       THEN at' = "wait" /\ UNCHANGED g_last_seq
       ELSE at' = "code" /\ g_last_seq' = cmd_seq
    /\ UNCHANGED <<cmd_seq, ran>>

\* The rest of cmd_poll, and sm_on_command with the code the page has by now.
PollCode ==
    /\ at = "code"
    /\ at' = "wait"
    /\ ran' = [ran EXCEPT ![cmd_seq] = @ + 1]
    /\ UNCHANGED <<cmd_seq, g_last_seq>>

----------------------------------------------------------------------------
CmdTypeOK ==
    /\ cmd_seq \in 0 .. MaxCmds /\ g_last_seq \in 0 .. MaxCmds
    /\ ran \in [1 .. MaxCmds -> 0 .. 2]

\* A command is carried out once or never, whatever crashes and restarts lie
\* between its arrival and its execution.  A command that the agent writes
\* between the two loads of cmd_poll runs under the number of the one before it,
\* and again at the next poll: never three times, and never without another one
\* before it having been lost for it.
RunsOnce ==
    \A c \in 1 .. MaxCmds : ran[c] > 1 => ran[c] = 2 /\ \E d \in 1 .. c - 1 : ran[d] = 0

\* A command that the daemon has not seen does not wait for ever: while the daemon
\* stays up, the one that is the last by then is carried out, whatever the agent
\* writes between the loads of a poll (cmd_poll, main).
LatestRuns ==
    at \notin {"down", "start"} /\ g_last_seq < cmd_seq
        ~> (cmd_seq > 0 /\ ran[cmd_seq] > 0) \/ at = "down"

=============================================================================

----------------------------- MODULE TelemQueue -----------------------------
(***************************************************************************)
(* What the UDP telemetry path promises to the two threads it joins: a     *)
(* first-in first-out queue of at most Capacity records that never blocks  *)
(* the real-time thread.  A record is refused only when at most one place  *)
(* is free, each accepted record leaves once, in order, and a record       *)
(* that the socket does not take is gone.                                  *)
(*                                                                         *)
(* Records are numbered by the calls of telem_udp_emit.                    *)
(***************************************************************************)
EXTENDS Naturals, Sequences

CONSTANT Capacity

VARIABLES
    queue,  \* the records accepted and not yet handed to the socket
    out,    \* the records the socket took
    next    \* the number of the next record

queueVars == <<queue, out, next>>

QueueInit == queue = <<>> /\ out = <<>> /\ next = 1

Put ==
    /\ Len(queue) < Capacity
    /\ queue' = Append(queue, next)
    /\ next' = next + 1
    /\ UNCHANGED out

Refuse ==
    /\ Len(queue) + 1 >= Capacity
    /\ next' = next + 1
    /\ UNCHANGED <<queue, out>>

Take ==
    /\ queue # <<>>
    /\ out' \in {out, Append(out, Head(queue))}
    /\ queue' = Tail(queue)
    /\ UNCHANGED next

QueueNext == Put \/ Refuse \/ Take

QueueSpec == QueueInit /\ [][QueueNext]_queueVars

=============================================================================

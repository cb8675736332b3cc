----------------------------- MODULE TelemRing ------------------------------
(***************************************************************************)
(* The ring of telemetry_udp.c between the real-time main thread, which    *)
(* calls telem_udp_emit, and sender_thread, which drains it to a UDP       *)
(* socket.  One producer, one consumer, two free-running indices and no    *)
(* lock.                                                                   *)
(*                                                                         *)
(* A record is two halves, both holding the number of the emit call that   *)
(* wrote them, so a record overwritten while it is copied shows.  The      *)
(* indices are stored with release and loaded with acquire order, so the   *)
(* slot accesses they guard appear in program order to the other thread    *)
(* and the interleavings below are the executions the C11 model allows.    *)
(* The 64-bit indices do not wrap in the life of a process.                *)
(***************************************************************************)
EXTENDS Naturals, Sequences

CONSTANTS
    RingSize,   \* TELEM_RING_SIZE
    MaxEmits    \* bound: calls of telem_udp_emit explored

ASSUME RingAssumption == RingSize \in Nat \ {0} /\ MaxEmits \in Nat

VARIABLES
    g_ring, g_write_idx, g_read_idx, g_running,
    emit,       \* what the main thread does: "idle", or its step in telem_udp_emit
    calls,      \* number of calls of telem_udp_emit, the number of the last record
    sender,     \* sender_thread: its step pc, its local w and rec
    sent        \* the records sendto took

ringVars == <<g_ring, g_write_idx, g_read_idx, g_running, emit, calls, sender, sent>>

Record == [lo : Nat, hi : Nat]

\* telem_udp_init: the socket and the thread come up, or they do not and the
\* daemon goes on without a sender.
RingInit ==
    /\ g_ring = [i \in 0 .. RingSize - 1 |-> [lo |-> 0, hi |-> 0]]
    /\ g_write_idx = 0 /\ g_read_idx = 0
    /\ g_running \in BOOLEAN
    /\ emit = "idle" /\ calls = 0
    /\ sender = [pc |-> IF g_running THEN "loop" ELSE "exited", w |-> 0,
                 rec |-> [lo |-> 0, hi |-> 0]]
    /\ sent = <<>>

----------------------------------------------------------------------------
\* Mutant: the ring is taken for full one record too late.
EmitBeginLate ==
    /\ emit = "idle" /\ calls < MaxEmits
    /\ calls' = calls + 1
    /\ emit' = IF g_write_idx - g_read_idx > RingSize THEN "idle" ELSE "lo"
    /\ UNCHANGED <<g_ring, g_write_idx, g_read_idx, g_running, sender, sent>>

\* telem_udp_emit: read both indices, return if the ring is full.
EmitBegin ==
    /\ emit = "idle" /\ calls < MaxEmits
    /\ calls' = calls + 1
    /\ emit' = IF g_write_idx - g_read_idx >= RingSize THEN "idle" ELSE "lo"
    /\ UNCHANGED <<g_ring, g_write_idx, g_read_idx, g_running, sender, sent>>

\* Mutant: the index is not masked.
EmitStoreUnmasked(half, from, to) ==
    /\ emit = from
    /\ g_ring' = [i \in DOMAIN g_ring \cup {g_write_idx} |->
                    IF i = g_write_idx THEN [lo |-> calls, hi |-> calls] ELSE g_ring[i]]
    /\ emit' = to
    /\ UNCHANGED <<g_write_idx, g_read_idx, g_running, calls, sender, sent>>

\* Fill one half of the slot.
EmitStore(half, from, to) ==
    /\ emit = from
    /\ g_ring' = [g_ring EXCEPT ![g_write_idx % RingSize][half] = calls]
    /\ emit' = to
    /\ UNCHANGED <<g_write_idx, g_read_idx, g_running, calls, sender, sent>>

EmitPublish ==
    /\ emit = "publish"
    /\ g_write_idx' = g_write_idx + 1
    /\ emit' = "idle"
    /\ UNCHANGED <<g_ring, g_read_idx, g_running, calls, sender, sent>>

\* telem_udp_close, by the main thread when its loop has ended: no call of
\* telem_udp_emit follows.
Close ==
    /\ emit = "idle"
    /\ emit' = "closed"
    /\ g_running' = FALSE
    /\ UNCHANGED <<g_ring, g_write_idx, g_read_idx, calls, sender, sent>>

Emit ==
    \/ EmitBegin
    \/ EmitStore("lo", "lo", "hi")
    \/ EmitStore("hi", "hi", "publish")
    \/ EmitPublish

----------------------------------------------------------------------------
\* The outer loop after its sleep: leave, or take the write index and drain.
SenderLoop ==
    /\ sender.pc = "loop"
    /\ sender' = IF g_running THEN [sender EXCEPT !.pc = "drain", !.w = g_write_idx]
                              ELSE [sender EXCEPT !.pc = "exited"]
    /\ UNCHANGED <<g_ring, g_write_idx, g_read_idx, g_running, emit, calls, sent>>

\* The inner loop ends when it has reached the write index it took.
SenderDrained ==
    /\ sender.pc = "drain" /\ g_read_idx >= sender.w
    /\ sender' = [sender EXCEPT !.pc = "loop"]
    /\ UNCHANGED <<g_ring, g_write_idx, g_read_idx, g_running, emit, calls, sent>>

\* Copy one half of the slot.
SenderCopy(half, from, to) ==
    /\ sender.pc = from /\ g_read_idx < sender.w
    /\ sender' = [sender EXCEPT !.pc = to, !.rec[half] = g_ring[g_read_idx % RingSize][half]]
    /\ UNCHANGED <<g_ring, g_write_idx, g_read_idx, g_running, emit, calls, sent>>

\* Mutant: the read index is not advanced after a send.
SenderSendAgain ==
    /\ sender.pc = "send"
    /\ sent' = Append(sent, sender.rec)
    /\ sender' = [sender EXCEPT !.pc = "loop"]
    /\ UNCHANGED <<g_ring, g_write_idx, g_read_idx, g_running, emit, calls>>

\* sendto takes the record, or fails in a way that the code treats as done.
SenderSend ==
    /\ sender.pc = "send"
    /\ sent' \in {sent, Append(sent, sender.rec)}
    /\ sender' = [sender EXCEPT !.pc = "advance"]
    /\ UNCHANGED <<g_ring, g_write_idx, g_read_idx, g_running, emit, calls>>

\* Mutant: ENOBUFS ends the thread.
SenderGivesUp ==
    /\ sender.pc = "send"
    /\ sender' = [sender EXCEPT !.pc = "exited"]
    /\ UNCHANGED <<g_ring, g_write_idx, g_read_idx, g_running, emit, calls, sent>>

\* sendto reports ENOBUFS: the record stays for the next poll.
SenderNoBufs ==
    /\ sender.pc = "send"
    /\ sender' = [sender EXCEPT !.pc = "loop"]
    /\ UNCHANGED <<g_ring, g_write_idx, g_read_idx, g_running, emit, calls, sent>>

SenderAdvance ==
    /\ sender.pc = "advance"
    /\ g_read_idx' = g_read_idx + 1
    /\ sender' = [sender EXCEPT !.pc = "drain"]
    /\ UNCHANGED <<g_ring, g_write_idx, g_running, emit, calls, sent>>

Sender ==
    \/ SenderLoop
    \/ SenderDrained
    \/ SenderCopy("lo", "drain", "hi")
    \/ SenderCopy("hi", "hi", "send")
    \/ SenderSend
    \/ SenderNoBufs
    \/ SenderAdvance

RingNext == Emit \/ Close \/ Sender

\* Both threads sleep between their turns, so the sender runs even when the unit
\* file puts it on the main thread's core at the same priority.  A socket buffer
\* that is full again and again is drained by the kernel in between.
RingSpec == RingInit /\ [][RingNext]_ringVars /\ WF_ringVars(Sender) /\ SF_ringVars(SenderSend)

----------------------------------------------------------------------------
RingTypeOK ==
    /\ g_ring \in [0 .. RingSize - 1 -> Record]
    /\ g_write_idx \in Nat /\ g_read_idx \in Nat /\ calls \in Nat
    /\ g_running \in BOOLEAN
    /\ emit \in {"idle", "lo", "hi", "publish", "closed"}
    /\ sender \in [pc : {"loop", "drain", "hi", "send", "advance", "exited"}, w : Nat, rec : Record]
    /\ sent \in Seq(Record)

\* The reader never passes the writer, the writer never laps the reader, and
\* the sender never looks beyond what has been published (the check of
\* telem_udp_emit on a read index that may be stale, the w of sender_thread).
RingBound ==
    /\ g_read_idx <= sender.w \/ sender.pc \in {"loop", "exited"}
    /\ sender.w <= g_write_idx
    /\ g_read_idx <= g_write_idx
    /\ g_write_idx - g_read_idx + (IF emit \in {"lo", "hi", "publish"} THEN 1 ELSE 0) <= RingSize

\* No record leaves torn: both halves of what is sent come from one call
\* (the copy in sender_thread against the stores in telem_udp_emit).
SentIntact == \A i \in 1 .. Len(sent) : sent[i].lo = sent[i].hi

\* The ring is the queue of TelemQueue: the slots between the indices, without
\* the one whose record has been handed to the socket.
Queue ==
    LET head == IF sender.pc = "advance" THEN g_read_idx + 1 ELSE g_read_idx
    IN  [i \in 1 .. g_write_idx - head |-> g_ring[(head + i - 1) % RingSize].lo]

TelemQueue == INSTANCE TelemQueue WITH
    Capacity <- RingSize,
    queue    <- Queue,
    out      <- [i \in 1 .. Len(sent) |-> sent[i].lo],
    next     <- IF emit \in {"lo", "hi", "publish"} THEN calls ELSE calls + 1

\* Every emit call and every pass of the sender is a step of the queue or none
\* of its business: records leave in the order of the calls, none twice, and
\* none is dropped unless the ring is full (telem_udp_emit, sender_thread).
ImplementsQueue == TelemQueue!QueueSpec

\* A published record leaves the ring while the daemon runs, however often the
\* socket buffer was full (the retry after ENOBUFS in sender_thread).
RecordsLeave ==
    \A k \in 0 .. MaxEmits - 1 : g_running /\ g_write_idx > k ~> g_read_idx > k \/ ~ g_running

=============================================================================

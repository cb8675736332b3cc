------------------------------ MODULE Seqlock -------------------------------
(***************************************************************************)
(* The seqlock that guards the virtual clock (vclock.c) and the telemetry  *)
(* page (telemetry.c).  The main thread is the only writer.  The readers   *)
(* are the pulse thread for the clock, drs_mon, drs_sync_inspect and the   *)
(* agent for the page.                                                     *)
(*                                                                         *)
(* The guarded fields are two halves that hold the number of the write     *)
(* section that stored them.  Memory is sequentially consistent, which is  *)
(* exact for the pulse thread: it runs on the writer's own core, above the *)
(* writer's priority.  For readers on other cores the real machine allows  *)
(* further torn reads, because the store that makes seq odd does not hold  *)
(* back the stores after it.                                               *)
(***************************************************************************)
EXTENDS Naturals

CONSTANTS
    Reader,     \* threads that read with the retry loop of vclock_now
    Agent,      \* readers that copy the page first and look at seq later
    Preempting, \* the readers that share the writer's core and preempt it
    MaxWrites   \* bound: write sections explored

ASSUME SeqlockAssumption ==
    Reader \cap Agent = {} /\ Preempting \subseteq Reader /\ MaxWrites \in Nat

VARIABLES
    seq,        \* the sequence counter
    data,       \* the guarded fields
    sections,   \* sections completed; the initial contents count as one
    writer,     \* the writer's step, "out" when it is not in a section
    reader      \* each reader's step pc, s1, s2, result, and since: the sections
                \* completed when its call began

lockVars == <<seq, data, sections, writer, reader>>

Halves == [lo : Nat, hi : Nat]

LockInit ==
    /\ seq = 0 /\ sections = 1 /\ writer = "out"
    /\ data = [lo |-> 1, hi |-> 1]
    /\ reader = [r \in Reader \cup Agent |->
                    [pc |-> "done", s1 |-> 0, s2 |-> 0, since |-> 1, result |-> [lo |-> 1, hi |-> 1]]]

\* The writer runs when no reader of a higher priority is on its core.
WriterRuns == \A r \in Preempting : reader[r].pc = "done"

----------------------------------------------------------------------------
\* seqlock_write_begin, the stores of the section, seqlock_write_end.
WriteBegin ==
    /\ WriterRuns /\ writer = "out" /\ sections <= MaxWrites
    /\ seq' = seq + 1
    /\ writer' = "lo"
    /\ UNCHANGED <<data, sections, reader>>

WriteStore(half, from, to) ==
    /\ WriterRuns /\ writer = from
    /\ data' = [data EXCEPT ![half] = sections + 1]
    /\ writer' = to
    /\ UNCHANGED <<seq, sections, reader>>

WriteEnd ==
    /\ WriterRuns /\ writer = "end"
    /\ seq' = seq + 1
    /\ sections' = sections + 1
    /\ writer' = "out"
    /\ UNCHANGED <<data, reader>>

Writer ==
    \/ WriteBegin
    \/ WriteStore("lo", "lo", "hi")
    \/ WriteStore("hi", "hi", "end")
    \/ WriteEnd

----------------------------------------------------------------------------
ReaderStep(r, from, t) ==
    /\ reader[r].pc = from
    /\ reader' = [reader EXCEPT ![r] = t]
    /\ UNCHANGED <<seq, data, sections, writer>>

\* Mutant: s2 still has the value of the last call.
ReaderCallStale(r) ==
    ReaderStep(r, "done", [reader[r] EXCEPT !.pc = "load", !.since = sections,
                                            !.result = [lo |-> 0, hi |-> 0]])

\* Mutant: s2 starts at -1.
ReaderCallMinusOne(r) ==
    ReaderStep(r, "done", [reader[r] EXCEPT !.pc = "load", !.s2 = 0 - 1, !.since = sections,
                                            !.result = [lo |-> 0, hi |-> 0]])

\* A call starts with s2 and the result zeroed.
ReaderCall(r) ==
    ReaderStep(r, "done", [reader[r] EXCEPT !.pc = "load", !.s2 = 0, !.since = sections,
                                            !.result = [lo |-> 0, hi |-> 0]])

\* Mutant: an odd seq is not waited for.
ReaderLoadOdd(r) == ReaderStep(r, "load", [reader[r] EXCEPT !.s1 = seq, !.pc = "lo"])

\* s1 = seq.  When it is odd, continue: in a do-while loop that goes to the test.
ReaderLoad(r) ==
    ReaderStep(r, "load", [reader[r] EXCEPT !.s1 = seq,
                                            !.pc = IF seq % 2 = 1 THEN "test" ELSE "lo"])

ReaderCopy(r, half, from, to) ==
    ReaderStep(r, from, [reader[r] EXCEPT !.pc = to, !.result[half] = data[half]])

\* Mutant: seq is not loaded a second time.
ReaderCheckNot(r) == ReaderStep(r, "check", [reader[r] EXCEPT !.s2 = reader[r].s1, !.pc = "test"])

ReaderCheck(r) == ReaderStep(r, "check", [reader[r] EXCEPT !.s2 = seq, !.pc = "test"])

\* while (s1 != s2)
ReaderTest(r) ==
    ReaderStep(r, "test", [reader[r] EXCEPT !.pc = IF reader[r].s1 = reader[r].s2 THEN "done" ELSE "load"])

\* The agent copies the page, seq first.
AgentLoad(r) == ReaderStep(r, "load", [reader[r] EXCEPT !.s1 = seq, !.pc = "lo"])

\* decode_telemetry compares the seq of the copy with itself; when it is odd it
\* waits ten times for the copy to change, then decodes it all the same.
AgentDecode(r) == ReaderStep(r, "check", [reader[r] EXCEPT !.s2 = reader[r].s1, !.pc = "done"])

Read(r) ==
    \/ ReaderCopy(r, "lo", "lo", "hi")
    \/ ReaderCopy(r, "hi", "hi", "check")
    \/ r \in Reader /\ (ReaderLoad(r) \/ ReaderCheck(r) \/ ReaderTest(r))
    \/ r \in Agent /\ (AgentLoad(r) \/ AgentDecode(r))

LockNext == Writer \/ \E r \in Reader \cup Agent : ReaderCall(r) \/ Read(r)

\* The scheduler runs every thread that can run, and the writer gets its core
\* whenever the preempting readers sleep, again and again.
LockSpec ==
    /\ LockInit /\ [][LockNext]_lockVars
    /\ SF_lockVars(Writer)
    /\ \A r \in Reader \cup Agent : WF_lockVars(Read(r))

----------------------------------------------------------------------------
LockTypeOK ==
    /\ seq \in Nat /\ sections \in Nat /\ data \in Halves
    /\ writer \in {"out", "lo", "hi", "end"}
    /\ reader \in [Reader \cup Agent ->
          [pc : {"done", "load", "lo", "hi", "check", "test"}, s1 : Nat, s2 : Nat,
           since : Nat, result : Halves]]

\* What a call returned was stored by one write section.
Intact(r) == reader[r].pc = "done" => reader[r].result.lo = reader[r].result.hi

\* Reads are consistent on every core when the reader's loop ends with an even
\* seq (vclock_now, vclock_local_for_global, snap).  A torn result is returned
\* only after continue has met the test with an s1 that is odd and equal to the
\* s2 of the round before.
TornOnlyOdd ==
    \A r \in Reader : reader[r].pc = "done" /\ ~ Intact(r) => reader[r].s1 = reader[r].s2 /\ reader[r].s2 % 2 = 1

\* Reads are consistent on the writer's core: the pulse thread preempts the
\* writer anywhere in a section and yet never computes a pulse from half of an
\* update (pulse_thread_fn, vclock_now, vclock_local_for_global).
PulseReadIntact == \A r \in Preempting : Intact(r)

\* "Reads are always consistent without blocking the writer"
\* (30_implementation.typ:42): no call returns half of an update, wherever its reader
\* runs (vclock_now, snap).
ReadersIntact == \A r \in Reader : Intact(r)

\* "Seqlock read: retry if seq is odd or changes" (agent.py:180): a copy of the page
\* whose seq is even was stored by one write section (decode_telemetry).
AgentReadIntact == \A r \in Agent : reader[r].s1 % 2 = 0 => Intact(r)

\* A call returns nothing older than what was complete when it began, and
\* never the zeroed result it started from (the initial s2 of the loop).
ReadFresh ==
    \A r \in Reader \cup Agent : reader[r].pc = "done" =>
        reader[r].result.lo >= reader[r].since /\ reader[r].result.hi >= reader[r].since

\* Readers never block the writer: a section that has begun ends
\* (seqlock_write_begin, the spinning loop of the pulse thread).
WriterNeverBlocked == writer # "out" ~> writer = "out"

=============================================================================

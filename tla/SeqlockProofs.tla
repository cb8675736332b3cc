--------------------------- MODULE SeqlockProofs ----------------------------
(***************************************************************************)
(* Proofs about the seqlock, for any number of readers and sections.  A    *)
(* reader that shares the writer's core and preempts it, as the pulse      *)
(* thread does, never returns a torn read: while it is in its loop the     *)
(* writer stands still, so either it finds seq odd and goes on spinning,   *)
(* or the fields do not change under it.  A reader on another core returns *)
(* a torn read only through the odd exit of its loop: an even s1 that seq  *)
(* still equals has kept the writer out since it was loaded.  And no       *)
(* reader returns anything older than its call.                            *)
(***************************************************************************)
EXTENDS Seqlock, TLAPS

\* What a preempting reader knows at each step of its loop.
PreemptInv(t) ==
    /\ t.s2 % 2 = 0
    /\ t.pc \in {"lo", "hi", "check"} => t.s1 = seq /\ writer = "out"
    /\ t.pc \in {"hi", "check"} => t.result.lo = data.lo
    /\ t.pc = "check" => t.result.hi = data.hi
    /\ t.pc = "test" => t.s1 % 2 = 1 \/ t.result.lo = t.result.hi
    /\ t.pc = "done" => t.result.lo = t.result.hi

\* What a reader on any core knows: its s1 is even and no later than seq, and
\* as long as they are equal it holds what the fields hold.
LoopInv(t) ==
    /\ t.pc \in {"lo", "hi", "check"} => t.s1 <= seq /\ t.s1 % 2 = 0
    /\ t.pc \in {"hi", "check"} /\ t.s1 = seq => t.result.lo = data.lo
    /\ t.pc = "check" /\ t.s1 = seq => t.result.hi = data.hi
    /\ t.pc = "test" /\ t.s1 = t.s2 => t.s1 % 2 = 1 \/ t.result.lo = t.result.hi
    /\ t.pc = "done" => t.result.lo = t.result.hi \/ (t.s1 = t.s2 /\ t.s2 % 2 = 1)

\* What a reader holds is no older than its call, unless it is in its first
\* round and still has the zeroes it started from.
Fresh(t) == t.result.lo >= t.since /\ t.result.hi >= t.since

FreshInv(t) ==
    /\ t.since <= sections
    /\ t.pc \in {"hi", "check"} => t.result.lo >= t.since
    /\ t.pc \in {"check", "done"} => Fresh(t)
    /\ t.pc = "load" => Fresh(t) \/ t.s2 = 0
    /\ t.pc = "test" => Fresh(t) \/ (t.s2 = 0 /\ t.s1 % 2 = 1)

ReaderInv(r, t) ==
    /\ r \in Preempting => PreemptInv(t)
    /\ r \in Reader => LoopInv(t)
    /\ FreshInv(t)

\* seq is odd exactly inside a section, the fields agree outside of one, and
\* inside they take the section's number one after the other.
WriterInv ==
    /\ seq % 2 = (IF writer = "out" THEN 0 ELSE 1)
    /\ writer = "out" => data.lo = data.hi
    /\ writer \in {"hi", "end"} => data.lo = sections + 1
    /\ writer = "end" => data.hi = sections + 1
    /\ data.lo >= sections /\ data.hi >= sections

LockInv ==
    /\ LockTypeOK
    /\ WriterInv
    /\ \A r \in Reader \cup Agent : ReaderInv(r, reader[r])

ReaderRecord ==
    [pc : {"done", "load", "lo", "hi", "check", "test"}, s1 : Nat, s2 : Nat,
     since : Nat, result : Halves]

\* A step of reader r keeps the invariant when the record it leaves does
\* (ReaderStep changes nothing else).
LEMMA ReaderStepSound ==
    ASSUME LockInv, NEW r \in Reader \cup Agent, NEW from, NEW t \in ReaderRecord,
           ReaderInv(r, t), ReaderStep(r, from, t)
    PROVE  LockInv'
<1>1. /\ reader' = [reader EXCEPT ![r] = t]
      /\ seq' = seq /\ data' = data /\ sections' = sections /\ writer' = writer
  BY DEF ReaderStep
<1>2. reader \in [Reader \cup Agent -> ReaderRecord]
  BY DEF LockInv, LockTypeOK, ReaderRecord
<1>3. reader' \in [Reader \cup Agent -> ReaderRecord]
  BY <1>1, <1>2
<1>4. LockTypeOK'
  BY <1>1, <1>3 DEF LockInv, LockTypeOK, ReaderRecord
<1>5. WriterInv'
  BY <1>1 DEF LockInv, WriterInv
<1>6. ASSUME NEW q \in Reader \cup Agent PROVE ReaderInv(q, reader[q])'
  <2>1. reader'[q] = IF q = r THEN t ELSE reader[q]
    BY <1>1, <1>2
  <2>2. ReaderInv(q, reader'[q])
    BY <2>1 DEF LockInv
  <2> QED
    BY <2>2, <1>1 DEF ReaderInv, PreemptInv, LoopInv, FreshInv, Fresh
<1> QED
  BY <1>4, <1>5, <1>6 DEF LockInv

\* While the writer takes a step every preempting reader is outside its loop.
\* For the others the step leaves seq odd, or later than their s1.
LEMMA WriterLeavesReaders ==
    ASSUME LockInv, WriterRuns, UNCHANGED reader, seq' \in Nat, sections' \in Nat,
           \/ seq' = seq /\ seq % 2 = 1
           \/ seq' = seq + 1,
           sections' >= sections
    PROVE  \A r \in Reader \cup Agent : ReaderInv(r, reader[r])'
<1> SUFFICES ASSUME NEW r \in Reader \cup Agent
             PROVE  ReaderInv(r, reader[r])'
  OBVIOUS
<1> DEFINE t == reader[r]
<1>1. t' = t /\ t \in ReaderRecord /\ ReaderInv(r, t) /\ seq \in Nat /\ sections \in Nat
  BY DEF LockInv, LockTypeOK, ReaderRecord
<1>2. t.s1 \in Nat /\ t.since \in Nat
  BY <1>1 DEF ReaderRecord
<1>3. r \in Preempting => t.pc = "done"
  BY DEF WriterRuns
<1> HIDE DEF t
<1>4. r \in Preempting => PreemptInv(t)'
  BY <1>1, <1>3 DEF ReaderInv, PreemptInv
<1>5. r \in Reader => LoopInv(t)'
  BY <1>1, <1>2 DEF ReaderInv, LoopInv
<1>6. FreshInv(t)'
  BY <1>1, <1>2 DEF ReaderInv, FreshInv, Fresh
<1> QED
  BY <1>4, <1>5, <1>6 DEF ReaderInv, t

\* The writer's steps keep the invariant (WriteBegin to WriteEnd).
LEMMA WriterStepSound ==
    ASSUME LockInv, Writer
    PROVE  LockInv'
<1>1. WriterRuns /\ UNCHANGED reader
  BY DEF Writer, WriteBegin, WriteStore, WriteEnd
<1>2. /\ seq' \in Nat /\ sections' \in Nat /\ sections' >= sections
      /\ (seq' = seq /\ seq % 2 = 1) \/ seq' = seq + 1
  BY DEF Writer, WriteBegin, WriteStore, WriteEnd, LockInv, LockTypeOK, WriterInv
<1>3. \A r \in Reader \cup Agent : ReaderInv(r, reader[r])'
  BY <1>1, <1>2, WriterLeavesReaders
<1>4. CASE WriteBegin
  <2>1. seq \in Nat /\ seq % 2 = 0 /\ seq' = seq + 1 /\ writer' = "lo"
    BY <1>4 DEF WriteBegin, LockInv, LockTypeOK, WriterInv
  <2>2. seq' % 2 = 1
    BY <2>1
  <2> QED
    BY <1>1, <1>3, <1>4, <2>1, <2>2 DEF WriteBegin, LockInv, LockTypeOK, WriterInv
<1>5. CASE WriteStore("lo", "lo", "hi")
  <2>1. sections \in Nat /\ sections + 1 \in Nat /\ data \in [lo : Nat, hi : Nat]
    BY DEF LockInv, LockTypeOK, Halves
  <2>2. data' = [data EXCEPT !["lo"] = sections + 1] /\ writer = "lo" /\ writer' = "hi"
        /\ UNCHANGED <<seq, sections>>
    BY <1>5 DEF WriteStore
  <2>3. data' \in [lo : Nat, hi : Nat] /\ data'.lo = sections + 1
        /\ data'.hi = data.hi
    BY <2>1, <2>2
  <2>4. LockTypeOK'
    BY <1>1, <2>2, <2>3 DEF LockInv, LockTypeOK, Halves
  <2>5. WriterInv'
    BY <2>1, <2>2, <2>3 DEF LockInv, WriterInv
  <2> QED
    BY <1>3, <2>4, <2>5 DEF LockInv
<1>6. CASE WriteStore("hi", "hi", "end")
  <2>1. sections \in Nat /\ sections + 1 \in Nat /\ data \in [lo : Nat, hi : Nat]
    BY DEF LockInv, LockTypeOK, Halves
  <2>2. data' = [data EXCEPT !["hi"] = sections + 1] /\ writer = "hi" /\ writer' = "end"
        /\ UNCHANGED <<seq, sections>>
    BY <1>6 DEF WriteStore
  <2>3. data' \in [lo : Nat, hi : Nat] /\ data'.hi = sections + 1
        /\ data'.lo = data.lo
    BY <2>1, <2>2
  <2>4. LockTypeOK'
    BY <1>1, <2>2, <2>3 DEF LockInv, LockTypeOK, Halves
  <2>5. WriterInv'
    BY <2>1, <2>2, <2>3 DEF LockInv, WriterInv
  <2> QED
    BY <1>3, <2>4, <2>5 DEF LockInv
<1>7. CASE WriteEnd
  <2>1. seq \in Nat /\ seq % 2 = 1 /\ seq' = seq + 1 /\ writer' = "out" /\ sections' = sections + 1
    BY <1>7 DEF WriteEnd, LockInv, LockTypeOK, WriterInv
  <2>2. seq' % 2 = 0
    BY <2>1
  <2>3. data' = data /\ data.lo = sections + 1 /\ data.hi = sections + 1 /\ sections \in Nat
    BY <1>7 DEF WriteEnd, LockInv, LockTypeOK, WriterInv
  <2>4. WriterInv'
    BY <2>1, <2>2, <2>3 DEF WriterInv
  <2> QED
    BY <1>1, <1>3, <2>1, <2>3, <2>4 DEF LockInv, LockTypeOK
<1> QED
  BY <1>4, <1>5, <1>6, <1>7 DEF Writer

\* Each step of the loop leaves a record that satisfies ReaderInv.
LEMMA ReadStepSound ==
    ASSUME LockInv, NEW r \in Reader \cup Agent, ReaderCall(r) \/ Read(r)
    PROVE  LockInv'
<1> DEFINE s == reader[r]
<1>1. /\ s \in ReaderRecord /\ ReaderInv(r, s)
      /\ seq \in Nat /\ data \in [lo : Nat, hi : Nat] /\ sections \in Nat /\ WriterInv
  BY DEF LockInv, LockTypeOK, ReaderRecord, Halves
<1>2. s.result \in [lo : Nat, hi : Nat] /\ s.s1 \in Nat /\ s.s2 \in Nat /\ s.since \in Nat
  BY <1>1 DEF ReaderRecord, Halves
<1>p. r \in Preempting => r \in Reader
  BY SeqlockAssumption
<1> HIDE DEF s
<1> USE DEF ReaderInv, PreemptInv, LoopInv, FreshInv, Fresh
<1>3. CASE ReaderCall(r)
  <2> DEFINE t == [s EXCEPT !.pc = "load", !.s2 = 0, !.since = sections,
                            !.result = [lo |-> 0, hi |-> 0]]
  <2>1. t \in ReaderRecord /\ t.pc = "load" /\ t.s2 = 0 /\ t.since = sections
    BY <1>1 DEF ReaderRecord, Halves
  <2>2. ReaderStep(r, "done", t)
    BY <1>3 DEF ReaderCall, s
  <2> HIDE DEF t
  <2>3. ReaderInv(r, t)
    BY <1>1, <2>1
  <2> QED
    BY ONLY LockInv, r \in Reader \cup Agent, <2>1, <2>2, <2>3, ReaderStepSound
<1>4. CASE ReaderLoad(r)
  <2> DEFINE t == [s EXCEPT !.s1 = seq, !.pc = IF seq % 2 = 1 THEN "test" ELSE "lo"]
  <2>1. /\ t \in ReaderRecord /\ t.s1 = seq /\ t.s2 = s.s2 /\ t.since = s.since /\ t.result = s.result
        /\ t.pc = IF seq % 2 = 1 THEN "test" ELSE "lo"
    BY <1>1 DEF ReaderRecord
  <2>2. ReaderStep(r, "load", t) /\ s.pc = "load"
    BY <1>4 DEF ReaderLoad, ReaderStep, s
  <2> HIDE DEF t
  <2>3. ReaderInv(r, t)
    BY <1>1, <2>1, <2>2 DEF WriterInv
  <2> QED
    BY ONLY LockInv, r \in Reader \cup Agent, <2>1, <2>2, <2>3, ReaderStepSound
<1>5. CASE ReaderCopy(r, "lo", "lo", "hi")
  <2> DEFINE t == [s EXCEPT !.pc = "hi", !.result["lo"] = data["lo"]]
  <2>1. /\ t \in ReaderRecord /\ t.s1 = s.s1 /\ t.s2 = s.s2 /\ t.since = s.since /\ t.pc = "hi"
        /\ t.result.lo = data.lo
    BY <1>1, <1>2 DEF ReaderRecord, Halves
  <2>2. ReaderStep(r, "lo", t) /\ s.pc = "lo"
    BY <1>5 DEF ReaderCopy, ReaderStep, s
  <2> HIDE DEF t
  <2>3. ReaderInv(r, t)
    BY <1>1, <1>2, <2>1, <2>2 DEF WriterInv
  <2> QED
    BY ONLY LockInv, r \in Reader \cup Agent, <2>1, <2>2, <2>3, ReaderStepSound
<1>6. CASE ReaderCopy(r, "hi", "hi", "check")
  <2> DEFINE t == [s EXCEPT !.pc = "check", !.result["hi"] = data["hi"]]
  <2>1. /\ t \in ReaderRecord /\ t.s1 = s.s1 /\ t.s2 = s.s2 /\ t.since = s.since /\ t.pc = "check"
        /\ t.result.lo = s.result.lo /\ t.result.hi = data.hi
    BY <1>1, <1>2 DEF ReaderRecord, Halves
  <2>2. ReaderStep(r, "hi", t) /\ s.pc = "hi"
    BY <1>6 DEF ReaderCopy, ReaderStep, s
  <2> HIDE DEF t
  <2>3. ReaderInv(r, t)
    BY <1>1, <1>2, <2>1, <2>2 DEF WriterInv
  <2> QED
    BY ONLY LockInv, r \in Reader \cup Agent, <2>1, <2>2, <2>3, ReaderStepSound
<1>7. CASE r \in Reader /\ ReaderCheck(r)
  <2> DEFINE t == [s EXCEPT !.s2 = seq, !.pc = "test"]
  <2>1. t \in ReaderRecord /\ t.s1 = s.s1 /\ t.s2 = seq /\ t.since = s.since /\ t.pc = "test" /\ t.result = s.result
    BY <1>1 DEF ReaderRecord
  <2>2. ReaderStep(r, "check", t) /\ s.pc = "check"
    BY <1>7 DEF ReaderCheck, ReaderStep, s
  <2> HIDE DEF t
  <2>3. ReaderInv(r, t)
    <3>1. t.s1 = t.s2 => writer = "out"
      BY <1>1, <1>7, <2>1, <2>2 DEF WriterInv
    <3> QED
      BY <1>1, <1>7, <2>1, <2>2, <3>1 DEF WriterInv
  <2> QED
    BY ONLY LockInv, r \in Reader \cup Agent, <2>1, <2>2, <2>3, ReaderStepSound
<1>8. CASE r \in Reader /\ ReaderTest(r)
  <2> DEFINE t == [s EXCEPT !.pc = IF s.s1 = s.s2 THEN "done" ELSE "load"]
  <2>1. /\ t \in ReaderRecord /\ t.s1 = s.s1 /\ t.s2 = s.s2 /\ t.since = s.since /\ t.result = s.result
        /\ t.pc = IF s.s1 = s.s2 THEN "done" ELSE "load"
    BY <1>1 DEF ReaderRecord
  <2>2. ReaderStep(r, "test", t) /\ s.pc = "test"
    BY <1>8 DEF ReaderTest, ReaderStep, s
  <2> HIDE DEF t
  <2>3. ReaderInv(r, t)
    BY <1>1, <1>2, <1>8, <2>1, <2>2
  <2> QED
    BY ONLY LockInv, r \in Reader \cup Agent, <2>1, <2>2, <2>3, ReaderStepSound
<1>9. CASE r \in Agent /\ AgentLoad(r)
  <2> DEFINE t == [s EXCEPT !.s1 = seq, !.pc = "lo"]
  <2>1. t \in ReaderRecord /\ t.pc = "lo" /\ t.since = s.since
    BY <1>1, <1>2 DEF ReaderRecord
  <2>2. ReaderStep(r, "load", t)
    BY <1>9 DEF AgentLoad, s
  <2>3. r \notin Reader
    BY <1>9, SeqlockAssumption
  <2> HIDE DEF t
  <2>4. ReaderInv(r, t)
    BY <1>1, <1>p, <2>1, <2>3
  <2> QED
    BY ONLY LockInv, r \in Reader \cup Agent, <2>1, <2>2, <2>4, ReaderStepSound
<1>10. CASE r \in Agent /\ AgentDecode(r)
  <2> DEFINE t == [s EXCEPT !.s2 = s.s1, !.pc = "done"]
  <2>1. t \in ReaderRecord /\ t.pc = "done" /\ t.since = s.since /\ t.result = s.result
    BY <1>1, <1>2 DEF ReaderRecord
  <2>2. ReaderStep(r, "check", t) /\ s.pc = "check"
    BY <1>10 DEF AgentDecode, ReaderStep, s
  <2>3. r \notin Reader
    BY <1>10, SeqlockAssumption
  <2> HIDE DEF t
  <2>4. ReaderInv(r, t)
    BY <1>1, <1>p, <2>1, <2>2, <2>3
  <2> QED
    BY ONLY LockInv, r \in Reader \cup Agent, <2>1, <2>2, <2>4, ReaderStepSound
<1> QED
  BY <1>3, <1>4, <1>5, <1>6, <1>7, <1>8, <1>9, <1>10 DEF Read

\* The invariant holds of every reachable state.
LEMMA LockInvariance == LockSpec => []LockInv
<1>1. LockInit => LockInv
  <2> SUFFICES ASSUME LockInit PROVE LockInv
    OBVIOUS
  <2>2. LockTypeOK
    BY DEF LockInit, LockTypeOK, Halves
  <2>3. WriterInv
    BY DEF LockInit, WriterInv
  <2>4. \A r \in Reader \cup Agent : ReaderInv(r, reader[r])
    <3> SUFFICES ASSUME NEW r \in Reader \cup Agent PROVE ReaderInv(r, reader[r])
      OBVIOUS
    <3> DEFINE t == reader[r]
    <3>1. t = [pc |-> "done", s1 |-> 0, s2 |-> 0, since |-> 1, result |-> [lo |-> 1, hi |-> 1]]
      BY DEF LockInit
    <3> HIDE DEF t
    <3>2. t.pc = "done" /\ t.s1 = 0 /\ t.s2 = 0 /\ t.since = 1 /\ t.result = [lo |-> 1, hi |-> 1] /\ sections = 1
      BY <3>1 DEF LockInit
    <3>3. ReaderInv(r, t)
      BY <3>2 DEF ReaderInv, PreemptInv, LoopInv, FreshInv, Fresh
    <3> QED
      BY <3>3 DEF t
  <2> QED
    BY <2>2, <2>3, <2>4 DEF LockInv
<1>2. LockInv /\ [LockNext]_lockVars => LockInv'
  <2> SUFFICES ASSUME LockInv, [LockNext]_lockVars PROVE LockInv'
    OBVIOUS
  <2>1. CASE Writer
    BY <2>1, WriterStepSound
  <2>2. CASE \E r \in Reader \cup Agent : ReaderCall(r) \/ Read(r)
    BY <2>2, ReadStepSound
  <2>3. CASE UNCHANGED lockVars
    BY <2>3 DEF lockVars, LockInv, LockTypeOK, WriterInv, ReaderInv, PreemptInv, LoopInv, FreshInv, Fresh
  <2> QED
    BY <2>1, <2>2, <2>3 DEF LockNext
<1> QED
  BY <1>1, <1>2, PTL DEF LockSpec

\* Type correctness of the seqlock (vclock.c, telemetry.c).
THEOREM LockTypeCorrect == LockSpec => []LockTypeOK
BY LockInvariance, PTL DEF LockInv

\* On the writer's core no read is torn: what vclock_now and
\* vclock_local_for_global return to the pulse thread was stored by one write
\* section, whatever readers run on other cores.
THEOREM PulseNeverTorn == LockSpec => []PulseReadIntact
<1>1. LockInv => PulseReadIntact
  BY SeqlockAssumption DEF LockInv, ReaderInv, PreemptInv, PulseReadIntact, Intact
<1> QED
  BY <1>1, LockInvariance, PTL

\* On any core a read is torn only when the loop was left with an odd seq, through
\* the continue of vclock_now and of snap that meets the test of the do-while.
THEOREM TornReadsAreOdd == LockSpec => []TornOnlyOdd
<1>1. LockInv => TornOnlyOdd
  BY DEF LockInv, ReaderInv, LoopInv, TornOnlyOdd, Intact
<1> QED
  BY <1>1, LockInvariance, PTL

\* No call returns what was stored before it began, nor its own zeroes: not the
\* loops of vclock_now and snap, nor the agent's copy of the page.
THEOREM ReadsAreFresh == LockSpec => []ReadFresh
<1>1. LockInv => ReadFresh
  BY DEF LockInv, ReaderInv, FreshInv, Fresh, ReadFresh
<1> QED
  BY <1>1, LockInvariance, PTL

=============================================================================

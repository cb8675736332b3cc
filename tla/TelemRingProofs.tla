--------------------------- MODULE TelemRingProofs --------------------------
(***************************************************************************)
(* Proofs about the telemetry ring for every size of the ring and every    *)
(* number of calls: no record is torn, the indices keep their distance,    *)
(* and the ring implements the bounded queue of TelemQueue.                *)
(***************************************************************************)
EXTENDS TelemRing, ArithmeticLemmas

USE RingAssumption

\* telem_udp_emit has found room and has not published yet.
Filling == emit \in {"lo", "hi", "publish"}

Slot(i) == g_ring[i % RingSize]

\* What the main thread has stored of its record.
EmitInv ==
    /\ emit \in {"hi", "publish"} => Slot(g_write_idx).lo = calls
    /\ emit = "publish" => Slot(g_write_idx).hi = calls

\* What the sender has copied of its record.
SenderInv ==
    /\ sender.pc \in {"hi", "send", "advance"} => g_read_idx < sender.w
    /\ sender.pc \in {"hi", "send"} => sender.rec.lo = Slot(g_read_idx).lo
    /\ sender.pc = "send" => sender.rec.hi = Slot(g_read_idx).hi

\* The records between the indices are whole.
SlotsInv == \A i \in Nat : g_read_idx <= i /\ i < g_write_idx => Slot(i).lo = Slot(i).hi

RingInv == RingTypeOK /\ RingBound /\ EmitInv /\ SenderInv /\ SlotsInv /\ SentIntact

----------------------------------------------------------------------------
\* telem_udp_emit fills a slot that is not between the indices, and changes no
\* other: what the sender copies stays as it is.
LEMMA StoreOutside ==
    ASSUME RingTypeOK, RingBound, Filling, NEW half \in {"lo", "hi"}, NEW v \in Nat,
           g_ring' = [g_ring EXCEPT ![g_write_idx % RingSize][half] = v]
    PROVE  /\ g_ring' \in [0 .. RingSize - 1 -> Record]
           /\ \A i \in Nat : g_read_idx <= i /\ i < g_write_idx =>
                 g_ring'[i % RingSize] = g_ring[i % RingSize]
           /\ g_ring'[g_write_idx % RingSize] = [g_ring[g_write_idx % RingSize] EXCEPT ![half] = v]
<1> DEFINE w == g_write_idx % RingSize
<1>1. w \in 0 .. RingSize - 1 /\ g_ring \in [0 .. RingSize - 1 -> Record]
  BY SlotInRing DEF RingTypeOK
<1>2. g_ring[w] \in Record
  BY <1>1
<1>3. [g_ring[w] EXCEPT ![half] = v] \in Record
  BY <1>2 DEF Record
<1>4. g_ring' = [g_ring EXCEPT ![w] = [g_ring[w] EXCEPT ![half] = v]]
  OBVIOUS
<1>5. ASSUME NEW i \in Nat, g_read_idx <= i, i < g_write_idx
      PROVE  g_ring'[i % RingSize] = g_ring[i % RingSize]
  <2>1. g_write_idx - i < RingSize
    BY <1>5 DEF RingTypeOK, RingBound, Filling
  <2>2. i \in Int /\ g_write_idx \in Int
    BY DEF RingTypeOK
  <2>3. i % RingSize # w /\ i % RingSize \in 0 .. RingSize - 1
    BY <1>5, <2>1, <2>2, SlotsDistinct, SlotInRing
  <2> HIDE DEF w
  <2> QED
    BY <1>1, <1>4, <2>3
<1> HIDE DEF w
<1>6. g_ring' \in [0 .. RingSize - 1 -> Record] /\ g_ring'[w] = [g_ring[w] EXCEPT ![half] = v]
  BY <1>1, <1>3, <1>4
<1> QED
  BY <1>5, <1>6 DEF w

----------------------------------------------------------------------------
\* The steps of telem_udp_emit and telem_udp_close keep the invariant.
LEMMA EmitSteps ==
    ASSUME RingInv, Emit \/ Close
    PROVE  RingInv'
<1> USE DEF RingInv
<1>1. CASE EmitBegin
  <2>1. /\ UNCHANGED <<g_ring, g_write_idx, g_read_idx, g_running, sender, sent>>
        /\ calls' = calls + 1 /\ emit = "idle" /\ emit' \in {"idle", "lo"}
        /\ emit' = "lo" => g_write_idx - g_read_idx < RingSize
    BY <1>1 DEF EmitBegin, RingTypeOK
  <2>2. RingTypeOK' /\ RingBound'
    BY <2>1 DEF RingTypeOK, RingBound
  <2> QED
    BY <2>1, <2>2 DEF EmitInv, SenderInv, SlotsInv, SentIntact, Slot
<1>2. CASE EmitStore("lo", "lo", "hi") \/ EmitStore("hi", "hi", "publish")
  <2>1. PICK half \in {"lo", "hi"} :
           /\ g_ring' = [g_ring EXCEPT ![g_write_idx % RingSize][half] = calls]
           /\ emit = half /\ emit' = IF half = "lo" THEN "hi" ELSE "publish"
           /\ UNCHANGED <<g_write_idx, g_read_idx, g_running, calls, sender, sent>>
    BY <1>2 DEF EmitStore
  <2>2. Filling /\ Filling' /\ calls \in Nat /\ g_write_idx \in Nat /\ g_read_idx \in Nat
    BY <2>1 DEF Filling, RingTypeOK
  <2>3. /\ g_ring' \in [0 .. RingSize - 1 -> Record]
        /\ \A i \in Nat : g_read_idx <= i /\ i < g_write_idx =>
              g_ring'[i % RingSize] = g_ring[i % RingSize]
        /\ g_ring'[g_write_idx % RingSize] =
              [g_ring[g_write_idx % RingSize] EXCEPT ![half] = calls]
    BY <2>1, <2>2, StoreOutside
  <2>4. RingTypeOK' /\ RingBound'
    BY <2>1, <2>2, <2>3 DEF RingTypeOK, RingBound
  <2>5. EmitInv'
    <3>1. g_ring[g_write_idx % RingSize] \in Record
      BY SlotInRing DEF RingTypeOK
    <3>2. /\ g_ring'[g_write_idx % RingSize][half] = calls
          /\ half = "hi" => g_ring'[g_write_idx % RingSize].lo = g_ring[g_write_idx % RingSize].lo
      BY <2>3, <3>1 DEF Record
    <3> QED
      BY <2>1, <3>2 DEF EmitInv, Slot
  <2>6. SenderInv'
    <3>1. sender.pc \in {"hi", "send", "advance"} => g_read_idx < g_write_idx
      BY <2>2 DEF SenderInv, RingBound, RingTypeOK
    <3>2. sender.pc \in {"hi", "send"} => g_ring'[g_read_idx % RingSize] = g_ring[g_read_idx % RingSize]
      BY <2>2, <2>3, <3>1
    <3> QED
      BY <2>1, <3>2 DEF SenderInv, Slot
  <2>7. SlotsInv' /\ SentIntact'
    BY <2>1, <2>3 DEF SlotsInv, SentIntact, Slot
  <2> QED
    BY <2>4, <2>5, <2>6, <2>7
<1>3. CASE EmitPublish
  <2>1. /\ UNCHANGED <<g_ring, g_read_idx, g_running, calls, sender, sent>>
        /\ emit = "publish" /\ emit' = "idle" /\ g_write_idx' = g_write_idx + 1
    BY <1>3 DEF EmitPublish
  <2>2. RingTypeOK' /\ RingBound'
    BY <2>1 DEF RingTypeOK, RingBound
  <2>3. SlotsInv'
    <3> SUFFICES ASSUME NEW i \in Nat, g_read_idx <= i, i < g_write_idx + 1
                 PROVE  Slot(i).lo = Slot(i).hi
      BY <2>1 DEF SlotsInv, Slot
    <3>1. i = g_write_idx \/ i < g_write_idx
      BY DEF RingTypeOK
    <3>2. Slot(g_write_idx).lo = Slot(g_write_idx).hi
      BY <2>1 DEF EmitInv
    <3> QED
      BY <3>1, <3>2 DEF SlotsInv
  <2> QED
    BY <2>1, <2>2, <2>3 DEF EmitInv, SenderInv, SentIntact, Slot
<1>4. CASE Close
  BY <1>4 DEF Close, RingTypeOK, RingBound, EmitInv, SenderInv, SlotsInv, SentIntact, Slot
<1> QED
  BY <1>1, <1>2, <1>3, <1>4 DEF Emit

\* The steps of sender_thread keep the invariant.
LEMMA SenderSteps ==
    ASSUME RingInv, Sender
    PROVE  RingInv'
<1> USE DEF RingInv
<1>t. /\ sender \in [pc : {"loop", "drain", "hi", "send", "advance", "exited"}, w : Nat, rec : Record]
      /\ g_write_idx \in Nat /\ g_read_idx \in Nat
      /\ g_ring \in [0 .. RingSize - 1 -> Record]
  BY DEF RingTypeOK
<1>s. Slot(g_read_idx) \in Record
  BY <1>t, SlotInRing DEF Slot
<1>1. CASE SenderLoop \/ SenderDrained \/ SenderNoBufs
  <2>1. UNCHANGED <<g_ring, g_write_idx, g_read_idx, g_running, emit, calls, sent>>
    BY <1>1 DEF SenderLoop, SenderDrained, SenderNoBufs
  <2>2. /\ sender' \in [pc : {"loop", "drain", "exited"}, w : Nat, rec : Record]
        /\ sender'.pc = "drain" => sender'.w = g_write_idx
        /\ sender'.w <= g_write_idx
    <3>1. \/ sender' = [sender EXCEPT !.pc = "drain", !.w = g_write_idx]
          \/ sender' = [sender EXCEPT !.pc = "exited"]
          \/ sender' = [sender EXCEPT !.pc = "loop"]
      BY <1>1 DEF SenderLoop, SenderDrained, SenderNoBufs
    <3>2. CASE sender' = [sender EXCEPT !.pc = "drain", !.w = g_write_idx]
      <4>1. sender' = [pc |-> "drain", w |-> g_write_idx, rec |-> sender.rec] /\ sender.rec \in Record
        BY <1>t, <3>2
      <4>2. sender'.w = g_write_idx /\ sender' \in [pc : {"loop", "drain", "exited"}, w : Nat, rec : Record]
        BY <1>t, <4>1
      <4> QED
        BY <1>t, <4>2
    <3>3. CASE \E pc \in {"exited", "loop"} : sender' = [sender EXCEPT !.pc = pc]
      BY <1>t, <3>3 DEF RingBound
    <3> QED
      BY <3>1, <3>2, <3>3
  <2>3. RingTypeOK' /\ RingBound'
    BY <2>1, <2>2 DEF RingTypeOK, RingBound
  <2> QED
    BY <2>1, <2>2, <2>3 DEF EmitInv, SenderInv, SlotsInv, SentIntact, Slot
<1>2. CASE SenderCopy("lo", "drain", "hi") \/ SenderCopy("hi", "hi", "send")
  <2>1. PICK half \in {"lo", "hi"} :
           /\ sender' = [sender EXCEPT !.pc = IF half = "lo" THEN "hi" ELSE "send",
                                       !.rec[half] = g_ring[g_read_idx % RingSize][half]]
           /\ sender.pc = (IF half = "lo" THEN "drain" ELSE "hi") /\ g_read_idx < sender.w
           /\ UNCHANGED <<g_ring, g_write_idx, g_read_idx, g_running, emit, calls, sent>>
    BY <1>2 DEF SenderCopy
  <2>2. sender.rec \in [lo : Nat, hi : Nat] /\ Slot(g_read_idx)[half] \in Nat
    BY <1>t, <1>s DEF Record
  <2>3. /\ sender' \in [pc : {"hi", "send"}, w : Nat, rec : Record]
        /\ sender'.pc = (IF half = "lo" THEN "hi" ELSE "send") /\ sender'.w = sender.w
        /\ sender'.rec[half] = Slot(g_read_idx)[half]
        /\ half = "hi" => sender'.rec.lo = sender.rec.lo
    BY <1>t, <2>1, <2>2 DEF Record, Slot
  <2>4. RingTypeOK' /\ RingBound'
    BY <2>1, <2>3 DEF RingTypeOK, RingBound
  <2>5. SenderInv'
    BY <2>1, <2>3 DEF SenderInv, Slot
  <2> QED
    BY <2>1, <2>4, <2>5 DEF EmitInv, SlotsInv, SentIntact, Slot
<1>3. CASE SenderSend
  <2>1. /\ sent' \in {sent, Append(sent, sender.rec)} /\ sender.pc = "send"
        /\ UNCHANGED <<g_ring, g_write_idx, g_read_idx, g_running, emit, calls>>
    BY <1>3 DEF SenderSend
  <2>2. /\ sender' \in [pc : {"advance"}, w : Nat, rec : Record]
        /\ sender'.w = sender.w /\ sender'.rec = sender.rec
    BY <1>3, <1>t DEF SenderSend
  <2>3. sent \in Seq(Record) /\ sender.rec \in Record
    BY <1>t DEF RingTypeOK
  <2>4. RingTypeOK' /\ RingBound'
    <3>1. sent' \in Seq(Record)
      BY <2>1, <2>3
    <3>2. g_read_idx <= sender'.w
      BY <1>t, <2>1, <2>2 DEF SenderInv
    <3>3. RingTypeOK'
      BY <2>1, <2>2, <3>1 DEF RingTypeOK
    <3> QED
      BY <2>1, <2>2, <3>2, <3>3 DEF RingBound
  <2>5. sender.rec.lo = sender.rec.hi
    BY <2>1, <1>t DEF SenderInv, SlotsInv, RingBound
  <2>6. SentIntact'
    BY <2>1, <2>3, <2>5 DEF SentIntact
  <2> QED
    BY <2>1, <2>2, <2>4, <2>6 DEF EmitInv, SenderInv, SlotsInv, Slot
<1>4. CASE SenderAdvance
  <2>1. /\ sender.pc = "advance" /\ g_read_idx' = g_read_idx + 1
        /\ sender' \in [pc : {"drain"}, w : Nat, rec : Record] /\ sender'.w = sender.w
        /\ UNCHANGED <<g_ring, g_write_idx, g_running, emit, calls, sent>>
    BY <1>4, <1>t DEF SenderAdvance
  <2>2. RingTypeOK' /\ RingBound'
    BY <1>t, <2>1 DEF RingTypeOK, RingBound, SenderInv
  <2> QED
    <3>1. SlotsInv'
      BY <1>t, <2>1 DEF SlotsInv, Slot
    <3> QED
      BY <2>1, <2>2, <3>1 DEF EmitInv, SenderInv, SentIntact, Slot
<1> QED
  BY <1>1, <1>2, <1>3, <1>4 DEF Sender

\* The invariant holds of every reachable state.
LEMMA RingInvariance == RingSpec => []RingInv
<1>1. RingInit => RingInv
  <2> SUFFICES ASSUME RingInit PROVE RingInv
    OBVIOUS
  <2>1. RingTypeOK
    BY DEF RingInit, RingTypeOK, Record
  <2>2. RingBound /\ EmitInv /\ SenderInv /\ SlotsInv
    BY DEF RingInit, RingBound, EmitInv, SenderInv, SlotsInv
  <2>3. SentIntact
    BY DEF RingInit, SentIntact
  <2> QED
    BY <2>1, <2>2, <2>3 DEF RingInv
<1>2. RingInv /\ [RingNext]_ringVars => RingInv'
  <2> SUFFICES ASSUME RingInv, [RingNext]_ringVars PROVE RingInv'
    OBVIOUS
  <2>1. CASE UNCHANGED ringVars
    BY <2>1 DEF ringVars, RingInv, RingTypeOK, RingBound, EmitInv, SenderInv, SlotsInv, SentIntact, Slot
  <2> QED
    BY <2>1, EmitSteps, SenderSteps DEF RingNext
<1> QED
  BY <1>1, <1>2, PTL DEF RingSpec

\* Type correctness of the ring (telemetry_udp.c).
THEOREM RingTypeCorrect == RingSpec => []RingTypeOK
BY RingInvariance, PTL DEF RingInv

\* Reader and writer never pass or lap each other, for every size of the ring
\* (the check of telem_udp_emit on a read index that may be stale).
THEOREM RingNeverOverrun == RingSpec => []RingBound
BY RingInvariance, PTL DEF RingInv

\* No record leaves torn (sender_thread against telem_udp_emit).
THEOREM RecordsNeverTorn == RingSpec => []SentIntact
BY RingInvariance, PTL DEF RingInv

----------------------------------------------------------------------------
\* The first index of the abstract queue.
QueueHead == IF sender.pc = "advance" THEN g_read_idx + 1 ELSE g_read_idx

\* The abstract queue is a sequence whose length is the distance of the indices.
LEMMA QueueIsSeq ==
    ASSUME RingInv
    PROVE  /\ QueueHead \in Nat /\ QueueHead <= g_write_idx /\ g_read_idx <= QueueHead
           /\ Queue = [i \in 1 .. g_write_idx - QueueHead |-> Slot(QueueHead + i - 1).lo]
           /\ Queue \in Seq(Nat)
           /\ Len(Queue) = g_write_idx - QueueHead
<1>1. QueueHead \in Nat /\ QueueHead <= g_write_idx /\ g_read_idx <= QueueHead /\ g_write_idx \in Nat
  BY DEF RingInv, RingTypeOK, RingBound, SenderInv, QueueHead
<1>2. Queue = [i \in 1 .. g_write_idx - QueueHead |-> Slot(QueueHead + i - 1).lo]
  BY DEF Queue, QueueHead, Slot
<1>3. \A i \in 1 .. g_write_idx - QueueHead : Slot(QueueHead + i - 1).lo \in Nat
  <2> SUFFICES ASSUME NEW i \in 1 .. g_write_idx - QueueHead
               PROVE  Slot(QueueHead + i - 1).lo \in Nat
    OBVIOUS
  <2>1. QueueHead + i - 1 \in Int
    BY <1>1
  <2>2. (QueueHead + i - 1) % RingSize \in 0 .. RingSize - 1
    BY <2>1, SlotInRing
  <2>3. g_ring \in [0 .. RingSize - 1 -> Record]
    BY DEF RingInv, RingTypeOK
  <2>4. Slot(QueueHead + i - 1) \in Record
    BY <2>2, <2>3 DEF Slot
  <2> QED
    BY <2>4 DEF Record
<1>4. g_write_idx - QueueHead \in Nat
  BY <1>1
<1> HIDE DEF QueueHead
<1> QED
  BY <1>1, <1>2, <1>3, <1>4

\* A step that leaves the indices of the queue and its slots alone leaves the
\* queue alone.
LEMMA QueueSame ==
    ASSUME RingInv, QueueHead' = QueueHead, g_write_idx' = g_write_idx,
           \A i \in Nat : g_read_idx <= i /\ i < g_write_idx =>
               g_ring'[i % RingSize] = g_ring[i % RingSize]
    PROVE  Queue' = Queue
<1> DEFINE h == QueueHead
<1>1. h \in Nat /\ h <= g_write_idx /\ g_read_idx <= h /\ g_write_idx \in Nat /\ g_read_idx \in Nat
  BY QueueIsSeq DEF RingInv, RingTypeOK
<1>2. Queue' = [i \in 1 .. g_write_idx - h |-> g_ring'[(h + i - 1) % RingSize].lo]
  BY DEF Queue, QueueHead
<1>3. Queue = [i \in 1 .. g_write_idx - h |-> g_ring[(h + i - 1) % RingSize].lo]
  BY DEF Queue, QueueHead
<1> HIDE DEF h
<1>4. \A i \in 1 .. g_write_idx - h : g_ring'[(h + i - 1) % RingSize] = g_ring[(h + i - 1) % RingSize]
  <2> SUFFICES ASSUME NEW i \in 1 .. g_write_idx - h
               PROVE  g_ring'[(h + i - 1) % RingSize] = g_ring[(h + i - 1) % RingSize]
    OBVIOUS
  <2>1. h + i - 1 \in Nat /\ g_read_idx <= h + i - 1 /\ h + i - 1 < g_write_idx
    BY <1>1
  <2> QED
    BY <2>1
<1> QED
  BY <1>2, <1>3, <1>4

\* The abstract variable out: the numbers of the records sent.
OutNumbers == [i \in 1 .. Len(sent) |-> sent[i].lo]

\* A call of telem_udp_emit is a refusal, or nothing until it publishes.
LEMMA EmitRefines ==
    ASSUME RingInv, RingInv', Emit \/ Close
    PROVE  [TelemQueue!QueueNext]_(TelemQueue!queueVars)
<1> USE DEF TelemQueue!QueueNext, TelemQueue!queueVars
<1>t. g_write_idx \in Nat /\ g_read_idx \in Nat /\ calls \in Nat
  BY DEF RingInv, RingTypeOK
<1>1. CASE EmitBegin
  <2>1. /\ UNCHANGED <<g_ring, g_write_idx, g_read_idx, g_running, sender, sent>>
        /\ calls' = calls + 1 /\ emit = "idle"
        /\ emit' = IF g_write_idx - g_read_idx >= RingSize THEN "idle" ELSE "lo"
    BY <1>1 DEF EmitBegin
  <2>2. Queue' = Queue /\ OutNumbers' = OutNumbers
    BY <2>1 DEF Queue, OutNumbers
  <2>3. CASE emit' = "lo"
    BY <2>1, <2>2, <2>3 DEF OutNumbers
  <2>4. CASE emit' = "idle"
    <3>1. g_write_idx - g_read_idx >= RingSize
      BY <2>1, <2>4
    <3>2. Len(Queue) + 1 >= RingSize
      <4>1. QueueHead <= g_read_idx + 1 /\ QueueHead \in Nat
        BY <1>t DEF QueueHead
      <4> QED
        BY <3>1, <4>1, <1>t, QueueIsSeq
    <3> QED
      BY <2>1, <2>2, <2>4, <3>2, <1>t DEF TelemQueue!Refuse, OutNumbers
  <2> QED
    BY <2>1, <2>3, <2>4
<1>2. CASE EmitStore("lo", "lo", "hi") \/ EmitStore("hi", "hi", "publish")
  <2>1. PICK half \in {"lo", "hi"} :
           /\ g_ring' = [g_ring EXCEPT ![g_write_idx % RingSize][half] = calls]
           /\ emit \in {"lo", "hi"} /\ emit' \in {"hi", "publish"}
           /\ UNCHANGED <<g_write_idx, g_read_idx, g_running, calls, sender, sent>>
    BY <1>2 DEF EmitStore
  <2>2. \A i \in Nat : g_read_idx <= i /\ i < g_write_idx =>
           g_ring'[i % RingSize] = g_ring[i % RingSize]
    BY <2>1, <1>t, StoreOutside DEF RingInv, Filling
  <2>3. QueueHead' = QueueHead
    BY <2>1 DEF QueueHead
  <2>4. Queue' = Queue
    BY <2>1, <2>2, <2>3, QueueSame
  <2> QED
    BY <2>1, <2>4
<1>3. CASE EmitPublish
  <2>1. /\ UNCHANGED <<g_ring, g_read_idx, g_running, calls, sender, sent>>
        /\ emit = "publish" /\ emit' = "idle" /\ g_write_idx' = g_write_idx + 1
    BY <1>3 DEF EmitPublish
  <2>2. Len(Queue) < RingSize
    <3>1. QueueHead >= g_read_idx /\ QueueHead \in Nat /\ Len(Queue) = g_write_idx - QueueHead
      BY QueueIsSeq
    <3>2. g_write_idx - g_read_idx + 1 <= RingSize
      BY <2>1 DEF RingInv, RingBound
    <3> QED
      BY <3>1, <3>2, <1>t
  <2>3. Queue' = Append(Queue, calls)
    <3> DEFINE h == QueueHead
               n == g_write_idx - h
               q(i) == Slot(h + i - 1).lo
    <3>1. h \in Nat /\ n \in Nat /\ Queue = [i \in 1 .. n |-> q(i)] /\ Queue \in Seq(Nat) /\ Len(Queue) = n
      BY <1>t, QueueIsSeq
    <3>2. QueueHead' = h /\ g_write_idx' - h = n + 1
      BY <2>1, <1>t, <3>1 DEF QueueHead
    <3>3. Queue' = [i \in 1 .. n + 1 |-> q(i)]
      <4>1. Queue' = [i \in 1 .. g_write_idx' - QueueHead' |-> g_ring'[(QueueHead' + i - 1) % RingSize].lo]
        BY DEF Queue, QueueHead
      <4> QED
        BY <4>1, <3>2, <2>1 DEF Slot
    <3>4. h + (n + 1) - 1 = g_write_idx
      BY <3>1, <1>t
    <3>5. q(n + 1) = calls
      BY <2>1, <3>4 DEF RingInv, EmitInv
    <3> HIDE DEF h, n, q
    <3>6. Append(Queue, calls) = [i \in 1 .. n + 1 |-> IF i = n + 1 THEN calls ELSE Queue[i]]
      BY <3>1, <1>t
    <3>7. \A i \in 1 .. n + 1 : i # n + 1 => q(i) = Queue[i]
      BY <3>1
    <3> QED
      BY <3>3, <3>5, <3>6, <3>7
  <2> QED
    BY <2>1, <2>2, <2>3 DEF TelemQueue!Put
<1>4. CASE Close
  BY <1>4 DEF Close, Queue
<1> QED
  BY <1>1, <1>2, <1>3, <1>4 DEF Emit

\* A pass of sender_thread takes a record where it hands one to the socket, and
\* is nothing to the queue everywhere else.
LEMMA SenderRefines ==
    ASSUME RingInv, RingInv', Sender
    PROVE  [TelemQueue!QueueNext]_(TelemQueue!queueVars)
<1> USE DEF TelemQueue!QueueNext, TelemQueue!queueVars
<1>t. /\ sender \in [pc : {"loop", "drain", "hi", "send", "advance", "exited"}, w : Nat, rec : Record]
      /\ g_write_idx \in Nat /\ g_read_idx \in Nat /\ sent \in Seq(Record)
  BY DEF RingInv, RingTypeOK
<1>u. UNCHANGED <<g_ring, g_write_idx, emit, calls>>
  BY DEF Sender, SenderLoop, SenderDrained, SenderCopy, SenderSend, SenderNoBufs, SenderAdvance
<1>1. CASE \/ SenderLoop \/ SenderDrained \/ SenderNoBufs
           \/ SenderCopy("lo", "drain", "hi") \/ SenderCopy("hi", "hi", "send")
  <2>1. /\ UNCHANGED <<g_read_idx, sent>> /\ sender.pc # "advance" /\ sender'.pc # "advance"
    BY <1>1, <1>t DEF SenderLoop, SenderDrained, SenderCopy, SenderNoBufs
  <2>2. Queue' = Queue
    BY <1>u, <2>1 DEF Queue
  <2> QED
    BY <1>u, <2>1, <2>2
<1>2. CASE SenderSend
  <2>1. /\ sent' \in {sent, Append(sent, sender.rec)} /\ sender.pc = "send" /\ sender'.pc = "advance"
        /\ UNCHANGED g_read_idx
    BY <1>2, <1>t DEF SenderSend
  <2> DEFINE n == g_write_idx - g_read_idx
             q(i) == Slot(g_read_idx + i - 1).lo
  <2>2. n \in Nat /\ n > 0
    BY <2>1, <1>t DEF RingInv, SenderInv, RingBound
  <2>3. Queue = [i \in 1 .. n |-> q(i)] /\ Queue \in Seq(Nat) /\ Len(Queue) = n
    BY <2>1, QueueIsSeq DEF QueueHead
  <2>4. Queue' = [i \in 1 .. n - 1 |-> q(i + 1)]
    <3>1. Queue' = [i \in 1 .. g_write_idx - (g_read_idx + 1) |->
                       g_ring[((g_read_idx + 1) + i - 1) % RingSize].lo]
      BY <1>u, <2>1 DEF Queue
    <3>2. g_write_idx - (g_read_idx + 1) = n - 1
      BY <1>t
    <3>3. \A i \in 1 .. n - 1 : (g_read_idx + 1) + i - 1 = g_read_idx + (i + 1) - 1
      BY <1>t
    <3> QED
      BY <3>1, <3>2, <3>3 DEF Slot
  <2>5. q(1) = sender.rec.lo
    <3>1. g_read_idx + 1 - 1 = g_read_idx
      BY <1>t
    <3> QED
      BY <2>1, <3>1 DEF RingInv, SenderInv
  <2> HIDE DEF n, q
  <2>6. Queue # <<>> /\ Head(Queue) = sender.rec.lo
    BY <2>2, <2>3, <2>5
  <2>7. Queue' = Tail(Queue)
    <3>1. Tail(Queue) = [i \in 1 .. n - 1 |-> Queue[i + 1]]
      BY <2>2, <2>3
    <3>2. \A i \in 1 .. n - 1 : Queue[i + 1] = q(i + 1)
      BY <2>2, <2>3
    <3> QED
      BY <2>4, <3>1, <3>2
  <2>8. OutNumbers' \in {OutNumbers, Append(OutNumbers, sender.rec.lo)}
    <3>1. CASE sent' = sent
      BY <3>1 DEF OutNumbers
    <3>2. CASE sent' = Append(sent, sender.rec)
      <4> DEFINE m == Len(sent)
      <4>1. m \in Nat /\ Len(sent') = m + 1 /\ sent'[m + 1] = sender.rec /\ sender.rec \in Record
        BY <1>t, <3>2
      <4>2. \A i \in 1 .. m : sent'[i] = sent[i] /\ sent[i] \in Record
        BY <1>t, <3>2
      <4>3. OutNumbers = [i \in 1 .. m |-> sent[i].lo]
        BY DEF OutNumbers
      <4>4. OutNumbers' = [i \in 1 .. m + 1 |-> sent'[i].lo]
        BY <4>1 DEF OutNumbers
      <4> HIDE DEF m
      <4>5. OutNumbers \in Seq(Nat) /\ Len(OutNumbers) = m /\ sender.rec.lo \in Nat
        BY <4>1, <4>2, <4>3 DEF Record
      <4>6. Append(OutNumbers, sender.rec.lo) =
               [i \in 1 .. m + 1 |-> IF i = m + 1 THEN sender.rec.lo ELSE OutNumbers[i]]
        BY <4>1, <4>5
      <4>7. \A i \in 1 .. m + 1 :
               sent'[i].lo = IF i = m + 1 THEN sender.rec.lo ELSE OutNumbers[i]
        BY <4>1, <4>2, <4>3
      <4> QED
        BY <4>4, <4>6, <4>7
    <3> QED
      BY <2>1, <3>1, <3>2
  <2> QED
    BY <1>u, <2>6, <2>7, <2>8 DEF TelemQueue!Take, OutNumbers
<1>3. CASE SenderAdvance
  <2>1. /\ sender.pc = "advance" /\ sender'.pc = "drain" /\ g_read_idx' = g_read_idx + 1
        /\ UNCHANGED sent
    BY <1>3, <1>t DEF SenderAdvance
  <2>2. Queue' = Queue
    BY <1>u, <2>1 DEF Queue
  <2> QED
    BY <1>u, <2>1, <2>2
<1> QED
  BY <1>1, <1>2, <1>3 DEF Sender

\* The ring implements the queue of TelemQueue, for every size of the ring:
\* records leave in the order of the calls, none twice, and none is dropped
\* unless the ring is full (telem_udp_emit, sender_thread).
THEOREM RingImplementsQueue == RingSpec => ImplementsQueue
<1>1. RingInit => TelemQueue!QueueInit
  BY DEF RingInit, TelemQueue!QueueInit, Queue
<1>2. RingInv /\ RingInv' /\ [RingNext]_ringVars => [TelemQueue!QueueNext]_(TelemQueue!queueVars)
  <2> SUFFICES ASSUME RingInv, RingInv', [RingNext]_ringVars
               PROVE  [TelemQueue!QueueNext]_(TelemQueue!queueVars)
    OBVIOUS
  <2>1. CASE UNCHANGED ringVars
    BY <2>1 DEF ringVars, TelemQueue!queueVars, Queue
  <2> QED
    BY <2>1, EmitRefines, SenderRefines DEF RingNext
<1> QED
  BY <1>1, <1>2, RingInvariance, PTL DEF RingSpec, ImplementsQueue, TelemQueue!QueueSpec

=============================================================================

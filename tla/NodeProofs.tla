----------------------------- MODULE NodeProofs -----------------------------
(***************************************************************************)
(* Theorems about Node, for every size of the error ring, every window and *)
(* every bound: commands are never repeated without cause, the health pin  *)
(* tells the window, no check leaves the node deaf without a reason, and   *)
(* what the agent copies of the error ring is what was pushed.             *)
(***************************************************************************)
EXTENDS Node, ArithmeticLemmas, FiniteSetTheorems

USE CmdAssumption, HealthAssumption, ErrorAssumption, LinkAssumption, NodeAssumption

Cmds == 1 .. MaxCmds

\* c has run once at most, and if so instead of a command that never will have.
OnceForAnother(c) == ran[c] <= 1 /\ (ran[c] = 1 => \E d \in 1 .. c - 1 : ran[d] = 0)

\* The numbers that RunsOnce rests on.  A command newer than g_last_seq has run at
\* most once, as the code that a poll found under the number of an older one.
\* Once that number has been taken, and its code not, nothing newer has run.
CmdInv ==
    /\ cmd_seq \in 0 .. MaxCmds
    /\ g_last_seq \in 0 .. cmd_seq
    /\ ran \in [Cmds -> Nat]
    /\ \A c \in Cmds : c > cmd_seq => ran[c] = 0
    /\ \A c \in Cmds : c > g_last_seq => OnceForAnother(c)
    /\ at = "code" =>
          /\ g_last_seq \in Cmds
          /\ OnceForAnother(g_last_seq)
          /\ \A c \in Cmds : c > g_last_seq => ran[c] = 0
    /\ RunsOnce

\* The steps that move at leave the numbers alone, unless they start the daemon.
LEMMA CmdIdle ==
    ASSUME CmdInv, UNCHANGED cmdVars, at' = at \/ at' # "code"
    PROVE  CmdInv'
BY DEF CmdInv, cmdVars, OnceForAnother, RunsOnce

\* The page is overwritten: nothing beyond it has run.
LEMMA CmdWrite == ASSUME CmdInv, write_cmd PROVE CmdInv'
BY DEF CmdInv, write_cmd, Cmds, OnceForAnother, RunsOnce

\* A number is taken: what is newer than it has not run.
LEMMA CmdSeq == ASSUME CmdInv, PollSeq PROVE CmdInv'
<1>1. CASE cmd_seq = g_last_seq
  BY <1>1, CmdIdle DEF PollSeq, cmdVars
<1>2. CASE cmd_seq # g_last_seq
  <2>1. at' = "code" /\ g_last_seq' = cmd_seq /\ UNCHANGED <<cmd_seq, ran>>
    BY <1>2 DEF PollSeq
  <2>2. cmd_seq \in Cmds /\ cmd_seq > g_last_seq
    BY <1>2 DEF CmdInv, Cmds
  <2> QED
    BY <2>1, <2>2 DEF CmdInv, Cmds, OnceForAnother, RunsOnce
<1> QED
  BY <1>1, <1>2

\* A command is carried out: the one whose number was taken, or a newer one in
\* its place.
LEMMA CmdRun == ASSUME CmdInv, PollCode PROVE CmdInv'
<1> DEFINE g == g_last_seq
           s == cmd_seq
<1>1. /\ g \in Cmds /\ s \in Cmds /\ g <= s
      /\ at' = "wait" /\ g_last_seq' = g /\ cmd_seq' = s
      /\ \A c \in Cmds : ran'[c] = IF c = s THEN ran[s] + 1 ELSE ran[c]
      /\ ran \in [Cmds -> Nat] /\ ran' \in [Cmds -> Nat]
  BY DEF CmdInv, PollCode, Cmds
<1>2. /\ OnceForAnother(g)
      /\ \A c \in Cmds : c > g => ran[c] = 0
      /\ RunsOnce
  BY DEF CmdInv, PollCode
<1>3. \A c \in Cmds : c > s => ran'[c] = 0
  BY <1>1, <1>2 DEF Cmds
<1>4. \A c \in Cmds : c > g => OnceForAnother(c)'
  <2> SUFFICES ASSUME NEW c \in Cmds, c > g, ran'[c] # 0
               PROVE  OnceForAnother(c)'
    BY <1>1 DEF OnceForAnother
  <2>1. c = s /\ ran'[c] = 1 /\ g < s
    BY <1>1, <1>2
  <2>2. \E d \in 1 .. g : ran[d] = 0
    BY <1>1, <1>2 DEF OnceForAnother, Cmds
  <2>3. \E d \in 1 .. s - 1 : ran'[d] = 0
    BY <1>1, <2>1, <2>2 DEF Cmds
  <2> QED
    BY <2>1, <2>3, <1>1 DEF OnceForAnother
<1>5. RunsOnce'
  <2> SUFFICES ASSUME NEW c \in Cmds, ran'[c] > 1
               PROVE  ran'[c] = 2 /\ \E d \in 1 .. c - 1 : ran'[d] = 0
    BY DEF RunsOnce, Cmds
  <2>1. c <= g
    BY <1>1, <1>4 DEF OnceForAnother, Cmds
  <2>2. CASE c = s
    <3>1. c = g /\ ran[c] = 1 /\ ran'[c] = 2
      BY <1>1, <1>2, <2>1, <2>2 DEF OnceForAnother, Cmds
    <3> QED
      BY <3>1, <1>1, <1>2, <2>2 DEF OnceForAnother, Cmds
  <2>3. CASE c # s
    <3>1. ran'[c] = ran[c] /\ \E d \in 1 .. c - 1 : ran[d] = 0
      BY <1>1, <1>2, <2>3 DEF RunsOnce, Cmds
    <3>2. ran[c] = 2
      BY <3>1, <1>2 DEF RunsOnce, Cmds
    <3> QED
      BY <3>1, <3>2, <1>1, <2>1 DEF Cmds
  <2> QED
    BY <2>2, <2>3
<1> QED
  BY <1>1, <1>3, <1>4, <1>5 DEF CmdInv, Cmds

\* The daemon starts: the page counts as seen.
LEMMA CmdStart == ASSUME CmdInv, cmd_init, at' = "wait" PROVE CmdInv'
BY DEF CmdInv, cmd_init, Cmds, OnceForAnother, RunsOnce

\* Every step of a node keeps the numbers of the commands.
LEMMA CmdInvariance == NodeSpec => []CmdInv
<1>1. NodeInit => CmdInv
  BY DEF NodeInit, CmdInit, CmdInv, Cmds, OnceForAnother, RunsOnce
<1>2. CmdInv /\ [NodeNext]_nodeVars => CmdInv'
  <2> SUFFICES ASSUME CmdInv, [NodeNext]_nodeVars PROVE CmdInv'
    OBVIOUS
  <2>1. CASE NodeTick
    BY <2>1, CmdIdle DEF NodeTick
  <2>2. CASE NodePoll
    BY <2>2, CmdSeq, CmdRun DEF NodePoll
  <2>3. CASE NodePush \/ NodeStore \/ AgentCopies \/ AgentCopy \/ Cable
    BY <2>3, CmdIdle DEF NodePush, NodeStore, AgentCopies, AgentCopy, Cable
  <2>4. CASE Stop \/ NodeCrash
    BY <2>4, CmdIdle DEF Stop, NodeCrash
  <2>5. CASE NodeStart \/ NodeUp
    BY <2>5, CmdIdle, CmdStart DEF NodeStart, NodeUp
  <2>6. CASE AgentCommand
    BY <2>6, CmdWrite DEF AgentCommand
  <2>7. CASE UNCHANGED nodeVars
    BY <2>7, CmdIdle DEF nodeVars
  <2> QED
    BY <2>1, <2>2, <2>3, <2>4, <2>5, <2>6, <2>7 DEF NodeNext
<1> QED
  BY <1>1, <1>2, PTL DEF NodeSpec

\* No command runs twice without another one lost for it, and none a third time,
\* for any number of commands, restarts and crashes (cmd_poll, cmd_init).
THEOREM NeverRepeated == NodeSpec => []RunsOnce
<1>1. CmdInv => RunsOnce
  BY DEF CmdInv
<1> QED
  BY <1>1, CmdInvariance, PTL

----------------------------------------------------------------------------
\* stable_for runs one tick behind since_bad until the window is over.
HealthInv ==
    /\ HealthTypeOK
    /\ PinTellsWindow
    /\ since_bad \in 1 .. StableWindow => stable /\ since_bad = stable_for + 1
    /\ since_bad = 0 => ~ stable

PinInv == Up => HealthInv

\* What gpio_init and pulse_engine_init leave.
Fresh == pin = "LOW" /\ stable = FALSE /\ stable_for = 0 /\ since_bad = 0 /\ faulted = FALSE

\* The pin of a daemon that has just started is true to the window.
LEMMA HealthFresh == Fresh => HealthInv
<1> SUFFICES ASSUME Fresh PROVE HealthInv
  OBVIOUS
<1>1. stable \in BOOLEAN /\ ~ stable /\ faulted \in BOOLEAN /\ ~ faulted
  BY Zenon DEF Fresh
<1>2. stable_for \in 0 .. StableWindow /\ since_bad \in 0 .. StableWindow + 1
  BY DEF Fresh
<1>3. pin = "LOW" /\ ~ (since_bad \in 1 .. StableWindow)
  BY DEF Fresh
<1> QED
  BY <1>1, <1>2, <1>3, Zenon DEF HealthInv, HealthTypeOK, PinTellsWindow

\* A tick keeps the pin true to the window.
LEMMA HealthTick == ASSUME HealthInv, NEW report, update_health(report) PROVE HealthInv'
<1>1. CASE report = "small"
  BY <1>1 DEF HealthInv, HealthTypeOK, PinTellsWindow, update_health, CountTo
<1>2. CASE report # "small"
  <2>1. pin' = "HIGH" /\ since_bad' = 0 /\ faulted' = TRUE /\ stable' = FALSE /\ stable_for' = 0
    BY <1>2, Zenon DEF update_health
  <2>2. /\ stable' \in BOOLEAN /\ ~ stable' /\ faulted' \in BOOLEAN
        /\ pin' # "LOW" /\ pin' \in {"LOW", "HIGH"}
    BY <2>1, Zenon
  <2>3. /\ stable_for' \in 0 .. StableWindow /\ since_bad' \in 0 .. StableWindow + 1
        /\ ~ (since_bad' > StableWindow) /\ ~ (since_bad' \in 1 .. StableWindow)
    BY <2>1
  <2> QED
    BY <2>2, <2>3, Zenon DEF HealthInv, HealthTypeOK, PinTellsWindow
<1> QED
  BY <1>1, <1>2

\* While the daemon is up a good window makes its health pin LOW, and from the first
\* bad tick on nothing else does, for every length of the window
\* (pulse_engine_update_health).
THEOREM PinIsTrue == NodeSpec => []PinWhileUp
<1>1. NodeInit => PinInv
  <2>1. NodeInit => Fresh
    BY Zenon DEF NodeInit, HealthInit, Fresh
  <2> QED
    BY <2>1, HealthFresh DEF PinInv
<1>2. PinInv /\ [NodeNext]_nodeVars => PinInv'
  <2> SUFFICES ASSUME PinInv, [NodeNext]_nodeVars PROVE PinInv'
    OBVIOUS
  <2>1. ASSUME UNCHANGED healthVars, Up \/ ~ Up' PROVE PinInv'
    BY <2>1 DEF PinInv, HealthInv, HealthTypeOK, PinTellsWindow, healthVars
  <2>2. CASE NodeTick
    <3>1. HealthInv
      BY <2>2 DEF NodeTick, Free, PinInv
    <3>2. PICK report \in Reports : update_health(report)
      BY <2>2 DEF NodeTick
    <3> QED
      BY <3>1, <3>2, HealthTick DEF PinInv
  <2>3. CASE NodePoll \/ NodePush \/ NodeStore \/ NodeCrash \/ NodeStart
    BY <2>1, <2>3 DEF NodePoll, Free, NodePush, NodeStore, NodeCrash, NodeStart, Up
  <2>4. CASE Stop
    BY <2>4 DEF Stop, PinInv, Up
  <2>5. CASE NodeUp
    <3>1. Fresh'
      BY <2>5 DEF NodeUp, gpio_init, Fresh
    <3>2. Fresh' => HealthInv'
      BY HealthFresh, PTL
    <3> QED
      BY <3>1, <3>2 DEF PinInv
  <2>6. CASE AgentCommand \/ AgentCopies \/ AgentCopy \/ Cable
    BY <2>1, <2>6 DEF AgentCommand, write_cmd, AgentCopies, AgentCopy, Cable, Up
  <2>7. CASE UNCHANGED nodeVars
    BY <2>1, <2>7 DEF nodeVars, Up
  <2> QED
    BY <2>2, <2>3, <2>4, <2>5, <2>6, <2>7 DEF NodeNext
<1>3. PinInv => PinWhileUp
  BY DEF PinInv, HealthInv, PinWhileUp
<1> QED
  BY <1>1, <1>2, <1>3, PTL DEF NodeSpec

----------------------------------------------------------------------------
\* A node that is deaf although the carrier is there has an excuse or will find
\* at the next check that the carrier has come back.
LinkInv ==
    /\ {carrier, joined, carrier_was_up, checked, excuse} \subseteq BOOLEAN
    /\ carrier /\ carrier_was_up => joined \/ excuse
    /\ checked => ~ carrier_was_up

\* Every step of the link monitor and of the cable keeps LinkInv.
LEMMA LinkSteps ==
    ASSUME LinkInv, LinkTick \/ CarrierChange \/ net_io_init \/ UNCHANGED linkVars
    PROVE  LinkInv'
<1>1. CASE LinkTick
  BY <1>1 DEF LinkInv, LinkTick, net_check_recover, CheckFails
<1>2. CASE CarrierChange
  BY <1>2 DEF LinkInv, CarrierChange
<1>3. CASE net_io_init
  BY <1>3 DEF LinkInv, net_io_init
<1>4. CASE UNCHANGED linkVars
  BY <1>4 DEF LinkInv, linkVars
<1> QED
  BY <1>1, <1>2, <1>3, <1>4

\* Every step of a node keeps LinkInv.
LEMMA LinkInvariance == NodeSpec => []LinkInv
<1>1. NodeInit => LinkInv
  BY DEF NodeInit, LinkInit, LinkInv
<1>2. LinkInv /\ [NodeNext]_nodeVars => LinkInv'
  BY LinkSteps
  DEF NodeNext, NodeTick, NodePoll, NodePush, NodeStore, Stop, NodeCrash, NodeStart, NodeUp,
      AgentCommand, AgentCopies, AgentCopy, Cable, nodeVars
<1> QED
  BY <1>1, <1>2, PTL DEF NodeSpec

\* A check of the carrier leaves the node deaf only for the two reasons named,
\* whatever the cable does between the checks (net_check_recover).
THEOREM NoDeafCheck == NodeSpec => HearsAfterCheck
<1>1. LinkInv => [net_check_recover /\ link_check_ticks' = 0 /\ carrier => joined' \/ excuse']_linkVars
  BY DEF LinkInv, net_check_recover
<1> QED
  BY <1>1, LinkInvariance, PTL DEF HearsAfterCheck

----------------------------------------------------------------------------
\* What a slot holds for the n-th error, and for one that there never was.
Number(n) == IF n > 0 THEN n ELSE 0

RingSlots == 0 .. Slots - 1

PageType ==
    /\ entry \in 0 .. MaxErrors /\ clearing = {}
    /\ slots \in [RingSlots -> [Fields -> 0 .. MaxErrors]]
    /\ todo \subseteq {"head"} \cup Fields
    /\ todo # {} => entry > 0
    /\ head = IF "head" \in todo THEN entry - 1 ELSE entry

\* The k-th slot backwards from the newest holds the k-th newest error.  The
\* stores that are left of a push still have the entry of a round ago.
PageInv ==
    \A k \in 1 .. Slots : \A f \in Fields :
        slots[(entry - k) % Slots][f] =
            Number(IF k = 1 /\ f \in todo THEN entry - Slots ELSE entry - k + 1)

\* No slot is torn but the one being written.
WholeInv ==
    \A i \in RingSlots : todo = {} \/ i # SlotOf(entry) => slots[i].code = slots[i].msg

\* A page that errors_init has left, whatever was pushed since.
ErrorInv == PageType /\ PageInv /\ WholeInv

\* A page in the middle of errors_init, or left so by a kill: what has not been
\* cleared may hold anything.
ClearingInv ==
    /\ clearing # {} /\ clearing \subseteq Words /\ entry = 0 /\ todo = {}
    /\ head \in 0 .. MaxErrors
    /\ slots \in [RingSlots -> [Fields -> 0 .. MaxErrors]]
    /\ HeadWord \notin clearing => head = 0
    /\ \A i \in RingSlots : \A f \in Fields : <<i, f>> \notin clearing => slots[i][f] = 0

PageInvariant == ErrorInv \/ ClearingInv

\* The words: a field of a slot is not the head, and each has its own.
LEMMA WordsApart ==
    \A i \in RingSlots : \A f \in Fields : <<i, f>> # HeadWord /\ <<i, f>> \in Words
BY DEF RingSlots, Fields, HeadWord, Words

\* errors_init leaves an empty page.
Cleared == head = 0 /\ slots = Empty /\ entry = 0 /\ todo = {} /\ clearing = {}

LEMMA PageCleared == Cleared => ErrorInv
<1> SUFFICES ASSUME head = 0, slots = Empty, entry = 0, todo = {}, clearing = {}
             PROVE  ErrorInv
  BY DEF Cleared
<1>1. PageType
  BY DEF PageType, Empty, RingSlots, Fields
<1>2. PageInv
  <2> SUFFICES ASSUME NEW k \in 1 .. Slots, NEW f \in Fields
               PROVE  slots[(entry - k) % Slots][f] = Number(entry - k + 1)
    BY DEF PageInv
  <2>1. entry - k \in Int /\ Number(entry - k + 1) = 0
    BY DEF Number
  <2>2. (entry - k) % Slots \in 0 .. Slots - 1
    BY <2>1, SlotInRing
  <2> QED
    BY <2>1, <2>2 DEF Empty
<1>3. WholeInv
  BY DEF WholeInv, Empty, RingSlots, Fields
<1> QED
  BY <1>1, <1>2, <1>3 DEF ErrorInv

\* A store of errors_init: it clears one word, and the page with the last.
LEMMA PageClearStore ==
    ASSUME ClearingInv, ClearStore
    PROVE  PageInvariant'
<1>1. PICK w \in clearing :
         /\ clearing' = clearing \ {w} /\ entry' = entry /\ todo' = todo
         /\ IF w = HeadWord THEN head' = 0 /\ slots' = slots
            ELSE slots' = [slots EXCEPT ![w[1]][w[2]] = 0] /\ head' = head
  BY DEF ClearStore
<1>t. /\ clearing \subseteq Words /\ entry = 0 /\ todo = {} /\ head \in 0 .. MaxErrors
      /\ slots \in [RingSlots -> [Fields -> 0 .. MaxErrors]]
      /\ HeadWord \notin clearing => head = 0
      /\ \A i \in RingSlots : \A f \in Fields : <<i, f>> \notin clearing => slots[i][f] = 0
  BY DEF ClearingInv
<1>2. /\ slots' \in [RingSlots -> [Fields -> 0 .. MaxErrors]]
      /\ \A i \in RingSlots : \A f \in Fields : slots'[i][f] = IF w = <<i, f>> THEN 0 ELSE slots[i][f]
  <2>1. CASE w = HeadWord
    BY <1>1, <1>t, <2>1, WordsApart
  <2>2. CASE w # HeadWord
    <3>1. PICK i \in RingSlots, f \in Fields : w = <<i, f>>
      BY <1>1, <1>t, <2>2 DEF Words, RingSlots
    <3>2. slots' = [slots EXCEPT ![i] = [slots[i] EXCEPT ![f] = 0]]
      BY <1>1, <2>2, <3>1
    <3>3. slots[i] \in [Fields -> 0 .. MaxErrors] /\ 0 \in 0 .. MaxErrors
      BY <1>t
    <3>4. [slots[i] EXCEPT ![f] = 0] \in [Fields -> 0 .. MaxErrors]
      BY <3>3
    <3>5. slots' \in [RingSlots -> [Fields -> 0 .. MaxErrors]]
      BY <1>t, <3>2, <3>4
    <3>6. \A j \in RingSlots : \A g \in Fields :
             slots'[j][g] = IF j = i /\ g = f THEN 0 ELSE slots[j][g]
      BY <1>t, <3>2, <3>3
    <3> QED
      BY <3>1, <3>5, <3>6
  <2> QED
    BY <2>1, <2>2
<1>3. \A i \in RingSlots : \A f \in Fields : <<i, f>> \notin clearing' => slots'[i][f] = 0
  BY <1>1, <1>2, <1>t
<1>4. head' \in 0 .. MaxErrors /\ (HeadWord \notin clearing' => head' = 0)
  BY <1>1, <1>t
<1>5. CASE clearing' # {}
  BY <1>1, <1>2, <1>3, <1>4, <1>5, <1>t DEF ClearingInv, PageInvariant
<1>6. CASE clearing' = {}
  <2>1. slots' = Empty
    <3>1. \A i \in RingSlots : slots'[i] = [f \in Fields |-> 0]
      BY <1>2, <1>3, <1>6
    <3> QED
      BY <1>2, <3>1 DEF Empty, RingSlots
  <2>2. Cleared'
    BY <1>1, <1>4, <1>6, <1>t, <2>1 DEF Cleared, Empty
  <2>3. Cleared' => ErrorInv'
    BY PageCleared, PTL
  <2> QED
    BY <2>2, <2>3 DEF PageInvariant
<1> QED
  BY <1>5, <1>6

\* errors_push begins: what was the newest but k is now the newest but k + 1, and
\* the slot of the oldest is the slot of the new one.
LEMMA PagePushBegin ==
    ASSUME ErrorInv, PushBegin
    PROVE  ErrorInv'
<1>1. /\ todo = {} /\ entry < MaxErrors /\ todo' = {"head"} \cup Fields
      /\ entry' = entry + 1 /\ head' = head /\ slots' = slots /\ clearing' = clearing
      /\ entry \in 0 .. MaxErrors
  BY DEF PushBegin, ErrorInv, PageType
<1>2. PageType'
  BY <1>1 DEF ErrorInv, PageType
<1>3. \A k \in 1 .. Slots : \A f \in Fields :
         slots[(entry + 1 - k) % Slots][f] =
            Number(IF k = 1 THEN entry + 1 - Slots ELSE entry + 1 - k + 1)
  <2> SUFFICES ASSUME NEW k \in 1 .. Slots, NEW f \in Fields
               PROVE  slots[(entry + 1 - k) % Slots][f] =
                         Number(IF k = 1 THEN entry + 1 - Slots ELSE entry + 1 - k + 1)
    OBVIOUS
  <2>1. \A j \in 1 .. Slots : slots[(entry - j) % Slots][f] = Number(entry - j + 1)
    BY <1>1 DEF ErrorInv, PageInv
  <2>2. CASE k = 1
    <3>1. entry \in Int /\ entry + 1 - k = entry /\ Slots \in 1 .. Slots
      BY <1>1, <2>2
    <3>2. (entry - Slots) % Slots = entry % Slots
      BY <3>1, SlotPeriod
    <3>3. slots[(entry - Slots) % Slots][f] = Number(entry - Slots + 1)
      BY <2>1, <3>1
    <3>4. entry - Slots + 1 = entry + 1 - Slots
      BY <3>1
    <3> QED
      BY <2>2, <3>1, <3>2, <3>3, <3>4
  <2>3. CASE k # 1
    <3>1. k - 1 \in 1 .. Slots /\ entry - (k - 1) = entry + 1 - k
      BY <1>1, <2>3
    <3> QED
      BY <2>1, <2>3, <3>1
  <2> QED
    BY <2>2, <2>3
<1>4. PageInv'
  <2> SUFFICES ASSUME NEW k \in 1 .. Slots, NEW f \in Fields
               PROVE  slots'[(entry' - k) % Slots][f] =
                         Number(IF k = 1 /\ f \in todo' THEN entry' - Slots ELSE entry' - k + 1)
    BY Zenon DEF PageInv
  <2>1. f \in todo' /\ slots' = slots /\ entry' = entry + 1
    BY <1>1
  <2>2. slots[(entry + 1 - k) % Slots][f] =
           Number(IF k = 1 THEN entry + 1 - Slots ELSE entry + 1 - k + 1)
    BY <1>3, Zenon
  <2> QED
    BY <1>1, <2>1, <2>2 DEF Number
<1>5. WholeInv'
  BY <1>1 DEF ErrorInv, WholeInv
<1> QED
  BY <1>2, <1>4, <1>5 DEF ErrorInv

\* A store of a push: it changes one field of one slot, the newest.
LEMMA PagePushStore ==
    ASSUME ErrorInv, PushStore
    PROVE  ErrorInv'
<1>1. PICK w \in todo :
         /\ todo' = todo \ {w} /\ entry' = entry /\ clearing' = clearing
         /\ IF w = "head" THEN head' = entry /\ slots' = slots
            ELSE slots' = [slots EXCEPT ![SlotOf(entry)][w] = entry] /\ head' = head
  BY DEF PushStore
<1>t. /\ entry \in 1 .. MaxErrors /\ entry \in Int
      /\ slots \in [RingSlots -> [Fields -> 0 .. MaxErrors]]
      /\ todo \subseteq {"head"} \cup Fields
      /\ head = IF "head" \in todo THEN entry - 1 ELSE entry
  BY <1>1 DEF ErrorInv, PageType
<1>s. SlotOf(entry) \in RingSlots /\ SlotOf(entry) = (entry - 1) % Slots
  BY <1>t, SlotInRing DEF SlotOf, RingSlots
<1>2. CASE w = "head"
  <2>1. slots' = slots /\ \A f \in Fields : f \in todo' <=> f \in todo
    BY <1>1, <1>2 DEF Fields
  <2>2. PageType'
    BY <1>1, <1>2, <1>t DEF ErrorInv, PageType
  <2>3. PageInv'
    BY <1>1, <2>1 DEF ErrorInv, PageInv
  <2>4. WholeInv'
    <3> SUFFICES ASSUME NEW i \in RingSlots, todo' = {} \/ i # SlotOf(entry)
                 PROVE  slots[i].code = slots[i].msg
      BY <1>1, <2>1 DEF WholeInv, SlotOf
    <3>1. CASE i # SlotOf(entry)
      BY <3>1 DEF ErrorInv, WholeInv
    <3>2. CASE i = SlotOf(entry) /\ todo' = {}
      <4>1. 1 \in 1 .. Slots /\ "code" \notin todo /\ "msg" \notin todo /\ {"code", "msg"} = Fields
        BY <2>1, <3>2 DEF Fields
      <4>2. \A f \in Fields : f \notin todo => slots[(entry - 1) % Slots][f] = Number(entry - 1 + 1)
        BY <4>1 DEF ErrorInv, PageInv
      <4> QED
        BY <1>s, <3>2, <4>1, <4>2
    <3> QED
      BY <3>1, <3>2
  <2> QED
    BY <2>2, <2>3, <2>4 DEF ErrorInv
<1>3. CASE w # "head"
  <2> DEFINE z == SlotOf(entry)
  <2>1. /\ w \in Fields /\ head' = head
        /\ slots' = [slots EXCEPT ![z] = [slots[z] EXCEPT ![w] = entry]]
    BY <1>1, <1>3, <1>t
  <2>2. slots[z] \in [Fields -> 0 .. MaxErrors] /\ entry \in 0 .. MaxErrors
    BY <1>t, <1>s
  <2> HIDE DEF z
  <2>3. [slots[z] EXCEPT ![w] = entry] \in [Fields -> 0 .. MaxErrors]
    BY <2>1, <2>2
  <2>4. slots' \in [RingSlots -> [Fields -> 0 .. MaxErrors]]
    BY <1>t, <2>1, <2>3
  <2>5. /\ \A i \in RingSlots : i # z => slots'[i] = slots[i]
        /\ \A f \in Fields : slots'[z][f] = IF f = w THEN entry ELSE slots[z][f]
    BY <1>t, <1>s, <2>1, <2>2 DEF z
  <2>6. PageType'
    BY <1>1, <1>3, <1>t, <2>1, <2>4 DEF ErrorInv, PageType
  <2>7. PageInv'
    <3> SUFFICES ASSUME NEW k \in 1 .. Slots, NEW f \in Fields
                 PROVE  slots'[(entry - k) % Slots][f] =
                           Number(IF k = 1 /\ f \in todo' THEN entry - Slots ELSE entry - k + 1)
      BY <1>1 DEF PageInv
    <3>1. slots[(entry - k) % Slots][f] =
             Number(IF k = 1 /\ f \in todo THEN entry - Slots ELSE entry - k + 1)
      BY DEF ErrorInv, PageInv
    <3>2. CASE k = 1 /\ f = w
      <4>1. slots'[z][f] = entry /\ f \notin todo' /\ entry - k + 1 = entry /\ entry > 0
        BY <1>1, <1>t, <2>5, <3>2
      <4> QED
        BY <1>s, <3>2, <4>1 DEF z, Number
    <3>3. CASE k = 1 /\ f # w
      <4>1. slots'[z][f] = slots[z][f] /\ (f \in todo' <=> f \in todo)
        BY <1>1, <2>5, <3>3
      <4> QED
        BY <1>s, <3>1, <3>3, <4>1 DEF z
    <3>4. CASE k # 1
      <4>1. entry - k \in Int /\ entry - 1 \in Int /\ entry - k < entry - 1 /\ (entry - 1) - (entry - k) < Slots
        BY <1>t, <3>4
      <4>2. (entry - k) % Slots # z /\ (entry - k) % Slots \in RingSlots
        BY <1>s, <4>1, SlotsDistinct, SlotInRing DEF z, RingSlots
      <4> QED
        BY <2>5, <3>1, <3>4, <4>2
    <3> QED
      BY <3>2, <3>3, <3>4
  <2>8. WholeInv'
    <3> SUFFICES ASSUME NEW i \in RingSlots, todo' = {} \/ i # z
                 PROVE  slots'[i].code = slots'[i].msg
      BY <1>1 DEF WholeInv, SlotOf, z
    <3>1. CASE i # z
      BY <2>5, <3>1 DEF ErrorInv, WholeInv, z
    <3>2. CASE i = z /\ todo' = {}
      <4>1. {"code", "msg"} = Fields /\ \A f \in Fields : f = w \/ f \notin todo
        BY <1>1, <3>2 DEF Fields
      <4>2. 1 \in 1 .. Slots /\ entry - 1 + 1 = entry /\ Number(entry) = entry
        BY <1>t DEF Number
      <4>3. \A f \in Fields : f \notin todo => slots[z][f] = entry
        BY <1>s, <4>2 DEF ErrorInv, PageInv, z
      <4> QED
        BY <2>5, <3>2, <4>1, <4>3
    <3> QED
      BY <3>1, <3>2
  <2> QED
    BY <2>6, <2>7, <2>8 DEF ErrorInv
<1> QED
  BY <1>2, <1>3

----------------------------------------------------------------------------
\* The k-th slot backwards from head holds the k-th newest error, or none: the
\* slots that get_errors goes through.
CopyTells ==
    \A k \in 1 .. Slots : \A f \in Fields :
        copy.slots[(copy.head - k) % Slots][f] = Number(copy.head - k + 1)

Garbled == {i \in RingSlots : copy.slots[i].code # copy.slots[i].msg}

\* A complete copy, slot by slot: when no push overlapped it every slot is right,
\* however often the ring has gone round, and a push that did garbles one at most.
CopyReadBack ==
    want = {} => IF overlap = 0 THEN CopyTells ELSE Cardinality(Garbled) <= overlap

CopyType ==
    /\ copy \in [head : 0 .. MaxErrors, slots : [RingSlots -> [Fields -> 0 .. MaxErrors]]]
    /\ want \subseteq Words /\ overlap \in Nat

\* The words of slot i that have been copied are still those of the page.
Copied(i) == \A f \in Fields : <<i, f>> \notin want => copy.slots[i][f] = slots[i][f]

\* No push and no errors_init has overlapped the copy: the page stands still.
StillInv ==
    overlap = 0 =>
        IF want = {} THEN CopyTells
        ELSE /\ todo = {} /\ clearing = {}
             /\ HeadWord \notin want => copy.head = head
             /\ \A i \in RingSlots : Copied(i)

\* At most overlap slots, S, may be torn in the copy; the page holds the others
\* as they were when the copy began.
TornOnly(S) ==
    /\ S \subseteq RingSlots /\ IsFiniteSet(S) /\ Cardinality(S) <= overlap
    /\ want # {} /\ todo # {} => SlotOf(entry) \in S
    /\ want # {} /\ clearing # {} => S = RingSlots
    /\ \A i \in RingSlots \ S :
          IF want = {} THEN copy.slots[i].code = copy.slots[i].msg ELSE Copied(i)

CopyInv == CopyType /\ StillInv /\ \E S \in SUBSET RingSlots : TornOnly(S)

LEMMA RingCounts == IsFiniteSet(RingSlots) /\ Cardinality(RingSlots) = Slots
<1>1. 0 \in Int /\ Slots - 1 \in Int
  OBVIOUS
<1> QED
  BY <1>1, FS_Interval DEF RingSlots

\* The agent begins to copy: nothing has been copied yet.
LEMMA CopyBegins ==
    ASSUME PageInvariant, CopyInv, CopyBegin
    PROVE  CopyInv'
<1>1. /\ want = {} /\ want' = Words /\ copy' = [head |-> 0, slots |-> Empty]
      /\ overlap' = (IF clearing # {} THEN Slots ELSE IF todo # {} THEN 1 ELSE 0)
      /\ UNCHANGED <<head, slots, entry, todo, clearing>>
  BY DEF CopyBegin
<1>2. CopyType'
  BY <1>1 DEF CopyType, Empty, RingSlots
<1>3. \A i \in RingSlots : Copied(i)'
  BY <1>1, WordsApart DEF Copied
<1>w. HeadWord \in Words
  BY DEF Words
<1>4. StillInv'
  <2>1. want' # {} /\ HeadWord \in want' /\ (overlap' = 0 => todo' = {} /\ clearing' = {})
    BY <1>1, <1>w
  <2> QED
    BY <1>3, <2>1 DEF StillInv
<1>5. \E S \in SUBSET RingSlots : TornOnly(S)'
  <2>1. CASE todo = {} /\ clearing = {}
    <3>1. TornOnly({})'
      BY <1>1, <1>3, <1>w, <2>1, FS_EmptySet DEF TornOnly
    <3> QED
      BY <3>1
  <2>2. CASE todo # {} /\ clearing = {}
    <3>1. SlotOf(entry) \in RingSlots
      <4>1. entry - 1 \in Int
        BY <2>2 DEF PageInvariant, ClearingInv, ErrorInv, PageType
      <4> QED
        BY <4>1, SlotInRing DEF SlotOf, RingSlots
    <3>2. IsFiniteSet({SlotOf(entry)}) /\ Cardinality({SlotOf(entry)}) = 1
      BY FS_Singleton
    <3>3. PICK S \in SUBSET RingSlots : IsFiniteSet(S) /\ Cardinality(S) = 1 /\ SlotOf(entry) \in S
      BY <3>1, <3>2
    <3>4. SlotOf(entry)' = SlotOf(entry) /\ want' # {}
      BY <1>1, <1>w DEF SlotOf
    <3>5. TornOnly(S)'
      BY <1>1, <1>3, <2>2, <3>3, <3>4 DEF TornOnly
    <3> QED
      BY <3>3, <3>5
  <2>3. CASE clearing # {}
    <3>1. todo = {} \/ SlotOf(entry) \in RingSlots
      BY <2>3 DEF PageInvariant, ClearingInv, ErrorInv, PageType
    <3>2. want' # {} /\ overlap' = Slots /\ (todo' = {} \/ SlotOf(entry)' \in RingSlots)
      BY <1>1, <1>w, <2>3, <3>1 DEF SlotOf
    <3>3. TornOnly(RingSlots)'
      BY <3>2, RingCounts DEF TornOnly
    <3> QED
      BY <3>3
  <2> QED
    BY <2>1, <2>2, <2>3
<1> QED
  BY <1>2, <1>4, <1>5 DEF CopyInv

\* The agent copies a word.
LEMMA CopyGoesOn ==
    ASSUME PageInvariant, CopyInv, CopyWord
    PROVE  CopyInv'
<1>1. PICK w \in want :
         /\ want' = want \ {w} /\ UNCHANGED <<head, slots, entry, todo, clearing, overlap>>
         /\ copy' = IF w = HeadWord THEN [copy EXCEPT !.head = head]
                    ELSE [copy EXCEPT !.slots[w[1]][w[2]] = slots[w[1]][w[2]]]
  BY DEF CopyWord
<1>t. /\ copy \in [head : 0 .. MaxErrors, slots : [RingSlots -> [Fields -> 0 .. MaxErrors]]]
      /\ slots \in [RingSlots -> [Fields -> 0 .. MaxErrors]] /\ head \in 0 .. MaxErrors
      /\ want \subseteq Words /\ overlap \in Nat
  BY DEF CopyInv, CopyType, PageInvariant, ClearingInv, ErrorInv, PageType
<1>e. clearing = {} => ErrorInv
  BY DEF PageInvariant, ClearingInv
\* What the step does to the copy, word by word.
<1>2. /\ copy' \in [head : 0 .. MaxErrors, slots : [RingSlots -> [Fields -> 0 .. MaxErrors]]]
      /\ copy'.head = IF w = HeadWord THEN head ELSE copy.head
      /\ \A i \in RingSlots : \A f \in Fields :
            copy'.slots[i][f] = IF w = <<i, f>> THEN slots[i][f] ELSE copy.slots[i][f]
  <2>1. CASE w = HeadWord
    <3>1. copy' = [copy EXCEPT !.head = head]
      BY <1>1, <2>1
    <3> QED
      BY <1>t, <2>1, <3>1, WordsApart
  <2>2. CASE w # HeadWord
    <3>1. PICK i \in RingSlots, f \in Fields : w = <<i, f>>
      BY <1>1, <1>t, <2>2 DEF Words, RingSlots
    <3> DEFINE c == copy.slots
               v == slots[i][f]
    <3>2. /\ c \in [RingSlots -> [Fields -> 0 .. MaxErrors]] /\ v \in 0 .. MaxErrors
          /\ c[i] \in [Fields -> 0 .. MaxErrors] /\ copy.head \in 0 .. MaxErrors
      BY <1>t
    <3>3. copy' = [copy EXCEPT !.slots = [c EXCEPT ![i] = [c[i] EXCEPT ![f] = v]]]
      BY <1>1, <2>2, <3>1
    <3> HIDE DEF c, v
    <3>4. copy'.slots = [c EXCEPT ![i] = [c[i] EXCEPT ![f] = v]] /\ copy'.head = copy.head
      BY <1>t, <3>3
    <3>5. [c[i] EXCEPT ![f] = v] \in [Fields -> 0 .. MaxErrors]
      BY <3>2
    <3>6. copy'.slots \in [RingSlots -> [Fields -> 0 .. MaxErrors]]
      BY <3>2, <3>4, <3>5
    <3>7. copy' = [head |-> copy.head, slots |-> copy'.slots]
      BY <1>t, <3>3
    <3>8. \A j \in RingSlots : \A g \in Fields :
             copy'.slots[j][g] = IF j = i /\ g = f THEN v ELSE c[j][g]
      BY <3>2, <3>4
    <3> QED
      BY <2>2, <3>1, <3>2, <3>4, <3>6, <3>7, <3>8 DEF c, v
  <2> QED
    BY <2>1, <2>2
<1>3. CopyType'
  BY <1>1, <1>2, <1>t DEF CopyType
<1>4. want # {}
  BY <1>1
<1>5. \A i \in RingSlots : Copied(i) => Copied(i)'
  BY <1>1, <1>2 DEF Copied
<1>6. want' = {} => \A i \in RingSlots : Copied(i)' => \A f \in Fields : copy'.slots[i][f] = slots[i][f]
  BY <1>1 DEF Copied
<1>7. StillInv'
  <2> SUFFICES ASSUME overlap = 0
               PROVE  IF want' = {} THEN CopyTells'
                      ELSE /\ todo' = {} /\ clearing' = {}
                           /\ HeadWord \notin want' => copy'.head = head'
                           /\ \A i \in RingSlots : Copied(i)'
    BY <1>1 DEF StillInv
  <2>1. /\ todo = {} /\ clearing = {} /\ (HeadWord \notin want => copy.head = head)
        /\ \A i \in RingSlots : Copied(i)'
    BY <1>4, <1>5 DEF CopyInv, StillInv
  <2>2. HeadWord \notin want' => copy'.head = head
    BY <1>1, <1>2, <2>1
  <2>3. CASE want' = {}
    <3>1. copy'.head = entry /\ entry \in Nat
      BY <1>e, <2>1, <2>2, <2>3 DEF ErrorInv, PageType
    <3>2. \A k \in 1 .. Slots : \A f \in Fields :
             copy'.slots[(entry - k) % Slots][f] = Number(entry - k + 1)
      <4> SUFFICES ASSUME NEW k \in 1 .. Slots, NEW f \in Fields
                   PROVE  copy'.slots[(entry - k) % Slots][f] = Number(entry - k + 1)
        OBVIOUS
      <4>1. entry - k \in Int
        BY <3>1
      <4>2. (entry - k) % Slots \in RingSlots
        BY <4>1, SlotInRing DEF RingSlots
      <4>3. copy'.slots[(entry - k) % Slots][f] = slots[(entry - k) % Slots][f]
        BY <1>6, <2>1, <2>3, <4>2
      <4> QED
        BY <1>e, <2>1, <4>3 DEF ErrorInv, PageInv
    <3> QED
      BY <2>3, <3>1, <3>2 DEF CopyTells
  <2>4. CASE want' # {}
    BY <1>1, <2>1, <2>2, <2>4
  <2> QED
    BY <2>3, <2>4
<1>8. \E S \in SUBSET RingSlots : TornOnly(S)'
  <2>1. PICK S \in SUBSET RingSlots : TornOnly(S)
    BY DEF CopyInv
  <2>2. SlotOf(entry)' = SlotOf(entry)
    BY <1>1 DEF SlotOf
  <2>3. \A i \in RingSlots \ S : Copied(i)'
    BY <1>4, <1>5, <2>1 DEF TornOnly
  <2>4. ASSUME NEW i \in RingSlots \ S, want' = {}
        PROVE  copy'.slots[i].code = copy'.slots[i].msg
    <3>1. \A f \in Fields : copy'.slots[i][f] = slots[i][f]
      BY <1>6, <2>3, <2>4
    <3>2. slots[i].code = slots[i].msg
      <4>1. clearing = {} /\ (todo = {} \/ i # SlotOf(entry))
        BY <1>4, <2>1 DEF TornOnly
      <4> QED
        BY <1>e, <4>1 DEF ErrorInv, WholeInv
    <3> QED
      BY <3>1, <3>2 DEF Fields
  <2>5. TornOnly(S)'
    BY <1>1, <1>4, <2>1, <2>2, <2>3, <2>4 DEF TornOnly
  <2> QED
    BY <2>5
<1> QED
  BY <1>3, <1>7, <1>8 DEF CopyInv

\* A push begins: the copy overlaps one more, and one more slot may be torn.
LEMMA CopyPushBegin ==
    ASSUME ErrorInv, CopyInv, PushBegin
    PROVE  CopyInv'
<1>1. /\ todo' # {} /\ entry' = entry + 1
      /\ overlap' = (IF want = {} THEN overlap ELSE overlap + 1)
      /\ UNCHANGED <<head, slots, copy, want>> /\ clearing' = {}
      /\ entry \in Nat /\ overlap \in Nat
  BY DEF PushBegin, CopyInv, CopyType, ErrorInv, PageType
<1>2. CopyType'
  BY <1>1 DEF CopyInv, CopyType
<1>3. StillInv'
  BY <1>1 DEF CopyInv, StillInv, CopyTells
<1>4. \A i \in RingSlots : Copied(i)' <=> Copied(i)
  BY <1>1 DEF Copied
<1>5. PICK S \in SUBSET RingSlots : TornOnly(S)
  BY DEF CopyInv
<1>6. \E T \in SUBSET RingSlots : TornOnly(T)'
  <2>1. CASE want = {}
    <3>1. TornOnly(S)'
      BY <1>1, <1>5, <2>1 DEF TornOnly
    <3> QED
      BY <3>1
  <2>2. CASE want # {}
    <3>1. SlotOf(entry') \in RingSlots
      <4>1. entry' - 1 \in Int
        BY <1>1
      <4> QED
        BY <4>1, SlotInRing DEF SlotOf, RingSlots
    <3>2. IsFiniteSet(S) /\ Cardinality(S) <= overlap
      BY <1>5 DEF TornOnly
    <3>3. /\ IsFiniteSet(S \cup {SlotOf(entry')})
          /\ Cardinality(S \cup {SlotOf(entry')}) <= overlap + 1
      <4>1. Cardinality(S) \in Nat
        BY <3>2, FS_CardinalityType
      <4>2. /\ IsFiniteSet(S \cup {SlotOf(entry')})
            /\ \/ Cardinality(S \cup {SlotOf(entry')}) = Cardinality(S)
               \/ Cardinality(S \cup {SlotOf(entry')}) = Cardinality(S) + 1
        BY <3>2, FS_AddElement
      <4> QED
        BY <1>1, <3>2, <4>1, <4>2
    <3>4. PICK T \in SUBSET RingSlots : T = S \cup {SlotOf(entry')}
      BY <3>1
    <3>5. /\ T \subseteq RingSlots /\ IsFiniteSet(T) /\ Cardinality(T) <= overlap'
          /\ SlotOf(entry)' \in T
      BY <1>1, <2>2, <3>3, <3>4 DEF SlotOf
    <3>6. \A i \in RingSlots \ T : Copied(i)'
      BY <1>4, <1>5, <2>2, <3>4 DEF TornOnly
    <3>7. TornOnly(T)'
      BY <1>1, <2>2, <3>5, <3>6 DEF TornOnly
    <3> QED
      BY <3>7
  <2> QED
    BY <2>1, <2>2
<1> QED
  BY <1>2, <1>3, <1>6 DEF CopyInv

\* A store of a push: the copy overlaps it already, and it is in a slot that may
\* be torn.
LEMMA CopyPushStore ==
    ASSUME ErrorInv, CopyInv, PushStore
    PROVE  CopyInv'
<1>1. /\ todo # {} /\ UNCHANGED <<entry, copy, want, overlap>> /\ todo' \subseteq todo
      /\ clearing' = {}
      /\ \A i \in RingSlots : i # SlotOf(entry) => slots'[i] = slots[i]
  BY DEF PushStore, ErrorInv, PageType
<1>2. CopyType'
  BY <1>1 DEF CopyInv, CopyType
<1>3. StillInv'
  BY <1>1 DEF CopyInv, StillInv, CopyTells
<1>4. \A i \in RingSlots : i # SlotOf(entry) => (Copied(i)' <=> Copied(i))
  BY <1>1 DEF Copied
<1>5. PICK S \in SUBSET RingSlots : TornOnly(S)
  BY DEF CopyInv
<1>6. SlotOf(entry)' = SlotOf(entry) /\ (want # {} => SlotOf(entry) \in S)
  BY <1>1, <1>5 DEF TornOnly, SlotOf
<1>7. TornOnly(S)'
  BY <1>1, <1>4, <1>5, <1>6 DEF TornOnly
<1> QED
  BY <1>2, <1>3, <1>7 DEF CopyInv

\* A store of errors_init: the copy overlaps it already, and every slot may be torn.
LEMMA CopyClearStore ==
    ASSUME ClearingInv, CopyInv, ClearStore
    PROVE  CopyInv'
<1>1. clearing # {} /\ todo = {} /\ UNCHANGED <<entry, todo, copy, want, overlap>>
  BY DEF ClearStore, ClearingInv
<1>2. CopyType'
  BY <1>1 DEF CopyInv, CopyType
<1>3. StillInv'
  BY <1>1 DEF CopyInv, StillInv, CopyTells
<1>4. PICK S \in SUBSET RingSlots : TornOnly(S)
  BY DEF CopyInv
<1>5. want # {} => S = RingSlots
  BY <1>1, <1>4 DEF TornOnly
<1>6. TornOnly(S)'
  BY <1>1, <1>4, <1>5 DEF TornOnly
<1> QED
  BY <1>2, <1>3, <1>6 DEF CopyInv

\* errors_init begins: any slot may be torn.
LEMMA CopyInitialised ==
    ASSUME CopyInv, errors_init
    PROVE  CopyInv'
<1>1. /\ todo' = {} /\ UNCHANGED <<copy, want>>
      /\ overlap' = (IF want = {} THEN overlap ELSE Slots)
  BY DEF errors_init
<1>2. CopyType'
  BY <1>1 DEF CopyInv, CopyType
<1>3. StillInv'
  BY <1>1 DEF CopyInv, StillInv, CopyTells
<1>4. \E S \in SUBSET RingSlots : TornOnly(S)'
  <2>1. CASE want = {}
    <3>1. PICK S \in SUBSET RingSlots : TornOnly(S)
      BY DEF CopyInv
    <3>2. TornOnly(S)'
      BY <1>1, <2>1, <3>1 DEF TornOnly
    <3> QED
      BY <3>2
  <2>2. CASE want # {}
    <3>1. TornOnly(RingSlots)'
      BY <1>1, <2>2, RingCounts DEF TornOnly
    <3> QED
      BY <3>1
  <2> QED
    BY <2>1, <2>2
<1> QED
  BY <1>2, <1>3, <1>4 DEF CopyInv

\* Every step of a node keeps the page and the copy.
LEMMA ErrorInvariance == NodeSpec => [](PageInvariant /\ CopyInv)
<1>1. NodeInit => PageInvariant /\ CopyInv
  <2> SUFFICES ASSUME NodeInit PROVE PageInvariant /\ CopyInv
    OBVIOUS
  <2>1. /\ head = 0 /\ slots = Empty /\ entry = 0 /\ todo = {} /\ clearing = {}
        /\ copy = [head |-> 0, slots |-> Empty] /\ want = {} /\ overlap = 0
    BY DEF NodeInit, ErrorInit
  <2>2. ErrorInv
    BY <2>1, PageCleared DEF Cleared
  <2>3. CopyType
    BY <2>1 DEF CopyType, Empty, RingSlots
  <2>4. StillInv
    <3>1. \A k \in 1 .. Slots : copy.head - k \in Int /\ Number(copy.head - k + 1) = 0
      BY <2>1 DEF Number
    <3>2. \A k \in 1 .. Slots : (copy.head - k) % Slots \in 0 .. Slots - 1
      BY <3>1, SlotInRing
    <3> QED
      BY <2>1, <3>1, <3>2 DEF StillInv, CopyTells, Empty
  <2>5. TornOnly({})
    BY <2>1, FS_EmptySet DEF TornOnly, Empty, RingSlots, Fields
  <2> QED
    BY <2>2, <2>3, <2>4, <2>5 DEF CopyInv, PageInvariant
<1>2. PageInvariant /\ CopyInv /\ [NodeNext]_nodeVars => (PageInvariant /\ CopyInv)'
  <2> SUFFICES ASSUME PageInvariant, CopyInv, [NodeNext]_nodeVars
               PROVE  PageInvariant' /\ CopyInv'
    OBVIOUS
  <2>1. ASSUME UNCHANGED errorVars PROVE PageInvariant' /\ CopyInv'
    BY <2>1
    DEF errorVars, PageInvariant, ClearingInv, ErrorInv, PageType, PageInv, WholeInv, CopyInv, CopyType, StillInv,
        TornOnly, Copied, CopyTells, SlotOf
  <2>2. CASE NodeTick \/ NodePoll \/ Stop \/ NodeCrash \/ NodeUp \/ AgentCommand \/ Cable
    BY <2>1, <2>2 DEF NodeTick, NodePoll, Stop, NodeCrash, NodeUp, AgentCommand, Cable
  <2>3. CASE NodePush
    <3>1. PushBegin
      BY <2>3 DEF NodePush
    <3>2. ErrorInv
      BY <3>1 DEF PushBegin, PageInvariant, ClearingInv
    <3> QED
      BY <3>1, <3>2, PagePushBegin, CopyPushBegin DEF PageInvariant
  <2>4. CASE NodeStore
    <3>1. CASE PushStore
      <4>1. ErrorInv
        BY <3>1 DEF PushStore, PageInvariant, ClearingInv
      <4> QED
        BY <3>1, <4>1, PagePushStore, CopyPushStore DEF PageInvariant
    <3>2. CASE ClearStore
      <4>1. ClearingInv
        BY <3>2 DEF ClearStore, PageInvariant, ErrorInv, PageType
      <4> QED
        BY <3>2, <4>1, PageClearStore, CopyClearStore
    <3> QED
      BY <2>4, <3>1, <3>2 DEF NodeStore
  <2>5. CASE NodeStart
    <3>1. errors_init
      BY <2>5 DEF NodeStart
    <3>2. /\ clearing' = Words /\ entry' = 0 /\ todo' = {} /\ head' = head /\ slots' = slots
          /\ HeadWord \in Words
      BY <3>1 DEF errors_init, Words
    <3>3. head \in 0 .. MaxErrors /\ slots \in [RingSlots -> [Fields -> 0 .. MaxErrors]]
      BY DEF PageInvariant, ClearingInv, ErrorInv, PageType
    <3>4. ClearingInv'
      BY <3>2, <3>3, WordsApart DEF ClearingInv
    <3> QED
      BY <3>1, <3>4, CopyInitialised DEF PageInvariant
  <2>6. CASE AgentCopies \/ AgentCopy
    <3>1. UNCHANGED <<head, slots, entry, todo, clearing>>
      BY <2>6 DEF AgentCopies, AgentCopy, CopyBegin, CopyWord
    <3>2. PageInvariant'
      BY <3>1 DEF PageInvariant, ClearingInv, ErrorInv, PageType, PageInv, WholeInv, SlotOf
    <3> QED
      BY <2>6, <3>2, CopyBegins, CopyGoesOn DEF AgentCopies, AgentCopy
  <2>7. CASE UNCHANGED nodeVars
    BY <2>1, <2>7 DEF nodeVars
  <2> QED
    BY <2>2, <2>3, <2>4, <2>5, <2>6, <2>7 DEF NodeNext
<1> QED
  BY <1>1, <1>2, PTL DEF NodeSpec

\* The agent's copy of the error ring is true slot by slot.
LEMMA CopyIsTrue == CopyInv => CopyReadBack
<1> SUFFICES ASSUME CopyInv, want = {}, overlap # 0
             PROVE  Cardinality(Garbled) <= overlap
  BY DEF CopyReadBack, CopyInv, StillInv
<1>1. PICK S \in SUBSET RingSlots : TornOnly(S)
  BY DEF CopyInv
<1>2. Garbled \subseteq S /\ IsFiniteSet(S) /\ Cardinality(S) <= overlap /\ overlap \in Nat
  BY <1>1 DEF Garbled, TornOnly, CopyInv, CopyType
<1>3. /\ Cardinality(Garbled) <= Cardinality(S)
      /\ Cardinality(S) \in Nat /\ Cardinality(Garbled) \in Nat
  BY <1>2, FS_Subset, FS_CardinalityType
<1> QED
  BY <1>2, <1>3

\* The slot that the i-th pass of the loop of get_errors looks at.
Looked(limit, i) == (copy.head - limit + i - 1) % Slots

\* The passes that find an entry.
Found(limit) == {i \in 1 .. limit : copy.slots[Looked(limit, i)].code # 0}

LEMMA GetErrors ==
    \A limit : get_errors(limit) = [i \in Found(limit) |-> copy.slots[Looked(limit, i)]]
BY DEF get_errors, Found, Looked

\* The loop stays in the ring and looks at no slot twice.
LEMMA LooksOnce ==
    ASSUME NEW limit \in 1 .. Slots, copy.head \in Nat
    PROVE  \A i, j \in 1 .. limit :
              /\ Looked(limit, i) \in RingSlots
              /\ i # j => Looked(limit, i) # Looked(limit, j)
<1> SUFFICES ASSUME NEW i \in 1 .. limit, NEW j \in 1 .. limit
             PROVE  /\ Looked(limit, i) \in RingSlots
                    /\ i # j => Looked(limit, i) # Looked(limit, j)
  OBVIOUS
<1> DEFINE a == copy.head - limit + i - 1
           b == copy.head - limit + j - 1
<1>1. a \in Int /\ b \in Int /\ (i < j => a < b /\ b - a < Slots) /\ (j < i => b < a /\ a - b < Slots)
  OBVIOUS
<1>2. Looked(limit, i) = a % Slots /\ Looked(limit, j) = b % Slots
  BY DEF Looked
<1> HIDE DEF a, b
<1>3. a % Slots \in RingSlots
  BY <1>1, SlotInRing DEF RingSlots
<1>4. i < j => a % Slots # b % Slots
  BY <1>1, SlotsDistinct
<1>5. j < i => a % Slots # b % Slots
  BY <1>1, SlotsDistinct
<1> QED
  BY <1>2, <1>3, <1>4, <1>5

\* From a copy that tells the errors, the loop takes the newest ones.
LEMMA LoopTakesNewest ==
    ASSUME CopyType, CopyTells, NEW limit \in 1 .. Slots
    PROVE  get_errors(limit) = Newest(copy.head, limit)
<1> DEFINE n == copy.head
           len == IF n < limit THEN n ELSE limit
<1>1. n \in Nat
  BY DEF CopyType
<1>2. ASSUME NEW i \in 1 .. limit
      PROVE  /\ \A f \in Fields : copy.slots[Looked(limit, i)][f] = Number(n - limit + i)
             /\ copy.slots[Looked(limit, i)] = [f \in Fields |-> Number(n - limit + i)]
  <2> DEFINE k == limit - i + 1
  <2>1. k \in 1 .. Slots /\ n - k = n - limit + i - 1 /\ n - k + 1 = n - limit + i
    BY <1>1
  <2>2. \A f \in Fields : copy.slots[(n - k) % Slots][f] = Number(n - k + 1)
    BY <2>1 DEF CopyTells
  <2>3. \A f \in Fields : copy.slots[Looked(limit, i)][f] = Number(n - limit + i)
    BY <2>1, <2>2 DEF Looked
  <2>4. copy.slots[Looked(limit, i)] \in [Fields -> 0 .. MaxErrors]
    BY <1>1, LooksOnce DEF CopyType
  <2> QED
    BY <2>3, <2>4
<1>3. Found(limit) = limit - len + 1 .. limit
  <2>1. \A i \in 1 .. limit : copy.slots[Looked(limit, i)].code = Number(n - limit + i)
    BY <1>2 DEF Fields
  <2>2. \A i \in 1 .. limit : Number(n - limit + i) # 0 <=> i \in limit - len + 1 .. limit
    BY <1>1 DEF Number
  <2>3. limit - len + 1 .. limit \subseteq 1 .. limit
    BY <1>1
  <2> HIDE DEF len, n
  <2> QED
    BY <2>1, <2>2, <2>3 DEF Found
<1>4. ASSUME NEW i \in Found(limit)
      PROVE  copy.slots[Looked(limit, i)] = [f \in Fields |-> n - limit + i]
  <2>1. i \in 1 .. limit /\ Number(n - limit + i) = n - limit + i
    BY <1>1, <1>3 DEF Number
  <2> QED
    BY <1>2, <2>1
<1>5. Newest(n, limit) = [i \in limit - len + 1 .. limit |-> [f \in Fields |-> n - limit + i]]
  BY DEF Newest
<1> HIDE DEF len, n
<1> QED
  BY <1>3, <1>4, <1>5, GetErrors DEF n

\* The loop finds no more garbled entries than the copy has garbled slots.
LEMMA LoopGarblesNone ==
    ASSUME CopyType, NEW limit \in 1 .. Slots,
           NEW result, result = get_errors(limit),
           NEW garbled, garbled = {i \in DOMAIN result : result[i].code # result[i].msg}
    PROVE  /\ Cardinality(garbled) \in Nat /\ Cardinality(Garbled) \in Nat
           /\ Cardinality(garbled) <= Cardinality(Garbled)
<1>1. copy.head \in Nat /\ limit \in Nat
  BY DEF CopyType
<1>2. result = [i \in Found(limit) |-> copy.slots[Looked(limit, i)]]
  BY GetErrors
<1>3. \A i \in garbled :
         /\ i \in 1 .. limit
         /\ copy.slots[Looked(limit, i)].code # copy.slots[Looked(limit, i)].msg
  BY <1>2 DEF Found
<1>4. \A i \in garbled : Looked(limit, i) \in Garbled
  BY <1>1, <1>3, LooksOnce DEF Garbled
<1>5. IsFiniteSet(garbled) /\ Cardinality(garbled) \in Nat
  <2>1. IsFiniteSet(1 .. limit) /\ garbled \subseteq 1 .. limit
    BY <1>1, <1>3, FS_Interval
  <2> QED
    BY <2>1, FS_Subset, FS_CardinalityType
<1>6. IsFiniteSet(Garbled) /\ Cardinality(Garbled) \in Nat
  <2>1. IsFiniteSet(RingSlots) /\ Garbled \subseteq RingSlots
    BY FS_Interval DEF RingSlots, Garbled
  <2> QED
    BY <2>1, FS_Subset, FS_CardinalityType
<1>7. ASSUME Cardinality(Garbled) < Cardinality(garbled) PROVE FALSE
  <2> DEFINE look == [i \in garbled |-> Looked(limit, i)]
  <2>1. look \in [garbled -> Garbled]
    BY <1>4
  <2> HIDE DEF look
  <2>2. \E i, j \in garbled : i # j /\ look[i] = look[j]
    <3>1. PICK f \in [garbled -> Garbled] : f = look
      BY <2>1
    <3>2. \E i, j \in garbled : i # j /\ f[i] = f[j]
      BY <1>5, <1>6, <1>7, FS_PigeonHole
    <3> QED
      BY <3>1, <3>2
  <2> QED
    BY <1>1, <1>3, <2>2, LooksOnce DEF look
<1> QED
  BY <1>5, <1>6, <1>7

\* The agent reads back the errors that were pushed, for every size of the ring and
\* any number of errors, copies, kills and restarts: with no push and no errors_init
\* in its way the newest ones, all of them and in order; with n pushes, all but n
\* entries whole.  Every load and store may come between two others, those of
\* errors_init included, and a daemon may be killed in the middle of either
\* (errors_push, errors_init, App.get_errors).
THEOREM AgentReadsBack == NodeSpec => []ErrorsReadBack
<1>1. CopyInv => ErrorsReadBack
  <2> SUFFICES ASSUME CopyInv, want = {}, NEW limit \in 1 .. Slots
               PROVE  LET result  == get_errors(limit)
                          garbled == {i \in DOMAIN result : result[i].code # result[i].msg}
                      IN  IF overlap = 0 THEN result = Newest(copy.head, limit)
                                         ELSE Cardinality(garbled) <= overlap
    BY DEF ErrorsReadBack
  <2> DEFINE result  == get_errors(limit)
             garbled == {i \in DOMAIN result : result[i].code # result[i].msg}
  <2>1. CopyType /\ CopyReadBack /\ overlap \in Nat
    BY CopyIsTrue DEF CopyInv, CopyType
  <2>2. overlap = 0 => result = Newest(copy.head, limit)
    BY <2>1, LoopTakesNewest DEF CopyReadBack
  <2>3. overlap # 0 => Cardinality(garbled) <= overlap
    <3>1. overlap # 0 => Cardinality(Garbled) <= overlap
      BY <2>1 DEF CopyReadBack
    <3>2. /\ Cardinality(garbled) \in Nat /\ Cardinality(Garbled) \in Nat
          /\ Cardinality(garbled) <= Cardinality(Garbled)
      <4> HIDE DEF result
      <4>1. result = get_errors(limit)
        BY DEF result
      <4> QED
        BY <2>1, <4>1, LoopGarblesNone
    <3> HIDE DEF garbled
    <3> QED
      BY <2>1, <3>1, <3>2
  <2> QED
    BY <2>2, <2>3
<1> QED
  BY <1>1, ErrorInvariance, PTL

----------------------------------------------------------------------------
\* The parts that no invariant above has: where the main thread is, the counters
\* of events and of ticks, and the window also of a daemon that is down.
RestInv ==
    /\ at \in Places /\ events \in 0 .. MaxEvents
    /\ link_check_ticks \in 0 .. CheckEvery - 1
    /\ HealthTypeOK

\* What update_health leaves, whatever was before.
LEMMA HealthType == ASSUME HealthTypeOK, NEW report, update_health(report) PROVE HealthTypeOK'
<1>1. CASE report = "small"
  BY <1>1 DEF HealthTypeOK, update_health, CountTo
<1>2. CASE report # "small"
  <2>1. pin' = "HIGH" /\ since_bad' = 0 /\ faulted' = TRUE /\ stable' = FALSE /\ stable_for' = 0
    BY <1>2, Zenon DEF update_health
  <2>2. stable' \in BOOLEAN /\ faulted' \in BOOLEAN /\ pin' \in {"LOW", "HIGH"}
    BY <2>1, Zenon
  <2>3. stable_for' \in 0 .. StableWindow /\ since_bad' \in 0 .. StableWindow + 1
    BY <2>1
  <2> QED
    BY <2>2, <2>3, Zenon DEF HealthTypeOK
<1> QED
  BY <1>1, <1>2

\* A node that has just begun or started again.
LEMMA FreshType == Fresh => HealthTypeOK
BY HealthFresh DEF HealthInv

\* Every variable of a node keeps its type, with the bounds that the parts rely
\* on: no command runs a third time, the window and the counter of the checks stay
\* within their limits, and head is the error being pushed or the one before it.
THEOREM NodeTypeCorrect == NodeSpec => []NodeTypeOK
<1>1. NodeInit => RestInv
  <2> SUFFICES ASSUME NodeInit PROVE RestInv
    OBVIOUS
  <2>1. Fresh
    BY Zenon DEF NodeInit, HealthInit, Fresh
  <2>2. at \in Places /\ events \in 0 .. MaxEvents /\ link_check_ticks \in 0 .. CheckEvery - 1
    BY DEF NodeInit, LinkInit, Places
  <2> QED
    BY <2>1, <2>2, FreshType DEF RestInv
<1>2. RestInv /\ [NodeNext]_nodeVars => RestInv'
  <2> SUFFICES ASSUME RestInv, [NodeNext]_nodeVars PROVE RestInv'
    OBVIOUS
  <2>1. at' \in Places
    BY DEF RestInv, NodeNext, NodeTick, NodePoll, PollSeq, PollCode, NodePush, NodeStore, Stop,
           NodeCrash, NodeStart, NodeUp, AgentCommand, write_cmd, AgentCopies, AgentCopy, Cable,
           nodeVars, Places
  <2>2. events' \in 0 .. MaxEvents
    BY DEF RestInv, NodeNext, NodeTick, NodePoll, NodePush, NodeStore, Stop,
           NodeCrash, NodeStart, NodeUp, AgentCommand, AgentCopies, AgentCopy, Cable, nodeVars, Event
  <2>3. link_check_ticks' \in 0 .. CheckEvery - 1
    <3>1. LinkTick \/ net_io_init \/ CarrierChange \/ UNCHANGED linkVars
      BY DEF NodeNext, NodeTick, NodePoll, NodePush, NodeStore, Stop, NodeCrash,
             NodeStart, NodeUp, AgentCommand, AgentCopies, AgentCopy, Cable, nodeVars
    <3>2. CASE LinkTick
      BY <3>2 DEF RestInv, LinkTick
    <3>3. CASE net_io_init \/ CarrierChange \/ UNCHANGED linkVars
      <4>1. link_check_ticks' = 0 \/ link_check_ticks' = link_check_ticks
        BY <3>3, Zenon DEF net_io_init, CarrierChange, linkVars
      <4> QED
        BY <4>1 DEF RestInv
    <3> QED
      BY <3>1, <3>2, <3>3
  <2>4. HealthTypeOK'
    <3>0. HealthTypeOK
      BY DEF RestInv
    <3>1. ASSUME UNCHANGED healthVars PROVE HealthTypeOK'
      BY <3>0, <3>1 DEF HealthTypeOK, healthVars
    <3>2. CASE NodeTick
      <4>1. PICK report \in Reports : update_health(report)
        BY <3>2 DEF NodeTick
      <4> QED
        BY <3>0, <4>1, HealthType
    <3>3. CASE NodeUp
      <4>1. Fresh'
        BY <3>3 DEF NodeUp, gpio_init, Fresh
      <4>2. Fresh' => HealthTypeOK'
        BY FreshType, PTL
      <4> QED
        BY <4>1, <4>2
    <3>4. CASE Stop
      BY <3>0, <3>4 DEF Stop, gpio_close, HealthTypeOK
    <3>5. CASE \/ NodePoll \/ NodePush \/ NodeStore \/ NodeCrash \/ NodeStart \/ AgentCommand
               \/ AgentCopies \/ AgentCopy \/ Cable \/ UNCHANGED nodeVars
      BY <3>1, <3>5 DEF NodePoll, NodePush, NodeStore, NodeCrash, NodeStart, AgentCommand,
                        AgentCopies, AgentCopy, Cable, nodeVars
    <3> QED
      BY <3>2, <3>3, <3>4, <3>5 DEF NodeNext
  <2> QED
    BY <2>1, <2>2, <2>3, <2>4 DEF RestInv
<1>3. CmdInv => CmdTypeOK
  <2> SUFFICES ASSUME CmdInv PROVE CmdTypeOK
    OBVIOUS
  <2>1. ran \in [Cmds -> Nat] /\ \A c \in Cmds : ran[c] \in 0 .. 2
    BY DEF CmdInv, RunsOnce, Cmds
  <2>2. ran \in [Cmds -> 0 .. 2]
    BY <2>1
  <2> QED
    BY <2>2 DEF CmdInv, CmdTypeOK, Cmds
<1>4. PageInvariant /\ CopyInv => ErrorTypeOK
  BY DEF PageInvariant, ClearingInv, ErrorInv, PageType, CopyInv, CopyType, ErrorTypeOK, RingSlots
<1>5. LinkInv /\ RestInv => LinkTypeOK /\ HealthTypeOK
  BY DEF LinkInv, LinkTypeOK, RestInv
<1>6. CmdInv /\ LinkInv /\ RestInv /\ PageInvariant /\ CopyInv => NodeTypeOK
  BY <1>3, <1>4, <1>5 DEF NodeTypeOK, RestInv
<1> QED
  BY <1>1, <1>2, <1>6, CmdInvariance, LinkInvariance, ErrorInvariance, PTL DEF NodeSpec

=============================================================================

------------------------------ MODULE ErrorRing ------------------------------
(***************************************************************************)
(* The ring of errors (errors.c) that the daemon fills and the agent       *)
(* copies (App.get_errors), on a page in shared memory without a lock.     *)
(*                                                                         *)
(* The n-th error since errors_init is the number n in the fields of its   *)
(* slot; msg stands for time stamp, text and count.  Nothing orders the    *)
(* stores of a push among themselves, nor the loads of a copy: each goes   *)
(* one by one and in any order.  The fence at the end of errors_push       *)
(* orders the stores of one push before those of the next.  errors_init is *)
(* a store of head and a memset, which the agent sees word by word too;    *)
(* the system calls of the start-up lie between it and the first push.     *)
(* The page outlives the daemon.  errors_drain has no caller.              *)
(***************************************************************************)
EXTENDS Integers, FiniteSets

CONSTANTS
    Slots,      \* DRS_ERROR_RING_SLOTS
    MaxErrors   \* bound: errors since errors_init

ASSUME ErrorAssumption == Slots \in Nat \ {0} /\ MaxErrors \in Nat

VARIABLES
    head,       \* the page: errors since errors_init
    slots,      \* the page: the entries
    entry,      \* the error being pushed, or the last one that was
    todo,       \* the stores that are left of it
    clearing,   \* the words that errors_init has not cleared yet
    copy,       \* the agent's copy: head and slots
    want,       \* the words it has not copied yet
    overlap     \* pushes that the copy overlaps; Slots for errors_init, which
                \* writes them all

errorVars == <<head, slots, entry, todo, clearing, copy, want, overlap>>

Fields == {"code", "msg"}

\* The words that a copy takes one by one: head, as if it were a slot, and the fields.
HeadWord == <<Slots, "head">>

Words == {HeadWord} \cup (0 .. Slots - 1) \X Fields

Empty == [i \in 0 .. Slots - 1 |-> [f \in Fields |-> 0]]

ErrorInit ==
    /\ head = 0 /\ slots = Empty /\ entry = 0 /\ todo = {} /\ clearing = {}
    /\ copy = [head |-> 0, slots |-> Empty] /\ want = {} /\ overlap = 0

\* errors_init begins on the page as the last daemon left it, under the agent's
\* eyes perhaps.
errors_init ==
    /\ clearing' = Words /\ entry' = 0 /\ todo' = {}
    /\ overlap' = IF want = {} THEN overlap ELSE Slots
    /\ UNCHANGED <<head, slots, copy, want>>

\* One of its stores becomes visible.
ClearStore ==
    \E w \in clearing :
        /\ clearing' = clearing \ {w}
        /\ IF w = HeadWord THEN head' = 0 /\ UNCHANGED slots
                           ELSE slots' = [slots EXCEPT ![w[1]][w[2]] = 0] /\ UNCHANGED head
        /\ UNCHANGED <<entry, todo, copy, want, overlap>>

----------------------------------------------------------------------------
\* errors_push begins.
PushBegin ==
    /\ todo = {} /\ clearing = {} /\ entry < MaxErrors
    /\ todo' = {"head"} \cup Fields
    /\ entry' = entry + 1
    /\ overlap' = IF want = {} THEN overlap ELSE overlap + 1
    /\ UNCHANGED <<head, slots, clearing, copy, want>>

\* Mutant: the index is taken after the increment.
SlotAfter(n) == n % Slots

\* The slot of the n-th error.
SlotOf(n) == (n - 1) % Slots

\* One of its stores becomes visible.
PushStore ==
    \E w \in todo :
        /\ todo' = todo \ {w}
        /\ IF w = "head" THEN head' = entry /\ UNCHANGED slots
                         ELSE slots' = [slots EXCEPT ![SlotOf(entry)][w] = entry] /\ UNCHANGED head
        /\ UNCHANGED <<entry, clearing, copy, want, overlap>>

----------------------------------------------------------------------------
\* read_bytes: the agent begins to copy the page.
CopyBegin ==
    /\ want = {}
    /\ want' = Words
    /\ copy' = [head |-> 0, slots |-> Empty]
    /\ overlap' = IF clearing # {} THEN Slots ELSE IF todo # {} THEN 1 ELSE 0
    /\ UNCHANGED <<head, slots, entry, todo, clearing>>

CopyWord ==
    \E w \in want :
        /\ want' = want \ {w}
        /\ copy' = IF w = HeadWord THEN [copy EXCEPT !.head = head]
                   ELSE [copy EXCEPT !.slots[w[1]][w[2]] = slots[w[1]][w[2]]]
        /\ UNCHANGED <<head, slots, entry, todo, clearing, overlap>>

\* get_errors: the entries of the last limit slots that hold one.  Each stands
\* at the pass of the loop that appends it, so their order is that of the list.
get_errors(limit) ==
    LET slot(i) == copy.slots[(copy.head - limit + i - 1) % Slots]
    IN  [i \in {j \in 1 .. limit : slot(j).code # 0} |-> slot(i)]

----------------------------------------------------------------------------
ErrorTypeOK ==
    /\ head \in 0 .. MaxErrors /\ entry \in 0 .. MaxErrors
    /\ clearing \subseteq Words /\ (clearing = {} => entry \in {head, head + 1})
    /\ slots \in [0 .. Slots - 1 -> [Fields -> 0 .. MaxErrors]]
    /\ todo \subseteq {"head"} \cup Fields
    /\ copy \in [head : 0 .. MaxErrors, slots : [0 .. Slots - 1 -> [Fields -> 0 .. MaxErrors]]]
    /\ want \subseteq Words /\ overlap \in Nat

\* The last errors before and with the n-th, oldest first, at the passes of the
\* loop that are left when it has gone by the slots of an unfilled ring.
Newest(n, limit) ==
    LET len == IF n < limit THEN n ELSE limit
    IN  [i \in limit - len + 1 .. limit |-> [f \in Fields |-> n - limit + i]]

\* What get_errors returns from a copy that no push and no errors_init overlapped
\* are the newest errors, all of them and in order, however often the ring has
\* gone round.  A push that overlaps the copy, or was killed before it, garbles
\* one entry at most, its own; errors_init may garble them all, also when it was
\* killed and the daemon has not finished another one (errors_push, errors_init,
\* App.get_errors).
ErrorsReadBack ==
    want = {} =>
        \A limit \in 1 .. Slots :
            LET result  == get_errors(limit)
                garbled == {i \in DOMAIN result : result[i].code # result[i].msg}
            IN  IF overlap = 0 THEN result = Newest(copy.head, limit)
                               ELSE Cardinality(garbled) <= overlap

=============================================================================

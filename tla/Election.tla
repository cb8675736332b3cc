------------------------------ MODULE Election ------------------------------
(***************************************************************************)
(* The leader-election rules of election.c as operators on the record of a *)
(* node's state machine: what an ANNOUNCE, a promotion and an expired      *)
(* timeout do to the term, the known leader and the lock mode.             *)
(*                                                                         *)
(* The operators use only the fields own_term, lock_mode and               *)
(* leader_node_id of their argument s; self is el->own_node_id.  Node IDs  *)
(* are the last octet of the IPv4 address, never 0; 0 in leader_node_id    *)
(* means that no leader is known yet.                                      *)
(*                                                                         *)
(* election_arm_timeout draws a random timeout.  The draw made inside      *)
(* election_on_announce and election_init is never read: the deadline is   *)
(* only consulted in LISTEN and CANDIDATE, and entering either of them     *)
(* draws again.  It is modelled where it counts, in StateMachine.          *)
(***************************************************************************)
EXTENDS Naturals

CONSTANTS
    TermBoost      \* DRS_LOCK_TERM_BOOST: the term a locked leader claims

ASSUME TermBoostAssumption == TermBoost \in Nat \ {0}

NoLeader == 0

LockModes == {"AUTO", "AS_LEADER", "AS_FOLLOWER"}

\* elect_result_t: does the handler of the ANNOUNCE have to follow its sender?
NoChange(s) == [sm |-> s, become_follower |-> FALSE]

Yield(s, pkt) ==
    [sm |-> [s EXCEPT !.own_term = pkt.election_term, !.leader_node_id = pkt.node_id],
     become_follower |-> TRUE]

\* The term a node starts with: boosted when it is locked as leader.
election_init_term(lock) == IF lock = "AS_LEADER" THEN TermBoost ELSE 0

\* Mutant: the node IDs are not compared when the peer's term is higher.
YieldToTerm(self, s, pkt) ==
    IF \/ pkt.election_term > s.own_term
       \/ pkt.election_term = s.own_term /\ pkt.node_id < self
    THEN Yield(s, pkt) ELSE NoChange(s)

\* Mutant: a lower-ID peer is followed although its term is stale.
YieldToStale(self, s, pkt) == IF pkt.node_id < self THEN Yield(s, pkt) ELSE NoChange(s)

\* Mutant: the leader lock is not looked at.
YieldLocked(self, s, pkt) ==
    IF pkt.node_id < self /\ pkt.election_term >= s.own_term THEN Yield(s, pkt) ELSE NoChange(s)

\* A locked leader ignores every ANNOUNCE.  Otherwise a lower-ID peer with a
\* term at least ours is followed; of a higher-ID peer with a higher term only
\* the term is adopted; anything else is stale or loses the tie-break.
election_on_announce(self, s, pkt) ==
    LET higher_term == pkt.election_term > s.own_term
        same_term   == pkt.election_term = s.own_term
    IN  CASE s.lock_mode = "AS_LEADER" -> NoChange(s)
          [] s.lock_mode # "AS_LEADER" /\ higher_term /\ pkt.node_id > self
             -> NoChange([s EXCEPT !.own_term = pkt.election_term])
          [] s.lock_mode # "AS_LEADER" /\ \/ higher_term /\ pkt.node_id <= self
                                          \/ same_term /\ pkt.node_id < self
             -> Yield(s, pkt)
          [] OTHER -> NoChange(s)

\* Mutant: the node does not become its own leader.
PromoteUnnamed(self, s) ==
    [s EXCEPT !.own_term = IF s.lock_mode = "AS_LEADER" THEN TermBoost ELSE @ + 1]

\* Claim leadership: the next term, except that a locked leader always claims
\* TermBoost, whatever its term was.
election_promote(self, s) ==
    [s EXCEPT !.own_term = IF s.lock_mode = "AS_LEADER" THEN TermBoost ELSE @ + 1,
              !.leader_node_id = self]

\* An election timeout never fires on a node locked as follower.
election_timed_out(s) == s.lock_mode # "AS_FOLLOWER" /\ s.timer = 0

=============================================================================

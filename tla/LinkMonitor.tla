----------------------------- MODULE LinkMonitor -----------------------------
(***************************************************************************)
(* The link monitor (net_check_recover): every CheckEvery ticks the daemon *)
(* looks at the carrier and, when it finds it back, joins the multicast    *)
(* group again, because a driver may lose the filter with the carrier.     *)
(***************************************************************************)
EXTENDS Naturals

CONSTANT CheckEvery     \* ticks between two checks, 10 in main

ASSUME LinkAssumption == CheckEvery \in Nat \ {0}

VARIABLES
    carrier,            \* the cable is plugged in
    joined,             \* the NIC lets the group's packets through
    carrier_was_up,     \* what the last check saw
    link_check_ticks,   \* ticks since the last check
    checked,            \* a check has seen the carrier down, this time
    excuse              \* why the node may stay deaf: nobody saw the carrier
                        \* down, or the group could not be joined

linkVars == <<carrier, joined, carrier_was_up, link_check_ticks, checked, excuse>>

LinkInit ==
    /\ carrier = TRUE /\ joined = TRUE /\ carrier_was_up = TRUE
    /\ link_check_ticks = 0 /\ checked = FALSE /\ excuse = FALSE

\* net_io_init joins the group and does not look whether it could.
net_io_init ==
    /\ joined' \in BOOLEAN /\ excuse' = ~ joined'
    /\ carrier_was_up' = TRUE /\ link_check_ticks' = 0 /\ checked' = FALSE
    /\ UNCHANGED carrier

\* The cable is pulled or plugged in.  Either may cost the filter.
CarrierChange ==
    /\ carrier' = ~ carrier
    /\ joined' \in {joined, FALSE}
    /\ checked' = FALSE
    /\ excuse' = (carrier' /\ ~ joined' /\ ~ checked)
    /\ UNCHANGED <<carrier_was_up, link_check_ticks>>

\* Mutant: the group is joined while the carrier stays, not when it comes back.
CheckRejoinsLate ==
    /\ carrier_was_up' = carrier
    /\ checked' = ~ carrier
    /\ IF carrier /\ carrier_was_up THEN joined' = TRUE /\ excuse' = FALSE ELSE UNCHANGED <<joined, excuse>>
    /\ UNCHANGED carrier

\* net_check_recover.  The address of the interface may be missing and the
\* group may refuse: carrier_was_up is set before.
net_check_recover ==
    /\ carrier_was_up' = carrier
    /\ checked' = ~ carrier
    /\ IF carrier /\ ~ carrier_was_up
       THEN \/ joined' = TRUE /\ excuse' = FALSE
            \/ joined' \in {joined, FALSE} /\ excuse' = ~ joined'
       ELSE UNCHANGED <<joined, excuse>>
    /\ UNCHANGED carrier

\* The file of the carrier cannot be opened.
CheckFails == UNCHANGED <<carrier, joined, carrier_was_up, checked, excuse>>

\* The part of a tick that belongs to the monitor.
LinkTick ==
    IF link_check_ticks + 1 >= CheckEvery
    THEN link_check_ticks' = 0 /\ (net_check_recover \/ CheckFails)
    ELSE link_check_ticks' = link_check_ticks + 1 /\ UNCHANGED <<carrier, joined, carrier_was_up, checked, excuse>>

----------------------------------------------------------------------------
LinkTypeOK ==
    /\ {carrier, joined, carrier_was_up, checked, excuse} \subseteq BOOLEAN
    /\ link_check_ticks \in 0 .. CheckEvery - 1

\* No check leaves a node with a carrier deaf for the group, unless the carrier
\* came back before a check had seen it gone, or the group could not be joined,
\* at the start or when the carrier came back: neither is ever tried again.
HearsAfterCheck ==
    [][net_check_recover /\ link_check_ticks' = 0 /\ carrier => joined' \/ excuse']_linkVars

=============================================================================

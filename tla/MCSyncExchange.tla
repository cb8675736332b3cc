--------------------------- MODULE MCSyncExchange ---------------------------
(***************************************************************************)
(* Instances of SyncExchange for TLC.                                      *)
(***************************************************************************)
EXTENDS SyncExchange

\* Clocks far enough apart for a product to overflow.
Apart == {-4}

\* Clocks so far apart that the sign of a product changes.
WrapsOver == {-2}

\* Clocks that agree.
Agreeing == {0}

=============================================================================

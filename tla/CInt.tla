-------------------------------- MODULE CInt --------------------------------
(***************************************************************************)
(* Integer arithmetic of C where it differs from that of TLA+.             *)
(***************************************************************************)
EXTENDS Integers

\* C's division of integers rounds towards zero, \div rounds down.
Quotient(a, b) == IF a >= 0 THEN a \div b ELSE 0 - ((0 - a) \div b)

\* A signed product of a type with m values, as the compiled code leaves it:
\* two's complement (on overflow the language leaves the result undefined).
Wrap(a, m) == ((a + m \div 2) % m) - m \div 2

=============================================================================

----------------------------- MODULE MCStartup -----------------------------
(* Startup with an int of 5 bits and a long of 7, and ports up to 7, so     *)
(* that numerals beyond both fit TLC's own integers.                        *)
EXTENDS Startup

\* 0, the largest port, one more, a negative int, 2^5 + 3 and one past a long.
MCNumerals == {0, 7, 8, 17, 35, 70}
=============================================================================

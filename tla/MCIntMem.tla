------------------------------ MODULE MCIntMem ------------------------------
EXTENDS IntMem

CONSTANTS r0, r1, r2, r3, f0, f1

\* Every word different, so that one in the place of another shows.
MCRom      == [a \in 0 .. 3 |-> CASE a = 0 -> r0 [] a = 1 -> r1 [] a = 2 -> r2 [] a = 3 -> r3]
MCFirmware == [a \in 0 .. 1 |-> IF a = 0 THEN f0 ELSE f1]

=============================================================================

----------------------------- MODULE SerialLine -----------------------------
(***************************************************************************)
(* One direction of a serial connection as the two programs see it: a      *)
(* character is put on the wire, arrives in the other side's register, and *)
(* is fetched from there.  Until the first one has arrived as it was put,  *)
(* the other side may be deaf, or in the middle of a character, and hear   *)
(* nothing or anything; from then on none is lost, changed, invented or    *)
(* overtaken, and each one arrives.  A line between two ends that were     *)
(* there from the start is heard from the start.                           *)
(***************************************************************************)
CONSTANTS
  Chars,          \* the characters
  None            \* no character

VARIABLES
  wire,           \* the character on its way
  held,           \* the character waiting to be fetched
  heard           \* whether the other side is known to hear

vars == <<wire, held, heard>>

Init == wire = None /\ held = None /\ heard \in BOOLEAN

\* The wire takes a character; before the first arrival that may cost the one on it.
Put == (wire = None \/ ~heard) /\ wire' \in Chars

Arrive == wire # None /\ held = None /\ held' = wire /\ wire' = None /\ heard' = TRUE

Garble == ~heard /\ held = None /\ held' \in Chars

Fetch == held # None /\ held' = None

\* The two programs run at the same time.
Next ==
  \/ Arrive
  \/ (Put \/ wire' = wire) /\ (Garble \/ Fetch \/ held' = held) /\ heard' = heard

Spec == Init /\ [][Next]_vars

\* Once the line is heard, whatever is put on it arrives: uart_core.v receives what
\* the other side's uart_core.v sends.
Arrives == heard /\ wire # None ~> held # None

=============================================================================

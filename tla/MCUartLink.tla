----------------------------- MODULE MCUartLink -----------------------------
EXTENDS UartLink

\* ENQ is 5 and FRX is 8 (iob-uart.h).
MCENQ   == [b \in 0 .. 7 |-> IF b \in {0, 2} THEN 1 ELSE 0]
MCReply == [b \in 0 .. 7 |-> IF b = 3 THEN 1 ELSE 0]
MCBytes == {MCENQ, MCReply}

\* One value for the registers without a reset value: they are written before they
\* are read.
MCInit ==
  /\ Init
  /\ bcts = <<0, 0>> /\ hcts = <<0, 0>>
  /\ \A rx \in {brx, hrx} : rx.pattern = Reply /\ rx.data = Reply

MCSpec == MCInit /\ [][Next]_vars /\ Fairness

=============================================================================

------------------------------ MODULE UartLink ------------------------------
(***************************************************************************)
(* Two UARTs joined by their lines: the board's, under the bootloader      *)
(* (boot.c, with the driver of iob-uart.c), and the host's, under the      *)
(* program at the other end (system_core_tb.v, with the tasks of           *)
(* cpu_tasks.v; the console does the same).  Modelled is how the two find  *)
(* each other: the board repeats ENQ until it is answered, sends its       *)
(* welcome, takes the answer, says farewell and restarts.  The files that  *)
(* boot.c may load in between are left out.                                *)
(*                                                                         *)
(* A step is an edge of both clocks or, because the two are not the same   *)
(* clock, of the faster one only: at most once from one moment when both   *)
(* lines are idle to the next.  At an edge each CPU makes its next access  *)
(* or none; it never lets MaxGap edges pass without one.                   *)
(***************************************************************************)
EXTENDS Integers, Sequences

CONSTANTS
  Bits, Div, Bytes,     \* as in UartCore
  ENQ, Reply,           \* the two characters of the handshake
  MessageLength,         \* characters of the board's two messages
  MaxGap,               \* edges from one access of a CPU to its next, at most
  Calm,                 \* ENQs in a row that calm counts to
  None                  \* no character

ASSUME CoreAssumption == Bits \in Nat \ {0} /\ Div \in Nat /\ Div >= 2
ASSUME CharAssumption == Bytes \subseteq [0 .. Bits - 1 -> {0, 1}]
ASSUME HandshakeAssumption == {ENQ, Reply} \subseteq Bytes
ASSUME PaceAssumption ==
  MaxGap \in Nat \ {0} /\ MessageLength \in Nat \ {0} /\ Calm \in Nat

VARIABLES
  bsw, btx, bcts, brx, bloaded,         \* the board's UART
  hsw, htx, hcts, hrx, hloaded,         \* the host's UART
  board, host,          \* the two programs: where they are, and what they hold
  tied,                 \* cts is wired to 1 (boards) or to the other side's rts
  fast, slipped,        \* the faster clock, and whether it has been alone of late
  bwire, hwire,         \* history: the character each side has put on its line
  bheard,               \* history: whether the host ever announced the board's
  calm                  \* history: ENQs unheard by the host since the last slip

boardUart == <<bsw, btx, bcts, brx, bloaded>>
hostUart  == <<hsw, htx, hcts, hrx, hloaded>>
lines     == <<bwire, hwire, bheard, calm>>
vars      == <<boardUart, hostUart, board, host, tied, fast, slipped, lines>>

B == INSTANCE UartCore WITH sw <- bsw, tx <- btx, cts_int <- bcts, rx <- brx, loaded <- bloaded
H == INSTANCE UartCore WITH sw <- hsw, tx <- htx, cts_int <- hcts, rx <- hrx, loaded <- hloaded

Init ==
  /\ B!Init /\ H!Init
  /\ board = [pc |-> "init", n |-> 1, out |-> ENQ, in |-> None, gap |-> 1]
  /\ host  = [pc |-> "off", n |-> 1, out |-> Reply, in |-> None, gap |-> 1]
  /\ tied \in BOOLEAN
  /\ fast \in {"none", "board", "host"} /\ slipped = FALSE
  /\ bwire = None /\ hwire = None /\ bheard = FALSE /\ calm = 0

---------------------------------------------------------------------------
(* The board's program *)

\* uart_init: reset, bit duration, then both halves.
BoardInit == <<B!Set("SOFTRESET", 1), B!Set("SOFTRESET", 0), B!Set("DIV", Div),
               B!Set("TXEN", 1), B!Set("RXEN", 1)>>

BoardEdge(bus) == B!Edge(bus, H!txd, IF tied THEN 1 ELSE hrx.rts)

BoardQuiet ==
  /\ board.pc = "done" \/ board.gap < MaxGap
  /\ BoardEdge(B!Quiet)
  /\ board' = IF board.pc = "done" THEN board ELSE [board EXCEPT !.gap = @ + 1]

\* An access; then the program goes on with the fields of next.
BoardDoes(pc, bus, next) ==
  /\ board.pc = pc
  /\ BoardEdge(bus)
  /\ board' = [next EXCEPT !.gap = 1]

BoardGoes(pc, bus, to) == BoardDoes(pc, bus, [board EXCEPT !.pc = to])

BoardStart ==
  BoardDoes("init", BoardInit[board.n],
            IF board.n < Len(BoardInit) THEN [board EXCEPT !.n = @ + 1]
                                        ELSE [board EXCEPT !.pc = "istxready", !.n = 0])

\* if(uart_istxready()) uart_putc(ENQ), while(!uart_isrxready()).
IsTxReady == BoardGoes("istxready", B!Get("TXREADY"), IF btx'.ready = 1 THEN "putc" ELSE "isrxready")
IsRxReady ==
  \E c \in Bytes :
    BoardDoes("isrxready", B!Get("RXREADY"),
      IF brx'.ready = 0 THEN [board EXCEPT !.pc = "istxready"]
      ELSE [board EXCEPT !.pc = "putc", !.n = 1, !.out = c])

\* uart_putc, of ENQ or of the n-th character of a message: the welcome, and the
\* farewell once the answer is there.
BoardPutcBlind == BoardGoes("putc", B!Get("TXREADY"), "write")     \* mutation: no while
BoardPutc  == BoardGoes("putc", B!Get("TXREADY"), IF btx'.ready = 1 THEN "write" ELSE "putc")
BoardWrite ==
  \E c \in Bytes :
    BoardDoes("write", B!Set("TXDATA", board.out),
      IF board.n = 0 THEN [board EXCEPT !.pc = "isrxready"]
      ELSE IF board.n < MessageLength THEN [board EXCEPT !.pc = "putc", !.n = @ + 1, !.out = c]
      ELSE [board EXCEPT !.pc = IF board.in = None THEN "getc" ELSE "txwait"])

\* uart_getc, of the answer.
BoardGetc == BoardGoes("getc", B!Get("RXREADY"), IF brx'.ready = 1 THEN "read" ELSE "getc")
BoardRead ==
  \E c \in Bytes :
    BoardDoes("read", B!Get("RXDATA"),
              [board EXCEPT !.pc = "putc", !.n = 1, !.out = c, !.in = brx'.data])

\* uart_txwait; what follows is a restart of the CPU.
BoardTxWait == BoardGoes("txwait", B!Get("TXREADY"), IF btx'.ready = 1 THEN "done" ELSE "txwait")

BoardRuns == \/ BoardQuiet \/ BoardStart \/ IsTxReady \/ IsRxReady \/ BoardPutc
             \/ BoardWrite \/ BoardGetc \/ BoardRead \/ BoardTxWait

---------------------------------------------------------------------------
(* The host's program *)

\* cpu_inituart: here the receiver comes first.
HostInit == <<H!Set("SOFTRESET", 1), H!Set("SOFTRESET", 0), H!Set("DIV", Div),
              H!Set("RXEN", 1), H!Set("TXEN", 1)>>

HostEdge(bus) == H!Edge(bus, B!txd, IF tied THEN 1 ELSE brx.rts)

HostQuiet ==
  /\ host.pc = "off" \/ host.gap < MaxGap
  /\ HostEdge(H!Quiet)
  /\ host' = IF host.pc = "off" THEN host ELSE [host EXCEPT !.gap = @ + 1]

HostDoes(pc, bus, next) ==
  /\ host.pc = pc
  /\ HostEdge(bus)
  /\ host' = [next EXCEPT !.gap = 1]

HostGoes(pc, bus, to) == HostDoes(pc, bus, [host EXCEPT !.pc = to])

\* It may be started at any time.
HostOn    == host.pc = "off" /\ HostEdge(H!Quiet) /\ host' = [host EXCEPT !.pc = "init"]
HostStart ==
  HostDoes("init", HostInit[host.n],
           IF host.n < Len(HostInit) THEN [host EXCEPT !.n = @ + 1]
                                     ELSE [host EXCEPT !.pc = "getc", !.n = 0])

\* The server loop: the first ENQ is answered, the others are not.
HostGetc == HostGoes("getc", H!Get("RXREADY"), IF hrx'.ready = 1 THEN "read" ELSE "getc")
HostRead ==
  HostDoes("read", H!Get("RXDATA"),
    IF hrx'.data = ENQ /\ host.n = 0
      THEN [host EXCEPT !.pc = "putc", !.n = 1, !.in = ENQ]
      ELSE [host EXCEPT !.pc = "getc", !.in = hrx'.data])
HostPutc  == HostGoes("putc", H!Get("TXREADY"), IF htx'.ready = 1 THEN "write" ELSE "putc")
HostWrite == HostGoes("write", H!Set("TXDATA", host.out), "getc")

HostRuns == \/ HostQuiet \/ HostOn \/ HostStart \/ HostGetc \/ HostRead \/ HostPutc \/ HostWrite

---------------------------------------------------------------------------
(* Edges *)

Wrote(before, after) == before.pc = "write" /\ after.pc # "write"

\* The board repeats ENQ and the host has not heard one; n is 0 in that loop only.
Unheard == board.n = 0 /\ ~bheard

\* The characters on the lines: put by a write, taken by the other side's announcement;
\* and how many ENQs have passed in vain with both clocks at every edge.
Follow(boardTicks, hostTicks) ==
  LET bputs == boardTicks /\ Wrote(board, board')
      hputs == hostTicks /\ Wrote(host, host')
      btook == boardTicks /\ B!Announcing /\ brx.pattern = hwire
      htook == hostTicks /\ H!Announcing /\ hrx.pattern = bwire
  IN  /\ bwire' = IF bputs THEN board.out ELSE IF htook THEN None ELSE bwire
      /\ hwire' = IF hputs THEN host.out ELSE IF btook THEN None ELSE hwire
      /\ bheard' = (bheard \/ htook)
      /\ calm' = IF ~Unheard \/ ~(boardTicks /\ hostTicks) THEN 0
                 ELSE IF B!TxDone /\ ~slipped /\ calm < Calm THEN calm + 1 ELSE calm

LinesIdle == btx.pc = 0 /\ htx.pc = 0

Both ==
  /\ BoardRuns /\ HostRuns /\ Follow(TRUE, TRUE)
  /\ slipped' = (slipped /\ ~LinesIdle)
  /\ UNCHANGED <<tied, fast>>

BoardAlone ==
  /\ fast = "board" /\ ~slipped
  /\ BoardRuns /\ Follow(TRUE, FALSE)
  /\ slipped' = TRUE
  /\ UNCHANGED <<hostUart, host, tied, fast>>

HostAlone ==
  /\ fast = "host" /\ ~slipped
  /\ HostRuns /\ Follow(FALSE, TRUE)
  /\ slipped' = TRUE
  /\ UNCHANGED <<boardUart, board, tied, fast>>

Next == Both \/ BoardAlone \/ HostAlone

\* The clocks never stop (an edge that changes something is always possible, so this
\* is the weak fairness of Next), and the host is started some day.
Fairness == []<><<TRUE>>_vars /\ <>(host.pc # "off")

Spec == Init /\ [][Next]_vars /\ Fairness

---------------------------------------------------------------------------
(* Properties *)

Held(rx) == IF rx.ready = 1 THEN rx.data ELSE None

ToHost  == INSTANCE SerialLine WITH
             Chars <- B!Char, wire <- bwire, held <- Held(hrx), heard <- bheard
ToBoard == INSTANCE SerialLine WITH
             Chars <- B!Char, wire <- hwire, held <- Held(brx), heard <- TRUE

(* From the board to the host: uart_core.v sampling each bit half a bit late,     *)
(* uart_putc and uart_getc together make the serial line of SerialLine.  A host   *)
(* that joins in the middle of a character may hear garbage before the first ENQ, *)
(* and nothing is lost, changed or overtaken after it.                            *)
ToHostSpec  == ToHost!Spec

(* From the host to the board: likewise while the board sends, and since the      *)
(* board's receiver is on before the host is, never any garbage.                  *)
ToBoardSpec == ToBoard!Spec

(* The host hears every character the board sends after the first it has heard.   *)
ToHostArrives == ToHost!Arrives

(* On one clock a receiver is never wrong about a character, wherever in the      *)
(* board's ENQs uart_rxen switched it on: the wait for a high line that lasts a   *)
(* bit (uart_core.v, rx_pc 0 and 1) is enough.                                    *)
OneClockClean == [][fast = "none" /\ H!Announcing => hrx.pattern = bwire]_vars

(* The board's loop and the host's server find each other, whenever the host is   *)
(* started, though the clocks slip for ever: it is enough that while the host     *)
(* hears no ENQ, Calm of them in a row are free of slips again and again.  Once   *)
(* it has heard one as it was sent nothing is asked of the clocks: answer,        *)
(* welcome and farewell get through with a slip in every character.               *)
Connects == []<>(Unheard => calm = Calm) => <>(board.pc = "done")

(* After uart_txwait everything the board sent is in the host's register, so the  *)
(* restart of the CPU, whose uart_init pulses the soft reset, cuts no character.  *)
NothingCut == board.pc = "done" => bwire = None

=============================================================================

------------------------------ MODULE UartCore ------------------------------
(***************************************************************************)
(* One UART, edge by edge: the software registers of iob_uart.v and the    *)
(* transmitter and the receiver of uart_core.v, each a little program with *)
(* a program counter.                                                      *)
(*                                                                         *)
(* An edge of the clock is Edge(bus, rxd, cts): what the CPU does to the   *)
(* registers at it, and the levels of the two input lines.  Each step of   *)
(* the two programs is an operator of its own.  UartLink joins two of      *)
(* these cores, each under its CPU.                                        *)
(***************************************************************************)
EXTENDS Integers

CONSTANTS
  Bits,           \* bits of a character: 8
  Div,            \* UART_DIV as the driver sets it: edges of the clock per bit
  Bytes           \* the characters in use

Bit   == 0 .. 1
Char  == [0 .. Bits - 1 -> Bit]
Null  == [b \in 0 .. Bits - 1 |-> 0]
Frame == [0 .. Bits + 1 -> Bit]         \* tx_pattern

VARIABLES
  sw,             \* the registers software writes
  tx,             \* the transmitter
  cts_int,        \* the two stages of the synchroniser of cts
  rx,             \* the receiver
  loaded          \* history: the character tx_pattern was loaded with last

vars == <<sw, tx, cts_int, rx, loaded>>

Registers == [SOFTRESET : Bit, DIV : {0, Div}, TXDATA : Char, TXEN : Bit, RXEN : Bit]

(* What the CPU does at an edge. *)

Quiet         == [op |-> "none"]
Set(reg, val) == [op |-> "set", reg |-> reg, val |-> val]
Get(reg)      == [op |-> "get", reg |-> reg]

Writes(bus) == sw' = IF bus.op = "set" THEN [sw EXCEPT ![bus.reg] = bus.val] ELSE sw

data_write_en(bus) == bus.op = "set" /\ bus.reg = "TXDATA"
data_read_en(bus)  == bus.op = "get" /\ bus.reg = "RXDATA"

Resetting == sw.SOFTRESET = 1 \/ sw'.SOFTRESET = 1

---------------------------------------------------------------------------
(* Transmitter *)

Idling     == [b \in 0 .. Bits + 1 |-> 1]
FrameOf(c) == [b \in 0 .. Bits + 1 |-> IF b = 0 THEN 0 ELSE IF b = Bits + 1 THEN 1 ELSE c[b - 1]]
Shifted(f) == [b \in 0 .. Bits + 1 |-> IF b <= Bits THEN f[b + 1] ELSE 0]

txd == tx.pattern[0]

TxStopped == [pc |-> 0, ready |-> 0, pattern |-> Idling, bitcnt |-> 0, cyclecnt |-> 0]

Sending == ~Resetting /\ sw.TXEN = 1 /\ cts_int[2] = 1

\* Reset, disabled, or the other side not clear to send: a frame on its way is cut.
TxOff == ~Sending /\ tx' = TxStopped /\ UNCHANGED loaded

\* mutation: tx_ready drops only when the pattern is loaded
TxWaitSlow(writing) ==
  /\ Sending /\ tx.pc = 0
  /\ tx' = [pc |-> IF writing THEN 1 ELSE 0, ready |-> 1,
            pattern |-> Idling, bitcnt |-> 0, cyclecnt |-> 1]
  /\ UNCHANGED loaded

TxWait(writing) ==
  /\ Sending /\ tx.pc = 0
  /\ tx' = [pc |-> IF writing THEN 1 ELSE 0, ready |-> IF writing THEN 0 ELSE 1,
            pattern |-> Idling, bitcnt |-> 0, cyclecnt |-> 1]
  /\ UNCHANGED loaded

TxLoad ==
  /\ Sending /\ tx.pc = 1
  /\ tx' = [tx EXCEPT !.pc = 2, !.pattern = FrameOf(sw.TXDATA)]
  /\ loaded' = sw.TXDATA

TxHold ==
  /\ Sending /\ tx.pc = 2 /\ tx.cyclecnt # sw.DIV
  /\ tx' = [tx EXCEPT !.cyclecnt = @ + 1]
  /\ UNCHANGED loaded

TxShiftUpTo(last) ==
  /\ Sending /\ tx.pc = 2 /\ tx.cyclecnt = sw.DIV /\ tx.bitcnt # last
  /\ tx' = [tx EXCEPT !.pattern = Shifted(@), !.bitcnt = @ + 1, !.cyclecnt = 1]
  /\ UNCHANGED loaded

TxShift == TxShiftUpTo(Bits + 1)

TxDone ==
  /\ Sending /\ tx.pc = 2 /\ tx.cyclecnt = sw.DIV /\ tx.bitcnt = Bits + 1
  /\ tx' = [tx EXCEPT !.pc = 0, !.cyclecnt = @ + 1]
  /\ UNCHANGED loaded

TxEdge(writing) == TxOff \/ TxWait(writing) \/ TxLoad \/ TxHold \/ TxShift \/ TxDone

---------------------------------------------------------------------------
(* Receiver *)

Receiving == ~Resetting /\ sw.RXEN = 1

\* rx_ready after the edge: a read clears it, whatever else the edge does to it.
ReadyUnless(reading, ready) == IF reading THEN 0 ELSE ready

RxOff ==
  /\ ~Receiving
  /\ rx' = [rx EXCEPT !.pc = 0, !.cyclecnt = 1, !.bitcnt = 0, !.ready = 0,
                      !.rts = IF Resetting THEN 0 ELSE @]

\* Wait for the line to be high...
RxSync(rxd) ==
  /\ Receiving /\ rx.pc = 0
  /\ rx' = [rx EXCEPT !.pc = rxd, !.cyclecnt = 1, !.bitcnt = 0, !.ready = 0, !.rts = 1]

\* ...and look again one bit later.
RxHigh(rxd, reading) ==
  /\ Receiving /\ rx.pc = 1
  /\ rx' = [rx EXCEPT !.pc = IF rx.cyclecnt # sw.DIV THEN 1 ELSE IF rxd = 1 THEN 2 ELSE 0,
                      !.cyclecnt = @ + 1, !.ready = ReadyUnless(reading, @)]

RxWaitStart(rxd, reading) ==
  /\ Receiving /\ rx.pc = 2
  /\ rx' = [rx EXCEPT !.pc = IF rxd = 1 THEN 2 ELSE 3,
                      !.cyclecnt = 1, !.ready = ReadyUnless(reading, @)]

RxStartFor(rxd, reading, wait) ==
  /\ Receiving /\ rx.pc = 3
  /\ rx' = IF rx.cyclecnt # wait \/ rxd = 1
             THEN [rx EXCEPT !.pc = IF rx.cyclecnt # wait THEN 3 ELSE 0,
                             !.cyclecnt = @ + 1, !.ready = ReadyUnless(reading, @)]
             ELSE [rx EXCEPT !.pc = 4, !.cyclecnt = 1, !.ready = ReadyUnless(reading, @)]

\* mutation: a whole bit, so that the bits are sampled where they end
RxStartWhole(rxd, reading) == RxStartFor(rxd, reading, sw.DIV)

\* The middle of the start bit.
RxStart(rxd, reading) == RxStartFor(rxd, reading, sw.DIV \div 2)

RxHold(reading) ==
  /\ Receiving /\ rx.pc = 4 /\ rx.cyclecnt # sw.DIV
  /\ rx' = [rx EXCEPT !.cyclecnt = @ + 1, !.ready = ReadyUnless(reading, @)]

RxSample(rxd, reading) ==
  /\ Receiving /\ rx.pc = 4 /\ rx.cyclecnt = sw.DIV /\ rx.bitcnt # Bits
  /\ rx' = [rx EXCEPT !.cyclecnt = 1, !.bitcnt = @ + 1, !.ready = ReadyUnless(reading, @),
                      !.pattern = [b \in 0 .. Bits - 1 |->
                                     IF b = Bits - 1 THEN rxd ELSE rx.pattern[b + 1]]]

\* The stop bit is not looked at.
Announcing == Receiving /\ rx.pc = 4 /\ rx.cyclecnt = sw.DIV /\ rx.bitcnt = Bits

RxAnnounce(reading) ==
  /\ Announcing
  /\ rx' = [rx EXCEPT !.pc = 2, !.cyclecnt = 1, !.bitcnt = 0, !.data = rx.pattern,
                      !.ready = ReadyUnless(reading, 1)]

RxEdge(rxd, reading) ==
  \/ RxOff \/ RxSync(rxd) \/ RxHigh(rxd, reading) \/ RxWaitStart(rxd, reading)
  \/ RxStart(rxd, reading) \/ RxHold(reading) \/ RxSample(rxd, reading)
  \/ RxAnnounce(reading)

---------------------------------------------------------------------------

Edge(bus, rxd, cts) ==
  /\ Writes(bus)
  /\ cts_int' = <<cts, cts_int[1]>>
  /\ TxEdge(data_write_en(bus))
  /\ RxEdge(rxd, data_read_en(bus))

\* After the system reset; cts_int, rx_pattern and rx_data have no reset value.
Init ==
  /\ sw = [SOFTRESET |-> 0, DIV |-> 0, TXDATA |-> Null, TXEN |-> 0, RXEN |-> 0]
  /\ tx = TxStopped
  /\ cts_int \in Bit \X Bit
  /\ rx \in [pc : {0}, cyclecnt : {1}, bitcnt : {0}, pattern : Bytes, data : Bytes,
             ready : {0}, rts : {0}]
  /\ loaded = Null

=============================================================================

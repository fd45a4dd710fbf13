------------------------------- MODULE Loader -------------------------------
(***************************************************************************)
(* Loading a program: the bootloader (boot.c with iob-uart.c), the program *)
(* that runs after it, and the host, which is either the PC's console      *)
(* (console.c, rs232comm.c) or the simulation's testbench                  *)
(* (system_core_tb.v, cpu_tasks.v).                                        *)
(*                                                                         *)
(* The lines are what UartLink shows of them: characters arrive in order   *)
(* and none is lost on the way.  The board has a register for one received *)
(* character and no more.                                                  *)
(*                                                                         *)
(* A text, whatever its length, is one character that means nothing, a     *)
(* file name is such a character and the NUL after it.                     *)
(***************************************************************************)
EXTENDS Naturals, Sequences, SequencesExt

CONSTANTS
  Base,           \* values of a character
  Width,          \* characters of an integer
  File,           \* the firmware the host sends
  Buffer,         \* characters on the way in one direction
  Garbage,        \* values of a byte that nothing was written to
  None            \* no character

Char == 0 .. Base - 1
NUL  == 0
EOT  == 4
ENQ  == 5
ACK  == 6
FTX  == 7
FRX  == 8
Text == 9
Name == <<Text, NUL>>

ASSUME LoaderAssumption ==
  /\ Base \in Nat /\ Text < Base /\ Width \in Nat \ {0} /\ Buffer \in Nat /\ Buffer >= Width
  /\ File \in Seq(Char) /\ Garbage \subseteq Char /\ None \notin Char

\* i >> 8 * k, for every k up to Width.
Shifted(i) == LET s[k \in 0 .. Width] == IF k = 0 THEN i ELSE s[k - 1] \div Base IN s

\* An integer as characters, the lowest first.
BytesOf(i)   == [k \in 1 .. Width |-> Shifted(i)[k - 1] % Base]
IntOf(bytes) ==
  LET n == Len(bytes)
      \* of the last k bytes
      v[k \in 0 .. n] == IF k = 0 THEN 0 ELSE bytes[n - k + 1] + Base * v[k - 1]
  IN  v[n]

ASSUME FileAssumption == Shifted(Len(File))[Width] = 0    \* its length fits an integer

VARIABLES
  setup,          \* the kind of host, whether it loads, whether the program says goodbye
  board, host,
  toHost,         \* on the way to the host
  line, held      \* on the way to the board, and in its register

vars == <<setup, board, host, toHost, line, held>>

Init ==
  /\ setup \in [host : {"console", "testbench"}, loads : BOOLEAN, finishes : BOOLEAN]
  /\ board = [prog |-> "bootloader", pc |-> "uart_init", out |-> <<>>, cmd |-> NUL,
              size |-> <<>>, mem |-> <<>>]
  /\ host = [pc |-> "command", out |-> <<>>, gotENQ |-> FALSE, size |-> <<>>, saved |-> <<>>,
             short |-> FALSE]
  /\ toHost = <<>> /\ line = <<>> /\ held = None

---------------------------------------------------------------------------
(* The board.  out holds what it has still to put before it goes on.       *)

TxReady   == Len(toHost) < Buffer

\* Nobody is there to receive after the host has gone.
ToHost(c) == toHost' = IF host.pc = "exited" THEN toHost ELSE Append(toHost, c)

BoardPutc ==
  /\ board.out # <<>> /\ TxReady
  /\ ToHost(Head(board.out))
  /\ board' = [board EXCEPT !.out = Tail(@)]
  /\ UNCHANGED <<line, held>>

BoardAt(pc) == board.pc = pc /\ board.out = <<>>

BoardGoes(pc, out) == board' = [board EXCEPT !.pc = pc, !.out = out]

\* The soft reset empties the receiver and forgets what it is in the middle of.
UartInit ==
  /\ BoardAt("uart_init")
  /\ held' = None /\ line' \in {line} \cup (IF line = <<>> THEN {} ELSE {Tail(line)})
  /\ IF board.prog = "bootloader"
       THEN BoardGoes("connect", <<>>)
       ELSE BoardGoes("restart", IF setup.finishes THEN <<Text, EOT>> ELSE <<Text>>)
  /\ UNCHANGED toHost

ConnectTransmit ==
  /\ BoardAt("connect")
  /\ IF TxReady THEN ToHost(ENQ) ELSE toHost' = toHost
  /\ BoardGoes("connected?", <<>>)
  /\ UNCHANGED <<line, held>>

ConnectReceiveOr(again) ==
  /\ BoardAt("connected?")
  /\ IF held = None THEN BoardGoes(again, <<>>) ELSE BoardGoes("answer", <<Text>>)
  /\ UNCHANGED <<toHost, line, held>>

ConnectReceiveAnew == ConnectReceiveOr("uart_init")    \* mutation: each ENQ from the start
ConnectReceive     == ConnectReceiveOr("connect")

Getc == held # None /\ held' = None /\ UNCHANGED <<toHost, line>>

\* uart_recvfile begins with its request, if the answer is one to load.
Answer ==
  /\ BoardAt("answer") /\ Getc
  /\ board' = IF held = FRX
                THEN [board EXCEPT !.cmd = held, !.pc = "size", !.size = <<>>,
                                   !.out = <<Text, FRX>> \o Name]
                ELSE [board EXCEPT !.cmd = held, !.pc = "restart", !.out = <<Text>>]

ReceiveSizeOf(bytes) ==
  /\ BoardAt("size") /\ Getc
  /\ LET got == Append(board.size, held)
     IN  board' = [board EXCEPT !.size = got, !.mem = <<>>,
                                !.pc = IF Len(got) = bytes THEN "data" ELSE "size"]

\* mutation: the size ends a byte early
ReceiveSizeShort == ReceiveSizeOf(Width - 1)
ReceiveSize      == ReceiveSizeOf(Width)

ReceiveData ==
  /\ BoardAt("data") /\ Len(board.mem) < IntOf(board.size) /\ Getc
  /\ board' = [board EXCEPT !.mem = Append(@, held)]

\* uart_sendfile, unless the file is empty.
SendFileOf(size) ==
  /\ BoardAt("data") /\ Len(board.mem) >= IntOf(board.size)
  /\ BoardGoes("restart",
       IF IntOf(board.size) = 0 THEN <<Text>>
       ELSE <<Text, FTX>> \o Name \o size \o board.mem \o <<Text>>)
  /\ UNCHANGED <<toHost, line, held>>

SendFileSizeReversed == SendFileOf(Reverse(BytesOf(IntOf(board.size))))  \* mutation
SendFile             == SendFileOf(BytesOf(IntOf(board.size)))

\* The bootloader restarts into the program, the program into the bootloader.
Restart ==
  /\ BoardAt("restart")
  /\ board' = [board EXCEPT !.pc = "uart_init",
                            !.prog = IF @ = "bootloader" THEN "firmware" ELSE "bootloader"]
  /\ UNCHANGED <<toHost, line, held>>

Board ==
  /\ \/ BoardPutc \/ UartInit \/ ConnectTransmit \/ ConnectReceive \/ Answer
     \/ ReceiveSize \/ ReceiveData \/ SendFile \/ Restart
  /\ UNCHANGED <<setup, host>>

\* The next character reaches the register.  A board that is waiting for one has
\* taken the one before; one that is busy loses it.
Listening == board.pc \in {"answer", "size", "data"} /\ board.out = <<>>

Arrive ==
  /\ line # <<>> /\ (Listening => held = None)
  /\ held' = Head(line) /\ line' = Tail(line)
  /\ UNCHANGED <<setup, board, host, toHost>>

---------------------------------------------------------------------------
(* The host *)

HostPutc ==
  /\ host.out # <<>> /\ Len(line) < Buffer
  /\ line' = Append(line, Head(host.out))
  /\ host' = [host EXCEPT !.out = Tail(@)]
  /\ UNCHANGED toHost

HostAt(pc) == host.pc = pc /\ host.out = <<>>

Getchar(c) == toHost # <<>> /\ c = Head(toHost) /\ toHost' = Tail(toHost) /\ UNCHANGED line

Reply == IF setup.loads THEN <<FRX>> ELSE <<ACK>>

EveryENQ(c) == c = ENQ                     \* mutation: gotENQ is not looked at
FirstENQ(c) == c = ENQ /\ ~host.gotENQ

Command ==
  /\ HostAt("command")
  /\ \E c \in Char :
       /\ Getchar(c)
       /\ host' = CASE FirstENQ(c) -> [host EXCEPT !.gotENQ = TRUE, !.out = Reply]
                    [] c = EOT -> [host EXCEPT !.pc = "exited"]
                    [] c = FRX -> [host EXCEPT !.pc = "send"]
                    [] c = FTX -> [host EXCEPT !.pc = "recv"]
                    [] OTHER   -> host

RecvNameUpTo(end) ==
  /\ HostAt("send") \/ HostAt("recv")
  /\ \E c \in Char :
       /\ Getchar(c)
       /\ host' = IF c # end THEN host
                  ELSE IF host.pc = "send" THEN [host EXCEPT !.pc = "putint"]
                  ELSE [host EXCEPT !.pc = "getint", !.size = <<>>]

RecvNameOpen == RecvNameUpTo(Text)     \* mutation: the NUL is left to be read
RecvName     == RecvNameUpTo(NUL)      \* the file's name, to its NUL

\* The console writes an integer at once and is content if some of it was taken; the
\* testbench writes it character by character.
Putint ==
  /\ HostAt("putint") /\ Len(line) < Buffer
  /\ IF setup.host = "console"
       THEN /\ line' = line \o SubSeq(BytesOf(Len(File)), 1, Min({Width, Buffer - Len(line)}))
            /\ host' = [host EXCEPT !.pc = "command", !.out = File]
       ELSE /\ line' = line
            /\ host' = [host EXCEPT !.pc = "command", !.out = BytesOf(Len(File)) \o File]
  /\ UNCHANGED toHost

\* The testbench reads an integer character by character.
GetintWhole ==
  /\ HostAt("getint") /\ setup.host = "testbench"
  /\ \E c \in Char :
       /\ Getchar(c)
       /\ LET got == Append(host.size, c)
          IN  host' = [host EXCEPT !.size = got, !.saved = <<>>,
                                   !.pc = IF Len(got) = Width THEN "data" ELSE "getint"]

\* The console takes what one read gives it, of which there may be less than asked for;
\* the rest of the integer was never written.
GetintAtOnce ==
  /\ HostAt("getint") /\ setup.host = "console" /\ toHost # <<>>
  /\ \E k \in 1 .. Width : \E rest \in [1 .. Width - k -> Garbage] :
       /\ k <= Len(toHost)
       /\ toHost' = SubSeq(toHost, k + 1, Len(toHost))
       /\ host' = [host EXCEPT !.size = SubSeq(toHost, 1, k) \o rest, !.saved = <<>>,
                               !.pc = "data", !.short = @ \/ k < Width]
  /\ UNCHANGED line

SaveData ==
  /\ HostAt("data") /\ Len(host.saved) < IntOf(host.size)
  /\ \E c \in Char : Getchar(c) /\ host' = [host EXCEPT !.saved = Append(@, c)]

CloseFile ==
  /\ HostAt("data") /\ Len(host.saved) >= IntOf(host.size)
  /\ host' = [host EXCEPT !.pc = "command"]
  /\ UNCHANGED <<toHost, line>>

Host ==
  /\ \/ HostPutc \/ Command \/ RecvName \/ Putint \/ GetintWhole \/ GetintAtOnce
     \/ SaveData \/ CloseFile
  /\ UNCHANGED <<setup, board, held>>

---------------------------------------------------------------------------

Next == Board \/ Arrive \/ Host

\* Neither program stops by itself, nor the line.
Spec == Init /\ [][Next]_vars /\ WF_vars(Board) /\ WF_vars(Arrive) /\ WF_vars(Host)

---------------------------------------------------------------------------
(* Properties *)

\* The program that runs after a load is the file of the host: uart_recvfile has
\* written all of it, in order, and nothing else.
FirmwareLoaded ==
  ~host.short /\ board.prog = "firmware" /\ board.cmd = FRX => board.mem = File

\* The copy the bootloader sends back for debugging is the file, when the host has it
\* all and no read of an integer came short.
EchoWhole ==
  ~host.short /\ host.pc = "data" /\ Len(host.saved) >= IntOf(host.size) => host.saved = File

\* A read of the console that comes short (cnsl_getint) can spoil the copy and not the
\* program: by then uart_recvfile has all of the file.
ShortReadSparesProgram ==
  [][~host.short /\ host'.short => board.cmd = FRX /\ board.mem = File]_vars

\* Host and board keep in step: no character, be it the same again, reaches the board's
\* only register (uart_core.v, rx_data) before uart_getc has taken the one in it.
NothingOverwritten == [][Arrive /\ ~host.short => held = None]_vars

\* The program is reached, whatever else the host and the board are doing: they never
\* both wait for a character.
Starts == <>(board.prog = "firmware")

\* A program that says goodbye is heard: the host gets through the transfers back to
\* where it listens for EOT.
Exits == setup.finishes /\ []~host.short => <>(host.pc = "exited")

=============================================================================

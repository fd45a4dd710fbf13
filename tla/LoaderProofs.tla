---------------------------- MODULE LoaderProofs ----------------------------
(***************************************************************************)
(* The transfers between the board and its host, for every file, width of  *)
(* an integer and room on the line.                                        *)
(***************************************************************************)
EXTENDS Loader, SequenceLemmas

LEMMA Constants ==
  /\ Base \in Nat /\ Base > Text /\ Width \in Nat /\ Width > 0
  /\ Buffer \in Nat /\ Buffer >= Width
  /\ File \in Seq(Char) /\ Garbage \subseteq Char /\ None \notin Char
  /\ {NUL, EOT, ENQ, ACK, FTX, FRX, Text} \subseteq Char
BY LoaderAssumption DEF Char, NUL, EOT, ENQ, ACK, FTX, FRX, Text

---------------------------------------------------------------------------
(* An integer and its characters *)

LEMMA Division ==
  ASSUME NEW x \in Nat
  PROVE  /\ x \div Base \in Nat /\ x % Base \in 0 .. Base - 1
         /\ x = (x % Base) + Base * (x \div Base)
<1>1. Base \in Nat /\ Base > 0
  BY Constants DEF Text
<1> QED
  BY <1>1

\* f is i shifted by 0, 1, ... n characters.
Shifts(f, i, n) == f = [k \in 0 .. n |-> IF k = 0 THEN i ELSE f[k - 1] \div Base]

LEMMA CanShift ==
  ASSUME NEW i \in Nat
  PROVE  \A n \in Nat : \E f : Shifts(f, i, n)
<1> DEFINE Bad == {n \in Nat : ~ \E f : Shifts(f, i, n)}
<1> SUFFICES ASSUME Bad # {} PROVE FALSE
  OBVIOUS
<1>1. PICK n \in Bad : \A m \in Bad : ~(m < n)
  BY FirstNumber, Zenon
<1>2. CASE n = 0
  <2>1. Shifts([k \in 0 .. 0 |-> i], i, 0)
    BY DEF Shifts
  <2> QED
    BY <1>2, <2>1
<1>3. CASE n # 0
  <2>1. n \in Nat /\ n - 1 \in Nat /\ n - 1 \notin Bad
    BY <1>1, <1>3
  <2>2. PICK g : Shifts(g, i, n - 1)
    BY <2>1
  <2>3. \A k \in 0 .. n - 1 : g[k] = IF k = 0 THEN i ELSE g[k - 1] \div Base
    BY <2>2 DEF Shifts
  <2> DEFINE f == [k \in 0 .. n |-> IF k = n THEN g[n - 1] \div Base ELSE g[k]]
  <2>4. ASSUME NEW k \in 0 .. n
        PROVE  f[k] = IF k = 0 THEN i ELSE f[k - 1] \div Base
    <3>1. CASE k = n
      <4>1. f[n - 1] = g[n - 1] /\ f[n] = g[n - 1] \div Base
        BY <2>1
      <4> QED
        BY <1>3, <3>1, <4>1
    <3>2. CASE k # n
      <4>1. k \in 0 .. n - 1 /\ f[k] = g[k] /\ (k # 0 => f[k - 1] = g[k - 1])
        BY <2>1, <3>2
      <4> QED
        BY <2>3, <4>1
    <3> QED
      BY <3>1, <3>2
  <2>5. f = [k \in 0 .. n |-> f[k]]
    OBVIOUS
  <2> HIDE DEF f
  <2>6. [k \in 0 .. n |-> f[k]] = [k \in 0 .. n |-> IF k = 0 THEN i ELSE f[k - 1] \div Base]
    BY <2>4
  <2>7. Shifts(f, i, n)
    BY <2>5, <2>6 DEF Shifts
  <2> QED
    BY <2>7
<1> QED
  BY <1>2, <1>3

LEMMA ShiftedIs ==
  ASSUME NEW i \in Nat
  PROVE  /\ Shifted(i)[0] = i
         /\ \A k \in 1 .. Width : Shifted(i)[k] = Shifted(i)[k - 1] \div Base
         /\ \A k \in 0 .. Width : Shifted(i)[k] \in Nat
<1> DEFINE s == Shifted(i)
<1>0. Width \in Nat
  BY Constants
<1>1. Shifted(i) = CHOOSE f : Shifts(f, i, Width)
  BY DEF Shifted, Shifts
<1>2. Shifts(s, i, Width)
  BY <1>0, <1>1, CanShift
<1> HIDE DEF s
<1>3. \A k \in 0 .. Width : s[k] = IF k = 0 THEN i ELSE s[k - 1] \div Base
  BY <1>2 DEF Shifts
<1>4. s[0] = i /\ \A k \in 1 .. Width : s[k] = s[k - 1] \div Base
  BY <1>0, <1>3
<1>5. \A k \in 0 .. Width : s[k] \in Nat
  <2> DEFINE Bad == {k \in 0 .. Width : s[k] \notin Nat}
  <2> SUFFICES ASSUME Bad # {} PROVE FALSE
    OBVIOUS
  <2>1. Bad \subseteq Nat
    BY <1>0
  <2>2. PICK k \in Bad : \A m \in Bad : ~(m < k)
    BY <2>1, FirstNumber, Zenon
  <2>3. k \in 1 .. Width /\ k - 1 \in 0 .. Width /\ k - 1 \notin Bad
    BY <1>0, <1>4, <2>2
  <2>4. s[k - 1] \in Nat
    BY <2>3
  <2> QED
    BY <1>4, <2>2, <2>3, <2>4, Division
<1> QED
  BY <1>4, <1>5 DEF s

LEMMA BytesType ==
  ASSUME NEW i \in Nat
  PROVE  /\ BytesOf(i) \in Seq(Char) /\ Len(BytesOf(i)) = Width
         /\ \A k \in 1 .. Width : BytesOf(i)[k] = Shifted(i)[k - 1] % Base
<1>0. Width \in Nat
  BY Constants
<1>1. ASSUME NEW k \in 1 .. Width PROVE Shifted(i)[k - 1] % Base \in Char
  <2>1. k - 1 \in 0 .. Width
    BY <1>0
  <2>2. Shifted(i)[k - 1] \in Nat
    BY <2>1, ShiftedIs
  <2> QED
    BY <2>2, Division DEF Char
<1>2. BytesOf(i) \in [1 .. Width -> Char]
  BY <1>1 DEF BytesOf
<1> QED
  BY <1>0, <1>2 DEF BytesOf

\* v is the value of the last 0, 1, ... characters of bytes.
Values(v, bytes) ==
  v = [k \in 0 .. Len(bytes) |->
         IF k = 0 THEN 0 ELSE bytes[Len(bytes) - k + 1] + Base * v[k - 1]]

\* An integer that fits is what its characters say.
LEMMA ReadsWhatWasWritten ==
  ASSUME NEW i \in Nat, Shifted(i)[Width] = 0
  PROVE  IntOf(BytesOf(i)) = i
<1> DEFINE bytes == BytesOf(i)
           w == [k \in 0 .. Width |-> Shifted(i)[Width - k]]
           v == CHOOSE f : Values(f, bytes)
<1>0. /\ Width \in Nat /\ Base \in Nat /\ Len(bytes) = Width
      /\ \A k \in 1 .. Width : bytes[k] = Shifted(i)[k - 1] % Base
  BY Constants, BytesType
<1>1. IntOf(bytes) = v[Width]
  BY <1>0 DEF IntOf, Values
<1> HIDE DEF bytes
<1>2. ASSUME NEW k \in 0 .. Width
      PROVE  w[k] = IF k = 0 THEN 0 ELSE bytes[Width - k + 1] + Base * w[k - 1]
  <2>1. CASE k = 0
    BY <2>1, <1>0
  <2>2. CASE k # 0
    <3>1. Width - k + 1 \in 1 .. Width /\ Width - k \in 0 .. Width /\ k - 1 \in 0 .. Width
      BY <1>0, <2>2
    <3>2. /\ Shifted(i)[Width - k] \in Nat
          /\ Shifted(i)[Width - k + 1] = Shifted(i)[Width - k] \div Base
      BY <3>1, <1>0, ShiftedIs
    <3>3. bytes[Width - k + 1] = Shifted(i)[Width - k] % Base
      BY <1>0, <3>1
    <3>4. w[k] = Shifted(i)[Width - k] /\ w[k - 1] = Shifted(i)[Width - k + 1]
      BY <1>0, <3>1
    <3> HIDE DEF w
    <3>5. \A x \in Nat : x = (x % Base) + Base * (x \div Base)
      BY Division
    <3>6. w[k] \in Nat /\ bytes[Width - k + 1] = w[k] % Base /\ w[k - 1] = w[k] \div Base
      BY <3>2, <3>3, <3>4
    <3> QED
      BY <2>2, <3>5, <3>6
  <2> QED
    BY <2>1, <2>2
<1>3. w = [k \in 0 .. Width |-> w[k]]
  OBVIOUS
<1>4. w[Width] = i
  BY <1>0, ShiftedIs
<1> HIDE DEF w
<1>5. Values(w, bytes)
  <2>1. [k \in 0 .. Width |-> w[k]] =
        [k \in 0 .. Width |-> IF k = 0 THEN 0 ELSE bytes[Width - k + 1] + Base * w[k - 1]]
    BY <1>2
  <2> QED
    BY <1>0, <1>3, <2>1 DEF Values
<1>6. Values(v, bytes)
  BY <1>5
<1> HIDE DEF v
<1>7. \A k \in 0 .. Width : v[k] = IF k = 0 THEN 0 ELSE bytes[Width - k + 1] + Base * v[k - 1]
  BY <1>0, <1>6 DEF Values
<1>8. \A k \in 0 .. Width : v[k] = w[k]
  <2> DEFINE Bad == {k \in 0 .. Width : v[k] # w[k]}
  <2> SUFFICES ASSUME Bad # {} PROVE FALSE
    OBVIOUS
  <2>1. Bad \subseteq Nat
    BY <1>0
  <2>2. PICK k \in Bad : \A m \in Bad : ~(m < k)
    BY <2>1, FirstNumber, Zenon
  <2>3. k # 0
    BY <1>0, <1>2, <1>7, <2>2
  <2>4. k - 1 \in 0 .. Width /\ k - 1 \notin Bad
    BY <1>0, <2>2, <2>3
  <2>5. v[k - 1] = w[k - 1]
    BY <2>4
  <2> QED
    BY <1>2, <1>7, <2>2, <2>3, <2>5
<1> QED
  BY <1>0, <1>1, <1>4, <1>8 DEF bytes

---------------------------------------------------------------------------
(* The inductive invariant *)

Types ==
  /\ setup \in [host : {"console", "testbench"}, loads : BOOLEAN, finishes : BOOLEAN]
  /\ board \in [prog : {"bootloader", "firmware"},
                pc : {"uart_init", "connect", "connected?", "answer", "size", "data", "restart"},
                out : Seq(Char), cmd : Char, size : Seq(Char), mem : Seq(Char)]
  /\ host \in [pc : {"command", "send", "putint", "recv", "getint", "data", "exited"},
               out : Seq(Char), gotENQ : BOOLEAN, size : Seq(Char), saved : Seq(Char),
               short : BOOLEAN]
  /\ toHost \in Seq(Char) /\ line \in Seq(Char) /\ held \in Char \union {None}

\* What one has still to hear of the other, put or not.
FromBoard == toHost \o board.out
Held      == IF held = None THEN <<>> ELSE <<held>>
FromHost  == Held \o (line \o host.out)

Quiet == {Text, ENQ}            \* characters that mean nothing to a host that has replied
Loud  == {Text, ENQ, EOT}

Bytes == BytesOf(Len(File))
Copy  == Bytes \o File

\* No load: the board hears ACK, once.
Declines ==
  /\ host.pc \in {"command", "exited"} /\ board.pc \notin {"size", "data"} /\ board.cmd # FRX
  /\ FromBoard \in Seq(Loud)
  /\ FromHost \in Seq({ACK}) /\ Len(FromHost) <= IF host.gotENQ THEN 1 ELSE 0

\* Before the board has its answer.
Connecting ==
  /\ board.cmd = NUL /\ board.prog = "bootloader"
  /\ board.pc \in {"uart_init", "connect", "connected?", "answer"}
  /\ host.pc = "command" /\ FromBoard \in Seq(Quiet)
  /\ FromHost = IF host.gotENQ THEN <<FRX>> ELSE <<>>
  /\ board.pc = "uart_init" => FromBoard = <<>> /\ ~host.gotENQ

\* The board has asked for the file, and the host has sent nothing of it.
Requested == host.pc = "command" /\ \E q \in Seq(Quiet) : FromBoard = q \o <<FRX, Text, NUL>>
Named     == host.pc = "send" /\ FromBoard \in {<<Text, NUL>>, <<NUL>>}
Opened    == host.pc = "putint" /\ FromBoard = <<>>

Asking ==
  /\ board.pc = "size" /\ board.size = <<>> /\ FromHost = <<>>
  /\ Requested \/ Named \/ Opened

\* What the board has and what is on the way make up the file, and the board listens.
Receiving ==
  /\ host.pc = "command" /\ FromBoard = <<>>
  /\ \/ board.pc = "size" /\ Len(board.size) < Width /\ board.size \o FromHost = Copy
     \/ board.pc = "data" /\ board.size = Bytes /\ board.mem \o FromHost = File

\* The board has the file, and the copy it makes is on the way or has been saved.  Then
\* it says what does not matter (t).
Announced(t) ==
  /\ host.pc = "command" /\ File # <<>>
  /\ \E q \in Seq(Quiet) : FromBoard = q \o (<<FTX, Text, NUL>> \o (Copy \o t))
Called(t)  == host.pc = "recv" /\ FromBoard \in {<<Text, NUL>> \o (Copy \o t), <<NUL>> \o (Copy \o t)}
Sized(t)   == /\ host.pc = "getint" /\ Len(host.size) < Width /\ host.size \o FromBoard = Copy \o t
              /\ setup.host = "console" => host.size = <<>>
Saving(t)  == /\ host.pc = "data" /\ host.size = Bytes /\ Len(host.saved) <= Len(File)
              /\ host.saved \o FromBoard = File \o t
Over(t)    == host.pc \in {"command", "exited"} /\ FromBoard = t

Echoing ==
  \E t \in Seq(Loud) : Announced(t) \/ Called(t) \/ Sized(t) \/ Saving(t) \/ Over(t)

Loaded ==
  /\ FromHost = <<>> /\ board.mem = File
  /\ board.pc \in {"restart", "uart_init", "connect", "connected?"}

Loads ==
  \/ Connecting
  \/ /\ board.cmd = FRX /\ host.gotENQ
     /\ \/ board.prog = "bootloader" /\ (Asking \/ Receiving)
        \/ Loaded /\ Echoing

IInv == ~host.short => Types /\ IF setup.loads THEN Loads ELSE Declines

LEMMA Initially == Init => IInv
<1> SUFFICES ASSUME Init PROVE IInv
  OBVIOUS
<1>1. Types
  BY Constants DEF Init, Types
<1>2. FromBoard = <<>> /\ FromHost = <<>>
  BY DEF Init, FromBoard, FromHost, Held
<1>3. Connecting /\ Declines
  BY <1>2, EmptySeq DEF Init, Connecting, Declines, NUL, FRX
<1> QED
  BY <1>1, <1>3 DEF IInv, Loads

LEMMA FileBytes ==
  /\ Bytes \in Seq(Char) /\ Len(Bytes) = Width /\ IntOf(Bytes) = Len(File)
  /\ BytesOf(IntOf(Bytes)) = Bytes /\ Copy \in Seq(Char)
<1>1. Len(File) \in Nat /\ Shifted(Len(File))[Width] = 0 /\ File \in Seq(Char)
  BY Constants, FileAssumption, LenProperties
<1>2. Bytes \in Seq(Char) /\ Len(Bytes) = Width /\ IntOf(Bytes) = Len(File)
  BY <1>1, BytesType, ReadsWhatWasWritten DEF Bytes
<1> QED
  BY <1>1, <1>2, ConcatProperties DEF Bytes, Copy

LEMMA OnTheWay ==
  ASSUME Types
  PROVE  /\ FromBoard \in Seq(Char) /\ FromHost \in Seq(Char) /\ Held \in Seq(Char)
         /\ line \o host.out \in Seq(Char)
         /\ (FromBoard = <<>> <=> toHost = <<>> /\ board.out = <<>>)
         /\ (FromHost = <<>> <=> held = None /\ line = <<>> /\ host.out = <<>>)
<1>1. /\ toHost \in Seq(Char) /\ board.out \in Seq(Char) /\ line \in Seq(Char)
      /\ host.out \in Seq(Char) /\ Held \in Seq(Char) /\ (Held = <<>> <=> held = None)
  BY DEF Types, Held
<1>2. line \o host.out \in Seq(Char)
  BY <1>1, ConcatProperties
<1>3. line \o host.out = <<>> <=> line = <<>> /\ host.out = <<>>
  BY <1>1, ConcatEqualIffEmpty
<1> QED
  BY <1>1, <1>2, <1>3, ConcatProperties, ConcatEqualIffEmpty DEF FromBoard, FromHost

LEMMA Kinds ==
  /\ Quiet \subseteq Loud /\ Loud \subseteq Char /\ Seq(Quiet) \subseteq Seq(Loud)
  /\ Seq(Loud) \subseteq Seq(Char) /\ Seq({ACK}) \subseteq Seq(Char)
  /\ Name \in Seq(Char) /\ Text \in Quiet /\ ENQ \in Quiet /\ EOT \in Loud
  /\ <<FTX, Text, NUL>> \in Seq(Char) /\ <<FRX, Text, NUL>> \in Seq(Char)
<1>1. Quiet \subseteq Loud /\ Loud \subseteq Char /\ {ACK} \subseteq Char
  BY Constants DEF Quiet, Loud
<1>2. /\ Seq(Quiet) \subseteq Seq(Loud) /\ Seq(Loud) \subseteq Seq(Char)
      /\ Seq({ACK}) \subseteq Seq(Char)
  BY <1>1, SeqMonotonic
<1> QED
  BY <1>1, <1>2, Constants DEF Name, Quiet, Loud

---------------------------------------------------------------------------
(* What a step does to what is on the way *)

\* The board has something to say.
LEMMA BoardSays ==
  ASSUME Types, board.out = <<>>, toHost' = toHost, NEW x \in Seq(Char), board'.out = x
  PROVE  FromBoard' = FromBoard \o x /\ FromBoard = toHost
<1>1. toHost \in Seq(Char)
  BY DEF Types
<1>2. toHost \o <<>> = toHost
  BY <1>1, ConcatEmptySeq
<1> QED
  BY <1>2 DEF FromBoard

LEMMA BoardPuts ==
  ASSUME Types, BoardPutc
  PROVE  /\ toHost' \in Seq(Char) /\ board' = [board EXCEPT !.out = Tail(@)]
         /\ Tail(board.out) \in Seq(Char)
         /\ host.pc # "exited" => FromBoard' = FromBoard
         /\ host.pc = "exited" => toHost' = toHost
<1>1. toHost \in Seq(Char) /\ board.out \in Seq(Char) /\ board.out # <<>>
  BY DEF Types, BoardPutc
<1>2. /\ Append(toHost, Head(board.out)) \in Seq(Char) /\ Tail(board.out) \in Seq(Char)
      /\ Append(toHost, Head(board.out)) \o Tail(board.out) = FromBoard
  BY <1>1, PutMoves DEF FromBoard
<1>3. board' = [board EXCEPT !.out = Tail(@)] /\ board'.out = Tail(board.out)
  BY DEF BoardPutc, Types
<1>4. toHost' = IF host.pc = "exited" THEN toHost ELSE Append(toHost, Head(board.out))
  BY DEF BoardPutc, ToHost
<1> QED
  BY <1>1, <1>2, <1>3, <1>4 DEF FromBoard

\* The host takes a character.
LEMMA HostHears ==
  ASSUME Types, NEW c, Getchar(c), board' = board
  PROVE  /\ c \in Char /\ toHost' \in Seq(Char) /\ line' = line
         /\ FromBoard # <<>> /\ c = Head(FromBoard) /\ FromBoard' = Tail(FromBoard)
<1>1. toHost \in Seq(Char) /\ board.out \in Seq(Char) /\ toHost # <<>>
  BY DEF Types, Getchar
<1>2. c = Head(toHost) /\ toHost' = Tail(toHost) /\ line' = line
  BY DEF Getchar
<1>3. Head(toHost) \in Char /\ Tail(toHost) \in Seq(Char)
  BY <1>1, HeadTailProperties
<1> QED
  BY <1>1, <1>2, <1>3, FirstMoves DEF FromBoard

\* The board takes the character in its register.
LEMMA BoardHears ==
  ASSUME Types, Getc, host' = host
  PROVE  /\ held \in Char /\ held' = None /\ line' = line /\ toHost' = toHost
         /\ FromHost = <<held>> \o FromHost' /\ FromHost # <<>>
         /\ Head(FromHost) = held /\ Tail(FromHost) = FromHost'
         /\ FromHost' \in Seq(Char)
<1>1. held \in Char /\ held # None /\ held' = None /\ line' = line /\ toHost' = toHost
  BY DEF Types, Getc
<1>2. line \o host.out \in Seq(Char) /\ <<held>> \in Seq(Char)
  BY <1>1, OnTheWay
<1>3. FromHost = <<held>> \o (line \o host.out)
  BY <1>1 DEF FromHost, Held
<1>4. FromHost' = <<>> \o (line \o host.out)
  BY <1>1 DEF FromHost, Held
<1>5. FromHost' = line \o host.out
  BY <1>2, <1>4, ConcatEmptySeq
<1>6. /\ <<held>> # <<>> /\ Head(<<held>>) = held /\ Tail(<<held>>) = <<>>
      /\ <<>> \o (line \o host.out) = line \o host.out
  BY <1>2, ConcatEmptySeq
<1> QED
  BY <1>1, <1>2, <1>3, <1>5, <1>6, FirstMoves, SMTT(30)

\* The host has something to say.
LEMMA HostSays ==
  ASSUME Types, host.out = <<>>, line' = line, held' = held, NEW x \in Seq(Char), host'.out = x
  PROVE  FromHost' = FromHost \o x
<1>1. line \in Seq(Char) /\ Held \in Seq(Char) /\ line \o x \in Seq(Char) /\ line \o <<>> = line
  BY OnTheWay, ConcatProperties, ConcatEmptySeq DEF Types
<1>2. FromHost = Held \o line /\ FromHost' = Held \o (line \o x)
  BY <1>1 DEF FromHost, Held
<1> QED
  BY <1>1, <1>2, ConcatAssociative, SMTT(30)

LEMMA HostPuts ==
  ASSUME Types, HostPutc, held' = held
  PROVE  /\ line' \in Seq(Char) /\ host' = [host EXCEPT !.out = Tail(@)]
         /\ Tail(host.out) \in Seq(Char) /\ FromHost' = FromHost
<1>1. line \in Seq(Char) /\ host.out \in Seq(Char) /\ host.out # <<>>
  BY DEF Types, HostPutc
<1>2. /\ Append(line, Head(host.out)) \in Seq(Char) /\ Tail(host.out) \in Seq(Char)
      /\ Append(line, Head(host.out)) \o Tail(host.out) = line \o host.out
  BY <1>1, PutMoves
<1>3. /\ line' = Append(line, Head(host.out))
      /\ host' = [host EXCEPT !.out = Tail(@)] /\ host'.out = Tail(host.out)
  BY DEF HostPutc, Types
<1> QED
  BY <1>2, <1>3 DEF FromHost, Held

\* A character reaches the register: nothing is lost unless there is one in it.
LEMMA Arrives ==
  ASSUME Types, Arrive
  PROVE  /\ held' \in Char /\ held' # None /\ line' \in Seq(Char)
         /\ held = None => FromHost' = FromHost
         /\ held # None => FromHost # <<>> /\ FromHost' = Tail(FromHost) /\ FromHost' # <<>>
         /\ Head(FromHost') = held'
         /\ held # None => Head(FromHost) = held
<1>1. line \in Seq(Char) /\ host.out \in Seq(Char) /\ line # <<>>
  BY DEF Types, Arrive
<1>2. held' = Head(line) /\ line' = Tail(line) /\ host' = host
  BY DEF Arrive
<1>3. /\ Head(line) \in Char /\ Tail(line) \in Seq(Char) /\ line = <<Head(line)>> \o Tail(line)
      /\ <<Head(line)>> \in Seq(Char)
  BY <1>1, HeadFirst
<1>4. held' # None /\ Held' = <<Head(line)>>
  BY <1>2, <1>3, Constants DEF Held
<1>5. FromHost' = <<Head(line)>> \o (Tail(line) \o host.out)
  BY <1>2, <1>4 DEF FromHost
<1>6. FromHost' = line \o host.out
  BY <1>1, <1>3, <1>5, ConcatAssociative
<1>7. /\ line \o host.out \in Seq(Char) /\ line \o host.out # <<>>
      /\ Head(line \o host.out) = Head(line)
  BY <1>1, FirstMoves
<1>8. held = None => FromHost = line \o host.out
  BY <1>7, ConcatEmptySeq DEF FromHost, Held
<1>9. ASSUME held # None
      PROVE  FromHost # <<>> /\ Head(FromHost) = held /\ FromHost' = Tail(FromHost)
  <2>1. FromHost = <<held>> \o (line \o host.out) /\ <<held>> \in Seq(Char)
    BY <1>9 DEF FromHost, Held, Types
  <2>2. /\ <<held>> # <<>> /\ Head(<<held>>) = held /\ Tail(<<held>>) = <<>>
        /\ <<>> \o (line \o host.out) = line \o host.out
    BY <1>7, ConcatEmptySeq
  <2>3. FromHost # <<>> /\ Head(FromHost) = held /\ Tail(FromHost) = line \o host.out
    <3>1. <<held>> \in Seq(Char) /\ line \o host.out \in Seq(Char)
      BY <1>7, <2>1
    <3>2. /\ <<held>> \o (line \o host.out) # <<>>
          /\ Head(<<held>> \o (line \o host.out)) = Head(<<held>>)
          /\ Tail(<<held>> \o (line \o host.out)) = Tail(<<held>>) \o (line \o host.out)
      BY <2>2, <3>1, FirstMoves
    <3> QED
      BY <2>1, <2>2, <3>2
  <2> QED
    BY <1>6, <2>3
<1>10. held' \in Char /\ held' # None /\ line' \in Seq(Char)
  BY <1>2, <1>3, <1>4
<1>11. held = None => FromHost' = FromHost
  BY <1>6, <1>8
<1>12. Head(FromHost') = held' /\ FromHost' # <<>>
  BY <1>2, <1>6, <1>7
<1> QED
  BY <1>9, <1>10, <1>11, <1>12

---------------------------------------------------------------------------
(* One step *)

\* What a step may do without anybody's noticing: a character is put, or arrives.
Unnoticed ==
  /\ setup' = setup /\ FromBoard' = FromBoard /\ FromHost' = FromHost
  /\ board'.prog = board.prog /\ board'.pc = board.pc /\ board'.cmd = board.cmd
  /\ board'.size = board.size /\ board'.mem = board.mem
  /\ host'.pc = host.pc /\ host'.gotENQ = host.gotENQ /\ host'.size = host.size
  /\ host'.saved = host.saved

LEMMA UnnoticedKeeps ==
  ASSUME Types', Unnoticed, IF setup.loads THEN Loads ELSE Declines
  PROVE  IInv'
<1>1. Declines => Declines'
  BY DEF Unnoticed, Declines
<1>2. Connecting => Connecting'
  BY DEF Unnoticed, Connecting
<1>3. Asking => Asking'
  BY DEF Unnoticed, Asking, Requested, Named, Opened
<1>4. Receiving => Receiving'
  BY DEF Unnoticed, Receiving, Bytes, Copy
<1>5. Loaded => Loaded'
  BY DEF Unnoticed, Loaded
<1>6. Echoing => Echoing'
  BY DEF Unnoticed, Echoing, Announced, Called, Sized, Saving, Over, Bytes, Copy
<1>7. Loads => Loads'
  BY <1>2, <1>3, <1>4, <1>5, <1>6 DEF Unnoticed, Loads
<1> QED
  BY <1>1, <1>7 DEF IInv, Unnoticed

LEMMA Associates ==
  \A a, b, c \in Seq(Char) : (a \o b) \o c = a \o (b \o c)
BY ConcatAssociative

LEMMA Joins == \A a, b \in Seq(Char) : a \o b \in Seq(Char)
BY ConcatProperties

\* What the board says after the copy.
LEMMA EchoGrows ==
  ASSUME Types, Loaded, Echoing, FromHost' = <<>>, board'.mem = board.mem, host' = host,
         setup' = setup,
         board'.pc \in {"restart", "uart_init", "connect", "connected?"},
         NEW x \in Seq(Loud), FromBoard' = FromBoard \o x
  PROVE  Loaded' /\ Echoing'
<1>1. Loaded'
  BY DEF Loaded
<1>2. PICK t \in Seq(Loud) :
        Announced(t) \/ Called(t) \/ Sized(t) \/ Saving(t) \/ Over(t)
  BY DEF Echoing
<1>3. t \o x \in Seq(Loud)
  BY ConcatProperties
<1>0. /\ t \in Seq(Char) /\ x \in Seq(Char) /\ Copy \in Seq(Char) /\ File \in Seq(Char)
      /\ \A q \in Seq(Quiet) : q \in Seq(Char)
      /\ <<FTX, Text, NUL>> \in Seq(Char) /\ <<Text, NUL>> \in Seq(Char) /\ <<NUL>> \in Seq(Char)
      /\ FromBoard \in Seq(Char) /\ host.size \in Seq(Char) /\ host.saved \in Seq(Char)
  BY Kinds, FileBytes, Constants, OnTheWay DEF Types
<1>t. t \in Seq(Char) /\ x \in Seq(Char)
  BY <1>0
<1>a. (Copy \o t) \o x = Copy \o (t \o x)
  <2>1. Copy \in Seq(Char)
    BY FileBytes
  <2> QED
    BY <1>t, <2>1, Associates, Zenon
<1>b. (File \o t) \o x = File \o (t \o x)
  <2>1. File \in Seq(Char)
    BY Constants
  <2> QED
    BY <1>t, <2>1, Associates, Zenon
<1>d. ASSUME NEW h \in Seq(Char)
      PROVE  (h \o (Copy \o t)) \o x = h \o (Copy \o (t \o x))
  <2>1. Copy \in Seq(Char)
    BY FileBytes
  <2>2. Copy \o t \in Seq(Char)
    BY <1>t, <2>1, Joins, Zenon
  <2>3. (h \o (Copy \o t)) \o x = h \o ((Copy \o t) \o x)
    BY <1>t, <2>2, Associates, Zenon
  <2> QED
    BY <2>3, <1>a
<1>c. Copy' = Copy /\ Bytes' = Bytes
  BY DEF Copy, Bytes
<1>4. CASE Announced(t)
  <2>1. PICK q \in Seq(Quiet) : FromBoard = q \o (<<FTX, Text, NUL>> \o (Copy \o t))
    BY <1>4 DEF Announced
  <2>2. FromBoard' = q \o (<<FTX, Text, NUL>> \o (Copy \o (t \o x)))
    <3> DEFINE h == <<FTX, Text, NUL>>
    <3>1. h \in Seq(Char) /\ q \in Seq(Char) /\ Copy \in Seq(Char)
      BY <1>0
    <3>6. Copy \o t \in Seq(Char)
      BY <1>t, <3>1, Joins, Zenon
    <3> HIDE DEF h
    <3>2. (q \o (h \o (Copy \o t))) \o x = q \o ((h \o (Copy \o t)) \o x)
      <4>1. h \in Seq(Char) /\ q \in Seq(Char)
        BY <3>1
      <4>2. h \o (Copy \o t) \in Seq(Char)
        BY <4>1, <3>6, Joins, Zenon
      <4> QED
        BY <4>1, <4>2, <1>t, Associates, ZenonT(60)
    <3>3. (h \o (Copy \o t)) \o x = h \o (Copy \o (t \o x))
      BY <3>1, <1>d
    <3>4. FromBoard = q \o (h \o (Copy \o t))
      BY <2>1 DEF h
    <3>5. FromBoard' = q \o (h \o (Copy \o (t \o x)))
      BY <3>2, <3>3, <3>4
    <3> QED
      BY <3>5 DEF h
  <2>3. Announced(t \o x)'
    BY <1>4, <2>2, <1>c DEF Announced
  <2> QED
    BY <1>1, <1>3, <2>3 DEF Echoing
<1>5. CASE Called(t)
  <2>1. FromBoard' \in {<<Text, NUL>> \o (Copy \o (t \o x)), <<NUL>> \o (Copy \o (t \o x))}
    <3>1. /\ (<<Text, NUL>> \o (Copy \o t)) \o x = <<Text, NUL>> \o (Copy \o (t \o x))
          /\ (<<NUL>> \o (Copy \o t)) \o x = <<NUL>> \o (Copy \o (t \o x))
      BY <1>0, <1>d, Zenon
    <3> QED
      BY <1>5, <3>1 DEF Called
  <2>2. Called(t \o x)'
    BY <1>5, <2>1, <1>c DEF Called
  <2> QED
    BY <1>1, <1>3, <2>2 DEF Echoing
<1>6. CASE Sized(t)
  <2>1. host.size \o FromBoard' = Copy \o (t \o x)
    <3>1. host.size \in Seq(Char) /\ FromBoard \in Seq(Char) /\ x \in Seq(Char)
      BY <1>0
    <3>2. (host.size \o FromBoard) \o x = host.size \o (FromBoard \o x)
      BY <3>1, Associates, Zenon
    <3>3. host.size \o FromBoard = Copy \o t
      BY <1>6 DEF Sized
    <3>4. (Copy \o t) \o x = Copy \o (t \o x)
      BY <1>a
    <3> QED
      BY <3>2, <3>3, <3>4
  <2>2. Sized(t \o x)'
    BY <1>6, <2>1, <1>c DEF Sized
  <2> QED
    BY <1>1, <1>3, <2>2 DEF Echoing
<1>7. CASE Saving(t)
  <2>1. host.saved \o FromBoard' = File \o (t \o x)
    <3>1. host.saved \in Seq(Char) /\ FromBoard \in Seq(Char) /\ x \in Seq(Char)
      BY <1>0
    <3>2. (host.saved \o FromBoard) \o x = host.saved \o (FromBoard \o x)
      BY <3>1, Associates, Zenon
    <3>3. host.saved \o FromBoard = File \o t
      BY <1>7 DEF Saving
    <3>4. (File \o t) \o x = File \o (t \o x)
      BY <1>b
    <3> QED
      BY <3>2, <3>3, <3>4
  <2>2. Saving(t \o x)'
    BY <1>7, <2>1, <1>c DEF Saving
  <2> QED
    BY <1>1, <1>3, <2>2 DEF Echoing
<1>8. CASE Over(t)
  <2>1. Over(t \o x)'
    BY <1>8 DEF Over
  <2> QED
    BY <1>1, <1>3, <2>1 DEF Echoing
<1> QED
  BY <1>1, <1>2, <1>4, <1>5, <1>6, <1>7, <1>8

\* After the host has gone.
LEMMA NobodyHears ==
  ASSUME Types, host.pc = "exited", IF setup.loads THEN Loads ELSE Declines
  PROVE  /\ FromBoard \in Seq(Loud)
         /\ setup.loads => board.cmd = FRX /\ host.gotENQ /\ Loaded /\ Echoing
<1>1. CASE setup.loads
  <2>1. board.cmd = FRX /\ host.gotENQ /\ Loaded /\ Echoing
    BY <1>1 DEF Loads, Connecting, Asking, Requested, Named, Opened, Receiving
  <2> QED
    BY <2>1 DEF Echoing, Announced, Called, Sized, Saving, Over
<1>2. CASE ~setup.loads
  BY <1>2 DEF Declines
<1> QED
  BY <1>1, <1>2

LEMMA PutcKeeps ==
  ASSUME IInv, ~host.short, BoardPutc, UNCHANGED <<setup, host>>
  PROVE  IInv'
<1>0. Types /\ (IF setup.loads THEN Loads ELSE Declines)
  BY DEF IInv
<1>1. /\ toHost' \in Seq(Char) /\ board' = [board EXCEPT !.out = Tail(@)]
      /\ Tail(board.out) \in Seq(Char) /\ line' = line /\ held' = held
  BY <1>0, BoardPuts DEF BoardPutc
<1>2. Types'
  BY <1>0, <1>1 DEF Types
<1>3. CASE host.pc # "exited"
  <2>1. Unnoticed
    BY <1>0, <1>1, <1>3, BoardPuts DEF Unnoticed, Types, FromHost, Held
  <2> QED
    BY <1>0, <1>2, <2>1, UnnoticedKeeps
<1>4. CASE host.pc = "exited"
  <2>1. FromBoard \in Seq(Loud) /\ toHost' = toHost /\ board'.out = Tail(board.out)
    BY <1>0, <1>1, <1>4, BoardPuts, NobodyHears DEF Types
  <2>2. toHost \in Seq(Loud) /\ board.out \in Seq(Loud) /\ board.out # <<>>
    BY <1>0, <2>1, OfTheSame DEF FromBoard, Types, BoardPutc
  <2>3. FromBoard' \in Seq(Loud)
    BY <2>1, <2>2, HeadTailProperties, ConcatProperties DEF FromBoard
  <2>4. /\ FromHost' = FromHost /\ board'.pc = board.pc /\ board'.cmd = board.cmd
        /\ board'.mem = board.mem
    BY <1>0, <1>1 DEF FromHost, Held, Types
  <2>5. setup.loads => Loads'
    <3> SUFFICES ASSUME setup.loads PROVE Loads'
      OBVIOUS
    <3>1. board.cmd = FRX /\ host.gotENQ /\ Loaded
      BY <1>0, <1>4, NobodyHears
    <3>2. Loaded'
      BY <2>4, <3>1 DEF Loaded
    <3>3. Echoing'
      BY <1>4, <2>3 DEF Echoing, Over
    <3> QED
      BY <2>4, <3>1, <3>2, <3>3 DEF Loads
  <2>6. ~setup.loads => Declines'
    BY <1>0, <2>3, <2>4 DEF Declines
  <2> QED
    BY <1>2, <2>5, <2>6 DEF IInv
<1> QED
  BY <1>3, <1>4

LEMMA DeclinesGrows ==
  ASSUME Declines, host' = host, board'.pc \notin {"size", "data"}, board'.cmd # FRX,
         FromHost' \in Seq({ACK}), Len(FromHost') <= Len(FromHost),
         NEW x \in Seq(Loud), FromBoard' = FromBoard \o x
  PROVE  Declines'
<1>1. FromBoard \in Seq(Loud)
  BY DEF Declines
<1>2. FromBoard' \in Seq(Loud)
  BY <1>1, ConcatProperties
<1>3. FromHost \in Seq({ACK}) /\ Len(FromHost) \in Nat /\ Len(FromHost') \in Nat
  BY LenProperties DEF Declines
<1> QED
  BY <1>2, <1>3 DEF Declines

\* What the board says that is not an answer to anything.
LEMMA Words ==
  /\ <<>> \in Seq(Quiet) /\ <<ENQ>> \in Seq(Quiet) /\ <<Text>> \in Seq(Quiet)
  /\ <<>> \in Seq(Loud) /\ <<ENQ>> \in Seq(Loud) /\ <<Text>> \in Seq(Loud)
  /\ <<Text, EOT>> \in Seq(Loud)
BY DEF Quiet, Loud

LEMMA UartInitKeeps ==
  ASSUME IInv, ~host.short, UartInit, UNCHANGED <<setup, host>>
  PROVE  IInv'
<1>0. Types /\ (IF setup.loads THEN Loads ELSE Declines)
  BY DEF IInv
<1>1. /\ board.pc = "uart_init" /\ board.out = <<>> /\ toHost' = toHost /\ held' = None
      /\ line' = line \/ (line # <<>> /\ line' = Tail(line))
  BY DEF UartInit, BoardAt
<1>2. /\ board'.out \in {<<>>, <<Text>>, <<Text, EOT>>}
      /\ board' = [board EXCEPT !.pc = board'.pc, !.prog = board'.prog, !.out = board'.out]
      /\ board'.prog = board.prog
      /\ board.prog = "bootloader" => board'.pc = "connect" /\ board'.out = <<>>
      /\ board.prog # "bootloader" => board'.pc = "restart"
  BY <1>0 DEF UartInit, BoardGoes, Types
<1>3. board'.out \in Seq(Loud) /\ board'.out \in Seq(Char)
  <2>1. board'.out \in Seq(Loud)
    BY <1>2, Words
  <2> QED
    BY <2>1, Kinds
<1>4. FromBoard' = FromBoard \o board'.out
  BY <1>0, <1>1, <1>3, BoardSays
<1>5. line' \in Seq(Char)
  <2>1. line \in Seq(Char)
    BY <1>0 DEF Types
  <2>2. line # <<>> => Tail(line) \in Seq(Char)
    BY <2>1, HeadTailProperties
  <2> QED
    BY <1>1, <2>1, <2>2
<1>6. toHost' \in Seq(Char) /\ board'.prog \in {"bootloader", "firmware"}
  BY <1>0, <1>1, <1>2 DEF Types
<1>7. /\ Types' /\ board'.cmd = board.cmd /\ board'.size = board.size /\ board'.mem = board.mem
  BY <1>0, <1>1, <1>2, <1>3, <1>5, <1>6 DEF Types
<1>8. FromHost' = line' \o host.out
  <2>1. line' \o host.out \in Seq(Char)
    BY <1>0, <1>5, ConcatProperties DEF Types
  <2> QED
    BY <1>1, <2>1, ConcatEmptySeq DEF FromHost, Held
<1>9. FromHost = <<>> => FromHost' = <<>>
  BY <1>0, <1>1, <1>8, OnTheWay
<1>10. CASE setup.loads
  <2>1. CASE Connecting
    <3>1. FromBoard = <<>> /\ FromHost = <<>> /\ ~host.gotENQ /\ board'.pc = "connect"
      BY <1>1, <1>2, <2>1 DEF Connecting
    <3>2. FromBoard' = <<>>
      BY <1>2, <1>4, <2>1, <3>1 DEF Connecting
    <3>3. Connecting'
      BY <1>2, <1>7, <1>9, <2>1, <3>1, <3>2 DEF Connecting
    <3> QED
      BY <1>7, <1>10, <3>3 DEF IInv, Loads
  <2>2. CASE ~Connecting
    <3>1. board.cmd = FRX /\ host.gotENQ /\ Loaded /\ Echoing
      BY <1>0, <1>1, <1>10, <2>2 DEF Loads, Asking, Receiving
    <3>2. board'.pc \in {"restart", "uart_init", "connect", "connected?"} /\ FromHost' = <<>>
      BY <1>2, <1>9, <3>1 DEF Loaded
    <3>3. Loaded' /\ Echoing'
      BY <1>0, <1>3, <1>4, <1>7, <3>1, <3>2, EchoGrows
    <3> QED
      BY <1>7, <1>10, <3>1, <3>3 DEF IInv, Loads
  <2> QED
    BY <2>1, <2>2
<1>11. CASE ~setup.loads
  <2>1. line \o host.out \in Seq(Char) /\ Held \in Seq(Char) /\ FromHost \in Seq({ACK})
    BY <1>0, <1>11, OnTheWay DEF Declines
  <2>2. line \o host.out \in Seq({ACK})
    BY <2>1, OfTheSame DEF FromHost
  <2>3. line \in Seq({ACK}) /\ host.out \in Seq({ACK})
    BY <1>0, <2>2, OfTheSame DEF Types
  <2>4. line' \in Seq({ACK}) /\ Len(line') <= Len(line)
    BY <1>1, <2>3, HeadTailProperties, LenProperties
  <2>5. FromHost' \in Seq({ACK}) /\ Len(FromHost') <= Len(FromHost)
    <3>1. /\ Len(line) \in Nat /\ Len(line') \in Nat /\ Len(host.out) \in Nat
          /\ Len(Held) \in Nat
      BY <2>1, <2>3, <2>4, LenProperties
    <3>2. Len(FromHost') = Len(line') + Len(host.out) /\ FromHost' \in Seq({ACK})
      BY <1>8, <2>3, <2>4, ConcatProperties
    <3>3. Len(FromHost) = Len(Held) + (Len(line) + Len(host.out))
      BY <2>1, <2>3, ConcatProperties DEF FromHost
    <3> QED
      BY <2>4, <3>1, <3>2, <3>3
  <2>6. board'.pc \notin {"size", "data"} /\ board'.cmd # FRX
    BY <1>0, <1>2, <1>7, <1>11 DEF Declines
  <2>7. Declines'
    BY <1>0, <1>3, <1>4, <1>11, <2>5, <2>6, DeclinesGrows
  <2> QED
    BY <1>7, <1>11, <2>7 DEF IInv
<1> QED
  BY <1>10, <1>11

LEMMA TransmitKeeps ==
  ASSUME IInv, ~host.short, ConnectTransmit, UNCHANGED <<setup, host>>
  PROVE  IInv'
<1>0. Types /\ (IF setup.loads THEN Loads ELSE Declines)
  BY DEF IInv
<1>1. /\ board.pc = "connect" /\ board.out = <<>> /\ line' = line /\ held' = held
      /\ toHost' \in {toHost, Append(toHost, ENQ)}
      /\ board' = [board EXCEPT !.pc = "connected?", !.out = <<>>]
  BY DEF ConnectTransmit, BoardAt, BoardGoes, ToHost
<1>2. /\ board'.pc = "connected?" /\ board'.out = <<>> /\ board'.prog = board.prog
      /\ board'.cmd = board.cmd /\ board'.size = board.size /\ board'.mem = board.mem
      /\ FromHost' = FromHost
  BY <1>0, <1>1 DEF Types, FromHost, Held
<1>3. toHost \in Seq(Char) /\ Append(toHost, ENQ) = toHost \o <<ENQ>> /\ toHost \o <<ENQ>> \in Seq(Char)
  BY <1>0, Kinds, AppendIsConcat, AppendProperties DEF Types
<1>4. PICK x \in {<<>>, <<ENQ>>} : FromBoard' = FromBoard \o x
  BY <1>1, <1>2, <1>3, ConcatEmptySeq DEF FromBoard
<1>5. x \in Seq(Quiet) /\ x \in Seq(Loud)
  BY <1>4, Words
<1>6. Types'
  <2>1. toHost' \in Seq(Char)
    BY <1>0, <1>1, <1>3 DEF Types
  <2>2. board' \in [prog : {"bootloader", "firmware"},
                    pc : {"uart_init", "connect", "connected?", "answer", "size", "data", "restart"},
                    out : Seq(Char), cmd : Char, size : Seq(Char), mem : Seq(Char)]
    BY <1>0, <1>1, EmptySeq DEF Types
  <2> QED
    BY <1>0, <1>1, <2>1, <2>2 DEF Types
<1>7. CASE setup.loads
  <2>1. CASE Connecting
    <3>1. FromBoard' \in Seq(Quiet)
      BY <1>4, <1>5, <2>1, ConcatProperties DEF Connecting
    <3>2. Connecting'
      BY <1>2, <2>1, <3>1 DEF Connecting
    <3> QED
      BY <1>6, <1>7, <3>2 DEF IInv, Loads
  <2>2. CASE ~Connecting
    <3>1. board.cmd = FRX /\ host.gotENQ /\ Loaded /\ Echoing
      BY <1>0, <1>1, <1>7, <2>2 DEF Loads, Asking, Receiving
    <3>2. board'.pc \in {"restart", "uart_init", "connect", "connected?"} /\ FromHost' = <<>>
      BY <1>2, <3>1 DEF Loaded
    <3>3. Loaded' /\ Echoing'
      BY <1>0, <1>2, <1>4, <1>5, <3>1, <3>2, EchoGrows
    <3> QED
      BY <1>2, <1>6, <1>7, <3>1, <3>3 DEF IInv, Loads
  <2> QED
    BY <2>1, <2>2
<1>8. CASE ~setup.loads
  <2>1. /\ board'.pc \notin {"size", "data"} /\ board'.cmd # FRX /\ FromHost' \in Seq({ACK})
        /\ Len(FromHost') <= Len(FromHost)
    BY <1>0, <1>2, <1>8, LenProperties DEF Declines
  <2>2. Declines'
    BY <1>0, <1>4, <1>5, <1>8, <2>1, DeclinesGrows
  <2> QED
    BY <1>6, <1>8, <2>2 DEF IInv
<1> QED
  BY <1>7, <1>8

LEMMA ReceiveKeeps ==
  ASSUME IInv, ~host.short, ConnectReceive, UNCHANGED <<setup, host>>
  PROVE  IInv'
<1>0. Types /\ (IF setup.loads THEN Loads ELSE Declines)
  BY DEF IInv
<1>1. /\ board.pc = "connected?" /\ board.out = <<>> /\ toHost' = toHost /\ line' = line
      /\ held' = held
      /\ \/ held = None /\ board' = [board EXCEPT !.pc = "connect", !.out = <<>>]
         \/ held # None /\ board' = [board EXCEPT !.pc = "answer", !.out = <<Text>>]
  BY DEF ConnectReceive, ConnectReceiveOr, BoardAt, BoardGoes
<1>2. /\ board'.pc \in {"connect", "answer"} /\ board'.prog = board.prog
      /\ board'.out \in {<<>>, <<Text>>}
      /\ board'.cmd = board.cmd /\ board'.size = board.size /\ board'.mem = board.mem
      /\ FromHost' = FromHost
      /\ held = None => board'.pc = "connect"
  BY <1>0, <1>1 DEF Types, FromHost, Held
<1>3. board'.out \in Seq(Quiet)
  BY <1>2, Words
<1>4. board'.out \in Seq(Loud) /\ board'.out \in Seq(Char)
  BY <1>3, Kinds
<1>5. FromBoard' = FromBoard \o board'.out
  BY <1>0, <1>1, <1>4, BoardSays
<1>6. Types'
  BY <1>0, <1>1, <1>4 DEF Types
<1>7. CASE setup.loads
  <2>1. CASE Connecting
    <3>1. FromBoard' \in Seq(Quiet)
      BY <1>3, <1>5, <2>1, ConcatProperties DEF Connecting
    <3>2. Connecting'
      BY <1>2, <2>1, <3>1 DEF Connecting
    <3> QED
      BY <1>6, <1>7, <3>2 DEF IInv, Loads
  <2>2. CASE ~Connecting
    <3>1. board.cmd = FRX /\ host.gotENQ /\ Loaded /\ Echoing
      BY <1>0, <1>1, <1>7, <2>2 DEF Loads, Asking, Receiving
    <3>2. FromHost = <<>> /\ FromHost' = <<>>
      BY <1>2, <3>1 DEF Loaded
    <3>3. board'.pc = "connect"
      BY <1>0, <1>2, <3>2, OnTheWay
    <3>4. Loaded' /\ Echoing'
      BY <1>0, <1>2, <1>4, <1>5, <3>1, <3>2, <3>3, EchoGrows
    <3> QED
      BY <1>2, <1>6, <1>7, <3>1, <3>4 DEF IInv, Loads
  <2> QED
    BY <2>1, <2>2
<1>8. CASE ~setup.loads
  <2>1. /\ board'.pc \notin {"size", "data"} /\ board'.cmd # FRX /\ FromHost' \in Seq({ACK})
        /\ Len(FromHost') <= Len(FromHost)
    BY <1>0, <1>2, <1>8, LenProperties DEF Declines
  <2>2. Declines'
    BY <1>0, <1>4, <1>5, <1>8, <2>1, DeclinesGrows
  <2> QED
    BY <1>6, <1>8, <2>2 DEF IInv
<1> QED
  BY <1>7, <1>8

LEMMA RestartKeeps ==
  ASSUME IInv, ~host.short, Restart, UNCHANGED <<setup, host>>
  PROVE  IInv'
<1>0. Types /\ (IF setup.loads THEN Loads ELSE Declines)
  BY DEF IInv
<1>1. /\ board.pc = "restart" /\ board.out = <<>> /\ toHost' = toHost /\ line' = line
      /\ held' = held /\ board'.pc = "uart_init" /\ board'.out = <<>>
      /\ board'.cmd = board.cmd /\ board'.size = board.size /\ board'.mem = board.mem
      /\ board' \in [prog : {"bootloader", "firmware"},
                     pc : {"uart_init", "connect", "connected?", "answer", "size", "data", "restart"},
                     out : Seq(Char), cmd : Char, size : Seq(Char), mem : Seq(Char)]
  BY <1>0 DEF Restart, BoardAt, Types
<1>2. FromHost' = FromHost
  BY <1>1 DEF FromHost, Held
<1>3. <<>> \in Seq(Char) /\ <<>> \in Seq(Loud)
  OBVIOUS
<1>4. FromBoard' = FromBoard \o <<>>
  BY <1>0, <1>1, <1>3, BoardSays
<1>5. Types'
  BY <1>0, <1>1 DEF Types
<1>6. CASE setup.loads
  <2>1. board.cmd = FRX /\ host.gotENQ /\ Loaded /\ Echoing
    BY <1>0, <1>1, <1>6 DEF Loads, Connecting, Asking, Receiving
  <2>2. FromHost' = <<>>
    BY <1>2, <2>1 DEF Loaded
  <2>3. Loaded' /\ Echoing'
    BY <1>0, <1>1, <1>3, <1>4, <2>1, <2>2, EchoGrows
  <2> QED
    BY <1>1, <1>5, <1>6, <2>1, <2>3 DEF IInv, Loads
<1>7. CASE ~setup.loads
  <2>1. /\ board'.pc \notin {"size", "data"} /\ board'.cmd # FRX /\ FromHost' \in Seq({ACK})
        /\ Len(FromHost') <= Len(FromHost)
    BY <1>0, <1>1, <1>2, <1>7, LenProperties DEF Declines
  <2>2. Declines'
    BY <1>0, <1>3, <1>4, <1>7, <2>1, DeclinesGrows
  <2> QED
    BY <1>5, <1>7, <2>2 DEF IInv
<1> QED
  BY <1>6, <1>7

\* No character reaches a register that is not empty: nothing is on the way, or one
\* character, or the board is reading.
LEMMA NoneLost ==
  ASSUME IInv, ~host.short, Arrive
  PROVE  held = None
<1> SUFFICES ASSUME held # None PROVE FALSE
  OBVIOUS
<1>0. Types /\ (IF setup.loads THEN Loads ELSE Declines)
  BY DEF IInv
<1>1. FromHost # <<>> /\ FromHost' = Tail(FromHost) /\ FromHost' # <<>>
  BY <1>0, Arrives
<1>2. CASE Connecting
  <2>1. FromHost = <<FRX>>
    BY <1>1, <1>2 DEF Connecting
  <2> QED
    BY <1>1, <2>1
<1>3. CASE Asking \/ Loaded
  BY <1>1, <1>3 DEF Asking, Loaded
<1>4. CASE Receiving
  <2>1. Listening
    BY <1>0, <1>4, OnTheWay DEF Receiving, Listening
  <2> QED
    BY <2>1 DEF Arrive
<1>5. CASE Declines
  <2>1. FromHost \in Seq({ACK}) /\ Len(FromHost) <= 1
    BY <1>5 DEF Declines
  <2>2. Tail(FromHost) \in Seq({ACK}) /\ Len(Tail(FromHost)) = 0
    BY <1>1, <2>1, HeadTailProperties, LenProperties, EmptySeq
  <2> QED
    BY <1>1, <2>2, EmptySeq
<1> QED
  BY <1>0, <1>2, <1>3, <1>4, <1>5 DEF Loads

LEMMA ArriveKeeps ==
  ASSUME IInv, ~host.short, Arrive
  PROVE  IInv'
<1>0. Types /\ (IF setup.loads THEN Loads ELSE Declines)
  BY DEF IInv
<1>1. /\ setup' = setup /\ board' = board /\ host' = host /\ toHost' = toHost
      /\ FromBoard' = FromBoard
  BY DEF Arrive, FromBoard
<1>2. Types'
  BY <1>0, <1>1, Arrives DEF Types
<1>3. Unnoticed
  BY <1>0, <1>1, NoneLost, Arrives DEF Unnoticed
<1> QED
  BY <1>0, <1>2, <1>3, UnnoticedKeeps

LEMMA HostPutcKeeps ==
  ASSUME IInv, ~host.short, HostPutc, UNCHANGED <<setup, board, held>>
  PROVE  IInv'
<1>0. Types /\ (IF setup.loads THEN Loads ELSE Declines)
  BY DEF IInv
<1>1. /\ line' \in Seq(Char) /\ host' = [host EXCEPT !.out = Tail(@)]
      /\ Tail(host.out) \in Seq(Char) /\ FromHost' = FromHost /\ toHost' = toHost
  BY <1>0, HostPuts DEF HostPutc
<1>2. Types'
  BY <1>0, <1>1 DEF Types
<1>3. Unnoticed
  BY <1>0, <1>1 DEF Unnoticed, Types, FromBoard
<1> QED
  BY <1>0, <1>2, <1>3, UnnoticedKeeps

LEMMA Joined ==
  ASSUME NEW a \in Char, NEW b \in Char, NEW c \in Char, NEW d \in Char
  PROVE  <<a, b>> \o <<c, d>> = <<a, b, c, d>> /\ <<a>> \o <<b, c, d>> = <<a, b, c, d>>
<1>1. <<a, b>> \in Seq(Char) /\ <<c, d>> \in Seq(Char) /\ <<a, b, c, d>> \in Seq(Char)
  OBVIOUS
<1>2. <<a>> \in Seq(Char) /\ <<b, c, d>> \in Seq(Char)
  OBVIOUS
<1>3. <<a, b>> \o <<c, d>> = <<a, b, c, d>>
  <2>1. /\ <<a, b>> \o <<c, d>> \in Seq(Char) /\ Len(<<a, b>> \o <<c, d>>) = 4
        /\ \A i \in 1 .. 4 : (<<a, b>> \o <<c, d>>)[i] = IF i <= 2 THEN <<a, b>>[i] ELSE <<c, d>>[i - 2]
    BY <1>1, ConcatProperties
  <2>2. \A i \in 1 .. 4 : (<<a, b>> \o <<c, d>>)[i] = <<a, b, c, d>>[i]
    BY <2>1
  <2> QED
    BY <1>1, <2>1, <2>2, SeqEqual
<1>4. <<a>> \o <<b, c, d>> = <<a, b, c, d>>
  <2>1. /\ <<a>> \o <<b, c, d>> \in Seq(Char) /\ Len(<<a>> \o <<b, c, d>>) = 4
        /\ \A i \in 1 .. 4 : (<<a>> \o <<b, c, d>>)[i] = IF i <= 1 THEN <<a>>[i] ELSE <<b, c, d>>[i - 1]
    BY <1>2, ConcatProperties
  <2>2. \A i \in 1 .. 4 : (<<a>> \o <<b, c, d>>)[i] = <<a, b, c, d>>[i]
    BY <2>1
  <2> QED
    BY <1>1, <2>1, <2>2, SeqEqual
<1> QED
  BY <1>3, <1>4

\* The answer to ENQ has arrived: the board asks for the file, or has none to wait for.
LEMMA AnswerKeeps ==
  ASSUME IInv, ~host.short, Answer, UNCHANGED <<setup, host>>
  PROVE  IInv'
<1>0. Types /\ (IF setup.loads THEN Loads ELSE Declines)
  BY DEF IInv
<1>1. /\ board.pc = "answer" /\ board.out = <<>> /\ Getc
      /\ board' = IF held = FRX
                    THEN [board EXCEPT !.cmd = held, !.pc = "size", !.size = <<>>,
                                       !.out = <<Text, FRX>> \o Name]
                    ELSE [board EXCEPT !.cmd = held, !.pc = "restart", !.out = <<Text>>]
  BY DEF Answer, BoardAt
<1>2. /\ held \in Char /\ held' = None /\ line' = line /\ toHost' = toHost
      /\ FromHost # <<>> /\ Head(FromHost) = held /\ Tail(FromHost) = FromHost'
  BY <1>0, <1>1, BoardHears
<1>3. /\ <<Text, FRX>> \o Name = <<Text, FRX, Text, NUL>>
      /\ <<Text, FRX, Text, NUL>> \in Seq(Char) /\ <<Text>> \in Seq(Char)
      /\ <<Text>> \o <<FRX, Text, NUL>> = <<Text, FRX, Text, NUL>>
  BY Constants, Joined DEF Name
<1>4. Types'
  BY <1>0, <1>1, <1>2, <1>3 DEF Types
<1>5. CASE setup.loads
  <2>1. Connecting
    BY <1>0, <1>1, <1>5 DEF Loads, Asking, Receiving, Loaded
  <2>2. FromHost = <<FRX>> /\ host.gotENQ
    BY <1>2, <2>1 DEF Connecting
  <2>3. held = FRX /\ FromHost' = <<>>
    BY <1>2, <2>2
  <2>4. /\ board'.out = <<Text, FRX, Text, NUL>> /\ board'.cmd = FRX /\ board'.pc = "size"
        /\ board'.size = <<>> /\ board'.prog = board.prog
    BY <1>0, <1>1, <1>3, <2>3 DEF Types
  <2>5. FromBoard' = FromBoard \o <<Text, FRX, Text, NUL>>
    BY <1>0, <1>1, <1>2, <1>3, <2>4, BoardSays
  <2>6. FromBoard' = (FromBoard \o <<Text>>) \o <<FRX, Text, NUL>>
    <3>1. FromBoard \in Seq(Char)
      BY <1>0, OnTheWay
    <3>2. <<Text>> \in Seq(Char) /\ <<FRX, Text, NUL>> \in Seq(Char)
      BY <1>3, Kinds
    <3>3. (FromBoard \o <<Text>>) \o <<FRX, Text, NUL>> = FromBoard \o (<<Text>> \o <<FRX, Text, NUL>>)
      BY <3>1, <3>2, Associates, Zenon
    <3> QED
      BY <1>3, <2>5, <3>3
  <2>7. FromBoard \o <<Text>> \in Seq(Quiet)
    BY <2>1, Words, ConcatProperties DEF Connecting
  <2>8. Requested'
    BY <1>1, <2>1, <2>6, <2>7 DEF Requested, Connecting
  <2>9. Asking'
    BY <2>3, <2>4, <2>8 DEF Asking
  <2>10. board'.prog = "bootloader" /\ host'.gotENQ
    BY <2>1, <2>2, <2>4 DEF Connecting
  <2> QED
    BY <1>4, <1>5, <2>4, <2>9, <2>10 DEF IInv, Loads
<1>6. CASE ~setup.loads
  <2>1. FromHost \in Seq({ACK}) /\ Declines
    BY <1>0, <1>6 DEF Declines
  <2>2. held = ACK /\ FromHost' \in Seq({ACK}) /\ Len(FromHost') <= Len(FromHost)
    BY <1>2, <2>1, HeadTailProperties, LenProperties
  <2>3. board'.out = <<Text>> /\ board'.cmd # FRX /\ board'.pc = "restart"
    BY <1>0, <1>1, <2>2 DEF Types, ACK, FRX
  <2>4. FromBoard' = FromBoard \o <<Text>>
    BY <1>0, <1>1, <1>2, <1>3, <2>3, BoardSays
  <2>5. Declines'
    BY <2>1, <2>2, <2>3, <2>4, Words, DeclinesGrows
  <2> QED
    BY <1>4, <1>6, <2>5 DEF IInv
<1> QED
  BY <1>5, <1>6

\* Where a file is being received.
LEMMA ReceivingThen ==
  ASSUME Types, IF setup.loads THEN Loads ELSE Declines,
         board.pc = "data" \/ (board.pc = "size" /\ FromHost # <<>>)
  PROVE  /\ setup.loads /\ board.cmd = FRX /\ host.gotENQ /\ board.prog = "bootloader"
         /\ Receiving
BY DEF Loads, Declines, Connecting, Asking, Loaded

LEMMA SizeKeeps ==
  ASSUME IInv, ~host.short, ReceiveSize, UNCHANGED <<setup, host>>
  PROVE  IInv'
<1>0. Types /\ (IF setup.loads THEN Loads ELSE Declines)
  BY DEF IInv
<1> DEFINE got == Append(board.size, held)
<1>1. /\ board.pc = "size" /\ board.out = <<>> /\ Getc
      /\ board' = [board EXCEPT !.size = got, !.mem = <<>>,
                               !.pc = IF Len(got) = Width THEN "data" ELSE "size"]
  BY DEF ReceiveSize, ReceiveSizeOf, BoardAt
<1>2. /\ held \in Char /\ held' = None /\ line' = line /\ toHost' = toHost
      /\ FromHost # <<>> /\ Head(FromHost) = held /\ Tail(FromHost) = FromHost'
      /\ FromHost' \in Seq(Char)
  BY <1>0, <1>1, BoardHears
<1>3. /\ setup.loads /\ board.cmd = FRX /\ host.gotENQ /\ board.prog = "bootloader"
      /\ Receiving
  BY <1>0, <1>1, <1>2, ReceivingThen
<1>4. board.size \in Seq(Char) /\ FromHost \in Seq(Char) /\ Len(board.size) < Width
      /\ board.size \o FromHost = Copy
  BY <1>0, <1>1, <1>3, OnTheWay DEF Types, Receiving
<1>5. got \in Seq(Char) /\ got \o FromHost' = Copy
  <2>1. /\ Append(board.size, Head(FromHost)) \in Seq(Char)
        /\ Append(board.size, Head(FromHost)) \o Tail(FromHost) = board.size \o FromHost
    BY <1>2, <1>4, PutMoves
  <2> QED
    BY <1>2, <1>4, <2>1
<1>6. Len(got) <= Width
  <2>1. Len(got) = Len(board.size) + 1 /\ Len(board.size) \in Nat /\ Width \in Nat
    BY <1>2, <1>4, AppendProperties, LenProperties, Constants
  <2> QED
    BY <1>4, <2>1
<1> HIDE DEF got
<1>7. /\ board'.size = got /\ board'.mem = <<>> /\ board'.cmd = FRX
      /\ board'.prog = "bootloader" /\ board'.out = <<>>
      /\ board'.pc = IF Len(got) = Width THEN "data" ELSE "size"
  BY <1>0, <1>1, <1>3 DEF Types
<1>8. Types'
  BY <1>0, <1>1, <1>2, <1>5 DEF Types
<1>9. FromBoard' = <<>>
  <2>1. toHost = <<>>
    BY <1>0, <1>3, OnTheWay DEF Receiving
  <2> QED
    BY <1>2, <1>7, <2>1 DEF FromBoard
<1>10. Receiving'
  <2>1. CASE Len(got) = Width
    <3>1. got = Bytes /\ FromHost' = File
      BY <1>2, <1>5, <2>1, SameStart, FileBytes, Constants DEF Copy
    <3>2. board'.mem \o FromHost' = File
      BY <1>7, <3>1, ConcatEmptySeq, Constants
    <3> QED
      BY <1>3, <1>7, <1>9, <2>1, <3>1, <3>2 DEF Receiving, Bytes
  <2>2. CASE Len(got) # Width
    <3>1. Len(got) < Width
      BY <1>5, <1>6, <2>2, LenProperties, Constants
    <3> QED
      BY <1>3, <1>5, <1>7, <1>9, <2>2, <3>1 DEF Receiving, Copy, Bytes
  <2> QED
    BY <2>1, <2>2
<1> QED
  BY <1>3, <1>7, <1>8, <1>10 DEF IInv, Loads

LEMMA DataKeeps ==
  ASSUME IInv, ~host.short, ReceiveData, UNCHANGED <<setup, host>>
  PROVE  IInv'
<1>0. Types /\ (IF setup.loads THEN Loads ELSE Declines)
  BY DEF IInv
<1>1. /\ board.pc = "data" /\ board.out = <<>> /\ Getc
      /\ board' = [board EXCEPT !.mem = Append(@, held)]
  BY DEF ReceiveData, BoardAt
<1>2. /\ held \in Char /\ held' = None /\ line' = line /\ toHost' = toHost
      /\ FromHost # <<>> /\ Head(FromHost) = held /\ Tail(FromHost) = FromHost'
  BY <1>0, <1>1, BoardHears
<1>3. /\ setup.loads /\ board.cmd = FRX /\ host.gotENQ /\ board.prog = "bootloader"
      /\ Receiving
  BY <1>0, <1>1, ReceivingThen
<1>4. /\ board.mem \in Seq(Char) /\ FromHost \in Seq(Char) /\ board.mem \o FromHost = File
      /\ board.size = Bytes /\ toHost = <<>>
  BY <1>0, <1>1, <1>3, OnTheWay DEF Types, Receiving
<1>5. Append(board.mem, held) \in Seq(Char) /\ Append(board.mem, held) \o FromHost' = File
  <2>1. /\ Append(board.mem, Head(FromHost)) \in Seq(Char)
        /\ Append(board.mem, Head(FromHost)) \o Tail(FromHost) = board.mem \o FromHost
    BY <1>2, <1>4, PutMoves
  <2> QED
    BY <1>2, <1>4, <2>1
<1>6. /\ board'.mem = Append(board.mem, held) /\ board'.cmd = FRX /\ board'.size = Bytes
      /\ board'.prog = "bootloader" /\ board'.out = <<>> /\ board'.pc = "data"
  BY <1>0, <1>1, <1>3, <1>4 DEF Types
<1>7. Types'
  BY <1>0, <1>1, <1>2, <1>5 DEF Types
<1>8. FromBoard' = <<>>
  BY <1>2, <1>4, <1>6 DEF FromBoard
<1>9. Receiving'
  BY <1>3, <1>5, <1>6, <1>8 DEF Receiving, Bytes
<1> QED
  BY <1>3, <1>6, <1>7, <1>9 DEF IInv, Loads

\* What the board sends of the file it has.
LEMMA CopyJoined ==
  ASSUME NEW size \in Seq(Char), NEW mem \in Seq(Char)
  PROVE  /\ <<Text, FTX>> \o Name \o size \o mem \o <<Text>> \in Seq(Char)
         /\ <<Text, FTX>> \o Name \o size \o mem \o <<Text>> =
              <<Text>> \o (<<FTX, Text, NUL>> \o ((size \o mem) \o <<Text>>))
<1> DEFINE h == <<FTX, Text, NUL>>
           e == <<Text>>
<1>1. h \in Seq(Char) /\ e \in Seq(Char)
  BY Constants
<1>2. <<Text, FTX>> \o Name = e \o h
  BY Joined, Constants DEF Name
<1> HIDE DEF h, e
<1>3. e \o h \in Seq(Char) /\ h \o size \in Seq(Char) /\ size \o mem \in Seq(Char)
  BY <1>1, Joins, Zenon
<1>4. h \o (size \o mem) \in Seq(Char) /\ (size \o mem) \o e \in Seq(Char)
  BY <1>1, <1>3, Joins, Zenon
<1>5. (e \o h) \o size = e \o (h \o size)
  BY <1>1, Associates, Zenon
<1>6. (e \o (h \o size)) \o mem = e \o ((h \o size) \o mem)
  <2>1. h \o size \in Seq(Char)
    BY <1>3
  <2> QED
    BY <1>1, <2>1, Associates, ZenonT(60)
<1>7. (h \o size) \o mem = h \o (size \o mem)
  BY <1>1, Associates, ZenonT(60)
<1>8. (e \o (h \o (size \o mem))) \o e = e \o ((h \o (size \o mem)) \o e)
  BY <1>1, <1>4, Associates, ZenonT(60)
<1>9. (h \o (size \o mem)) \o e = h \o ((size \o mem) \o e)
  <2>1. size \o mem \in Seq(Char)
    BY <1>3
  <2> QED
    BY <1>1, <2>1, Associates, ZenonT(60)
<1>10. (((e \o h) \o size) \o mem) \o e = e \o (h \o ((size \o mem) \o e))
  BY <1>5, <1>6, <1>7, <1>8, <1>9
<1>11. e \o (h \o ((size \o mem) \o e)) \in Seq(Char)
  <2>1. h \o ((size \o mem) \o e) \in Seq(Char)
    BY <1>1, <1>4, Joins, Zenon
  <2> QED
    BY <1>1, <2>1, Joins, Zenon
<1>12. <<Text, FTX>> \o Name \o size \o mem \o <<Text>> = (((e \o h) \o size) \o mem) \o e
  BY <1>2 DEF e
<1> QED
  BY <1>10, <1>11, <1>12 DEF e, h

LEMMA SendKeeps ==
  ASSUME IInv, ~host.short, SendFile, UNCHANGED <<setup, host>>
  PROVE  IInv'
<1>0. Types /\ (IF setup.loads THEN Loads ELSE Declines)
  BY DEF IInv
<1> DEFINE out == IF IntOf(board.size) = 0 THEN <<Text>>
                  ELSE <<Text, FTX>> \o Name \o BytesOf(IntOf(board.size)) \o board.mem \o <<Text>>
<1>1. /\ board.pc = "data" /\ board.out = <<>> /\ Len(board.mem) >= IntOf(board.size)
      /\ board' = [board EXCEPT !.pc = "restart", !.out = out]
      /\ toHost' = toHost /\ line' = line /\ held' = held
  BY DEF SendFile, SendFileOf, BoardAt, BoardGoes
<1>2. /\ setup.loads /\ board.cmd = FRX /\ host.gotENQ /\ board.prog = "bootloader"
      /\ Receiving
  BY <1>0, <1>1, ReceivingThen
<1>3. /\ board.mem \in Seq(Char) /\ FromHost \in Seq(Char) /\ board.mem \o FromHost = File
      /\ board.size = Bytes /\ FromBoard = <<>> /\ host.pc = "command"
  BY <1>0, <1>1, <1>2, OnTheWay DEF Types, Receiving
<1>4. IntOf(board.size) = Len(File) /\ BytesOf(IntOf(board.size)) = Bytes /\ Bytes \in Seq(Char)
  BY <1>3, FileBytes
<1>5. FromHost = <<>> /\ board.mem = File
  <2>1. Len(File) = Len(board.mem) + Len(FromHost) /\ Len(board.mem) \in Nat /\ Len(FromHost) \in Nat
    BY <1>3, ConcatProperties, LenProperties
  <2>2. Len(FromHost) = 0
    BY <1>1, <1>4, <2>1
  <2>3. FromHost = <<>>
    BY <1>3, <2>2, EmptySeq
  <2> QED
    BY <1>3, <2>3, ConcatEmptySeq
<1>6. out = IF Len(File) = 0 THEN <<Text>>
            ELSE <<Text>> \o (<<FTX, Text, NUL>> \o (Copy \o <<Text>>))
  <2>1. File \in Seq(Char)
    BY Constants
  <2>2. <<Text, FTX>> \o Name \o Bytes \o File \o <<Text>> =
          <<Text>> \o (<<FTX, Text, NUL>> \o (Copy \o <<Text>>))
    BY <1>4, <2>1, CopyJoined DEF Copy
  <2> QED
    BY <1>4, <1>5, <2>2
<1>7. out \in Seq(Char)
  <2>1. <<Text>> \in Seq(Char)
    BY Constants
  <2>2. <<Text, FTX>> \o Name \o Bytes \o board.mem \o <<Text>> \in Seq(Char)
    BY <1>3, <1>4, CopyJoined
  <2> QED
    BY <1>4, <2>1, <2>2
<1> HIDE DEF out
<1>8. /\ board'.out = out /\ board'.pc = "restart" /\ board'.cmd = FRX /\ board'.mem = File
  BY <1>0, <1>1, <1>2, <1>5 DEF Types
<1>9. Types'
  BY <1>0, <1>1, <1>7 DEF Types
<1>10. FromBoard' = out
  <2>1. FromBoard' = FromBoard \o out
    BY <1>0, <1>1, <1>7, <1>8, BoardSays
  <2> QED
    BY <1>3, <1>7, <2>1, ConcatEmptySeq
<1>11. FromHost' = <<>>
  BY <1>1, <1>5 DEF FromHost, Held
<1>12. Loaded'
  BY <1>8, <1>11 DEF Loaded
<1>13. <<Text>> \in Seq(Loud) /\ <<Text>> \in Seq(Quiet)
  BY Words
<1>14. Echoing'
  <2>1. CASE Len(File) = 0
    <3>1. Over(<<Text>>)'
      BY <1>3, <1>6, <1>10, <2>1 DEF Over
    <3> QED
      BY <1>13, <3>1 DEF Echoing
  <2>2. CASE Len(File) # 0
    <3>1. File # <<>>
      BY <2>2
    <3>2. FromBoard' = <<Text>> \o (<<FTX, Text, NUL>> \o (Copy \o <<Text>>))
      BY <1>6, <1>10, <2>2
    <3>3. Announced(<<Text>>)'
      BY <1>3, <1>13, <3>1, <3>2 DEF Announced, Copy, Bytes
    <3> QED
      BY <1>13, <3>3 DEF Echoing
  <2> QED
    BY <2>1, <2>2
<1> QED
  BY <1>2, <1>8, <1>9, <1>12, <1>14 DEF IInv, Loads

\* The host reads past what means nothing to the first character that does.
LEMMA QuietFirst ==
  ASSUME NEW q \in Seq(Quiet), NEW X \in Seq(Char)
  PROVE  \/ q = <<>> /\ q \o X = X
         \/ /\ Head(q \o X) \in Quiet /\ Tail(q) \in Seq(Quiet)
            /\ Tail(q \o X) = Tail(q) \o X
<1>1. q \in Seq(Char)
  BY Kinds
<1>2. CASE q = <<>>
  BY <1>2, ConcatEmptySeq
<1>3. CASE q # <<>>
  <2>1. Head(q \o X) = Head(q) /\ Tail(q \o X) = Tail(q) \o X
    BY <1>1, <1>3, FirstMoves
  <2>2. Head(q) \in Quiet /\ Tail(q) \in Seq(Quiet)
    BY <1>3, HeadTailProperties
  <2> QED
    BY <2>1, <2>2
<1> QED
  BY <1>2, <1>3

\* A command, by the character it begins with.
LEMMA CommandDoes ==
  ASSUME Types, Command, UNCHANGED <<setup, board, held>>
  PROVE  /\ host.pc = "command" /\ host.out = <<>> /\ toHost' \in Seq(Char) /\ line' = line
         /\ FromBoard # <<>> /\ FromBoard' = Tail(FromBoard)
         /\ LET c == Head(FromBoard) IN
              \/ c = ENQ /\ ~host.gotENQ
                 /\ host' = [host EXCEPT !.gotENQ = TRUE, !.out = Reply]
              \/ c = EOT /\ host' = [host EXCEPT !.pc = "exited"]
              \/ c = FRX /\ host' = [host EXCEPT !.pc = "send"]
              \/ c = FTX /\ host' = [host EXCEPT !.pc = "recv"]
              \/ c \notin {EOT, FRX, FTX} /\ ~(c = ENQ /\ ~host.gotENQ) /\ host' = host
<1>1. host.pc = "command" /\ host.out = <<>>
  BY DEF Command, HostAt
<1>2. PICK c \in Char :
        /\ Getchar(c)
        /\ host' = CASE c = ENQ /\ ~host.gotENQ ->
                          [host EXCEPT !.gotENQ = TRUE, !.out = Reply]
                     [] c = EOT -> [host EXCEPT !.pc = "exited"]
                     [] c = FRX -> [host EXCEPT !.pc = "send"]
                     [] c = FTX -> [host EXCEPT !.pc = "recv"]
                     [] OTHER   -> host
  BY DEF Command, FirstENQ
<1>3. /\ toHost' \in Seq(Char) /\ line' = line
      /\ FromBoard # <<>> /\ c = Head(FromBoard) /\ FromBoard' = Tail(FromBoard)
  BY <1>2, HostHears
<1>4. \/ c = ENQ /\ ~host.gotENQ
         /\ host' = [host EXCEPT !.gotENQ = TRUE, !.out = Reply]
      \/ c = EOT /\ host' = [host EXCEPT !.pc = "exited"]
      \/ c = FRX /\ host' = [host EXCEPT !.pc = "send"]
      \/ c = FTX /\ host' = [host EXCEPT !.pc = "recv"]
      \/ c \notin {EOT, FRX, FTX} /\ ~(c = ENQ /\ ~host.gotENQ) /\ host' = host
  BY <1>2 DEF ENQ, EOT, FRX, FTX
<1> QED
  BY <1>1, <1>3, <1>4

LEMMA Replies ==
  ASSUME Types
  PROVE  /\ Reply \in Seq(Char)
         /\ setup.loads => Reply = <<FRX>>
         /\ ~setup.loads => Reply \in Seq({ACK}) /\ Len(Reply) = 1
<1>1. /\ <<FRX>> \in Seq(Char) /\ <<ACK>> \in Seq({ACK})
      /\ Seq({ACK}) \subseteq Seq(Char)
  BY Constants, Kinds
<1>2. setup.loads => Reply = <<FRX>>
  BY DEF Reply
<1>3. ~setup.loads => Reply = <<ACK>>
  BY DEF Reply
<1> QED
  BY <1>1, <1>2, <1>3

LEMMA HostFields ==
  ASSUME Types
  PROVE  /\ \A p : [host EXCEPT !.pc = p].pc = p /\ [host EXCEPT !.pc = p].out = host.out
                  /\ [host EXCEPT !.pc = p].gotENQ = host.gotENQ
         /\ \A x : LET h == [host EXCEPT !.gotENQ = TRUE, !.out = x] IN
                  h.pc = host.pc /\ h.gotENQ /\ h.out = x
BY DEF Types

LEMMA CommandKeeps ==
  ASSUME IInv, ~host.short, Command, UNCHANGED <<setup, board, held>>
  PROVE  IInv'
<1>0. Types /\ (IF setup.loads THEN Loads ELSE Declines)
  BY DEF IInv
<1> DEFINE c == Head(FromBoard)
<1>1. /\ host.pc = "command" /\ host.out = <<>> /\ toHost' \in Seq(Char) /\ line' = line
      /\ FromBoard # <<>> /\ FromBoard' = Tail(FromBoard)
      /\ \/ c = ENQ /\ ~host.gotENQ
            /\ host' = [host EXCEPT !.gotENQ = TRUE, !.out = Reply]
         \/ c = EOT /\ host' = [host EXCEPT !.pc = "exited"]
         \/ c = FRX /\ host' = [host EXCEPT !.pc = "send"]
         \/ c = FTX /\ host' = [host EXCEPT !.pc = "recv"]
         \/ c \notin {EOT, FRX, FTX} /\ ~(c = ENQ /\ ~host.gotENQ) /\ host' = host
  BY <1>0, CommandDoes
<1> HIDE DEF c
<1>2. Types'
  <2> DEFINE H == [pc : {"command", "send", "putint", "recv", "getint", "data", "exited"},
                   out : Seq(Char), gotENQ : BOOLEAN, size : Seq(Char), saved : Seq(Char),
                   short : BOOLEAN]
  <2>1. host \in H
    BY <1>0 DEF Types
  <2>2. \A x \in Seq(Char) : [host EXCEPT !.gotENQ = TRUE, !.out = x] \in H
    BY <2>1
  <2>3. \A p \in {"exited", "send", "recv"} : [host EXCEPT !.pc = p] \in H
    BY <2>1
  <2>4. Reply \in Seq(Char)
    BY <1>0, Replies
  <2>5. host' \in H
    <3> HIDE DEF H
    <3> QED
      BY <1>1, <2>1, <2>2, <2>3, <2>4
  <2> QED
    BY <1>0, <1>1, <2>5 DEF Types
<1>3. host'.out = <<>> => FromHost' = FromHost
  BY <1>0, <1>1 DEF FromHost, Held, Types
<1>4. c \in Quiet /\ host.gotENQ => host' = host
  BY <1>1 DEF Quiet, ENQ, Text, EOT, FRX, FTX
<1>5. CASE setup.loads /\ Connecting
  <2>1. c \in Quiet /\ FromBoard' \in Seq(Quiet)
    BY <1>1, <1>5, HeadTailProperties DEF Connecting, c
  <2>2. CASE c = ENQ /\ ~host.gotENQ
    <3>1. /\ host'.gotENQ /\ host'.out = <<FRX>> /\ host'.pc = "command"
      <4>1. host' = [host EXCEPT !.gotENQ = TRUE, !.out = Reply]
        BY <1>1, <2>2 DEF ENQ, EOT, FRX, FTX
      <4>2. Reply = <<FRX>>
        BY <1>0, <1>5, Replies
      <4> QED
        BY <1>0, <1>1, <4>1, <4>2, HostFields
    <3>2. FromHost = <<>> /\ <<FRX>> \in Seq(Char)
      BY <1>5, <2>2, Constants DEF Connecting
    <3>3. FromHost' = <<>> \o <<FRX>>
      BY <1>0, <1>1, <3>1, <3>2, HostSays
    <3>4. FromHost' = <<FRX>>
      BY <3>2, <3>3, ConcatEmptySeq
    <3>5. Connecting'
      BY <1>1, <1>5, <2>1, <3>1, <3>4 DEF Connecting
    <3> QED
      BY <1>2, <1>5, <3>5 DEF IInv, Loads
  <2>3. CASE ~(c = ENQ /\ ~host.gotENQ)
    <3>1. host' = host
      BY <1>1, <2>1, <2>3 DEF Quiet, Text, ENQ, EOT, FRX, FTX
    <3>2. FromHost' = FromHost
      BY <1>1, <1>3, <3>1
    <3>3. Connecting'
      BY <1>1, <1>5, <2>1, <3>1, <3>2 DEF Connecting
    <3> QED
      BY <1>2, <1>5, <3>3 DEF IInv, Loads
  <2> QED
    BY <2>2, <2>3
<1>6. CASE setup.loads /\ board.cmd = FRX /\ host.gotENQ /\ board.prog = "bootloader" /\ Asking
  <2>1. PICK q \in Seq(Quiet) : FromBoard = q \o <<FRX, Text, NUL>>
    BY <1>1, <1>6 DEF Asking, Requested, Named, Opened
  <2>2. <<FRX, Text, NUL>> \in Seq(Char)
    BY Kinds
  <2>3. CASE q = <<>> /\ q \o <<FRX, Text, NUL>> = <<FRX, Text, NUL>>
    <3>1. FromBoard' = <<Text, NUL>> /\ c = FRX
      BY <1>1, <2>1, <2>3 DEF c
    <3>2. host' = [host EXCEPT !.pc = "send"]
      BY <1>1, <3>1 DEF FRX, ENQ, EOT, FTX
    <3>3. host'.pc = "send" /\ host'.gotENQ /\ host'.out = <<>>
      BY <1>0, <1>1, <1>6, <3>2 DEF Types
    <3>4. Asking'
      BY <1>3, <1>6, <3>1, <3>3 DEF Asking, Named
    <3> QED
      BY <1>2, <1>6, <3>3, <3>4 DEF IInv, Loads
  <2>4. CASE /\ Head(q \o <<FRX, Text, NUL>>) \in Quiet /\ Tail(q) \in Seq(Quiet)
             /\ Tail(q \o <<FRX, Text, NUL>>) = Tail(q) \o <<FRX, Text, NUL>>
    <3>1. c \in Quiet /\ FromBoard' = Tail(q) \o <<FRX, Text, NUL>>
      BY <1>1, <2>1, <2>4 DEF c
    <3>2. host' = host /\ FromHost' = FromHost
      BY <1>1, <1>3, <1>4, <1>6, <3>1
    <3>3. Requested'
      BY <1>1, <2>4, <3>1, <3>2 DEF Requested
    <3>4. Asking'
      BY <1>6, <3>2, <3>3 DEF Asking
    <3> QED
      BY <1>2, <1>6, <3>2, <3>4 DEF IInv, Loads
  <2> QED
    BY <2>2, <2>3, <2>4, QuietFirst
<1>7. CASE setup.loads /\ board.cmd = FRX /\ host.gotENQ /\ Loaded /\ Echoing
  <2>0. /\ host'.gotENQ /\ host'.out = <<>>
    BY <1>0, <1>1, <1>7 DEF Types
  <2>1. Loaded'
    BY <1>3, <1>7, <2>0 DEF Loaded
  <2>2. Echoing'
    <3>1. PICK t \in Seq(Loud) : Announced(t) \/ Over(t)
      BY <1>1, <1>7 DEF Echoing, Called, Sized, Saving
    <3>2. CASE Announced(t)
      <4> DEFINE X == <<FTX, Text, NUL>> \o (Copy \o t)
      <4>1. PICK q \in Seq(Quiet) : FromBoard = q \o X
        BY <3>2 DEF Announced
      <4>2. /\ Copy \o t \in Seq(Char) /\ X \in Seq(Char) /\ Head(X) = FTX
            /\ Tail(X) = <<Text, NUL>> \o (Copy \o t)
        <5>1. Copy \in Seq(Char) /\ t \in Seq(Char)
          BY FileBytes, Kinds
        <5>2. Copy \o t \in Seq(Char)
          BY <5>1, Joins, Zenon
        <5>3. /\ <<FTX, Text, NUL>> \in Seq(Char) /\ <<FTX, Text, NUL>> # <<>>
              /\ Head(<<FTX, Text, NUL>>) = FTX /\ Tail(<<FTX, Text, NUL>>) = <<Text, NUL>>
          BY Kinds
        <5> QED
          BY <5>2, <5>3, FirstMoves
      <4> HIDE DEF X
      <4>3. CASE q = <<>> /\ q \o X = X
        <5>1. c = FTX /\ FromBoard' = <<Text, NUL>> \o (Copy \o t)
          BY <1>1, <4>1, <4>2, <4>3 DEF c
        <5>2. host' = [host EXCEPT !.pc = "recv"]
          BY <1>1, <5>1 DEF FRX, ENQ, EOT, FTX
        <5>3. host'.pc = "recv"
          BY <1>0, <5>2 DEF Types
        <5>4. Called(t)'
          BY <5>1, <5>3 DEF Called, Copy, Bytes
        <5> QED
          BY <5>4 DEF Echoing
      <4>4. CASE /\ Head(q \o X) \in Quiet /\ Tail(q) \in Seq(Quiet)
                 /\ Tail(q \o X) = Tail(q) \o X
        <5>1. c \in Quiet /\ FromBoard' = Tail(q) \o X
          BY <1>1, <4>1, <4>4 DEF c
        <5>2. host' = host
          BY <1>4, <1>7, <5>1
        <5>3. Announced(t)'
          BY <3>2, <4>4, <5>1, <5>2 DEF Announced, X, Copy, Bytes
        <5> QED
          BY <5>3 DEF Echoing
      <4> QED
        BY <4>2, <4>3, <4>4, QuietFirst
    <3>3. CASE Over(t)
      <4>1. c \in Loud /\ FromBoard' \in Seq(Loud)
        BY <1>1, <3>3, HeadTailProperties DEF Over, c
      <4>2. host'.pc \in {"command", "exited"}
        <5>1. CASE c = EOT
          <6>1. host' = [host EXCEPT !.pc = "exited"]
            BY <1>1, <5>1 DEF ENQ, EOT, FRX, FTX
          <6> QED
            BY <1>0, <6>1, HostFields
        <5>2. CASE c = ENQ /\ ~host.gotENQ
          <6>1. host' = [host EXCEPT !.gotENQ = TRUE, !.out = Reply]
            BY <1>1, <5>2 DEF ENQ, EOT, FRX, FTX
          <6> QED
            BY <1>0, <1>1, <6>1, HostFields
        <5>3. CASE c # EOT /\ ~(c = ENQ /\ ~host.gotENQ)
          <6>1. host' = host
            BY <1>1, <4>1, <5>3 DEF Loud, Text, ENQ, EOT, FRX, FTX
          <6> QED
            BY <1>1, <6>1
        <5> QED
          BY <5>1, <5>2, <5>3
      <4>3. Over(FromBoard)'
        BY <4>2 DEF Over
      <4> QED
        BY <4>1, <4>3 DEF Echoing
    <3> QED
      BY <3>1, <3>2, <3>3
  <2> QED
    BY <1>2, <1>7, <2>0, <2>1, <2>2 DEF IInv, Loads
<1>8. CASE ~setup.loads
  <2>1. c \in Loud /\ FromBoard' \in Seq(Loud) /\ FromHost \in Seq({ACK}) /\ Declines
    BY <1>0, <1>1, <1>8, HeadTailProperties DEF Declines, c
  <2>2. host'.pc \in {"command", "exited"}
    <3>1. CASE c = EOT
      <4>1. host' = [host EXCEPT !.pc = "exited"]
        BY <1>1, <3>1 DEF ENQ, EOT, FRX, FTX
      <4> QED
        BY <1>0, <4>1, HostFields
    <3>2. CASE c = ENQ /\ ~host.gotENQ
      <4>1. host' = [host EXCEPT !.gotENQ = TRUE, !.out = Reply]
        BY <1>1, <3>2 DEF ENQ, EOT, FRX, FTX
      <4> QED
        BY <1>0, <1>1, <4>1, HostFields
    <3>3. CASE c # EOT /\ ~(c = ENQ /\ ~host.gotENQ)
      <4>1. host' = host
        BY <1>1, <2>1, <3>3 DEF Loud, Text, ENQ, EOT, FRX, FTX
      <4> QED
        BY <1>1, <4>1
    <3> QED
      BY <3>1, <3>2, <3>3
  <2>3. FromHost' \in Seq({ACK}) /\ Len(FromHost') <= IF host'.gotENQ THEN 1 ELSE 0
    <3>1. CASE host'.out = <<>>
      <4>1. FromHost' = FromHost /\ (host.gotENQ => host'.gotENQ) /\ Len(FromHost) \in Nat
        BY <1>0, <1>1, <1>3, <2>1, <3>1, LenProperties DEF Types
      <4> QED
        BY <2>1, <4>1 DEF Declines
    <3>2. CASE host'.out # <<>>
      <4>1. host'.out = Reply /\ host'.gotENQ /\ ~host.gotENQ
        BY <1>0, <1>1, <3>2 DEF Types
      <4>2. Reply \in Seq({ACK}) /\ Reply \in Seq(Char) /\ Len(Reply) = 1
        BY <1>0, <1>8, Replies
      <4>3. FromHost' = FromHost \o Reply
        BY <1>0, <1>1, <4>1, <4>2, HostSays
      <4>4. FromHost \in Seq({ACK}) /\ Len(FromHost) = 0
        BY <2>1, <4>1, LenProperties DEF Declines
      <4> QED
        BY <4>1, <4>2, <4>3, <4>4, ConcatProperties
    <3> QED
      BY <3>1, <3>2
  <2>4. Declines'
    BY <2>1, <2>2, <2>3 DEF Declines
  <2> QED
    BY <1>2, <1>8, <2>4 DEF IInv
<1>9. ~Receiving
  BY <1>1 DEF Receiving
<1> QED
  BY <1>0, <1>5, <1>6, <1>7, <1>8, <1>9 DEF Loads

LEMMA NameKeeps ==
  ASSUME IInv, ~host.short, RecvName, UNCHANGED <<setup, board, held>>
  PROVE  IInv'
<1>0. Types /\ (IF setup.loads THEN Loads ELSE Declines)
  BY DEF IInv
<1>1. PICK c \in Char :
        /\ Getchar(c) /\ host.out = <<>>
        /\ host' = IF c # NUL THEN host
                   ELSE IF host.pc = "send" THEN [host EXCEPT !.pc = "putint"]
                   ELSE [host EXCEPT !.pc = "getint", !.size = <<>>]
  BY DEF RecvName, RecvNameUpTo, HostAt
<1>2. /\ toHost' \in Seq(Char) /\ line' = line
      /\ FromBoard # <<>> /\ c = Head(FromBoard) /\ FromBoard' = Tail(FromBoard)
  BY <1>0, <1>1, HostHears
<1>3. Types'
  BY <1>0, <1>1, <1>2 DEF Types
<1>4. host'.out = <<>> /\ host'.gotENQ = host.gotENQ /\ FromHost' = FromHost
  BY <1>0, <1>1, <1>2 DEF Types, FromHost, Held
<1>5. host.pc \in {"send", "recv"}
  BY DEF RecvName, RecvNameUpTo, HostAt
<1>6. setup.loads /\ board.cmd = FRX /\ host.gotENQ
  BY <1>0, <1>5 DEF Loads, Connecting, Declines
<1>7. CASE host.pc = "send"
  <2>1. board.prog = "bootloader" /\ Asking /\ FromBoard \in {<<Text, NUL>>, <<NUL>>}
    BY <1>0, <1>6, <1>7
       DEF Loads, Connecting, Asking, Requested, Named, Opened, Receiving, Echoing, Announced,
           Called, Sized, Saving, Over
  <2>2. CASE FromBoard = <<Text, NUL>>
    <3>1. c = Text /\ FromBoard' = <<NUL>>
      BY <1>2, <2>2
    <3>2. host' = host
      BY <1>1, <3>1 DEF Text, NUL
    <3>3. Asking'
      BY <1>4, <1>7, <2>1, <3>1, <3>2 DEF Asking, Named
    <3> QED
      BY <1>3, <1>6, <2>1, <3>2, <3>3 DEF IInv, Loads
  <2>3. CASE FromBoard = <<NUL>>
    <3>1. c = NUL /\ FromBoard' = <<>>
      BY <1>2, <2>3
    <3>2. host'.pc = "putint"
      BY <1>0, <1>1, <1>7, <3>1, HostFields
    <3>3. Asking'
      BY <1>4, <2>1, <3>1, <3>2 DEF Asking, Opened
    <3> QED
      BY <1>3, <1>4, <1>6, <2>1, <3>3 DEF IInv, Loads
  <2> QED
    BY <2>1, <2>2, <2>3
<1>8. CASE host.pc = "recv"
  <2>1. Loaded /\ Echoing
    BY <1>0, <1>6, <1>8
       DEF Loads, Connecting, Asking, Requested, Named, Opened, Receiving
  <2>2. PICK t \in Seq(Loud) : Called(t)
    BY <1>8, <2>1 DEF Echoing, Announced, Sized, Saving, Over
  <2>3. Copy \o t \in Seq(Char)
    <3>1. Copy \in Seq(Char) /\ t \in Seq(Char)
      BY FileBytes, Kinds
    <3> QED
      BY <3>1, Joins, Zenon
  <2>4. Loaded'
    BY <1>4, <2>1 DEF Loaded
  <2>5. Echoing'
    <3>1. CASE FromBoard = <<Text, NUL>> \o (Copy \o t)
      <4>1. /\ <<Text, NUL>> \in Seq(Char) /\ <<Text, NUL>> # <<>> /\ Head(<<Text, NUL>>) = Text
            /\ Tail(<<Text, NUL>>) = <<NUL>>
        BY Constants
      <4>2. c = Text /\ FromBoard' = <<NUL>> \o (Copy \o t)
        BY <1>2, <2>3, <3>1, <4>1, FirstMoves
      <4>3. host' = host
        BY <1>1, <4>2 DEF Text, NUL
      <4>4. Called(t)'
        BY <1>8, <4>2, <4>3 DEF Called, Copy, Bytes
      <4> QED
        BY <4>4 DEF Echoing
    <3>2. CASE FromBoard = <<NUL>> \o (Copy \o t)
      <4>1. /\ <<NUL>> \in Seq(Char) /\ <<NUL>> # <<>> /\ Head(<<NUL>>) = NUL
            /\ Tail(<<NUL>>) = <<>>
        BY Constants
      <4>2. c = NUL /\ FromBoard' = <<>> \o (Copy \o t)
        BY <1>2, <2>3, <3>2, <4>1, FirstMoves
      <4>3. host' = [host EXCEPT !.pc = "getint", !.size = <<>>]
        BY <1>1, <1>8, <4>2
      <4>4. host'.pc = "getint" /\ host'.size = <<>>
        BY <1>0, <4>3 DEF Types
      <4>5. Sized(t)'
        BY <4>2, <4>4, Constants DEF Sized, Copy, Bytes
      <4> QED
        BY <4>5 DEF Echoing
    <3> QED
      BY <2>2, <3>1, <3>2 DEF Called
  <2> QED
    BY <1>3, <1>4, <1>6, <2>4, <2>5 DEF IInv, Loads
<1> QED
  BY <1>5, <1>7, <1>8

\* The line is empty when the host answers, and has room for an integer.
LEMMA PutintKeeps ==
  ASSUME IInv, ~host.short, Putint, UNCHANGED <<setup, board, held>>
  PROVE  IInv'
<1>0. Types /\ (IF setup.loads THEN Loads ELSE Declines)
  BY DEF IInv
<1>1. host.pc = "putint" /\ host.out = <<>> /\ toHost' = toHost
  BY DEF Putint, HostAt
<1>2. /\ setup.loads /\ board.cmd = FRX /\ host.gotENQ /\ board.prog = "bootloader"
      /\ Asking /\ FromBoard = <<>>
  BY <1>0, <1>1
     DEF Loads, Declines, Connecting, Asking, Requested, Named, Opened, Receiving, Echoing,
         Announced, Called, Sized, Saving, Over
<1>3. FromHost = <<>> /\ held = None /\ line = <<>>
  BY <1>0, <1>2, OnTheWay DEF Asking
<1>4. /\ line' \in Seq(Char) /\ host'.out \in Seq(Char) /\ line' \o host'.out = Copy
      /\ host' = [host EXCEPT !.pc = "command", !.out = host'.out]
  <2>0. File \in Seq(Char) /\ Bytes \in Seq(Char) /\ Copy \in Seq(Char) /\ Len(Bytes) = Width
    BY FileBytes, Constants
  <2>1. CASE setup.host = "console"
    <3>1. /\ line' = line \o SubSeq(Bytes, 1, Min({Width, Buffer - Len(line)}))
          /\ host' = [host EXCEPT !.pc = "command", !.out = File]
      BY <2>1 DEF Putint, Bytes
    <3>2. Min({Width, Buffer - Len(line)}) = Width
      <4>1. Buffer - Len(line) = Buffer /\ Width \in Nat /\ Buffer \in Nat /\ Width <= Buffer
        BY <1>3, Constants
      <4> QED
        BY <4>1 DEF Min
    <3>3. line' = Bytes
      BY <1>3, <2>0, <3>1, <3>2, SubSeqFull, ConcatEmptySeq
    <3>4. host'.out = File
      BY <1>0, <3>1 DEF Types
    <3> QED
      BY <2>0, <3>1, <3>3, <3>4 DEF Copy
  <2>2. CASE setup.host # "console"
    <3>1. line' = <<>> /\ host' = [host EXCEPT !.pc = "command", !.out = Copy]
      BY <1>3, <2>2 DEF Putint, Copy, Bytes
    <3>2. host'.out = Copy
      BY <1>0, <3>1 DEF Types
    <3> QED
      BY <2>0, <3>1, <3>2, ConcatEmptySeq
  <2> QED
    BY <2>1, <2>2
<1>5. FromHost' = Copy /\ FromBoard' = <<>>
  BY <1>1, <1>2, <1>3, <1>4, FileBytes, ConcatEmptySeq DEF FromBoard, FromHost, Held
<1>6. Types'
  BY <1>0, <1>1, <1>4 DEF Types
<1>7. host'.pc = "command" /\ host'.gotENQ
  BY <1>0, <1>2, <1>4 DEF Types
<1>8. Receiving'
  <2>1. board.size = <<>> /\ board.pc = "size"
    BY <1>2 DEF Asking
  <2>2. Len(<<>>) < Width /\ <<>> \o Copy = Copy
    BY FileBytes, Constants, ConcatEmptySeq
  <2> QED
    BY <1>5, <1>7, <2>1, <2>2 DEF Receiving, Copy, Bytes
<1> QED
  BY <1>2, <1>6, <1>7, <1>8 DEF IInv, Loads

---------------------------------------------------------------------------
(* The copy at the host *)

LEMMA Transfers ==
  ASSUME IInv, ~host.short, host.pc \in {"getint", "data"}
  PROVE  /\ Types /\ setup.loads /\ board.cmd = FRX /\ host.gotENQ /\ Loaded
         /\ host.pc = "getint" => \E t \in Seq(Loud) : Sized(t)
         /\ host.pc = "data" => \E t \in Seq(Loud) : Saving(t)
<1>1. Types /\ (IF setup.loads THEN Loads ELSE Declines)
  BY DEF IInv
<1>2. setup.loads /\ board.cmd = FRX /\ host.gotENQ /\ Loaded /\ Echoing
  BY <1>1 DEF Loads, Declines, Connecting, Asking, Requested, Named, Opened, Receiving
<1> QED
  BY <1>1, <1>2 DEF Echoing, Announced, Called, Sized, Saving, Over

LEMMA TransferKeeps ==
  ASSUME setup.loads, board.cmd = FRX, Loaded, FromHost' = FromHost,
         UNCHANGED <<setup, board, held>>, Types', host'.gotENQ, Echoing'
  PROVE  IInv'
<1>1. Loaded'
  BY DEF Loaded
<1> QED
  BY <1>1 DEF IInv, Loads

LEMMA GetintWholeKeeps ==
  ASSUME IInv, ~host.short, GetintWhole, UNCHANGED <<setup, board, held>>
  PROVE  IInv'
<1>0. /\ Types /\ setup.loads /\ board.cmd = FRX /\ host.gotENQ /\ Loaded
      /\ host.pc = "getint" /\ host.out = <<>> /\ setup.host = "testbench"
  BY Transfers DEF GetintWhole, HostAt
<1>1. PICK t \in Seq(Loud) : Sized(t)
  BY <1>0, Transfers
<1>2. PICK c \in Char :
        /\ Getchar(c)
        /\ host' = [host EXCEPT !.size = Append(host.size, c), !.saved = <<>>,
                       !.pc = IF Len(Append(host.size, c)) = Width THEN "data" ELSE "getint"]
  BY DEF GetintWhole
<1> DEFINE got == Append(host.size, c)
<1>3. /\ toHost' \in Seq(Char) /\ line' = line
      /\ FromBoard # <<>> /\ c = Head(FromBoard) /\ FromBoard' = Tail(FromBoard)
  BY <1>0, <1>2, HostHears
<1>4. /\ host.size \in Seq(Char) /\ FromBoard \in Seq(Char) /\ t \in Seq(Char)
      /\ File \in Seq(Char) /\ Bytes \in Seq(Char) /\ Len(Bytes) = Width
  BY <1>0, OnTheWay, Kinds, FileBytes, Constants DEF Types
<1>5. got \in Seq(Char) /\ FromBoard' \in Seq(Char) /\ got \o FromBoard' = host.size \o FromBoard
  <2>1. host.size \in Seq(Char) /\ FromBoard \in Seq(Char)
    BY <1>4
  <2>2. /\ Append(host.size, Head(FromBoard)) \in Seq(Char) /\ Tail(FromBoard) \in Seq(Char)
        /\ Append(host.size, Head(FromBoard)) \o Tail(FromBoard) = host.size \o FromBoard
    BY <1>3, <2>1, PutMoves
  <2> QED
    BY <1>3, <2>2
<1>6. Len(got) = Len(host.size) + 1 /\ Len(host.size) \in Nat /\ Len(host.size) < Width
  BY <1>1, <1>4, AppendProperties, LenProperties DEF Sized
<1>7. /\ host'.size = got /\ host'.saved = <<>> /\ host'.out = <<>> /\ host'.gotENQ
      /\ host'.pc = IF Len(got) = Width THEN "data" ELSE "getint"
  BY <1>0, <1>2 DEF Types
<1>8. Types'
  BY <1>0, <1>2, <1>3, <1>5 DEF Types
<1>9. FromHost' = FromHost
  BY <1>0, <1>3, <1>7 DEF FromHost, Held
<1>10. File \o t \in Seq(Char) /\ Bytes \o (File \o t) = Copy \o t
  <2>1. File \o t \in Seq(Char)
    BY <1>4, Joins, Zenon
  <2>2. (Bytes \o File) \o t = Bytes \o (File \o t)
    BY <1>4, Associates, Zenon
  <2> QED
    BY <2>1, <2>2 DEF Copy
<1>11. got \o FromBoard' = Bytes \o (File \o t)
  BY <1>1, <1>5, <1>10 DEF Sized
<1>12. Echoing'
  <2>1. CASE Len(got) = Width
    <3>1. got = Bytes /\ FromBoard' = File \o t
      BY <1>4, <1>5, <1>10, <1>11, <2>1, SameStart
    <3>2. <<>> \o FromBoard' = File \o t /\ Len(<<>>) <= Len(File)
      BY <1>4, <1>5, <3>1, ConcatEmptySeq, LenProperties
    <3>3. Saving(t)'
      BY <1>7, <2>1, <3>1, <3>2 DEF Saving, Bytes
    <3> QED
      BY <3>3 DEF Echoing
  <2>2. CASE Len(got) # Width
    <3>1. Len(got) < Width
      BY <1>6, <2>2, Constants
    <3>2. host'.size \o FromBoard' = Copy \o t
      BY <1>7, <1>10, <1>11
    <3>3. Sized(t)'
      BY <1>0, <1>7, <2>2, <3>1, <3>2 DEF Sized, Copy, Bytes
    <3> QED
      BY <3>3 DEF Echoing
  <2> QED
    BY <2>1, <2>2
<1> QED
  BY <1>0, <1>7, <1>8, <1>9, <1>12, TransferKeeps

\* The console's read gives it the whole integer, or comes short.
LEMMA GetintAtOnceKeeps ==
  ASSUME IInv, ~host.short, ~host'.short, GetintAtOnce, UNCHANGED <<setup, board, held>>
  PROVE  IInv'
<1>0. /\ Types /\ setup.loads /\ board.cmd = FRX /\ host.gotENQ /\ Loaded
      /\ host.pc = "getint" /\ host.out = <<>> /\ setup.host = "console" /\ line' = line
  BY Transfers DEF GetintAtOnce, HostAt
<1>1. PICK t \in Seq(Loud) : Sized(t)
  BY <1>0, Transfers
<1>2. PICK k \in 1 .. Width : \E rest \in [1 .. Width - k -> Garbage] :
        /\ k <= Len(toHost)
        /\ toHost' = SubSeq(toHost, k + 1, Len(toHost))
        /\ host' = [host EXCEPT !.size = SubSeq(toHost, 1, k) \o rest, !.saved = <<>>,
                                !.pc = "data", !.short = @ \/ k < Width]
  BY DEF GetintAtOnce
<1>3. PICK rest \in [1 .. Width - k -> Garbage] :
        /\ k <= Len(toHost)
        /\ toHost' = SubSeq(toHost, k + 1, Len(toHost))
        /\ host' = [host EXCEPT !.size = SubSeq(toHost, 1, k) \o rest, !.saved = <<>>,
                                !.pc = "data", !.short = @ \/ k < Width]
  BY <1>2
<1>4. k = Width
  <2>1. host'.short = (host.short \/ k < Width)
    BY <1>0, <1>3 DEF Types
  <2>2. ~(k < Width)
    BY <2>1, Zenon
  <2>3. k \in 1 .. Width
    OBVIOUS
  <2> QED
    BY <2>2, <2>3, Constants
<1>5. rest = <<>>
  <2>1. rest \in [1 .. 0 -> Garbage]
    BY <1>3, <1>4, Constants
  <2> QED
    BY <2>1
<1>6. /\ toHost \in Seq(Char) /\ Width \in 0 .. Len(toHost) /\ board.out \in Seq(Char)
      /\ t \in Seq(Char) /\ File \in Seq(Char) /\ Bytes \in Seq(Char) /\ Len(Bytes) = Width
      /\ FromBoard \in Seq(Char)
  <2>1. Len(toHost) \in Nat
    BY <1>0, LenProperties DEF Types
  <2> QED
    BY <1>0, <1>3, <1>4, <2>1, OnTheWay, Kinds, FileBytes, Constants DEF Types
<1> DEFINE first == SubSeq(toHost, 1, Width)
           after == SubSeq(toHost, Width + 1, Len(toHost))
<1>7. /\ first \in Seq(Char) /\ after \in Seq(Char) /\ Len(first) = Width
      /\ toHost = first \o after
  BY <1>6, SplitAt
<1>8. first \o <<>> = first
  BY <1>7, ConcatEmptySeq
<1>9. /\ toHost' = after
      /\ host' = [host EXCEPT !.size = first, !.saved = <<>>, !.pc = "data", !.short = @ \/ k < Width]
  BY <1>3, <1>4, <1>5, <1>8
<1>10. /\ host'.size = first /\ host'.saved = <<>> /\ host'.out = <<>> /\ host'.gotENQ
       /\ host'.pc = "data"
  BY <1>0, <1>9 DEF Types
<1>11. Types'
  BY <1>0, <1>7, <1>9 DEF Types
<1>12. FromHost' = FromHost
  BY <1>0, <1>10 DEF FromHost, Held
<1>13. FromBoard' = after \o board.out
  BY <1>9 DEF FromBoard
<1> HIDE DEF first, after
<1>14. File \o t \in Seq(Char) /\ Bytes \o (File \o t) = Copy \o t
  <2>1. File \o t \in Seq(Char)
    BY <1>6, Joins, Zenon
  <2>2. (Bytes \o File) \o t = Bytes \o (File \o t)
    BY <1>6, Associates, ZenonT(60)
  <2> QED
    BY <2>1, <2>2 DEF Copy
<1>15. after \o board.out \in Seq(Char) /\ first \o (after \o board.out) = FromBoard
  <2>1. after \o board.out \in Seq(Char)
    BY <1>6, <1>7, Joins, Zenon
  <2>2. (first \o after) \o board.out = first \o (after \o board.out)
    <3>1. first \in Seq(Char) /\ after \in Seq(Char) /\ board.out \in Seq(Char)
      BY <1>6, <1>7
    <3> QED
      BY <3>1, Associates, Zenon
  <2> QED
    BY <1>7, <2>1, <2>2 DEF FromBoard
<1>16. FromBoard = Copy \o t
  BY <1>0, <1>1, <1>6, ConcatEmptySeq DEF Sized
<1>17. first \o (after \o board.out) = Bytes \o (File \o t)
  BY <1>14, <1>15, <1>16
<1>18. first = Bytes /\ after \o board.out = File \o t
  <2>1. first \in Seq(Char) /\ Len(first) = Len(Bytes)
    BY <1>6, <1>7
  <2>2. Bytes \in Seq(Char) /\ after \o board.out \in Seq(Char) /\ File \o t \in Seq(Char)
    BY <1>6, <1>14, <1>15
  <2> QED
    BY <1>17, <2>1, <2>2, SameStart
<1>19. <<>> \o FromBoard' = File \o t /\ Len(<<>>) <= Len(File)
  BY <1>6, <1>13, <1>14, <1>18, ConcatEmptySeq, LenProperties
<1>20. Saving(t)'
  BY <1>10, <1>18, <1>19 DEF Saving, Bytes
<1>21. Echoing'
  BY <1>20 DEF Echoing
<1> QED
  BY <1>0, <1>10, <1>11, <1>12, <1>21, TransferKeeps

LEMMA SaveKeeps ==
  ASSUME IInv, ~host.short, SaveData, UNCHANGED <<setup, board, held>>
  PROVE  IInv'
<1>0. /\ Types /\ setup.loads /\ board.cmd = FRX /\ host.gotENQ /\ Loaded
      /\ host.pc = "data" /\ host.out = <<>> /\ Len(host.saved) < IntOf(host.size)
  BY Transfers DEF SaveData, HostAt
<1>1. PICK t \in Seq(Loud) : Saving(t)
  BY <1>0, Transfers
<1>2. PICK c \in Char : Getchar(c) /\ host' = [host EXCEPT !.saved = Append(@, c)]
  BY DEF SaveData
<1> DEFINE got == Append(host.saved, c)
<1>3. /\ toHost' \in Seq(Char) /\ line' = line
      /\ FromBoard # <<>> /\ c = Head(FromBoard) /\ FromBoard' = Tail(FromBoard)
  BY <1>0, <1>2, HostHears
<1>4. host.saved \in Seq(Char) /\ FromBoard \in Seq(Char) /\ IntOf(Bytes) = Len(File)
  BY <1>0, OnTheWay, FileBytes DEF Types
<1>5. got \in Seq(Char) /\ got \o FromBoard' = host.saved \o FromBoard
  <2>1. host.saved \in Seq(Char) /\ FromBoard \in Seq(Char)
    BY <1>4
  <2>2. /\ Append(host.saved, Head(FromBoard)) \in Seq(Char)
        /\ Append(host.saved, Head(FromBoard)) \o Tail(FromBoard) = host.saved \o FromBoard
    BY <1>3, <2>1, PutMoves
  <2> QED
    BY <1>3, <2>2
<1>6. Len(got) <= Len(File)
  <2>1. Len(got) = Len(host.saved) + 1 /\ Len(host.saved) \in Nat /\ Len(File) \in Nat
    BY <1>4, AppendProperties, LenProperties, Constants
  <2>2. Len(host.saved) < Len(File)
    BY <1>0, <1>1, <1>4 DEF Saving
  <2> QED
    BY <2>1, <2>2
<1>7. /\ host'.size = host.size /\ host'.saved = got /\ host'.out = <<>> /\ host'.gotENQ
      /\ host'.pc = "data"
  BY <1>0, <1>2 DEF Types
<1>8. Types'
  BY <1>0, <1>2, <1>3, <1>5 DEF Types
<1>9. FromHost' = FromHost
  BY <1>0, <1>3, <1>7 DEF FromHost, Held
<1>10. Saving(t)'
  BY <1>1, <1>5, <1>6, <1>7 DEF Saving, Bytes
<1>11. Echoing'
  BY <1>10 DEF Echoing
<1> QED
  BY <1>0, <1>7, <1>8, <1>9, <1>11, TransferKeeps

LEMMA SavedAll ==
  ASSUME Types, NEW t \in Seq(Loud), Saving(t), Len(host.saved) >= IntOf(host.size)
  PROVE  host.saved = File /\ FromBoard = t
<1>1. /\ host.saved \in Seq(Char) /\ FromBoard \in Seq(Char) /\ IntOf(Bytes) = Len(File)
      /\ t \in Seq(Char) /\ File \in Seq(Char)
  BY OnTheWay, FileBytes, Kinds, Constants DEF Types
<1>2. Len(host.saved) = Len(File)
  BY <1>1, LenProperties DEF Saving
<1> QED
  BY <1>1, <1>2, SameStart DEF Saving

LEMMA CloseKeeps ==
  ASSUME IInv, ~host.short, CloseFile, UNCHANGED <<setup, board, held>>
  PROVE  IInv'
<1>0. /\ Types /\ setup.loads /\ board.cmd = FRX /\ host.gotENQ /\ Loaded
      /\ host.pc = "data" /\ host.out = <<>> /\ Len(host.saved) >= IntOf(host.size)
      /\ host' = [host EXCEPT !.pc = "command"] /\ toHost' = toHost /\ line' = line
  BY Transfers DEF CloseFile, HostAt
<1>1. PICK t \in Seq(Loud) : Saving(t)
  BY <1>0, Transfers
<1>2. host'.pc = "command" /\ host'.out = <<>> /\ host'.gotENQ
  BY <1>0 DEF Types
<1>3. FromBoard' = t
  BY <1>0, <1>1, SavedAll DEF FromBoard
<1>4. Over(t)'
  BY <1>2, <1>3 DEF Over
<1>5. Echoing'
  BY <1>4 DEF Echoing
<1>6. FromHost' = FromHost
  BY <1>0, <1>2 DEF FromHost, Held
<1>7. Types'
  BY <1>0 DEF Types
<1> QED
  BY <1>0, <1>2, <1>5, <1>6, <1>7, TransferKeeps

---------------------------------------------------------------------------
(* The theorems *)

\* A read that came short stays on record.
Recorded == "short" \in DOMAIN host

LEMMA StaysShort ==
  ASSUME Recorded, [Next]_vars
  PROVE  Recorded' /\ (host.short => host'.short)
<1>1. CASE host' = host
  BY <1>1 DEF Recorded
<1>2. CASE \E x : host' = [host EXCEPT !.out = x]
  BY <1>2 DEF Recorded
<1>3. CASE Command
  BY <1>3 DEF Command, Recorded, ENQ, EOT, FRX, FTX
<1>4. CASE RecvName
  BY <1>4 DEF RecvName, RecvNameUpTo, Recorded
<1>5. CASE Putint
  BY <1>5 DEF Putint, Recorded
<1>6. CASE GetintWhole
  BY <1>6 DEF GetintWhole, Recorded
<1>7. CASE GetintAtOnce
  BY <1>7 DEF GetintAtOnce, Recorded
<1>8. CASE SaveData
  BY <1>8 DEF SaveData, Recorded
<1>9. CASE CloseFile
  BY <1>9 DEF CloseFile, Recorded
<1>10. CASE HostPutc
  BY <1>2, <1>10 DEF HostPutc
<1> QED
  BY <1>1, <1>3, <1>4, <1>5, <1>6, <1>7, <1>8, <1>9, <1>10 DEF Next, Board, Arrive, Host, vars

LEMMA Inductive ==
  ASSUME IInv, Recorded, [Next]_vars
  PROVE  IInv'
<1> SUFFICES ASSUME ~host'.short PROVE IInv'
  BY DEF IInv
<1>1. ~host.short
  BY StaysShort
<1>2. CASE Board
  <2>1. UNCHANGED <<setup, host>>
    BY <1>2 DEF Board
  <2> QED
    BY <1>1, <1>2, <2>1, PutcKeeps, UartInitKeeps, TransmitKeeps, ReceiveKeeps, AnswerKeeps,
       SizeKeeps, DataKeeps, SendKeeps, RestartKeeps DEF Board
<1>3. CASE Arrive
  BY <1>1, <1>3, ArriveKeeps
<1>4. CASE Host
  <2>1. UNCHANGED <<setup, board, held>>
    BY <1>4 DEF Host
  <2> QED
    BY <1>1, <1>4, <2>1, HostPutcKeeps, CommandKeeps, NameKeeps, PutintKeeps, GetintWholeKeeps,
       GetintAtOnceKeeps, SaveKeeps, CloseKeeps DEF Host
<1>5. CASE UNCHANGED vars
  <2>1. Types /\ (IF setup.loads THEN Loads ELSE Declines) /\ Types' /\ Unnoticed
    BY <1>1, <1>5 DEF IInv, vars, Types, Unnoticed, FromBoard, FromHost, Held
  <2> QED
    BY <2>1, UnnoticedKeeps
<1> QED
  BY <1>2, <1>3, <1>4, <1>5 DEF Next

LEMMA Always == Spec => [](IInv /\ Recorded)
<1>1. Init => IInv /\ Recorded
  BY Initially DEF Init, Recorded
<1>2. IInv /\ Recorded /\ [Next]_vars => (IInv /\ Recorded)'
  BY Inductive, StaysShort
<1> QED
  BY <1>1, <1>2, PTL DEF Spec

\* Whatever file the host sends, of however many characters, and whichever of the two
\* hosts it is: the program that runs after uart_recvfile is that file.
THEOREM LoadsTheFile == Spec => []FirmwareLoaded
<1>1. IInv => FirmwareLoaded
  <2> SUFFICES ASSUME IInv, ~host.short, board.prog = "firmware", board.cmd = FRX
               PROVE  board.mem = File
    BY DEF FirmwareLoaded
  <2>1. setup.loads /\ Loads
    BY DEF IInv, Declines
  <2> QED
    BY <2>1 DEF Loads, Connecting, Loaded, FRX, NUL
<1> QED
  BY <1>1, Always, PTL

\* The copy uart_sendfile sends back arrives as the file it was: what console.c and the
\* testbench have saved when they close it is the whole of it.
THEOREM EchoesTheFile == Spec => []EchoWhole
<1>1. IInv => EchoWhole
  <2> SUFFICES ASSUME IInv, ~host.short, host.pc = "data", Len(host.saved) >= IntOf(host.size)
               PROVE  host.saved = File
    BY DEF EchoWhole
  <2>1. Types /\ \E t \in Seq(Loud) : Saving(t)
    BY Transfers
  <2> QED
    BY <2>1, SavedAll
<1> QED
  BY <1>1, Always, PTL

\* A short read of cnsl_getint cannot have been of anything but the size of the copy:
\* the board has the file by then, of whatever length.
THEOREM SparesTheProgram == Spec => ShortReadSparesProgram
<1>1. ASSUME IInv, [Next]_vars, ~host.short, host'.short
      PROVE  board.cmd = FRX /\ board.mem = File
  <2>1. CASE GetintAtOnce
    <3>1. host.pc = "getint"
      BY <2>1 DEF GetintAtOnce, HostAt
    <3> QED
      BY <1>1, <3>1, Transfers DEF Loaded
  <2>2. CASE ~GetintAtOnce
    <3>1. Types
      BY <1>1 DEF IInv
    <3>2. host'.short = host.short
      BY <1>1, <2>2, <3>1
         DEF Types, Next, Board, Arrive, Host, vars, HostPutc, Command, RecvName, RecvNameUpTo,
             Putint, GetintWhole, SaveData, CloseFile
    <3> QED
      BY <1>1, <3>2
  <2> QED
    BY <2>1, <2>2
<1>2. IInv /\ [Next]_vars =>
        [~host.short /\ host'.short => board.cmd = FRX /\ board.mem = File]_vars
  BY <1>1
<1> QED
  BY <1>2, Always, PTL DEF Spec, ShortReadSparesProgram

\* The board's receiver holds one character and nothing tells the host to wait: nothing
\* is lost all the same, for a second character is on the way only when the board reads.
THEOREM NeverOverwritten == Spec => NothingOverwritten
<1>1. IInv => [Arrive /\ ~host.short => held = None]_vars
  BY NoneLost
<1> QED
  BY <1>1, Always, PTL DEF NothingOverwritten

=============================================================================

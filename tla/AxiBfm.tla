------------------------------- MODULE AxiBfm -------------------------------
(***************************************************************************)
(* The AXI bus functional models (axi.py): a master that turns reads and   *)
(* writes of any address and length into bursts of consecutive addresses,  *)
(* a memory that serves them, and between the two the five channels.       *)
(*                                                                         *)
(* The processes of axi.py hand work on through queues.  Those that wait   *)
(* for a queue run between two edges, each an action here; those of a      *)
(* channel run at the edges, and since either side may be paused for any   *)
(* time the channels take their edges one by one.                          *)
(***************************************************************************)
EXTENDS Integers, Sequences, FiniteSetsExt, SequencesExt

CONSTANTS
  BW,             \* bw: bytes in a word
  Page,           \* 0x1000: no burst goes over a multiple of it
  MaxBurst,       \* max_burst_len: the most beats of a burst
  NumIds,         \* 2^len(m_axi_awid), the same for arid
  Size,           \* size of the memory in bytes
  Calls,          \* what the test may ask for: [op, addr, len, num_bytes]
  NumCalls        \* bound: how many times it asks

ASSUME SizesAssumption ==
  /\ {BW, Page, MaxBurst, NumIds, Size} \subseteq Nat \ {0}
  /\ Page % BW = 0 /\ Size % BW = 0 /\ NumCalls \in Nat
ASSUME CallsAssumption ==
  \A c \in Calls : /\ c.op \in {"read", "write"} /\ c.addr \in Nat
                   /\ {c.len, c.num_bytes} \subseteq Nat \ {0} /\ BW % c.num_bytes = 0

VARIABLES
  calls,               \* (history) what was asked for, in order
  write_command_queue, read_command_queue,      \* numbers of calls
  cur_write_id, cur_read_id,
  int_write_resp_command_queue, int_read_resp_command_queue,
  in_flight_operations,
  write_resp_queue, read_data_queue,
  chan,                \* the channels: aw and w, b, ar, r
  served,              \* beats the memory has written of the burst it is at
  mem,
  since                \* (history) for each call, the writes reported done before it

queues == <<write_command_queue, read_command_queue>>
ids    == <<cur_write_id, cur_read_id>>
resps  == <<int_write_resp_command_queue, int_read_resp_command_queue>>
done   == <<write_resp_queue, read_data_queue>>
ram    == <<served, mem>>
asked  == <<calls, since>>
vars   == <<asked, queues, ids, resps, in_flight_operations, done, chan, ram>>

Channels == {"aw", "w", "b", "ar", "r"}
Lane     == 0 .. BW - 1
Nothing  == [nothing |-> TRUE]

\* Byte j of what call number n writes; the memory begins with zeroes.
Byte(n, j) == <<n, j>>
Zero       == Byte(0, 0)

\* An interface: the queue it takes from, the signals it drives, and the queue at the
\* other end.
Idling == [queue |-> <<>>, signals |-> Nothing, valid |-> FALSE, sink |-> <<>>]

Init ==
  /\ calls = <<>> /\ since = <<>>
  /\ write_command_queue = <<>> /\ read_command_queue = <<>>
  /\ cur_write_id = 0 /\ cur_read_id = 0
  /\ int_write_resp_command_queue = <<>> /\ int_read_resp_command_queue = <<>>
  /\ in_flight_operations = 0
  /\ write_resp_queue = <<>> /\ read_data_queue = <<>>
  /\ chan = [c \in Channels |-> Idling]
  /\ served = 0 /\ mem = [a \in 0 .. Size - 1 |-> Zero]

idle == write_command_queue = <<>> /\ read_command_queue = <<>> /\ in_flight_operations = 0

---------------------------------------------------------------------------
(* The test asks *)

Ask(c) ==
  /\ Len(calls) < NumCalls
  /\ calls' = Append(calls, c)
  /\ since' = Append(since, Len(write_resp_queue))
  /\ UNCHANGED <<ids, resps, in_flight_operations, done, chan, ram>>

init_write(c) ==
  /\ c.op = "write" /\ Ask(c)
  /\ write_command_queue' = Append(write_command_queue, Len(calls'))
  /\ UNCHANGED read_command_queue

init_read(c) ==
  /\ c.op = "read" /\ Ask(c)
  /\ read_command_queue' = Append(read_command_queue, Len(calls'))
  /\ UNCHANGED write_command_queue

---------------------------------------------------------------------------
(* How a call is cut into beats and bursts *)

AlignedAddr(c) == (c.addr \div c.num_bytes) * c.num_bytes
Cycles(c)      == (c.len + c.num_bytes - 1 + (c.addr % c.num_bytes)) \div c.num_bytes

\* The lanes of beat k: all that num_bytes covers, but for those before the first byte
\* and behind the last one.
LaneOffset(c, k)  == (AlignedAddr(c) + k * c.num_bytes) % BW
StartLane(c, k) == IF k = 0 THEN c.addr % BW ELSE LaneOffset(c, k)
StopLane(c, k)  == IF k = Cycles(c) - 1 THEN ((c.addr + c.len - 1) % BW) + 1
                                        ELSE LaneOffset(c, k) + c.num_bytes

\* How many bytes go before beat k.
Before(c, k) == IF k = 0 THEN 0 ELSE k * c.num_bytes - (c.addr % c.num_bytes)

CeilDiv(a, b) == (a + b - 1) \div b

BurstLengthAnywhere(c, k) == Min({Cycles(c) - k, MaxBurst})   \* mutation: no 4k align

\* The length of a burst that begins at beat k.
BurstLength(c, k) ==
  LET most == Min({Cycles(c) - k, MaxBurst})
      here == AlignedAddr(c) + k * c.num_bytes
  IN  CeilDiv(Min({most * c.num_bytes, Page - (here % Page)}), c.num_bytes)

\* The bursts of c, as the beat each begins at and its length.
Bursts(c) ==
  LET from[k \in 0 .. Cycles(c)] ==
        IF k = Cycles(c) THEN <<>>
        ELSE <<[first |-> k, length |-> BurstLength(c, k)]>> \o from[k + BurstLength(c, k)]
  IN  from[0]

\* A burst as it goes over an address channel: bursts take the ids in turn.
Address(c, id, i) ==
  LET b == Bursts(c)[i] IN
  [addr |-> AlignedAddr(c) + b.first * c.num_bytes, length |-> b.length,
   num_bytes |-> c.num_bytes, id |-> (id + i - 1) % NumIds]

Addresses(c, id) == [i \in 1 .. Len(Bursts(c)) |-> Address(c, id, i)]

\* The beats call number n writes; the lanes with a byte are those of strb.
WriteBeat(n, k) ==
  LET c == calls[n] IN
  [data |-> [j \in StartLane(c, k) .. StopLane(c, k) - 1 |->
               Byte(n, Before(c, k) + j - StartLane(c, k))],
   last |-> \E i \in 1 .. Len(Bursts(c)) : k + 1 = Bursts(c)[i].first + Bursts(c)[i].length]

WriteBeats(n) == [k \in 1 .. Cycles(calls[n]) |-> WriteBeat(n, k - 1)]

---------------------------------------------------------------------------
(* The master *)

Put(ch, c, items) == [ch EXCEPT ![c].queue = @ \o items]

write_logic ==
  /\ write_command_queue # <<>>
  /\ LET n == Head(write_command_queue)
         c == calls[n]
     IN  /\ chan' = Put(Put(chan, "aw", Addresses(c, cur_write_id)), "w", WriteBeats(n))
         /\ cur_write_id' = (cur_write_id + Len(Bursts(c))) % NumIds
         /\ int_write_resp_command_queue' =
              Append(int_write_resp_command_queue, [call |-> n, transfers |-> Len(Bursts(c))])
  /\ write_command_queue' = Tail(write_command_queue)
  /\ in_flight_operations' = in_flight_operations + 1
  /\ UNCHANGED <<asked, read_command_queue, cur_read_id, int_read_resp_command_queue, done, ram>>

read_logic ==
  /\ read_command_queue # <<>>
  /\ LET n == Head(read_command_queue)
         c == calls[n]
     IN  /\ chan' = Put(chan, "ar", Addresses(c, cur_read_id))
         /\ int_read_resp_command_queue' =
              Append(int_read_resp_command_queue,
                     [call |-> n, burst_list |-> Addresses(c, cur_read_id),
                      k |-> 0, beats |-> 0, data |-> <<>>])
         /\ cur_read_id' = (cur_read_id + Len(Bursts(c))) % NumIds
  /\ read_command_queue' = Tail(read_command_queue)
  /\ in_flight_operations' = in_flight_operations + 1
  /\ UNCHANGED <<asked, write_command_queue, cur_write_id, int_write_resp_command_queue, done, ram>>

EnoughAtFirst(left) == TRUE       \* mutation: the first response stands for all of them
Enough(left)        == left = 1

\* The responses of a write's bursts are counted; whose they are does not matter.
write_resp_logic ==
  /\ int_write_resp_command_queue # <<>> /\ chan.b.sink # <<>>
  /\ chan' = [chan EXCEPT !.b.sink = Tail(@)]
  /\ LET at == Head(int_write_resp_command_queue) IN
     IF Enough(at.transfers)
     THEN /\ write_resp_queue' = Append(write_resp_queue, at.call)
          /\ in_flight_operations' = in_flight_operations - 1
          /\ int_write_resp_command_queue' = Tail(int_write_resp_command_queue)
     ELSE /\ int_write_resp_command_queue' =
               [int_write_resp_command_queue EXCEPT ![1].transfers = @ - 1]
          /\ UNCHANGED <<write_resp_queue, in_flight_operations>>
  /\ UNCHANGED <<asked, queues, ids, int_read_resp_command_queue, read_data_queue, ram>>

\* Where the first beat with this id is in the queue: each id has a queue of its own.
BeatOfAnyId(id) == {i \in 1 .. Len(chan.r.sink) : i = 1}     \* mutation: one queue for all
BeatAtHead(id)  == {i \in BeatOfAnyId(id) : chan.r.sink[1].id = id}   \* mutation: likewise
BeatOf(id) == {i \in 1 .. Len(chan.r.sink) :
                 /\ chan.r.sink[i].id = id
                 /\ \A j \in 1 .. i - 1 : chan.r.sink[j].id # id}

\* A beat's bytes, from the lane its place in the call says.
Taken(c, beats, beat) ==
  LET start == StartLane(c, beats)
      stop  == LaneOffset(c, beats) + c.num_bytes
  IN  [j \in 1 .. stop - start |-> beat.data[start + j - 1]]

read_resp_logic ==
  /\ int_read_resp_command_queue # <<>>
  /\ LET at    == Head(int_read_resp_command_queue)
         c     == calls[at.call]
         burst == Head(at.burst_list)
     IN  \E i \in BeatOf(burst.id) :
           LET data == at.data \o Taken(c, at.beats, chan.r.sink[i])
               over == at.k + 1 = burst.length
           IN  /\ chan' = [chan EXCEPT !.r.sink = RemoveAt(@, i)]
               /\ IF over /\ Len(at.burst_list) = 1
                  THEN /\ read_data_queue' = Append(read_data_queue,
                            [call |-> at.call, data |-> SubSeq(data, 1, c.len)])
                       /\ in_flight_operations' = in_flight_operations - 1
                       /\ int_read_resp_command_queue' = Tail(int_read_resp_command_queue)
                  ELSE /\ int_read_resp_command_queue' =
                            [int_read_resp_command_queue EXCEPT ![1] =
                               [at EXCEPT !.data = data, !.beats = @ + 1,
                                  !.k = IF over THEN 0 ELSE @ + 1,
                                  !.burst_list = IF over THEN Tail(@) ELSE @]]
                       /\ UNCHANGED <<read_data_queue, in_flight_operations>>
  /\ UNCHANGED <<asked, queues, ids, int_write_resp_command_queue, write_resp_queue, ram>>

---------------------------------------------------------------------------
(* An edge of a channel *)

\* What drives the signals: it keeps them up until they are taken, then puts the next.
Drive(ch, taken, paused) ==
  IF ch.signals # Nothing /\ ~taken THEN [ch EXCEPT !.valid = @ \/ ~paused]
  ELSE IF ch.queue = <<>> THEN [ch EXCEPT !.signals = Nothing, !.valid = FALSE]
  ELSE [ch EXCEPT !.signals = Head(ch.queue), !.valid = ~paused, !.queue = Tail(@)]

Collect(ch, taken) == IF taken THEN [ch EXCEPT !.sink = Append(@, ch.signals)] ELSE ch

Handshake(ch, paused) == ch.valid /\ ~paused

\* One side is paused, the other, both or none.
Edge(c) ==
  /\ chan[c].signals # Nothing \/ chan[c].queue # <<>>
  /\ \E from, to \in BOOLEAN :
       LET taken == Handshake(chan[c], to)
       IN  chan' = [chan EXCEPT ![c] = Drive(Collect(@, taken), taken, from)]
  /\ UNCHANGED <<asked, queues, ids, resps, in_flight_operations, done, ram>>

write_addr_edge == Edge("aw")
write_data_edge == Edge("w")
write_resp_edge == Edge("b")
read_addr_edge  == Edge("ar")
read_data_edge  == Edge("r")

\* A device between the two may let beats of different bursts overtake each other,
\* never those with the same id.
Overtake ==
  /\ \E i \in 1 .. Len(chan.r.queue) - 1 :
       LET q == chan.r.queue IN
       /\ q[i].id # q[i + 1].id
       /\ chan' = [chan EXCEPT !.r.queue = [q EXCEPT ![i] = q[i + 1], ![i + 1] = q[i]]]
  /\ UNCHANGED <<asked, queues, ids, resps, in_flight_operations, done, ram>>

---------------------------------------------------------------------------
(* The memory *)

WordAddr(b, n)  == ((b.addr + n * b.num_bytes) \div BW) * BW
Cell(b, n, j) == (WordAddr(b, n) + j) % Size

\* One beat of the burst whose address came first, whichever way they came.
RamWrite ==
  /\ chan.aw.sink # <<>> /\ chan.w.sink # <<>>
  /\ LET b    == Head(chan.aw.sink)
         data == Head(chan.w.sink).data
         last == served = b.length - 1
         resp == IF last THEN <<[id |-> b.id]>> ELSE <<>>
     IN  /\ mem' = [a \in DOMAIN mem |->
                      IF \E j \in DOMAIN data : a = Cell(b, served, j)
                      THEN data[CHOOSE j \in DOMAIN data : a = Cell(b, served, j)]
                      ELSE mem[a]]
         /\ served' = IF last THEN 0 ELSE served + 1
         /\ chan' = [chan EXCEPT !.w.sink = Tail(@), !.b.queue = @ \o resp,
                                 !.aw.sink = IF last THEN Tail(@) ELSE @]
  /\ UNCHANGED <<asked, queues, ids, resps, in_flight_operations, done>>

\* A whole burst is read at once, even in the middle of one that is written.
RamRead ==
  /\ chan.ar.sink # <<>>
  /\ LET b == Head(chan.ar.sink)
         beats == [n \in 1 .. b.length |->
                     [data |-> [j \in Lane |-> mem[Cell(b, n - 1, j)]],
                      id |-> b.id, last |-> n = b.length]]
     IN  chan' = [chan EXCEPT !.ar.sink = Tail(@), !.r.queue = @ \o beats]
  /\ UNCHANGED <<asked, queues, ids, resps, in_flight_operations, done, ram>>

Next ==
  \/ \E c \in Calls : init_write(c) \/ init_read(c)
  \/ write_logic \/ read_logic \/ write_resp_logic \/ read_resp_logic
  \/ write_addr_edge \/ write_data_edge \/ write_resp_edge \/ read_addr_edge \/ read_data_edge
  \/ Overtake
  \/ RamWrite \/ RamRead

\* Every process runs on, and no side is paused for ever.
Fairness ==
  /\ WF_vars(write_logic) /\ WF_vars(read_logic)
  /\ WF_vars(write_resp_logic) /\ WF_vars(read_resp_logic)
  /\ WF_vars(write_addr_edge) /\ WF_vars(write_data_edge) /\ WF_vars(write_resp_edge)
  /\ WF_vars(read_addr_edge) /\ WF_vars(read_data_edge)
  /\ WF_vars(RamWrite) /\ WF_vars(RamRead)

Spec == Init /\ [][Next]_vars /\ Fairness

---------------------------------------------------------------------------
(* Properties *)

InOnePage(b) == Page - (b.addr % Page) >= b.length * b.num_bytes

\* The assertions of axi.py never fail, though address and data of a write go their own
\* ways and the beats of reads may overtake each other: a burst stays in its page
\* (lines 736 and 857), the last beat of a burst, and no other, is marked as such where
\* it is written (line 765) and where it is read (line 525).
AssertsHold ==
  /\ \A c \in {"aw", "ar"} : \A i \in 1 .. Len(chan[c].sink) : InOnePage(chan[c].sink[i])
  /\ chan.aw.sink # <<>> /\ chan.w.sink # <<>> =>
       (Head(chan.w.sink).last <=> served = Head(chan.aw.sink).length - 1)
  /\ int_read_resp_command_queue # <<>> =>
       LET at == Head(int_read_resp_command_queue) IN
       \A i \in BeatOf(Head(at.burst_list).id) :
         chan.r.sink[i].last <=> at.k + 1 = Head(at.burst_list).length

\* The address of byte j of a call.
At(c, j) == (c.addr + j) % Size

\* The bytes that call number n puts at a, in this order; which of the calls ns put any.
Puts(a, n)     == {j \in 0 .. calls[n].len - 1 : At(calls[n], j) = a}
Writers(a, ns) == {n \in ns : calls[n].op = "write" /\ Puts(a, n) # {}}

\* What a holds after the last of them, and what it may hold after n.
LastWrite(a, ns) == IF Writers(a, ns) = {} THEN 0 ELSE Max(Writers(a, ns))
Holds(a, n)      == IF n = 0 THEN Zero ELSE Byte(n, Max(Puts(a, n)))
MayHold(a, n)    == IF n = 0 THEN {Zero} ELSE {Byte(n, j) : j \in Puts(a, n)}

\* Once wait() returns, every byte of every write is in its place in the memory, and of
\* two writes to one place the later: no burst of one is still on its way, nor between
\* the queues.
WaitMeansDone ==
  idle => \A a \in DOMAIN mem : mem[a] = Holds(a, LastWrite(a, DOMAIN calls))

\* What a read returns for a place is what one of the writes put there, and none that an
\* earlier write had replaced by the time it was reported done and the read asked for.
ReadsBack ==
  \A i \in 1 .. Len(read_data_queue) :
    LET r == read_data_queue[i]
        reported == {write_resp_queue[w] : w \in 1 .. since[r.call]}
    IN  \A j \in 0 .. calls[r.call].len - 1 :
          LET a == At(calls[r.call], j) IN
          \E n \in Writers(a, DOMAIN calls) \union {0} :
            n >= LastWrite(a, reported) /\ r.data[j + 1] \in MayHold(a, n)

\* Every call is answered: beats that overtook each other, or a burst of another call in
\* front, leave nobody waiting for ever.  (A test asks NumCalls times at most.)
Completes == []<>(Len(write_resp_queue) + Len(read_data_queue) = Len(calls))

=============================================================================

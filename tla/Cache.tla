-------------------------------- MODULE Cache --------------------------------
(***************************************************************************)
(* The write-through cache (iob-cache.v) between a master and a memory,    *)
(* one step per rising edge of clk: front end, cache memory with its       *)
(* write-through buffer, the two channels of the back end.  A word is one  *)
(* value (strobes are all or none) and a line has at least two words.      *)
(***************************************************************************)
EXTENDS Replacement, Sequences, FiniteSets, SequencesExt

CONSTANTS
  REP_POLICY,
  Tag, Index,
  WORDS,          \* words of a line
  DEPTH,          \* words the write-through buffer holds
  Lines,          \* the lines the master uses, as <<tag, index>>
  ReadAddr, WriteAddr, \* the words it reads, and writes
  Data,           \* the values it writes
  Junk,           \* what a memory nobody wrote holds
  NotYet          \* (properties) no answer

ASSUME PolicyAssumption == REP_POLICY \in Policies
ASSUME WordsAssumption  == WORDS \in Nat /\ WORDS > 1
ASSUME DepthAssumption  == DEPTH \in Nat /\ DEPTH > 0
ASSUME LinesAssumption  == Lines \subseteq Tag \X Index /\ Lines # {}

Word == 0 .. WORDS - 1
Addr == {[tag |-> l[1], index |-> l[2], offset |-> o] : l \in Lines, o \in Word}

ASSUME RequestsAssumption == ReadAddr \subseteq Addr /\ WriteAddr \subseteq Addr
ASSUME AnswersAssumption  == NotYet \notin {Junk} \union Data \union Addr

VARIABLES
  req,            \* valid_reg, wstrb_reg (as op), addr_reg, wdata_reg
  invalidate,
  v_reg, v,       \* the ways that are valid, at each index and at the one last read
  tags, line_tag, \* tag memory and its output
  words, line_rdata, \* data memory and its output
  mru,            \* the policy's state at each index
  prev,           \* write_hit_prev, way_hit_prev, offset_prev
  buffer,         \* write-through buffer
  dout,           \* its output, the write that is with the memory
  wr,             \* state of the write channel
  rd, read_addr,  \* state of the read channel, the word it is at
  mem,            \* the memory behind the cache
  mem_ready, mem_rdata,
  fetched         \* (history) the request served has had its line fetched

lookupVars == <<v_reg, v, tags, line_tag, mru>>
backVars   == <<buffer, dout, wr, rd, read_addr>>
memVars    == <<mem, mem_ready, mem_rdata>>
vars == <<req, invalidate, lookupVars, words, line_rdata, prev, backVars, memVars, fetched>>

Access == [op : {"read"}, addr : ReadAddr, data : {Junk}]
          \union [op : {"write"}, addr : WriteAddr, data : Data]

FirstAddr == CHOOSE a \in Addr : TRUE

Init ==
  /\ req = [op |-> "none", addr |-> FirstAddr, data |-> Junk] /\ invalidate = FALSE
  /\ v_reg = [i \in Index |-> {}] /\ v = {}
  /\ tags = [k \in Way |-> [i \in Index |-> FirstAddr.tag]]
  /\ line_tag = [k \in Way |-> FirstAddr.tag]
  /\ words = [k \in Way |-> [i \in Index |-> [o \in Word |-> Junk]]]
  /\ line_rdata = [k \in Way |-> [o \in Word |-> Junk]]
  /\ mru = [i \in Index |-> NeverUsed(REP_POLICY)]
  /\ prev = [write_hit |-> FALSE, ways |-> {}, offset |-> 0]
  /\ buffer = <<>> /\ dout = [addr |-> FirstAddr, data |-> Junk]
  /\ wr = "idle" /\ rd = "idle" /\ read_addr = 0
  /\ mem = [a \in Addr |-> a] /\ mem_ready = FALSE /\ mem_rdata = Junk
  /\ fetched = FALSE

---------------------------------------------------------------------------
(* The wires, as functions of the registers *)

write_access == req.op = "write"
read_access  == req.op = "read"
tag          == req.addr.tag
index_reg    == req.addr.index
offset       == req.addr.offset

way_hit == {k \in v : line_tag[k] = tag}
replace == rd # "idle"
raw     == prev.write_hit /\ prev.ways = way_hit /\ prev.offset = offset
hitNoStall == way_hit # {} /\ ~replace   \* mutation: raw left out
hit     == way_hit # {} /\ ~replace /\ ~raw

buffer_empty == buffer = <<>>
buffer_full  == Len(buffer) = DEPTH

ready       == (hit /\ read_access) \/ (~buffer_full /\ write_access)
write_ready == wr = "idle" \/ mem_ready

\* Mutations: a fetch does not wait for the buffer, or for the write in flight.
replaceUnwritten == ~hit /\ read_access /\ ~replace /\ write_ready
replaceInFlight  == ~hit /\ read_access /\ ~replace /\ buffer_empty

replace_valid == ~hit /\ read_access /\ ~replace /\ buffer_empty /\ write_ready

\* way_select at the line of the request; way_hit, one-hot, is read as the one way it names.
way_select == Victims(REP_POLICY, mru[index_reg])
rdata      == line_rdata[CHOOSE k \in way_hit : TRUE][offset]

word_counter ==
  CASE rd = "handshake" -> (IF mem_ready THEN (read_addr + 1) % WORDS ELSE read_addr)
    [] OTHER            -> 0
read_valid      == rd = "handshake" /\ mem_ready
mem_valid_read  == rd = "handshake" /\ (~mem_ready \/ read_addr # WORDS - 1)
mem_valid_write == wr = "write" /\ ~mem_ready
mem_valid       == mem_valid_read \/ mem_valid_write

---------------------------------------------------------------------------
(* The master *)

\* A request stays on the input until it is answered; in the cycle of the answer the
\* next one may be there already, or a request to the cache control.
Inputs ==
  IF req.op # "none" /\ ~ready THEN {req}
  ELSE Access \union {[req EXCEPT !.op = o, !.data = Junk] : o \in {"none", "control"}}

FrontEnd(in) ==
  /\ req' = (IF in.op = "control" THEN [in EXCEPT !.op = "none"] ELSE in)
  /\ invalidate' = (in.op = "control")
  /\ fetched' = (replace_valid \/ (fetched /\ req.op # "none" /\ ~ready))

---------------------------------------------------------------------------
(* Cache memory; in is the input during the cycle, clear the invalidation *)

Enabled(in) == in.op \in {"read", "write"} \/ req.op # "none"

ValidBlock(in, clear) ==
  /\ v_reg' = IF clear THEN [i \in Index |-> {}]
              ELSE IF replace_valid
                   THEN [v_reg EXCEPT ![index_reg] = @ \union way_select]
                   ELSE v_reg
  /\ v' = IF clear THEN {} ELSE v_reg[in.addr.index]

TagMemory(in) ==
  LET we(k) == k \in way_select /\ replace_valid IN
  /\ tags' = [k \in Way |-> IF Enabled(in) /\ we(k)
                            THEN [tags[k] EXCEPT ![in.addr.index] = tag] ELSE tags[k]]
  /\ line_tag' = [k \in Way |-> IF Enabled(in) /\ ~we(k)
                                THEN tags[k][in.addr.index] ELSE line_tag[k]]

(* The words of way k at offset o are one single-ported memory over the indices. *)

Written(k, o) ==
  k \in way_hit /\ IF replace THEN read_valid /\ o = read_addr ELSE write_access /\ o = offset

AddressInput(in, k, o) == in.addr.index   \* mutation: the write goes where the input points
Address(in, k, o) ==
  IF write_access /\ k \in way_hit /\ o = offset THEN index_reg ELSE in.addr.index

DataMemory(in) ==
  /\ words' = [k \in Way |-> [i \in Index |-> [o \in Word |->
                IF Enabled(in) /\ Written(k, o) /\ i = Address(in, k, o)
                THEN (IF replace THEN mem_rdata ELSE req.data) ELSE words[k][i][o]]]]
  /\ line_rdata' = [k \in Way |-> [o \in Word |->
                IF Enabled(in) /\ ~Written(k, o)
                THEN words[k][Address(in, k, o)][o] ELSE line_rdata[k][o]]]

PolicyBlock(clear) ==
  mru' = IF clear THEN [i \in Index |-> NeverUsed(REP_POLICY)]
         ELSE IF ready /\ way_hit # {}
              THEN [mru EXCEPT ![index_reg] =
                      Used(REP_POLICY, @, CHOOSE k \in way_hit : TRUE)]
              ELSE mru

RawBlock ==
  prev' = [write_hit |-> write_access /\ way_hit # {}, ways |-> way_hit, offset |-> offset]

Buffer ==
  LET taken == write_ready /\ ~buffer_empty
      left  == IF taken THEN Tail(buffer) ELSE buffer
      write == [addr |-> req.addr, data |-> req.data]
  IN  /\ buffer' = IF write_access /\ ready THEN Append(left, write) ELSE left
      /\ dout' = IF taken THEN Head(buffer) ELSE dout

---------------------------------------------------------------------------
(* Back end and memory *)

WriteChannel ==
  wr' = CASE wr = "idle"  -> (IF buffer_empty THEN "idle" ELSE "write")
          [] wr = "write" -> (IF mem_ready /\ buffer_empty THEN "idle" ELSE "write")

ReadChannel ==
  /\ read_addr' = word_counter
  /\ rd' = CASE rd = "idle" -> (IF replace_valid THEN "handshake" ELSE "idle")
             [] rd = "handshake" ->
                  (IF mem_ready /\ read_addr = WORDS - 1 THEN "end_handshake" ELSE "handshake")
             [] rd = "end_handshake" -> "idle"

\* The address the memory sees; the strobes are the write channel's in any case.
MemAddr(in) ==
  IF mem_valid_read THEN [in.addr EXCEPT !.offset = word_counter] ELSE dout.addr

\* The memory answers a request that is there, at the edge after or at a later one.
Memory(in, answer) ==
  /\ answer => mem_valid
  /\ mem_ready' = answer
  /\ mem_rdata' = (IF answer /\ wr # "write" THEN mem[MemAddr(in)] ELSE Junk)
  /\ mem' = (IF answer /\ wr = "write" THEN [mem EXCEPT ![MemAddr(in)] = dout.data] ELSE mem)

---------------------------------------------------------------------------

\* force_inv comes only in a cycle without a request on the input (ext_mem.v).
Clock(answer) ==
  \E in \in Inputs, force_inv \in BOOLEAN :
    /\ force_inv => in.op = "none"
    /\ FrontEnd(in)
    /\ ValidBlock(in, invalidate \/ force_inv) /\ PolicyBlock(invalidate \/ force_inv)
    /\ TagMemory(in) /\ DataMemory(in) /\ RawBlock /\ Buffer
    /\ WriteChannel /\ ReadChannel /\ Memory(in, answer)

Next == \E answer \in BOOLEAN : Clock(answer)

\* The clock runs on, and the memory does not leave a request unanswered for ever.
MemoryAnswers == []<>(mem_valid => mem_ready)

Spec == Init /\ [][Next]_vars /\ WF_vars(Next) /\ MemoryAnswers

---------------------------------------------------------------------------
(* Properties *)

\* The words of m once the writes of s, the last to a word in force, have been made.
WritesTo(s, a) == {n \in 1 .. Len(s) : s[n].addr = a}
Overlaid(m, s) ==
  [a \in DOMAIN m |-> IF WritesTo(s, a) = {} THEN m[a] ELSE s[Max(WritesTo(s, a))].data]

\* The words as the master knows them: the memory under the write in flight and the
\* writes in the buffer.
InFlight == IF wr = "write" THEN [mem EXCEPT ![dout.addr] = dout.data] ELSE mem
Logical  == Overlaid(InFlight, buffer)

\* A line is never in two ways, so way_hit, which the output multiplexer and the policy
\* take for one-hot, names one way, and a write changes the only copy there is.
OneCopy ==
  \A i \in Index : \A j, k \in v_reg[i] : tags[j][i] = tags[k][i] => j = k

\* The two channels share the memory's port, its address and its ready: while the line is
\* fetched nothing is being written or waiting to be.
ChannelsApart == replace => wr = "idle" /\ buffer_empty

\* Write-through: every word of every valid line is what the master last wrote there,
\* except in the line being fetched and the word being written in this very cycle.
CachedIsCurrent ==
  \A i \in Index : \A k \in v_reg[i] : \A o \in Word :
    LET a == [tag |-> tags[k][i], index |-> i, offset |-> o] IN
    \/ replace /\ i = index_reg /\ tags[k][i] = tag
    \/ write_access /\ a = req.addr
    \/ words[k][i][o] = Logical[a]

\* The stall of a read that follows a write to the same word is not taken for a miss, and
\* a line that has been fetched is found: no request has its line fetched when it is in
\* the cache, so none has it fetched twice (and is counted as two misses).
FetchedOnce == replace_valid => way_hit = {} /\ ~fetched

\* The cache is a memory: in spite of the buffer, the fetches and the invalidations, a
\* read is answered with what was last written.
Service ==
  INSTANCE MemService WITH
    Value <- {Junk} \union Data \union Addr, Request <- Access,
    NoRequest <- [op |-> "none"],
    store <- Logical,
    req <- IF req.op = "none" THEN [op |-> "none"] ELSE req,
    answer <- IF ~ready THEN NotYet ELSE IF read_access THEN rdata ELSE Junk

MemorySpec == Service!Spec

\* Every request is answered, if the memory answers its own: no fetch waits for the buffer
\* to empty while the buffer waits for the port, and no miss repeats for ever.
Answered == req.op # "none" ~> ready

=============================================================================

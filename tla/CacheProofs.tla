----------------------------- MODULE CacheProofs -----------------------------
(***************************************************************************)
(* The cache with the bit-based replacement policy, the one it has when    *)
(* none is chosen, for every number of ways, indices and words and every   *)
(* depth of the write-through buffer.                                      *)
(***************************************************************************)
EXTENDS Cache, SequenceLemmas

---------------------------------------------------------------------------
(* What the policy selects *)

LEMMA SomeWays == N_WAYS \in Nat /\ N_WAYS > 1 /\ 0 \in Way /\ 1 \in Way /\ Way \subseteq Nat
  BY WaysAssumption DEF Way

(* The bit-based policy, the one of a cache that names none *)

\* The bits of a line are never all 1.
MruLine(used) == used \in SUBSET Way /\ used # Way

LEMMA MruHitLine ==
  ASSUME NEW used, MruLine(used), NEW w \in Way
  PROVE  MruLine(MruHit(used, w)) /\ w \in MruHit(used, w)
<1>1. {w} # Way
  BY SomeWays
<1> QED
  BY <1>1 DEF MruLine, MruHit

\* One way is selected, and it is one whose bit is 0.
LEMMA MruOneVictim ==
  ASSUME NEW used, MruLine(used)
  PROVE  \E w \in Way \ used : MruVictims(used) = {w}
<1>1. PICK w \in Way \ used : \A x \in Way \ used : w <= x
  <2>1. Way \ used # {} /\ Way \ used \subseteq Nat
    BY SomeWays DEF MruLine
  <2> QED
    BY <2>1, LeastElement
<1>2. w \in MruVictims(used)
  <2>1. ASSUME NEW x \in 0 .. w - 1 PROVE x \in used
    <3>1. x \in Way /\ ~(w <= x)
      BY SomeWays DEF Way
    <3> QED
      BY <3>1, <1>1
  <2> QED
    BY <2>1 DEF MruVictims
<1>3. ASSUME NEW x \in MruVictims(used) PROVE x = w
  <2>1. x \in Way \ used /\ w <= x /\ \A y \in 0 .. x - 1 : y \in used
    BY <1>1 DEF MruVictims
  <2>2. ~(w < x)
    <3> SUFFICES ASSUME w < x PROVE FALSE
      OBVIOUS
    <3>1. w \in 0 .. x - 1
      BY <2>1, SomeWays DEF Way
    <3> QED
      BY <3>1, <2>1
  <2> QED
    BY <2>1, <2>2, SomeWays DEF Way
<1> QED
  BY <1>2, <1>3

---------------------------------------------------------------------------
(* The inductive invariant *)

Registers ==
  /\ req \in [op : {"none", "read", "write"}, addr : Addr, data : Data \union {Junk}]
  /\ v_reg \in [Index -> SUBSET Way] /\ v \in SUBSET Way
  /\ tags \in [Way -> [Index -> Tag]]
  /\ buffer \in Seq([addr : Addr, data : Data \union {Junk}])
  /\ wr \in {"idle", "write"} /\ rd \in {"idle", "handshake", "end_handshake"}
  /\ mru \in [Index -> SUBSET Way] /\ \A i \in Index : MruLine(mru[i])

\* While a line is fetched its read waits, and the write channel rests.
Fetching == replace => read_access /\ wr = "idle" /\ buffer_empty

\* After a write that hit, its word is still in the buffer, or the write is still there.
HitWaits == prev.write_hit => ~buffer_empty \/ write_access

\* What was read of the tag and valid memories is what they hold for the request, but for
\* the first cycle of a fetch.
LookedUp ==
  req.op # "none" /\ rd # "handshake" =>
    v = v_reg[index_reg] /\ \A k \in Way : line_tag[k] = tags[k][index_reg]

\* An invalidation comes when no request is being served.
InvalidatesAtRest == invalidate => req.op = "none"

Present == \E k \in v_reg[index_reg] : tags[k][index_reg] = tag

\* A line that is being fetched, or has been for this request, is there.
IsFetched == (replace => fetched) /\ (fetched /\ req.op # "none" => read_access /\ Present)

IInv ==
  /\ Registers /\ Fetching /\ HitWaits /\ LookedUp /\ InvalidatesAtRest
  /\ IsFetched /\ OneCopy

---------------------------------------------------------------------------
(* The wires *)

LEMMA FirstAddrType == FirstAddr \in Addr
<1>1. Addr # {}
  <2>1. PICK l \in Lines : TRUE
    BY LinesAssumption
  <2>2. [tag |-> l[1], index |-> l[2], offset |-> 0] \in Addr
    BY WordsAssumption DEF Addr, Word
  <2> QED
    BY <2>2
<1> QED
  BY <1>1 DEF FirstAddr

LEMMA AddrFields ==
  ASSUME NEW a \in Addr
  PROVE  a.tag \in Tag /\ a.index \in Index
BY LinesAssumption DEF Addr

\* The policy selects one way.
LEMMA OneSelected ==
  ASSUME IInv, REP_POLICY = "plru_mru"
  PROVE  \E w \in Way : way_select = {w}
<1>1. MruLine(mru[index_reg])
  BY AddrFields DEF IInv, Registers, index_reg
<1> QED
  BY <1>1, MruOneVictim DEF way_select, Victims

\* A fetch starts on a read that finds its line in no way, in memories that are up to date.
LEMMA FetchStarts ==
  ASSUME IInv, replace_valid
  PROVE  /\ read_access /\ ~ready /\ rd = "idle" /\ way_hit = {} /\ ~fetched
         /\ \A k \in v_reg[index_reg] : tags[k][index_reg] # tag
<1>1. read_access /\ ~hit /\ ~replace /\ buffer_empty /\ req.op # "none" /\ ~write_access
  BY DEF replace_valid, read_access, write_access
<1>2. ~raw
  BY <1>1 DEF IInv, HitWaits, raw
<1>3. way_hit = {} /\ ~ready
  BY <1>1, <1>2 DEF hit, ready
<1>4. rd = "idle" /\ v = v_reg[index_reg] /\ \A k \in Way : line_tag[k] = tags[k][index_reg]
  BY <1>1 DEF IInv, LookedUp, replace
<1>5. \A k \in v_reg[index_reg] : k \in Way /\ tags[k][index_reg] # tag
  BY <1>3, <1>4, AddrFields DEF IInv, Registers, way_hit, index_reg
<1>6. ~fetched
  BY <1>1, <1>5 DEF IInv, IsFetched, Present
<1> QED
  BY <1>1, <1>3, <1>4, <1>5, <1>6

\* A request that is not answered stays on the input.
LEMMA Held ==
  ASSUME NEW in \in Inputs, req.op # "none", ~ready
  PROVE  in = req
BY DEF Inputs

LEMMA InputType ==
  ASSUME Registers, NEW in \in Inputs
  PROVE  /\ in \in [op : {"none", "read", "write", "control"}, addr : Addr, data : Data \union {Junk}]
         /\ FrontEnd(in) => /\ req'.addr = in.addr
                            /\ req'.op = (IF in.op = "control" THEN "none" ELSE in.op)
<1>1. CASE req.op # "none" /\ ~ready
  BY <1>1, Held DEF Registers, FrontEnd
<1>2. CASE in \in Access
  BY <1>2, RequestsAssumption DEF Access, FrontEnd
<1>3. CASE \E o \in {"none", "control"} : in = [req EXCEPT !.op = o, !.data = Junk]
  BY <1>3 DEF Registers, FrontEnd
<1> QED
  BY <1>1, <1>2, <1>3 DEF Inputs

---------------------------------------------------------------------------
(* One cycle *)

\* Clock, for one input.
Cycle(in, force_inv, answer) ==
  /\ in \in Inputs /\ (force_inv => in.op = "none")
  /\ FrontEnd(in)
  /\ ValidBlock(in, invalidate \/ force_inv) /\ PolicyBlock(invalidate \/ force_inv)
  /\ TagMemory(in) /\ DataMemory(in) /\ RawBlock /\ Buffer
  /\ WriteChannel /\ ReadChannel /\ Memory(in, answer)

LEMMA NeverUsedLine ==
  ASSUME REP_POLICY = "plru_mru"
  PROVE  NeverUsed(REP_POLICY) = {} /\ MruLine({})
BY SomeWays DEF NeverUsed, MruLine

LEMMA RegistersKept ==
  ASSUME IInv, REP_POLICY = "plru_mru", NEW in, NEW force_inv, NEW answer,
         Cycle(in, force_inv, answer)
  PROVE  Registers'
<1> DEFINE Write == [addr : Addr, data : Data \union {Junk}]
<1>0. Registers /\ in \in Inputs
  BY DEF IInv, Cycle
<1>1. req' \in [op : {"none", "read", "write"}, addr : Addr, data : Data \union {Junk}]
  BY <1>0, InputType DEF Cycle, FrontEnd
<1>2. v_reg' \in [Index -> SUBSET Way] /\ v' \in SUBSET Way
  <2>1. PICK w \in Way : way_select = {w}
    BY OneSelected
  <2>2. in.addr.index \in Index
    BY <1>0, InputType, AddrFields
  <2> QED
    BY <1>0, <2>1, <2>2 DEF Cycle, ValidBlock, Registers
<1>3. tags' \in [Way -> [Index -> Tag]]
  <2>1. tag \in Tag
    BY <1>0, AddrFields DEF Registers, tag
  <2> QED
    BY <1>0, <2>1 DEF Cycle, TagMemory, Registers
<1>4. buffer' \in Seq(Write)
  <2> DEFINE left == IF write_ready /\ ~buffer_empty THEN Tail(buffer) ELSE buffer
             write == [addr |-> req.addr, data |-> req.data]
  <2>1. left \in Seq(Write) /\ write \in Write
    BY <1>0 DEF Registers, buffer_empty
  <2>2. buffer' = IF write_access /\ ready THEN Append(left, write) ELSE left
    BY DEF Cycle, Buffer
  <2> HIDE DEF left, write, Write
  <2> QED
    BY <2>1, <2>2
<1>5. wr' \in {"idle", "write"} /\ rd' \in {"idle", "handshake", "end_handshake"}
  BY <1>0 DEF Cycle, WriteChannel, ReadChannel, Registers
<1>6. mru' \in [Index -> SUBSET Way] /\ \A i \in Index : MruLine(mru'[i])
  <2>1. CASE invalidate \/ force_inv
    BY <2>1, NeverUsedLine DEF Cycle, PolicyBlock, MruLine
  <2>2. CASE ~(invalidate \/ force_inv) /\ ready /\ way_hit # {}
    <3> DEFINE w == CHOOSE k \in way_hit : TRUE
    <3> DEFINE used == MruHit(mru[index_reg], w)
    <3>1. w \in Way /\ index_reg \in Index
      BY <1>0, <2>2, AddrFields DEF Registers, index_reg, way_hit
    <3>2. MruLine(used)
      BY <1>0, <3>1, MruHitLine DEF Registers
    <3>3. mru' = [mru EXCEPT ![index_reg] = used]
      BY <2>2 DEF Cycle, PolicyBlock, Used
    <3> HIDE DEF used
    <3> QED
      BY <1>0, <3>1, <3>2, <3>3 DEF Registers, MruLine
  <2>3. CASE ~(invalidate \/ force_inv) /\ ~(ready /\ way_hit # {})
    BY <1>0, <2>3 DEF Cycle, PolicyBlock, Registers
  <2> QED
    BY <2>1, <2>2, <2>3
<1> QED
  BY <1>1, <1>2, <1>3, <1>4, <1>5, <1>6 DEF Registers

\* A read whose line is being fetched, or about to be, is held, and pushes nothing.
LEMMA FetchingKept ==
  ASSUME IInv, NEW in, NEW force_inv, NEW answer, Cycle(in, force_inv, answer)
  PROVE  Fetching' /\ (replace' => fetched')
<1>1. rd' # "idle" => replace \/ replace_valid
  BY DEF Cycle, ReadChannel, replace, IInv, Registers
<1>2. replace \/ replace_valid => read_access /\ ~ready /\ buffer_empty
  <2>1. replace => read_access /\ ~ready /\ buffer_empty
    BY DEF IInv, Fetching, ready, hit, read_access, write_access
  <2> QED
    BY <2>1, FetchStarts DEF replace_valid
<1>3. replace \/ replace_valid => read_access'
  BY <1>2, Held DEF Cycle, FrontEnd, read_access
<1>4. replace \/ replace_valid => wr' = "idle"
  BY <1>2 DEF Cycle, WriteChannel, IInv, Fetching, Registers, replace_valid, write_ready
<1>5. replace \/ replace_valid => buffer' = <<>>
  BY <1>2 DEF Cycle, Buffer, buffer_empty
<1>6. replace \/ replace_valid => fetched'
  BY <1>2 DEF Cycle, FrontEnd, IInv, IsFetched, read_access
<1> QED
  BY <1>1, <1>3, <1>4, <1>5, <1>6 DEF Fetching, replace, buffer_empty

LEMMA HitWaitsKept ==
  ASSUME IInv, NEW in, NEW force_inv, NEW answer, Cycle(in, force_inv, answer)
  PROVE  HitWaits'
<1> SUFFICES ASSUME write_access PROVE ~buffer_empty' \/ write_access'
  BY DEF Cycle, RawBlock, HitWaits
<1>1. CASE ready
  <2> DEFINE Write == [addr : Addr, data : Data \union {Junk}]
  <2> DEFINE left == IF write_ready /\ ~buffer_empty THEN Tail(buffer) ELSE buffer
  <2> DEFINE write == [addr |-> req.addr, data |-> req.data]
  <2>1. left \in Seq(Write) /\ write \in Write
    BY DEF IInv, Registers, buffer_empty
  <2>2. buffer' = Append(left, write)
    BY <1>1 DEF Cycle, Buffer
  <2> HIDE DEF left, write, Write
  <2>3. buffer' # <<>>
    BY <2>1, <2>2
  <2> QED
    BY <2>3 DEF buffer_empty
<1>2. CASE ~ready
  BY <1>2, Held DEF Cycle, FrontEnd, write_access
<1> QED
  BY <1>1, <1>2

\* Unless the cycle starts a fetch, what it reads for the input is what the memories hold.
LEMMA LookedUpKept ==
  ASSUME IInv, NEW in, NEW force_inv, NEW answer, Cycle(in, force_inv, answer)
  PROVE  LookedUp' /\ InvalidatesAtRest'
<1> USE DEF IInv
<1>0. Registers /\ in \in Inputs
  BY DEF Cycle
<1>1. InvalidatesAtRest'
  BY <1>0, InputType DEF Cycle, FrontEnd, InvalidatesAtRest
<1>2. ASSUME req'.op # "none", rd' # "handshake"
      PROVE  v' = v_reg'[index_reg'] /\ \A k \in Way : line_tag'[k] = tags'[k][index_reg']
  <2>1. ~replace_valid
    BY <1>2 DEF Cycle, ReadChannel, replace_valid, replace
  <2>2. in.op \in {"read", "write"} /\ req'.addr = in.addr /\ Enabled(in)
    BY <1>0, <1>2, InputType DEF Cycle, Enabled
  <2>3. in.addr.index \in Index
    BY <1>0, InputType, AddrFields
  <2>4. v' = v_reg'[in.addr.index]
    BY <2>1, <2>2, <2>3 DEF Cycle, ValidBlock
  <2>5. \A k \in Way : line_tag'[k] = tags[k][in.addr.index] /\ tags'[k] = tags[k]
    BY <2>1, <2>2 DEF Cycle, TagMemory
  <2> QED
    BY <2>2, <2>4, <2>5 DEF index_reg
<1> QED
  BY <1>1, <1>2 DEF LookedUp

\* A fetch puts the tag of its line into the one way selected.
LEMMA FetchWrites ==
  ASSUME IInv, REP_POLICY = "plru_mru", replace_valid,
         NEW in, NEW force_inv, NEW answer, Cycle(in, force_inv, answer)
  PROVE  \E w \in Way :
           /\ v_reg' = [v_reg EXCEPT ![index_reg] = @ \union {w}]
           /\ \A k \in Way, i \in Index :
                tags'[k][i] = IF k = w /\ i = index_reg THEN tag ELSE tags[k][i]
<1>1. read_access /\ ~ready /\ req.op # "none" /\ req.op \in {"read", "write"}
  BY FetchStarts DEF read_access
<1>2. in = req /\ ~(invalidate \/ force_inv) /\ Enabled(in)
  BY <1>1, Held DEF Cycle, IInv, InvalidatesAtRest, Enabled
<1>3. PICK w \in Way : way_select = {w}
  BY OneSelected
<1>4. v_reg' = [v_reg EXCEPT ![index_reg] = @ \union {w}]
  BY <1>2, <1>3 DEF Cycle, ValidBlock
<1>5. ASSUME NEW k \in Way, NEW i \in Index
      PROVE  tags'[k][i] = IF k = w /\ i = index_reg THEN tag ELSE tags[k][i]
  <2>1. tags'[k] = IF k = w THEN [tags[k] EXCEPT ![index_reg] = tag] ELSE tags[k]
    BY <1>2, <1>3 DEF Cycle, TagMemory, index_reg
  <2>2. tags[k] \in [Index -> Tag]
    BY DEF IInv, Registers
  <2> QED
    BY <2>1, <2>2
<1> QED
  BY <1>4, <1>5

\* Another cycle leaves both memories alone, or empties the valid one.
LEMMA NoFetchKeeps ==
  ASSUME IInv, ~replace_valid,
         NEW in, NEW force_inv, NEW answer, Cycle(in, force_inv, answer)
  PROVE  /\ v_reg' = IF invalidate \/ force_inv THEN [i \in Index |-> {}] ELSE v_reg
         /\ \A k \in Way : tags'[k] = tags[k]
BY DEF Cycle, ValidBlock, TagMemory

LEMMA IsFetchedKept ==
  ASSUME IInv, REP_POLICY = "plru_mru", NEW in, NEW force_inv, NEW answer,
         Cycle(in, force_inv, answer)
  PROVE  IsFetched'
<1>1. replace' => fetched'
  BY FetchingKept
<1>2. ASSUME fetched', req'.op # "none" PROVE read_access' /\ Present'
  <2>1. index_reg \in Index
    BY AddrFields DEF IInv, Registers, index_reg
  <2>2. CASE replace_valid
    <3>1. req' = req /\ read_access
      BY <2>2, FetchStarts, Held DEF Cycle, FrontEnd, read_access
    <3>2. PICK w \in Way :
            /\ v_reg' = [v_reg EXCEPT ![index_reg] = @ \union {w}]
            /\ \A k \in Way, i \in Index :
                 tags'[k][i] = IF k = w /\ i = index_reg THEN tag ELSE tags[k][i]
      BY <2>2, FetchWrites
    <3>3. index_reg' = index_reg /\ tag' = tag /\ read_access'
      BY <3>1 DEF index_reg, tag, read_access
    <3>4. v_reg \in [Index -> SUBSET Way]
      BY DEF IInv, Registers
    <3>5. w \in v_reg'[index_reg] /\ tags'[w][index_reg] = tag
      BY <2>1, <3>2, <3>4
    <3> QED
      BY <3>3, <3>5 DEF Present
  <2>3. CASE ~replace_valid
    <3>1. fetched /\ req.op # "none" /\ ~ready
      BY <1>2, <2>3 DEF Cycle, FrontEnd
    <3>2. in = req /\ ~(invalidate \/ force_inv) /\ read_access
      BY <3>1, Held DEF Cycle, IInv, InvalidatesAtRest, IsFetched
    <3>3. req' = req
      BY <3>2 DEF Cycle, FrontEnd, read_access
    <3>4. PICK k \in v_reg[index_reg] : tags[k][index_reg] = tag
      BY <3>1 DEF IInv, IsFetched, Present
    <3>5. k \in Way /\ v_reg' = v_reg /\ tags'[k] = tags[k]
      BY <2>1, <2>3, <3>2, NoFetchKeeps DEF IInv, Registers
    <3> QED
      BY <3>2, <3>3, <3>4, <3>5 DEF Present, read_access, index_reg, tag
  <2> QED
    BY <2>2, <2>3
<1> QED
  BY <1>1, <1>2 DEF IsFetched

LEMMA OneCopyKept ==
  ASSUME IInv, REP_POLICY = "plru_mru", NEW in, NEW force_inv, NEW answer,
         Cycle(in, force_inv, answer)
  PROVE  OneCopy'
<1> SUFFICES ASSUME NEW i \in Index, NEW j \in v_reg'[i], NEW k \in v_reg'[i],
                    tags'[j][i] = tags'[k][i]
             PROVE  j = k
  BY DEF OneCopy
<1>0. \A x, y \in v_reg[i] : tags[x][i] = tags[y][i] => x = y
  BY DEF IInv, OneCopy
<1>1. CASE ~replace_valid
  <2>1. v_reg'[i] = {} \/ v_reg' = v_reg
    BY <1>1, NoFetchKeeps
  <2>2. v_reg' = v_reg /\ j \in Way /\ k \in Way
    BY <2>1 DEF IInv, Registers
  <2> QED
    BY <1>0, <1>1, <2>2, NoFetchKeeps
<1>2. CASE replace_valid
  <2>1. PICK w \in Way :
          /\ v_reg' = [v_reg EXCEPT ![index_reg] = @ \union {w}]
          /\ \A x \in Way, n \in Index :
               tags'[x][n] = IF x = w /\ n = index_reg THEN tag ELSE tags[x][n]
    BY <1>2, FetchWrites
  <2>2. \A x \in v_reg[index_reg] : tags[x][index_reg] # tag
    BY <1>2, FetchStarts
  <2>3. v_reg \in [Index -> SUBSET Way]
    BY DEF IInv, Registers
  <2>4. CASE i # index_reg
    <3>1. v_reg'[i] = v_reg[i] /\ j \in Way /\ k \in Way
      BY <2>1, <2>3, <2>4
    <3> QED
      BY <1>0, <2>1, <2>4, <3>1
  <2>5. CASE i = index_reg
    <3>1. v_reg'[i] = v_reg[i] \union {w} /\ j \in Way /\ k \in Way
      BY <2>1, <2>3, <2>5
    <3> QED
      BY <1>0, <2>1, <2>2, <2>5, <3>1
  <2> QED
    BY <2>4, <2>5
<1> QED
  BY <1>1, <1>2

---------------------------------------------------------------------------
(* The theorems *)

LEMMA InitIInv ==
  ASSUME Init, REP_POLICY = "plru_mru"
  PROVE  IInv
<1> USE FirstAddrType DEF Init
<1>1. Registers
  <2>1. FirstAddr.tag \in Tag
    BY AddrFields
  <2>2. mru \in [Index -> SUBSET Way] /\ \A i \in Index : MruLine(mru[i])
    BY NeverUsedLine DEF MruLine
  <2>3. buffer \in Seq([addr : Addr, data : Data \union {Junk}])
    OBVIOUS
  <2>4. req \in [op : {"none", "read", "write"}, addr : Addr, data : Data \union {Junk}]
    OBVIOUS
  <2> QED
    BY <2>1, <2>2, <2>3, <2>4 DEF Registers
<1>2. OneCopy
  BY DEF OneCopy
<1> QED
  BY <1>1, <1>2 DEF IInv, Fetching, HitWaits, LookedUp, InvalidatesAtRest, IsFetched, replace

LEMMA NextKeepsIInv ==
  ASSUME IInv, [Next]_vars, REP_POLICY = "plru_mru"
  PROVE  IInv'
<1>1. CASE Next
  <2>1. PICK answer \in BOOLEAN : Clock(answer)
    BY <1>1 DEF Next
  <2>2. PICK in \in Inputs, force_inv \in BOOLEAN : Cycle(in, force_inv, answer)
    BY <2>1 DEF Clock, Cycle
  <2> QED
    BY <2>2, RegistersKept, FetchingKept, HitWaitsKept, LookedUpKept, IsFetchedKept,
       OneCopyKept DEF IInv
<1>2. CASE UNCHANGED vars
  BY <1>2 DEF vars, lookupVars, backVars, memVars, IInv, Registers, Fetching, HitWaits,
     LookedUp, InvalidatesAtRest, IsFetched, OneCopy, Present, replace, read_access,
     write_access, buffer_empty, index_reg, tag
<1> QED
  BY <1>1, <1>2

LEMMA FetchesMissing == IInv => FetchedOnce
BY FetchStarts DEF FetchedOnce

LEMMA AlwaysIInv ==
  ASSUME REP_POLICY = "plru_mru"
  PROVE  Spec => []IInv
<1>1. Init => IInv
  BY InitIInv
<1>2. IInv /\ [Next]_vars => IInv'
  BY NextKeepsIInv
<1> QED
  BY <1>1, <1>2, PTL DEF Spec

\* A line is never in two ways at once (cache-memory.v:314-350), so every write of the
\* master changes the one copy there is.
THEOREM NoSecondCopy ==
  ASSUME REP_POLICY = "plru_mru"
  PROVE  Spec => []OneCopy
<1>1. IInv => OneCopy
  BY DEF IInv
<1> QED
  BY <1>1, AlwaysIInv, PTL

\* The read and the write channel never need the memory's port in the same cycle
\* (back-end-native.v:54-55), however long the memory takes to answer.
THEOREM ChannelsNeverMeet ==
  ASSUME REP_POLICY = "plru_mru"
  PROVE  Spec => []ChannelsApart
<1>1. IInv => ChannelsApart
  BY DEF IInv, Fetching, ChannelsApart
<1> QED
  BY <1>1, AlwaysIInv, PTL

\* A fetch is started only for a line that is in no way, and once for a request
\* (cache-memory.v:146, with the stall of cache-memory.v:206).
THEOREM NoSecondFetch ==
  ASSUME REP_POLICY = "plru_mru"
  PROVE  Spec => []FetchedOnce
<1> QED
  BY FetchesMissing, AlwaysIInv, PTL

---------------------------------------------------------------------------
(* The writes of the buffer, one after the other *)

LEMMA MaxWithin ==
  ASSUME NEW n \in Nat, NEW S, S \subseteq 1 .. n, S # {}
  PROVE  Max(S) \in S /\ \A x \in S : x <= Max(S)
<1>1. S \subseteq 0 .. n
  OBVIOUS
<1> QED
  BY <1>1, MaxOf

Write == [addr : Addr, data : Data \union {Junk}]

\* A write put at the end of the buffer is the last.
LEMMA OverlaidAppend ==
  ASSUME NEW m, DOMAIN m = Addr, NEW s \in Seq(Write), NEW w \in Write
  PROVE  Overlaid(m, Append(s, w)) = [Overlaid(m, s) EXCEPT ![w.addr] = w.data]
<1> DEFINE t == Append(s, w)
<1> HIDE DEF Write
<1>1. /\ Len(t) = Len(s) + 1 /\ t[Len(s) + 1] = w /\ Len(s) \in Nat
      /\ \A n \in 1 .. Len(s) : t[n] = s[n]
  OBVIOUS
<1> HIDE DEF t
<1>2. ASSUME NEW a \in Addr
      PROVE  Overlaid(m, t)[a] = IF a = w.addr THEN w.data ELSE Overlaid(m, s)[a]
  <2>1. CASE a = w.addr
    <3>1. Len(s) + 1 \in WritesTo(t, a) /\ WritesTo(t, a) \subseteq 1 .. Len(s) + 1
      BY <1>1, <2>1 DEF WritesTo
    <3>2. Max(WritesTo(t, a)) = Len(s) + 1
      BY <1>1, <3>1, MaxIs
    <3> QED
      BY <1>1, <2>1, <3>1, <3>2 DEF Overlaid
  <2>2. CASE a # w.addr
    <3>1. WritesTo(t, a) = WritesTo(s, a) /\ WritesTo(s, a) \subseteq 1 .. Len(s)
      BY <1>1, <2>2 DEF WritesTo
    <3>2. CASE WritesTo(s, a) = {}
      BY <2>2, <3>1, <3>2 DEF Overlaid
    <3>3. CASE WritesTo(s, a) # {}
      <4>1. Max(WritesTo(s, a)) \in 1 .. Len(s)
        BY <1>1, <3>1, <3>3, MaxWithin
      <4> QED
        BY <1>1, <2>2, <3>1, <4>1 DEF Overlaid
    <3> QED
      BY <3>2, <3>3
  <2> QED
    BY <2>1, <2>2
<1>3. DOMAIN Overlaid(m, t) = Addr /\ DOMAIN Overlaid(m, s) = Addr
  BY DEF Overlaid
<1>4. Overlaid(m, t) = [Overlaid(m, s) EXCEPT ![w.addr] = w.data]
  <2>1. \A a \in Addr : Overlaid(m, t)[a] = [Overlaid(m, s) EXCEPT ![w.addr] = w.data][a]
    BY <1>2, <1>3
  <2>2. Overlaid(m, t) = [a \in Addr |-> Overlaid(m, t)[a]]
    BY <1>3 DEF Overlaid
  <2> QED
    BY <1>3, <2>1, <2>2
<1> QED
  BY <1>4 DEF t

\* A write taken from its front may as well have been made.
LEMMA OverlaidTail ==
  ASSUME NEW m, DOMAIN m = Addr, NEW s \in Seq(Write), s # <<>>
  PROVE  Overlaid(m, s) = Overlaid([m EXCEPT ![Head(s).addr] = Head(s).data], Tail(s))
<1> DEFINE t == Tail(s)
           made == [m EXCEPT ![Head(s).addr] = Head(s).data]
<1> HIDE DEF Write
<1>1. /\ Len(t) = Len(s) - 1 /\ Len(t) \in Nat /\ Len(s) \in Nat /\ Head(s) = s[1]
      /\ \A n \in 1 .. Len(t) : t[n] = s[n + 1]
  OBVIOUS
<1>2. DOMAIN made = Addr
  OBVIOUS
<1>3. \A a \in Addr : made[a] = IF a = s[1].addr THEN s[1].data ELSE m[a]
  BY <1>1
<1> HIDE DEF t, made
<1>4. ASSUME NEW a \in Addr
      PROVE  Overlaid(m, s)[a] = Overlaid(made, t)[a]
  <2>0. /\ WritesTo(s, a) \subseteq 1 .. Len(s) /\ WritesTo(t, a) \subseteq 1 .. Len(t)
        /\ \A n \in 1 .. Len(t) : n \in WritesTo(t, a) <=> n + 1 \in WritesTo(s, a)
        /\ 1 \in WritesTo(s, a) <=> a = s[1].addr
    BY <1>1 DEF WritesTo
  <2>1. CASE WritesTo(t, a) # {}
    <3> DEFINE last == Max(WritesTo(t, a))
    <3>1. last \in WritesTo(t, a) /\ \A n \in WritesTo(t, a) : n <= last
      BY <1>1, <2>0, <2>1, MaxWithin
    <3> HIDE DEF last
    <3>2. last + 1 \in WritesTo(s, a)
      BY <2>0, <3>1
    <3>3. \A n \in WritesTo(s, a) : n <= last + 1
      <4> TAKE n \in WritesTo(s, a)
      <4>1. n \in 1 .. Len(s) /\ last \in 1 .. Len(t)
        BY <2>0, <3>1
      <4>2. CASE n = 1
        BY <4>1, <4>2, <1>1
      <4>3. CASE n # 1
        <5>1. n - 1 \in 1 .. Len(t) /\ (n - 1) + 1 = n
          BY <4>1, <4>3, <1>1
        <5>2. n - 1 \in WritesTo(t, a)
          BY <2>0, <5>1
        <5>3. n - 1 <= last
          BY <3>1, <5>2
        <5> QED
          BY <4>1, <5>3
      <4> QED
        BY <4>2, <4>3
    <3>4. Max(WritesTo(s, a)) = last + 1
      BY <2>0, <3>2, <3>3, MaxIs, <1>1
    <3>5. Overlaid(m, s)[a] = s[last + 1].data
      BY <3>2, <3>4 DEF Overlaid
    <3>6. Overlaid(made, t)[a] = t[last].data
      BY <1>2, <2>1 DEF Overlaid, last
    <3>7. t[last] = s[last + 1]
      BY <1>1, <2>0, <3>1
    <3> QED
      BY <3>5, <3>6, <3>7
  <2>2. CASE WritesTo(t, a) = {}
    <3>1. \A n \in WritesTo(s, a) : n = 1
      <4> SUFFICES ASSUME NEW n \in WritesTo(s, a), n # 1 PROVE FALSE
        OBVIOUS
      <4>1. n \in 1 .. Len(s)
        BY <2>0
      <4>2. n - 1 \in 1 .. Len(t) /\ (n - 1) + 1 = n
        BY <4>1, <1>1
      <4> QED
        BY <2>0, <2>2, <4>2
    <3>2. Overlaid(made, t)[a] = made[a]
      BY <1>2, <2>2 DEF Overlaid
    <3>3. CASE a = s[1].addr
      <4>1. 1 \in WritesTo(s, a)
        BY <2>0, <3>3
      <4>2. Max(WritesTo(s, a)) = 1
        BY <4>1, <3>1, <2>0, <1>1, MaxIs
      <4> QED
        BY <1>3, <3>2, <3>3, <4>1, <4>2 DEF Overlaid
    <3>4. CASE a # s[1].addr
      <4>1. WritesTo(s, a) = {}
        BY <3>1, <3>4, <2>0
      <4> QED
        BY <1>3, <3>2, <3>4, <4>1 DEF Overlaid
    <3> QED
      BY <3>3, <3>4
  <2> QED
    BY <2>1, <2>2
<1>5. Overlaid(m, s) = Overlaid(made, t)
  <2>1. Overlaid(m, s) = [a \in Addr |-> Overlaid(m, s)[a]]
    BY DEF Overlaid
  <2>2. Overlaid(made, t) = [a \in Addr |-> Overlaid(made, t)[a]]
    BY <1>2 DEF Overlaid
  <2> QED
    BY <1>4, <2>1, <2>2
<1> QED
  BY <1>5 DEF t, made

---------------------------------------------------------------------------
(* The inductive invariant: what is in the data memory, in the memory behind and between *)

Value == {Junk} \union Data \union Addr

DataTypes == mem \in [Addr -> Value] /\ dout \in Write /\ read_addr \in Word

Asking == req.op # "none" => req \in Access

\* A valid line is one of the master's.
Resident == \A i \in Index : \A k \in v_reg[i] : <<tags[k][i], i>> \in Lines

\* A write that has been answered is in the memory.
WriteMade == wr = "write" /\ mem_ready => mem[dout.addr] = dout.data

\* The word of the request's line at o.
InLine(o) == [tag |-> tag, index |-> index_reg, offset |-> o]

\* A word that arrives is the one that was asked for, and meets the tags of its line.
FetchAnswer ==
  rd = "handshake" /\ mem_ready =>
    /\ mem_rdata = mem[InLine(read_addr)]
    /\ v = v_reg[index_reg] /\ \A k \in Way : line_tag[k] = tags[k][index_reg]

\* The words that have arrived are in their line.
Arrived == IF rd = "handshake" THEN 0 .. read_addr - 1 ELSE Word

LineSoFar ==
  replace => \A k \in v_reg[index_reg] : tags[k][index_reg] = tag =>
               \A o \in Arrived : words[k][index_reg][o] = mem[InLine(o)]

\* The write before hit one way.
OnePrev == prev.write_hit => \A j, k \in prev.ways : j = k

\* What was read of a way for a read is what it holds, but for the word the write before it
\* went to.
ReadOut ==
  read_access /\ rd = "idle" =>
    \A k \in Way : \/ prev.write_hit /\ k \in prev.ways /\ prev.offset = offset
                   \/ line_rdata[k][offset] = words[k][index_reg][offset]

DInv ==
  /\ DataTypes /\ Asking /\ Resident /\ WriteMade /\ FetchAnswer /\ LineSoFar
  /\ OnePrev /\ ReadOut /\ CachedIsCurrent

---------------------------------------------------------------------------
(* The request and its line *)

LEMMA AddrShape ==
  ASSUME NEW a \in Addr
  PROVE  /\ <<a.tag, a.index>> \in Lines /\ a.offset \in Word
         /\ a = [tag |-> a.tag, index |-> a.index, offset |-> a.offset]
         /\ \A o \in Word : /\ [tag |-> a.tag, index |-> a.index, offset |-> o] \in Addr
                            /\ [a EXCEPT !.offset = o] = [tag |-> a.tag, index |-> a.index, offset |-> o]
<1>1. PICK l \in Lines, n \in Word : a = [tag |-> l[1], index |-> l[2], offset |-> n]
  BY DEF Addr
<1>2. l = <<l[1], l[2]>>
  BY LinesAssumption
<1> QED
  BY <1>1, <1>2 DEF Addr

LEMMA RequestLine ==
  ASSUME IInv
  PROVE  /\ req.addr \in Addr /\ tag \in Tag /\ index_reg \in Index /\ offset \in Word
         /\ <<tag, index_reg>> \in Lines /\ req.addr = InLine(offset)
         /\ \A o \in Word : InLine(o) \in Addr /\ [req.addr EXCEPT !.offset = o] = InLine(o)
<1>1. req.addr \in Addr
  BY DEF IInv, Registers
<1> QED
  BY <1>1, AddrShape, AddrFields DEF tag, index_reg, offset, InLine

\* The ways that hit are those that hold the line, of which there is one at most.
LEMMA HitWays ==
  ASSUME IInv, v = v_reg[index_reg], \A k \in Way : line_tag[k] = tags[k][index_reg]
  PROVE  /\ way_hit = {k \in v_reg[index_reg] : tags[k][index_reg] = tag}
         /\ way_hit \subseteq Way
         /\ \A j, k \in way_hit : j = k
<1>1. index_reg \in Index /\ v_reg[index_reg] \subseteq Way
  BY RequestLine DEF IInv, Registers
<1>2. way_hit = {k \in v_reg[index_reg] : tags[k][index_reg] = tag}
  BY <1>1 DEF way_hit
<1> QED
  BY <1>1, <1>2 DEF IInv, OneCopy

\* Outside a fetch the outputs are those of the request.
LEMMA HitWaysAtRest ==
  ASSUME IInv, req.op # "none", ~replace
  PROVE  /\ way_hit = {k \in v_reg[index_reg] : tags[k][index_reg] = tag}
         /\ way_hit \subseteq Way
         /\ \A j, k \in way_hit : j = k
BY HitWays DEF IInv, LookedUp, replace

\* A cycle of a fetch changes neither the line's place nor the memory behind.
LEMMA FetchCycle ==
  ASSUME IInv, replace, NEW in, NEW force_inv, NEW answer, Cycle(in, force_inv, answer)
  PROVE  /\ in = req /\ req' = req /\ read_access /\ ~write_access /\ ~ready /\ Enabled(in)
         /\ ~(invalidate \/ force_inv) /\ v_reg' = v_reg /\ \A k \in Way : tags'[k] = tags[k]
         /\ ~replace_valid /\ wr = "idle" /\ buffer = <<>> /\ wr' = "idle" /\ buffer' = <<>>
         /\ mem' = mem
<1>1. read_access /\ ~write_access /\ ~ready /\ wr = "idle" /\ buffer = <<>>
  BY DEF IInv, Fetching, ready, hit, read_access, write_access, buffer_empty
<1>2. in = req /\ req' = req /\ Enabled(in)
  BY <1>1, Held DEF Cycle, FrontEnd, read_access, Enabled
<1>3. ~replace_valid /\ ~(invalidate \/ force_inv)
  BY <1>1, <1>2 DEF replace_valid, Cycle, IInv, InvalidatesAtRest, read_access
<1>4. v_reg' = v_reg /\ \A k \in Way : tags'[k] = tags[k]
  BY <1>3, NoFetchKeeps
<1>5. wr' = "idle" /\ buffer' = <<>> /\ mem' = mem
  BY <1>1 DEF Cycle, WriteChannel, Buffer, Memory, buffer_empty
<1> QED
  BY <1>1, <1>2, <1>3, <1>4, <1>5

\* Nor does the memory answer in the cycle that starts one.
LEMMA NoAnswerYet ==
  ASSUME IInv, replace_valid, NEW in, NEW force_inv, NEW answer, Cycle(in, force_inv, answer)
  PROVE  ~answer /\ ~mem_ready'
<1>1. rd = "idle" /\ (wr = "idle" \/ mem_ready)
  BY FetchStarts DEF replace_valid, write_ready
<1>2. ~mem_valid
  BY <1>1 DEF mem_valid, mem_valid_read, mem_valid_write
<1> QED
  BY <1>2 DEF Cycle, Memory

\* So an answer in a fetch is to the fetch.
LEMMA FetchAnswered ==
  ASSUME IInv, NEW in, NEW force_inv, NEW answer, answer \in BOOLEAN,
         Cycle(in, force_inv, answer), rd' = "handshake", mem_ready'
  PROVE  rd = "handshake" /\ replace /\ answer /\ mem_valid_read
<1>1. answer /\ mem_valid
  BY DEF Cycle, Memory
<1>2. rd = "handshake"
  BY NoAnswerYet DEF Cycle, ReadChannel, IInv, Registers
<1>3. replace /\ wr = "idle"
  BY <1>2 DEF replace, IInv, Fetching
<1> QED
  BY <1>1, <1>2, <1>3 DEF mem_valid, mem_valid_write

---------------------------------------------------------------------------
(* The words as the master knows them *)

LEMMA InFlightType == DataTypes => InFlight \in [Addr -> Value] /\ DOMAIN InFlight = Addr
<1> SUFFICES ASSUME DataTypes PROVE InFlight \in [Addr -> Value]
  OBVIOUS
<1>1. dout.data \in Value
  BY DEF DataTypes, Write, Value
<1> QED
  BY <1>1 DEF DataTypes, InFlight

LEMMA NothingOverlaid ==
  ASSUME IInv, DataTypes, wr = "idle", buffer = <<>>
  PROVE  Logical = mem
<1>1. \A a : WritesTo(buffer, a) = {}
  BY DEF WritesTo
<1>2. InFlight = mem /\ mem = [a \in Addr |-> mem[a]] /\ DOMAIN mem = Addr
  BY DEF InFlight, DataTypes
<1> QED
  BY <1>1, <1>2 DEF Logical, Overlaid

Left == IF write_ready /\ ~buffer_empty THEN Tail(buffer) ELSE buffer

LEMMA LeftType == IInv => Left \in Seq(Write)
BY DEF IInv, Registers, Left, Write, buffer_empty

\* The write that is being made is not a word's last for longer than it takes.
LEMMA Drain ==
  ASSUME IInv, DInv, NEW in, NEW force_inv, NEW answer, Cycle(in, force_inv, answer)
  PROVE  Overlaid(InFlight', Left) = Logical
<1>0. buffer \in Seq(Write) /\ mem \in [Addr -> Value] /\ dout \in Write
  BY DEF IInv, Registers, Write, DInv, DataTypes
<1>1. wr = "write" => ~mem_valid_read
  BY DEF IInv, Fetching, mem_valid_read, replace
<1>2. wr = "write" /\ mem_ready => InFlight = mem
  <2>1. wr = "write" /\ mem_ready => mem[dout.addr] = dout.data
    BY DEF DInv, WriteMade
  <2>2. wr = "write" => InFlight = [mem EXCEPT ![dout.addr] = dout.data]
    BY DEF InFlight
  <2>3. mem[dout.addr] = dout.data => [mem EXCEPT ![dout.addr] = dout.data] = mem
    BY <1>0
  <2> QED
    BY <2>1, <2>2, <2>3
<1>3. wr = "idle" => InFlight = mem
  BY DEF InFlight
<1>4. mem_ready \/ wr = "idle" => mem' = mem
  BY <1>1 DEF Cycle, Memory, mem_valid, mem_valid_write, IInv, Registers
<1>5. CASE write_ready /\ ~buffer_empty
  <2>1. dout' = Head(buffer) /\ Left = Tail(buffer) /\ buffer # <<>>
    BY <1>5 DEF Cycle, Buffer, Left, buffer_empty
  <2>2. wr' = "write" /\ mem' = mem /\ InFlight = mem
    BY <1>2, <1>3, <1>4, <1>5 DEF write_ready, Cycle, WriteChannel, IInv, Registers
  <2>3. InFlight' = [mem EXCEPT ![Head(buffer).addr] = Head(buffer).data]
    BY <2>1, <2>2 DEF InFlight
  <2>4. Overlaid(InFlight', Tail(buffer)) = Overlaid(mem, buffer)
    BY <1>0, <2>1, <2>3, OverlaidTail
  <2> QED
    BY <2>1, <2>2, <2>4 DEF Logical
<1>6. CASE ~(write_ready /\ ~buffer_empty)
  <2>1. dout' = dout /\ Left = buffer
    BY <1>6 DEF Cycle, Buffer, Left
  <2>2. CASE wr = "idle" \/ mem_ready
    <3>1. wr' = "idle" /\ mem' = mem /\ InFlight = mem
      BY <1>2, <1>3, <1>4, <1>6, <2>2 DEF write_ready, Cycle, WriteChannel, IInv, Registers
    <3>2. InFlight' = InFlight
      BY <3>1 DEF InFlight
    <3> QED
      BY <2>1, <3>2 DEF Logical
  <2>3. CASE wr = "write" /\ ~mem_ready
    <3>1. wr' = "write"
      BY <2>3 DEF Cycle, WriteChannel
    <3>2. mem' = mem \/ mem' = [mem EXCEPT ![dout.addr] = dout.data]
      BY <1>1, <2>3 DEF Cycle, Memory, MemAddr
    <3>3. [mem' EXCEPT ![dout.addr] = dout.data] = [mem EXCEPT ![dout.addr] = dout.data]
      BY <1>0, <3>2
    <3>4. InFlight' = InFlight
      BY <2>1, <2>3, <3>1, <3>3 DEF InFlight
    <3> QED
      BY <2>1, <3>4 DEF Logical
  <2> QED
    BY <2>2, <2>3 DEF IInv, Registers
<1> QED
  BY <1>5, <1>6

LEMMA DataTypesKept ==
  ASSUME IInv, DInv, NEW in, NEW force_inv, NEW answer, Cycle(in, force_inv, answer)
  PROVE  DataTypes'
<1>1. mem' \in [Addr -> Value]
  <2>1. dout.data \in Value /\ mem \in [Addr -> Value]
    BY DEF DInv, DataTypes, Write, Value
  <2> QED
    BY <2>1 DEF Cycle, Memory
<1>2. dout' \in Write
  <2>1. buffer \in Seq(Write) /\ dout \in Write
    BY DEF DInv, DataTypes, IInv, Registers, Write
  <2>2. dout' = IF write_ready /\ buffer # <<>> THEN Head(buffer) ELSE dout
    BY DEF Cycle, Buffer, buffer_empty
  <2> HIDE DEF Write
  <2>3. buffer # <<>> => Head(buffer) \in Write
    BY <2>1
  <2> QED
    BY <2>1, <2>2, <2>3
<1>3. read_addr' \in Word
  <2>1. read_addr \in Word /\ 0 \in Word /\ (read_addr + 1) % WORDS \in Word
    BY WordsAssumption DEF DInv, DataTypes, Word
  <2> QED
    BY <2>1 DEF Cycle, ReadChannel, word_counter
<1> QED
  BY <1>1, <1>2, <1>3 DEF DataTypes

LEMMA LogicalType ==
  ASSUME IInv, DInv
  PROVE  Logical \in [Addr -> Value]
<1>1. InFlight \in [Addr -> Value] /\ buffer \in Seq(Write) /\ Len(buffer) \in Nat
  BY InFlightType DEF DInv, IInv, Registers, Write
<1>2. ASSUME NEW a \in Addr PROVE Overlaid(InFlight, buffer)[a] \in Value
  <2>1. CASE WritesTo(buffer, a) = {}
    BY <1>1, <2>1 DEF Overlaid
  <2>2. CASE WritesTo(buffer, a) # {}
    <3>1. Max(WritesTo(buffer, a)) \in 1 .. Len(buffer)
      BY <1>1, <2>2, MaxWithin DEF WritesTo
    <3>2. buffer[Max(WritesTo(buffer, a))] \in Write
      BY <1>1, <3>1
    <3> QED
      BY <1>1, <2>2, <3>2 DEF Overlaid, Write, Value
  <2> QED
    BY <2>1, <2>2
<1>3. Overlaid(InFlight, buffer) = [a \in Addr |-> Overlaid(InFlight, buffer)[a]]
  BY <1>1 DEF Overlaid
<1> QED
  BY <1>2, <1>3 DEF Logical

\* Only a write that is answered changes a word, and it changes its own.
LEMMA LogicalStep ==
  ASSUME IInv, DInv, NEW in, NEW force_inv, NEW answer, Cycle(in, force_inv, answer)
  PROVE  /\ Logical' = IF write_access /\ ready
                       THEN [Logical EXCEPT ![req.addr] = req.data] ELSE Logical
         /\ Logical \in [Addr -> Value]
<1> DEFINE write == [addr |-> req.addr, data |-> req.data]
<1>1. DOMAIN InFlight' = Addr /\ Left \in Seq(Write) /\ write \in Write
  <2>1. DOMAIN mem' = Addr
    BY DataTypesKept DEF DataTypes
  <2>2. DOMAIN InFlight' = Addr
    BY <2>1 DEF InFlight
  <2> QED
    BY <2>2, LeftType DEF IInv, Registers, Write
<1>2. buffer' = IF write_access /\ ready THEN Append(Left, write) ELSE Left
  BY DEF Cycle, Buffer, Left
<1>3. Overlaid(InFlight', Left) = Logical
  BY Drain
<1>4. write.addr = req.addr /\ write.data = req.data
  OBVIOUS
<1> HIDE DEF write
<1>5. Overlaid(InFlight', Append(Left, write)) = [Overlaid(InFlight', Left) EXCEPT ![req.addr] = req.data]
  BY <1>1, <1>4, OverlaidAppend
<1>6. Logical' = IF write_access /\ ready THEN [Logical EXCEPT ![req.addr] = req.data] ELSE Logical
  BY <1>2, <1>3, <1>5 DEF Logical
<1>7. Logical \in [Addr -> Value]
  BY LogicalType
<1> QED
  BY <1>6, <1>7

---------------------------------------------------------------------------
(* One cycle of the words *)

LEMMA AskingKept ==
  ASSUME IInv, DInv, NEW in, NEW force_inv, NEW answer, Cycle(in, force_inv, answer)
  PROVE  Asking'
<1>1. CASE req.op # "none" /\ ~ready
  BY <1>1, Held DEF Cycle, FrontEnd, Asking, DInv, Access
<1>2. CASE ~(req.op # "none" /\ ~ready)
  <2>1. in \in Access \/ \E o \in {"none", "control"} : in = [req EXCEPT !.op = o, !.data = Junk]
    BY <1>2 DEF Cycle, Inputs
  <2>2. in \in Access => req' = in
    BY DEF Cycle, FrontEnd, Access
  <2>3. (\E o \in {"none", "control"} : in = [req EXCEPT !.op = o, !.data = Junk]) => req'.op = "none"
    BY DEF Cycle, FrontEnd, IInv, Registers
  <2> QED
    BY <2>1, <2>2, <2>3 DEF Asking
<1> QED
  BY <1>1, <1>2

LEMMA ResidentKept ==
  ASSUME IInv, DInv, REP_POLICY = "plru_mru",
         NEW in, NEW force_inv, NEW answer, Cycle(in, force_inv, answer)
  PROVE  Resident'
<1> SUFFICES ASSUME NEW i \in Index, NEW k \in v_reg'[i] PROVE <<tags'[k][i], i>> \in Lines
  BY DEF Resident
<1>0. /\ v_reg \in [Index -> SUBSET Way] /\ <<tag, index_reg>> \in Lines
      /\ \A n \in Index : \A w \in v_reg[n] : <<tags[w][n], n>> \in Lines
  BY RequestLine DEF IInv, Registers, DInv, Resident
<1>1. CASE replace_valid
  <2>1. PICK w \in Way :
          /\ v_reg' = [v_reg EXCEPT ![index_reg] = @ \union {w}]
          /\ \A x \in Way, n \in Index :
               tags'[x][n] = IF x = w /\ n = index_reg THEN tag ELSE tags[x][n]
    BY <1>1, FetchWrites
  <2>2. k \in Way /\ ((k = w /\ i = index_reg) \/ k \in v_reg[i])
    BY <1>0, <2>1
  <2> QED
    BY <1>0, <2>1, <2>2
<1>2. CASE ~replace_valid
  <2>1. v_reg'[i] = {} \/ v_reg'[i] = v_reg[i]
    BY <1>2, NoFetchKeeps
  <2>2. k \in Way /\ k \in v_reg[i]
    BY <1>0, <2>1
  <2> QED
    BY <1>0, <1>2, <2>2, NoFetchKeeps
<1> QED
  BY <1>1, <1>2

LEMMA WriteMadeKept ==
  ASSUME IInv, DInv, NEW in, NEW force_inv, NEW answer, answer \in BOOLEAN,
         Cycle(in, force_inv, answer)
  PROVE  WriteMade'
<1> SUFFICES ASSUME wr' = "write", mem_ready' PROVE mem'[dout'.addr] = dout'.data
  BY DEF WriteMade
<1>1. answer /\ mem_valid
  BY DEF Cycle, Memory
<1>2. ~replace
  BY FetchCycle
<1>3. wr = "write" /\ ~mem_ready /\ ~mem_valid_read
  BY <1>1, <1>2 DEF mem_valid, mem_valid_read, mem_valid_write, replace
<1>4. dout' = dout /\ mem' = [mem EXCEPT ![dout.addr] = dout.data]
  BY <1>1, <1>3 DEF Cycle, Buffer, Memory, MemAddr, write_ready
<1>5. mem \in [Addr -> Value] /\ dout.addr \in Addr
  BY DEF DInv, DataTypes, Write
<1> QED
  BY <1>4, <1>5

LEMMA FetchAnswerKept ==
  ASSUME IInv, DInv, NEW in, NEW force_inv, NEW answer, answer \in BOOLEAN,
         Cycle(in, force_inv, answer)
  PROVE  FetchAnswer'
<1> SUFFICES ASSUME rd' = "handshake", mem_ready'
             PROVE  /\ mem_rdata' = mem'[InLine(read_addr)']
                    /\ v' = v_reg'[index_reg']
                    /\ \A k \in Way : line_tag'[k] = tags'[k][index_reg']
  BY DEF FetchAnswer
<1>1. rd = "handshake" /\ replace /\ answer /\ mem_valid_read
  BY FetchAnswered
<1>2. /\ in = req /\ req' = req /\ Enabled(in) /\ ~(invalidate \/ force_inv) /\ v_reg' = v_reg
      /\ \A k \in Way : tags'[k] = tags[k]
  BY <1>1, FetchCycle
<1>3. ~replace_valid /\ wr = "idle" /\ mem' = mem
  BY <1>1, FetchCycle
<1>4. read_addr' = word_counter /\ word_counter \in Word
  <2>1. read_addr \in Word /\ (read_addr + 1) % WORDS \in Word
    BY WordsAssumption DEF DInv, DataTypes, Word
  <2> QED
    BY <1>1, <2>1 DEF Cycle, ReadChannel, word_counter
<1>5. mem_rdata' = mem[InLine(word_counter)]
  <2>1. mem_rdata' = mem[[req.addr EXCEPT !.offset = word_counter]]
    BY <1>1, <1>2, <1>3 DEF Cycle, Memory, MemAddr
  <2> QED
    BY <1>4, <2>1, RequestLine
<1>6. InLine(read_addr)' = InLine(word_counter)
  BY <1>2, <1>4 DEF InLine, tag, index_reg
<1>7. v' = v_reg[index_reg]
  BY <1>2 DEF Cycle, ValidBlock, index_reg
<1>8. \A k \in Way : line_tag'[k] = tags[k][index_reg]
  BY <1>2, <1>3 DEF Cycle, TagMemory, index_reg
<1> QED
  BY <1>2, <1>3, <1>5, <1>6, <1>7, <1>8 DEF index_reg

\* The words of a cycle: one changes at most.
LEMMA WordsStep ==
  ASSUME NEW in, NEW force_inv, NEW answer, Cycle(in, force_inv, answer),
         NEW k \in Way, NEW i \in Index, NEW o \in Word
  PROVE  words'[k][i][o] = IF Enabled(in) /\ Written(k, o) /\ i = Address(in, k, o)
                           THEN (IF replace THEN mem_rdata ELSE req.data) ELSE words[k][i][o]
BY DEF Cycle, DataMemory

\* In a fetch it is the word that arrives, in the request's line.
LEMMA FetchWords ==
  ASSUME IInv, DInv, replace, NEW in, NEW force_inv, NEW answer, Cycle(in, force_inv, answer),
         NEW i \in Index, NEW k \in v_reg[i], NEW o \in Word
  PROVE  words'[k][i][o] = IF /\ read_valid /\ o = read_addr
                              /\ i = index_reg /\ tags[k][i] = tag
                           THEN mem[InLine(o)] ELSE words[k][i][o]
<1>1. in = req /\ ~write_access /\ Enabled(in)
  BY FetchCycle
<1>2. k \in Way /\ Address(in, k, o) = index_reg
  BY <1>1 DEF Address, index_reg, IInv, Registers
<1>3. words'[k][i][o] = IF k \in way_hit /\ read_valid /\ o = read_addr /\ i = index_reg
                        THEN mem_rdata ELSE words[k][i][o]
  BY <1>1, <1>2, WordsStep DEF Written
<1>4. CASE read_valid
  <2>1. mem_rdata = mem[InLine(read_addr)]
    BY <1>4 DEF read_valid, DInv, FetchAnswer
  <2>2. way_hit = {x \in v_reg[index_reg] : tags[x][index_reg] = tag}
    BY <1>4, HitWays DEF read_valid, DInv, FetchAnswer
  <2> QED
    BY <1>3, <2>1, <2>2
<1> QED
  BY <1>3, <1>4

LEMMA ArrivedIsWord ==
  ASSUME DInv
  PROVE  Arrived \subseteq Word
BY WordsAssumption DEF DInv, DataTypes, Arrived, Word

LEMMA LineSoFarKept ==
  ASSUME IInv, DInv, REP_POLICY = "plru_mru",
         NEW in, NEW force_inv, NEW answer, Cycle(in, force_inv, answer)
  PROVE  LineSoFar'
<1>0. read_addr \in Word
  BY DEF DInv, DataTypes
<1>1. CASE replace_valid
  <2>1. rd' = "handshake" /\ read_addr' = 0
    BY <1>1, FetchStarts DEF Cycle, ReadChannel, word_counter
  <2>2. Arrived' = {}
    BY <2>1 DEF Arrived
  <2> QED
    BY <2>2 DEF LineSoFar
<1>2. CASE ~replace_valid
  <2> SUFFICES ASSUME replace'
               PROVE  \A k \in v_reg'[index_reg'] : tags'[k][index_reg'] = tag' =>
                        \A o \in Arrived' : words'[k][index_reg'][o] = mem'[InLine(o)']
    BY DEF LineSoFar
  <2>1. rd = "handshake" /\ replace
    BY <1>2 DEF Cycle, ReadChannel, replace, IInv, Registers
  <2>2. /\ req' = req /\ v_reg' = v_reg /\ mem' = mem
        /\ \A k \in Way : tags'[k] = tags[k]
    BY <2>1, FetchCycle
  <2>3. index_reg' = index_reg /\ tag' = tag /\ \A o : InLine(o)' = InLine(o)
    BY <2>2 DEF index_reg, tag, InLine
  <2>4. index_reg \in Index /\ v_reg[index_reg] \subseteq Way
    BY RequestLine DEF IInv, Registers
  <2>5. Arrived' \subseteq Word /\ \A o \in Arrived' : (read_valid /\ o = read_addr) \/ o \in Arrived
    <3>1. CASE ~mem_ready
      <4>1. rd' = "handshake" /\ read_addr' = read_addr
        BY <2>1, <3>1 DEF Cycle, ReadChannel, word_counter
      <4> QED
        BY <2>1, <4>1, ArrivedIsWord DEF Arrived
    <3>2. CASE mem_ready /\ read_addr = WORDS - 1
      BY <1>0, <2>1, <3>2, WordsAssumption DEF Cycle, ReadChannel, read_valid, Arrived, Word
    <3>3. CASE mem_ready /\ read_addr # WORDS - 1
      <4>1. rd' = "handshake" /\ read_addr' = (read_addr + 1) % WORDS
        BY <2>1, <3>3 DEF Cycle, ReadChannel, word_counter
      <4>2. read_addr' = read_addr + 1
        BY <1>0, <3>3, <4>1, WordsAssumption DEF Word
      <4> QED
        BY <1>0, <2>1, <3>3, <4>1, <4>2, WordsAssumption DEF read_valid, Arrived, Word
    <3> QED
      BY <3>1, <3>2, <3>3
  <2>6. ASSUME NEW k \in v_reg[index_reg], tags[k][index_reg] = tag, NEW o \in Arrived'
        PROVE  words'[k][index_reg][o] = mem[InLine(o)]
    <3>1. words'[k][index_reg][o] = IF read_valid /\ o = read_addr
                                    THEN mem[InLine(o)] ELSE words[k][index_reg][o]
      BY <2>1, <2>4, <2>5, <2>6, FetchWords
    <3>2. o \in Arrived => words[k][index_reg][o] = mem[InLine(o)]
      BY <2>1, <2>6 DEF DInv, LineSoFar
    <3> QED
      BY <2>5, <3>1, <3>2
  <2> QED
    BY <2>2, <2>3, <2>4, <2>6
<1> QED
  BY <1>1, <1>2

LEMMA OnePrevKept ==
  ASSUME IInv, DInv, NEW in, NEW force_inv, NEW answer, Cycle(in, force_inv, answer)
  PROVE  OnePrev'
<1>1. write_access => \A j, k \in way_hit : j = k
  BY HitWaysAtRest DEF IInv, Fetching, write_access, read_access
<1> QED
  BY <1>1 DEF Cycle, RawBlock, OnePrev

LEMMA ReadOutKept ==
  ASSUME IInv, DInv, NEW in, NEW force_inv, NEW answer, Cycle(in, force_inv, answer)
  PROVE  ReadOut'
<1> SUFFICES ASSUME read_access', rd' = "idle", NEW k \in Way
             PROVE  \/ prev'.write_hit /\ k \in prev'.ways /\ prev'.offset = offset'
                    \/ line_rdata'[k][offset'] = words'[k][index_reg'][offset']
  BY DEF ReadOut
<1>1. in.op = "read" /\ in.addr \in Addr /\ req'.addr = in.addr /\ Enabled(in)
  BY InputType DEF Cycle, IInv, read_access, Enabled
<1> DEFINE o == in.addr.offset
           i == in.addr.index
<1>2. offset' = o /\ index_reg' = i /\ o \in Word /\ i \in Index
  BY <1>1, AddrShape, AddrFields DEF offset, index_reg
<1>3. ~read_valid \/ ~replace
  <2>1. rd = "handshake" => rd' # "idle"
    BY DEF Cycle, ReadChannel
  <2> QED
    BY <2>1 DEF read_valid
<1> HIDE DEF o, i
<1>4. CASE Written(k, o)
  <2>1. k \in way_hit /\ write_access /\ o = offset
    BY <1>3, <1>4 DEF Written
  <2> QED
    BY <1>2, <2>1 DEF Cycle, RawBlock
<1>5. CASE ~Written(k, o)
  <2>1. Address(in, k, o) = i
    BY <1>5 DEF Written, Address, IInv, Fetching, read_access, write_access, i
  <2>2. line_rdata'[k][o] = words[k][i][o]
    BY <1>1, <1>2, <1>5, <2>1 DEF Cycle, DataMemory
  <2>3. words'[k][i][o] = words[k][i][o]
    BY <1>2, <1>5, WordsStep
  <2> QED
    BY <1>2, <2>2, <2>3
<1> QED
  BY <1>4, <1>5

LEMMA CachedIsCurrentKept ==
  ASSUME IInv, DInv, REP_POLICY = "plru_mru",
         NEW in, NEW force_inv, NEW answer, Cycle(in, force_inv, answer)
  PROVE  CachedIsCurrent'
<1> SUFFICES ASSUME NEW i \in Index, NEW k \in v_reg'[i], NEW o \in Word
             PROVE  \/ replace' /\ i = index_reg' /\ tags'[k][i] = tag'
                    \/ write_access' /\ [tag |-> tags'[k][i], index |-> i, offset |-> o] = req'.addr
                    \/ words'[k][i][o] = Logical'[[tag |-> tags'[k][i], index |-> i, offset |-> o]]
  BY DEF CachedIsCurrent
<1> DEFINE a == [tag |-> tags[k][i], index |-> i, offset |-> o]
<1>0. v_reg \in [Index -> SUBSET Way]
  BY DEF IInv, Registers
<1>1. /\ Logical' = IF write_access /\ ready THEN [Logical EXCEPT ![req.addr] = req.data] ELSE Logical
      /\ Logical \in [Addr -> Value]
  BY LogicalStep
<1>2. k \in v_reg[i] => \/ replace /\ i = index_reg /\ tags[k][i] = tag
                        \/ write_access /\ a = req.addr
                        \/ words[k][i][o] = Logical[a]
  BY DEF DInv, CachedIsCurrent
<1>3. CASE replace_valid
  <2>1. /\ read_access /\ ~ready /\ req.op # "none" /\ ~write_access /\ ~replace
        /\ rd' = "handshake" /\ in = req
    BY <1>3, FetchStarts, Held DEF Cycle, ReadChannel, read_access, write_access, replace
  <2>2. req' = req
    BY <2>1 DEF Cycle, FrontEnd, read_access
  <2>3. PICK w \in Way :
          /\ v_reg' = [v_reg EXCEPT ![index_reg] = @ \union {w}]
          /\ \A x \in Way, n \in Index :
               tags'[x][n] = IF x = w /\ n = index_reg THEN tag ELSE tags[x][n]
    BY <1>3, FetchWrites
  <2>4. CASE i = index_reg /\ k = w
    BY <2>1, <2>2, <2>3, <2>4 DEF replace, index_reg, tag
  <2>5. CASE ~(i = index_reg /\ k = w)
    <3>1. k \in v_reg[i] /\ k \in Way
      BY <1>0, <2>3, <2>5
    <3>2. tags'[k][i] = tags[k][i]
      BY <2>3, <2>5, <3>1
    <3>3. words'[k][i][o] = words[k][i][o]
      BY <2>1, <3>1, WordsStep DEF Written
    <3> QED
      BY <1>1, <1>2, <2>1, <3>1, <3>2, <3>3
  <2> QED
    BY <2>4, <2>5
<1>4. CASE replace
  <2>1. /\ req' = req /\ ~write_access /\ v_reg' = v_reg /\ \A x \in Way : tags'[x] = tags[x]
        /\ wr = "idle" /\ buffer = <<>>
    BY <1>4, FetchCycle
  <2>2. k \in v_reg[i] /\ k \in Way /\ tags'[k][i] = tags[k][i]
    BY <1>0, <2>1
  <2>3. words'[k][i][o] = IF read_valid /\ o = read_addr /\ i = index_reg /\ tags[k][i] = tag
                          THEN mem[InLine(o)] ELSE words[k][i][o]
    BY <1>4, <2>2, FetchWords
  <2>4. CASE i = index_reg /\ tags[k][i] = tag
    <3>1. CASE replace'
      BY <2>1, <2>2, <2>4, <3>1 DEF index_reg, tag
    <3>2. CASE ~replace'
      <4>1. rd = "end_handshake"
        BY <1>4, <3>2 DEF Cycle, ReadChannel, replace, IInv, Registers
      <4>2. words[k][i][o] = mem[InLine(o)]
        BY <1>4, <2>2, <2>4, <4>1 DEF DInv, LineSoFar, Arrived
      <4>3. words'[k][i][o] = mem[InLine(o)]
        BY <2>3, <4>2
      <4>4. Logical' = mem
        BY <1>1, <2>1, NothingOverlaid DEF DInv
      <4>5. InLine(o) = a
        BY <2>4 DEF InLine
      <4> QED
        BY <2>2, <4>3, <4>4, <4>5
    <3> QED
      BY <3>1, <3>2
  <2>5. CASE ~(i = index_reg /\ tags[k][i] = tag)
    BY <1>1, <1>2, <2>1, <2>2, <2>3, <2>5
  <2> QED
    BY <2>4, <2>5
<1>5. CASE ~replace /\ ~replace_valid
  <2>1. v_reg'[i] = {} \/ v_reg'[i] = v_reg[i]
    BY <1>5, NoFetchKeeps
  <2>2. k \in v_reg[i] /\ k \in Way
    BY <1>0, <2>1
  <2>3. tags'[k][i] = tags[k][i]
    BY <1>5, <2>2, NoFetchKeeps
  <2>4. a \in Addr
    <3>1. <<tags[k][i], i>> \in Lines
      BY <2>2 DEF DInv, Resident
    <3> QED
      BY <3>1 DEF Addr
  <2>5. req.addr = [tag |-> tag, index |-> index_reg, offset |-> offset]
    BY RequestLine DEF InLine
  <2>6. write_access => (k \in way_hit <=> k \in v_reg[index_reg] /\ tags[k][index_reg] = tag)
    BY <1>5, HitWaysAtRest DEF write_access
  <2>7. CASE write_access /\ a = req.addr
    <3>1. i = index_reg /\ tags[k][i] = tag /\ o = offset
      BY <2>5, <2>7
    <3>2. Written(k, o) /\ Address(in, k, o) = index_reg /\ Enabled(in)
      BY <1>5, <2>2, <2>6, <2>7, <3>1 DEF Written, Address, Enabled, write_access
    <3>3. words'[k][i][o] = req.data
      BY <1>5, <2>2, <3>1, <3>2, WordsStep
    <3>4. CASE ready
      BY <1>1, <2>3, <2>4, <2>7, <3>3, <3>4
    <3>5. CASE ~ready
      <4>1. req' = req
        BY <2>7, <3>5, Held DEF Cycle, FrontEnd, write_access
      <4> QED
        BY <2>3, <2>7, <4>1 DEF write_access
    <3> QED
      BY <3>4, <3>5
  <2>8. CASE ~(write_access /\ a = req.addr)
    <3>1. words[k][i][o] = Logical[a]
      BY <1>2, <1>5, <2>2, <2>8
    <3>2. ~(Written(k, o) /\ i = Address(in, k, o))
      <4> SUFFICES ASSUME Written(k, o), i = Address(in, k, o) PROVE FALSE
        OBVIOUS
      <4>1. k \in way_hit /\ write_access /\ o = offset /\ i = index_reg
        BY <1>5 DEF Written, Address
      <4> QED
        BY <2>5, <2>6, <2>8, <4>1
    <3>3. words'[k][i][o] = words[k][i][o]
      BY <2>2, <3>2, WordsStep
    <3>4. Logical'[a] = Logical[a]
      BY <1>1, <2>4, <2>8
    <3> QED
      BY <2>3, <3>1, <3>3, <3>4
  <2> QED
    BY <2>7, <2>8
<1> QED
  BY <1>3, <1>4, <1>5

LEMMA InitDInv ==
  ASSUME Init, REP_POLICY = "plru_mru"
  PROVE  DInv
<1> USE FirstAddrType DEF Init
<1>1. DataTypes
  <2>1. mem \in [Addr -> Value]
    BY DEF Value
  <2>2. dout \in Write /\ read_addr \in Word
    BY WordsAssumption DEF Write, Word
  <2> QED
    BY <2>1, <2>2 DEF DataTypes
<1>2. Resident /\ CachedIsCurrent
  BY DEF Resident, CachedIsCurrent
<1> QED
  BY <1>1, <1>2 DEF DInv, Asking, WriteMade, FetchAnswer, LineSoFar, OnePrev, ReadOut,
     replace, read_access

LEMMA NextKeepsDInv ==
  ASSUME IInv, DInv, [Next]_vars, REP_POLICY = "plru_mru"
  PROVE  DInv'
<1>1. CASE Next
  <2>1. PICK answer \in BOOLEAN : Clock(answer)
    BY <1>1 DEF Next
  <2>2. PICK in \in Inputs, force_inv \in BOOLEAN : Cycle(in, force_inv, answer)
    BY <2>1 DEF Clock, Cycle
  <2> QED
    BY <2>2, DataTypesKept, AskingKept, ResidentKept, WriteMadeKept, FetchAnswerKept,
       LineSoFarKept, OnePrevKept, ReadOutKept, CachedIsCurrentKept DEF DInv
<1>2. CASE UNCHANGED vars
  <2>1. /\ tag' = tag /\ index_reg' = index_reg /\ offset' = offset
        /\ read_access' = read_access /\ write_access' = write_access /\ replace' = replace
        /\ Arrived' = Arrived /\ Logical' = Logical /\ \A o : InLine(o)' = InLine(o)
    BY <1>2 DEF vars, lookupVars, backVars, memVars, tag, index_reg, offset, read_access,
       write_access, replace, Arrived, Logical, InFlight, Overlaid, WritesTo, InLine
  <2>2. DataTypes' /\ Asking' /\ Resident' /\ WriteMade' /\ OnePrev'
    BY <1>2 DEF vars, lookupVars, backVars, memVars, DInv, DataTypes, Asking, Resident,
       WriteMade, OnePrev
  <2>3. FetchAnswer' /\ LineSoFar' /\ ReadOut'
    BY <1>2, <2>1 DEF vars, lookupVars, backVars, memVars, DInv, FetchAnswer, LineSoFar, ReadOut
  <2>4. CachedIsCurrent'
    BY <1>2, <2>1 DEF vars, lookupVars, backVars, memVars, DInv, CachedIsCurrent
  <2> QED
    BY <2>2, <2>3, <2>4 DEF DInv
<1> QED
  BY <1>1, <1>2

LEMMA AlwaysDInv ==
  ASSUME REP_POLICY = "plru_mru"
  PROVE  Spec => [](IInv /\ DInv)
<1>1. Init => IInv /\ DInv
  BY InitIInv, InitDInv
<1>2. (IInv /\ DInv) /\ [Next]_vars => (IInv /\ DInv)'
  BY NextKeepsIInv, NextKeepsDInv
<1> QED
  BY <1>1, <1>2, PTL DEF Spec

---------------------------------------------------------------------------
(* The answers *)

LEMMA RightRead ==
  ASSUME IInv, DInv, read_access, ready
  PROVE  rdata = Logical[req.addr]
<1> DEFINE c == CHOOSE k \in way_hit : TRUE
<1>1. way_hit # {} /\ ~replace /\ ~raw /\ req.op # "none" /\ ~write_access
  BY DEF ready, hit, read_access, write_access
<1>2. /\ c \in way_hit /\ c \in v_reg[index_reg] /\ tags[c][index_reg] = tag /\ c \in Way
      /\ \A k \in way_hit : k = c
  BY <1>1, HitWaysAtRest
<1>3. rdata = line_rdata[c][offset]
  BY DEF rdata
<1> HIDE DEF c
<1>4. ~(prev.write_hit /\ c \in prev.ways /\ prev.offset = offset)
  <2> SUFFICES ASSUME prev.write_hit, c \in prev.ways, prev.offset = offset PROVE FALSE
    OBVIOUS
  <2>1. prev.ways = {c} /\ way_hit = {c}
    BY <1>2 DEF DInv, OnePrev
  <2> QED
    BY <1>1, <2>1 DEF raw
<1>5. line_rdata[c][offset] = words[c][index_reg][offset]
  BY <1>1, <1>2, <1>4 DEF DInv, ReadOut, replace
<1>6. req.addr = [tag |-> tags[c][index_reg], index |-> index_reg, offset |-> offset]
      /\ index_reg \in Index /\ offset \in Word
  BY <1>2, RequestLine DEF InLine
<1>7. words[c][index_reg][offset] = Logical[req.addr]
  BY <1>1, <1>2, <1>6 DEF DInv, CachedIsCurrent
<1> QED
  BY <1>3, <1>5, <1>7

---------------------------------------------------------------------------
(* The service *)

Asked == IF req.op = "none" THEN [op |-> "none"] ELSE req
Reply == IF ~ready THEN NotYet ELSE IF read_access THEN rdata ELSE Junk

\* The request and the answer as the service has them.
AnswersWell ==
  /\ req.op # "none" => Asked = req /\ Asked # [op |-> "none"] /\ Asked \in Access
  /\ req.op = "none" => Asked = [op |-> "none"] /\ ~ready
  /\ ready <=> Reply # NotYet
  /\ read_access /\ ready => Reply = Logical[req.addr]

LEMMA AnswerShape == IInv /\ DInv => AnswersWell
<1> SUFFICES ASSUME IInv, DInv PROVE AnswersWell
  OBVIOUS
<1>1. req.op # "none" => Asked = req /\ Asked # [op |-> "none"] /\ Asked \in Access
  BY DEF Asked, DInv, Asking
<1>2. req.op = "none" => Asked = [op |-> "none"] /\ ~ready
  BY DEF Asked, ready, read_access, write_access
<1>3. read_access /\ ready => Reply = Logical[req.addr]
  BY RightRead DEF Reply
<1>4. ready <=> Reply # NotYet
  <2>1. read_access /\ ready => rdata \in Value
    BY RightRead, LogicalType, RequestLine
  <2> QED
    BY <2>1, AnswersAssumption DEF Reply, Value
<1> QED
  BY <1>1, <1>2, <1>3, <1>4 DEF AnswersWell

LEMMA ServiceInitially == Init => Service!Init
<1> SUFFICES ASSUME Init PROVE Service!Init
  OBVIOUS
<1>1. \A a : WritesTo(buffer, a) = {}
  BY DEF Init, WritesTo
<1>2. Logical = [a \in Addr |-> a]
  BY <1>1 DEF Init, Logical, Overlaid, InFlight
<1>3. req.op = "none" /\ ~ready
  BY DEF Init, ready, read_access, write_access
<1> QED
  BY <1>2, <1>3 DEF Service!Init

LEMMA CycleServes ==
  ASSUME IInv, DInv, IInv', DInv',
         NEW in, NEW force_inv, NEW answer, Cycle(in, force_inv, answer)
  PROVE  Service!Next \/ UNCHANGED Service!vars
<1>1. Logical' = IF write_access /\ ready THEN [Logical EXCEPT ![req.addr] = req.data] ELSE Logical
  BY LogicalStep
<1>2. /\ req.op # "none" => Asked = req /\ Asked # [op |-> "none"] /\ Asked \in Access
      /\ req.op = "none" => Asked = [op |-> "none"] /\ ~ready
      /\ ready <=> Reply # NotYet
  BY AnswerShape DEF AnswersWell
<1>3. /\ req'.op # "none" => Asked' = req' /\ Asked' # [op |-> "none"] /\ Asked' \in Access
      /\ req'.op = "none" => Asked' = [op |-> "none"] /\ ~ready'
      /\ ready' <=> Reply' # NotYet
      /\ req'.op = "read" /\ ready' => Reply' = Logical'[req'.addr]
  <2>1. AnswersWell'
    BY AnswerShape, PTL
  <2> QED
    BY <2>1 DEF AnswersWell, read_access
<1>4. CASE req.op # "none" /\ ~ready
  <2>1. req' = req /\ Logical' = Logical
    BY <1>1, <1>4, Held DEF Cycle, FrontEnd, IInv, Registers
  <2>2. Asked' = Asked
    BY <2>1 DEF Asked
  <2>3. CASE ready'
    <3>1. Service!Reply
      BY <1>2, <1>3, <1>4, <2>1, <2>2, <2>3 DEF Service!Reply, Service!Answered, Service!RightAnswer,
         Asked, Reply
    <3> QED
      BY <3>1 DEF Service!Next
  <2>4. CASE ~ready'
    <3>1. Reply' = Reply
      BY <1>2, <1>3, <1>4, <2>4
    <3> QED
      BY <2>1, <2>2, <3>1 DEF Service!vars, Asked, Reply
  <2> QED
    BY <2>3, <2>4
<1>5. CASE req.op = "none" \/ ready
  <2>1. Service!Answered
    BY <1>2, <1>5 DEF Service!Answered, Asked, Reply
  <2>2. Logical' = Service!StoreLeft
    BY <1>1, <1>2, <1>5 DEF Service!StoreLeft, Asked, write_access
  <2>3. CASE req'.op = "none"
    <3>1. Service!Rest
      BY <1>3, <2>1, <2>2, <2>3 DEF Service!Rest, Asked, Reply
    <3> QED
      BY <3>1 DEF Service!Next
  <2>4. CASE req'.op # "none"
    <3>1. Service!Ask
      BY <1>3, <2>1, <2>2, <2>4 DEF Service!Ask, Service!RightAnswer, Asked, Reply
    <3> QED
      BY <3>1 DEF Service!Next
  <2> QED
    BY <2>3, <2>4
<1> QED
  BY <1>4, <1>5

LEMMA NextServes ==
  ASSUME IInv, DInv, IInv', DInv', [Next]_vars
  PROVE  Service!Next \/ UNCHANGED Service!vars
<1>1. CASE Next
  <2>1. PICK answer \in BOOLEAN : Clock(answer)
    BY <1>1 DEF Next
  <2>2. PICK in \in Inputs, force_inv \in BOOLEAN : Cycle(in, force_inv, answer)
    BY <2>1 DEF Clock, Cycle
  <2> QED
    BY <2>2, CycleServes
<1>2. CASE UNCHANGED vars
  <2>1. req' = req /\ Logical' = Logical
    BY <1>2 DEF vars, lookupVars, backVars, memVars, Logical, InFlight, Overlaid, WritesTo
  <2>2. ready' = ready /\ read_access' = read_access /\ rdata' = rdata
    BY <1>2 DEF vars, lookupVars, backVars, memVars, ready, rdata, hit, raw, way_hit, replace,
       read_access, write_access, buffer_full, offset, tag
  <2> QED
    BY <2>1, <2>2 DEF Service!vars
<1> QED
  BY <1>1, <1>2

---------------------------------------------------------------------------
(* The theorems about the words *)

\* Write-through: a word of a valid line is never older than what the master last wrote
\* there (cache-memory.v:107-131, 206-226, 266-284), whatever the memory's delays.
THEOREM CachedNeverStale ==
  ASSUME REP_POLICY = "plru_mru"
  PROVE  Spec => []CachedIsCurrent
<1>1. DInv => CachedIsCurrent
  BY DEF DInv
<1> QED
  BY <1>1, AlwaysDInv, PTL

\* The cache implements the memory: every read is answered with what was last written.
THEOREM ServesAsMemory ==
  ASSUME REP_POLICY = "plru_mru"
  PROVE  Spec => MemorySpec
<1>1. Init => Service!Init
  BY ServiceInitially
<1>2. (IInv /\ DInv) /\ (IInv /\ DInv)' /\ [Next]_vars => [Service!Next]_(Service!vars)
  BY NextServes
<1> QED
  BY <1>1, <1>2, AlwaysDInv, PTL DEF Spec, MemorySpec, Service!Spec

=============================================================================

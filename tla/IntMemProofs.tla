---------------------------- MODULE IntMemProofs ----------------------------
(***************************************************************************)
(* The internal memory and its boot controller, for every size of ROM,     *)
(* SRAM and firmware and whatever the two programs do.                     *)
(***************************************************************************)
EXTENDS IntMem, TLAPS

---------------------------------------------------------------------------
(* The inductive invariant *)

LastRom == RomWords - 1

Registers ==
  /\ rst \in Bit /\ boot \in Bit /\ cpu_rst_req \in Bit /\ cpu_rst \in Bit
  /\ rom_r_valid \in Bit /\ sram_valid \in Bit
  /\ sel_en \in Bit /\ sel_reg \in Bit /\ s_sel_reg \in Bit
  /\ i_ready \in Bit /\ d_ready \in Bit /\ ctr_ready \in Bit
  /\ rom_r_addr \in RomAddr
  /\ cpu \in [req : {NoRequest} \cup Requests, n : 0 .. FwWords, asked : BOOLEAN, prog : {"loader", "firmware"}]

\* The system reset holds the CPU and has the copy begin.
UnderReset == rst = 1 => cpu_rst = 1 /\ cpu_rst_req = 0 /\ rom_r_valid = 1 /\ rom_r_addr = 0

\* So does a restart, whose request is still on the bus.
UnderRestart ==
  cpu_rst_req = 1 => /\ rom_r_valid = 1 /\ rom_r_addr = 0
                     /\ cpu.req.to = "restart" /\ s_sel_reg = 1

\* While there is something to copy the CPU is held, or will be after this edge, and asks
\* for nothing.
Held ==
  /\ rom_r_valid = 1 => sram_valid = 1
  /\ sram_valid = 1 => cpu_rst = 1 \/ cpu_rst_req = 1
  /\ cpu_rst = 1 /\ rst = 0 => cpu.req = NoRequest

\* How far the copy is: the address that is read runs ahead of the words in place by the
\* one on its way.
InPlace(n) == \A a \in 0 .. n - 1 : ram[Top + a] = Rom[a]

OnItsWay(n) == ram_w_addr = Top + n /\ rom_r_rdata = Rom[n] /\ InPlace(n)

Copying ==
  /\ rom_r_valid = 0 => rom_r_addr = LastRom
  /\ rom_r_valid = 1 /\ rom_r_addr = 0 => ram_w_addr = 0
  /\ rom_r_valid = 1 /\ rom_r_addr # 0 => OnItsWay(rom_r_addr - 1)
  /\ rom_r_valid = 0 /\ sram_valid = 1 => OnItsWay(LastRom)
  /\ rom_r_valid = 0 /\ sram_valid = 0 /\ cpu_rst = 1 => InPlace(RomWords)

\* The port is locked for one edge after each access, and to the copy while it goes on.
Ports ==
  /\ sel_en = 0 => i_ready = 1
  /\ sram_valid = 1 => sel_en = 1 \/ sel_reg = 1
  /\ ctr_ready = cpu_rst_req
  /\ d_ready = 1 => cpu.req.to = "store" /\ s_sel_reg = 0

\* A bootloader that runs is whole, stores outside itself, and has stored the firmware
\* up to the word it is at.
LoaderRuns ==
  /\ InPlace(RomWords)
  /\ cpu.req.to = "store" => cpu.req.addr >= RomWords
  /\ cpu.req.to = "store" /\ ~IsNextWord(cpu.req) => cpu.req.addr >= RomWords + FwWords
  /\ cpu.req.to = "restart" => cpu.n = FwWords /\ cpu.req.boot = 0
  /\ cpu.req.to = "fetch" => cpu.req.addr \in RomAddr
  /\ \A a \in 0 .. cpu.n - 1 : ram[a] = Firmware[a]
  /\ IsNextWord(cpu.req) /\ answered => ram[cpu.n] = Firmware[cpu.n]

FirmwareRuns ==
  /\ cpu.req.to = "store" => cpu.req.addr >= FwWords
  /\ cpu.req.to = "restart" => cpu.req.boot = 1
  /\ cpu.req.to = "fetch" => cpu.req.addr < FwWords

\* The program that runs is the one boot says, until its restart is accepted.
Running ==
  ~cpu_reset =>
    /\ cpu_rst_req = 0 => (boot = 1 <=> cpu.prog = "loader")
    /\ cpu.prog = "loader" => LoaderRuns
    /\ cpu.prog = "firmware" => FirmwareRuns

\* The firmware is there while it runs and while it is about to, its first word apart.
Loaded == boot = 0 => \A a \in 1 .. FwWords - 1 : ram[a] = Firmware[a]

\* The answer to a fetch is a word of the program.
Fetched ==
  ~cpu_reset /\ cpu.req.to = "fetch" /\ answered /\ (cpu.prog = "firmware" => cpu.req.addr # 0)
    => i_rdata = FetchedWord(cpu.req.addr)

\* A program whose restart has been answered is in reset.
Asked == cpu.asked => cpu_reset /\ cpu.req = NoRequest

IInv ==
  /\ Registers /\ UnderReset /\ UnderRestart /\ Held /\ Copying /\ Ports
  /\ Running /\ Loaded /\ Fetched /\ Asked

---------------------------------------------------------------------------
(* The requests and the addresses *)

LEMMA RequestShape ==
  ASSUME NEW r \in {NoRequest} \cup Requests
  PROVE  /\ r.to \in {"none", "fetch", "store", "restart"}
         /\ r.to = "none" <=> r = NoRequest
         /\ r.to \in {"fetch", "store"} => r.addr \in RamAddr
         /\ r.to = "restart" => r.boot \in Bit
BY DEF Requests, NoRequest, Fetch, Store, Restart

LEMMA Sizes ==
  /\ RomWords \in Nat \ {0} /\ RamWords \in Nat /\ FwWords \in Nat \ {0}
  /\ FwWords < Top /\ Top \in Nat /\ Top = RamWords - RomWords
BY SizesAssumption DEF Top

LEMMA OffsetOfImage ==
  ASSUME boot = 1, NEW a \in RomAddr
  PROVE  Offset(a) = Top + a
BY SizesAssumption DEF Offset, Top, RomAddr

LEMMA OffsetOfRest ==
  ASSUME boot = 1, NEW a \in RomWords .. RamWords - 1
  PROVE  Offset(a) = a - RomWords
BY SizesAssumption DEF Offset, Top

LEMMA CopyAddress ==
  ASSUME NEW a \in RomAddr
  PROVE  (a - RomWords) % RamWords = Top + a
BY SizesAssumption DEF Top, RomAddr

---------------------------------------------------------------------------
(* What one edge does *)

\* While there is something to copy the copy has the memory.
LEMMA CopyHasMemory ==
  ASSUME IInv, sram_valid = 1
  PROVE  CopyWrites /\ ~Fetches
BY DEF IInv, Registers, Ports, CopyWrites, Fetches, sel, Bit

\* A CPU that asks for something is not in reset and waits for the answer; there is
\* nothing to copy.
LEMMA Asking ==
  ASSUME IInv, Next, rst = 0,
         NEW what \in {"fetch", "store", "restart"}, requests(what)
  PROVE  /\ sram_valid = 0 /\ rom_r_valid = 0 /\ cpu_rst = 0 /\ cpu_rst_req = 0
         /\ ~CopyWrites /\ ~cpu_reset /\ cpu' = cpu
<1>1. cpu.req # NoRequest /\ ~answered
  BY DEF requests, NoRequest
<1>2. cpu_rst = 0
  BY <1>1 DEF IInv, Held, Registers, Bit
<1>3. cpu_rst_req = 0
  BY <1>1 DEF IInv, UnderRestart, Ports, answered, Registers, Bit
<1>4. sram_valid = 0 /\ rom_r_valid = 0
  BY <1>2, <1>3 DEF IInv, Held, Registers, Bit
<1>5. cpu' = cpu
  BY <1>1, <1>2 DEF Next, Cpu, CpuHeld, CpuWaits, CpuAnswered, CpuRequests, cpu_reset
<1> QED
  BY <1>2, <1>3, <1>4, <1>5 DEF CopyWrites, cpu_reset

\* The memory after an edge at which the system is not in reset.
LEMMA RamStep ==
  ASSUME IInv, Next, rst = 0, NEW a \in RamAddr
  PROVE  /\ ~CopyWrites /\ ~requests("store") => ram'[a] = ram[a]
         /\ CopyWrites => ram'[a] = IF a = ram_w_addr THEN rom_r_rdata ELSE ram[a]
         /\ requests("store") =>
              ram'[a] = IF a = Offset(cpu.req.addr) THEN cpu.req.word ELSE ram[a]
<1>1. ~(CopyWrites /\ requests("store"))
  BY Asking
<1>2. ram' = [b \in RamAddr |->
                IF CopyWrites /\ b = ram_w_addr THEN rom_r_rdata
                ELSE IF requests("store") /\ b = Offset(cpu.req.addr) THEN cpu.req.word
                ELSE ram[b]]
  BY <1>1, Zenon DEF Next, Memory
<1> QED
  BY <1>1, <1>2

\* A CPU that is let go at this edge or before: no reset is under way.
LEMMA LetGo ==
  ASSUME IInv, Next, ~cpu_reset'
  PROVE  /\ rst = 0 /\ rst' = 0 /\ sram_valid = 0 /\ rom_r_valid = 0 /\ cpu_rst_req = 0
         /\ ~CopyWrites
<1>1. rst = 0 /\ rst' = 0 /\ sram_valid = 0 /\ cpu_rst_req = 0
  BY DEF IInv, Registers, Bit, Next, CpuReset, Rst, cpu_reset
<1> QED
  BY <1>1 DEF IInv, Held, Registers, Bit, CopyWrites

---------------------------------------------------------------------------
(* Every conjunct of the invariant is kept *)

LEMMA RegistersKept == ASSUME IInv, Next PROVE Registers'
<1>1. /\ rst' \in Bit /\ cpu_rst_req' \in Bit /\ cpu_rst' \in Bit
      /\ rom_r_valid' \in Bit /\ sram_valid' \in Bit
  BY DEF IInv, Registers, Next, BootRegister, CpuReset, RomRead, RomReadUpTo, SramWrite,
         SramWriteTo, Rst, Reboot, Bit
<1>2. boot' \in Bit
  BY RequestShape DEF IInv, Registers, Next, BootRegister, Rst, requests, Bit
<1>3. sel_en' \in Bit /\ sel_reg' \in Bit /\ s_sel_reg' \in Bit
  BY DEF IInv, Registers, Next, Merge, Split, Rst, sel, Bit
<1>4. i_ready' \in Bit /\ d_ready' \in Bit /\ ctr_ready' \in Bit
  BY DEF Next, Ready, Rst, Bit
<1>5. rom_r_addr' \in RomAddr
  BY Sizes DEF IInv, Registers, Next, RomRead, RomReadUpTo, Rst, Reboot, RomAddr
<1>6. cpu' \in [req : {NoRequest} \cup Requests, n : 0 .. FwWords, asked : BOOLEAN,
                prog : {"loader", "firmware"}]
  <2>1. CASE CpuHeld
    BY <2>1, Sizes DEF CpuHeld
  <2>2. CASE CpuWaits
    BY <2>2 DEF CpuWaits, IInv, Registers
  <2>3. CASE CpuAnswered
    <3> DEFINE n     == IF IsNextWord(cpu.req) THEN cpu.n + 1 ELSE cpu.n
               asked == cpu.asked \/ cpu.req.to = "restart"
    <3>1. n \in 0 .. FwWords
      BY Sizes DEF IsNextWord, IInv, Registers
    <3>2. asked \in BOOLEAN
      OBVIOUS
    <3>3. cpu' = [cpu EXCEPT !.req = NoRequest, !.n = n, !.asked = asked]
      BY <2>3 DEF CpuAnswered
    <3> HIDE DEF n, asked
    <3> QED
      BY <3>1, <3>2, <3>3 DEF IInv, Registers
  <2>4. CASE CpuRequests
    BY <2>4 DEF CpuRequests, IInv, Registers
  <2> QED
    BY <2>1, <2>2, <2>3, <2>4 DEF Next, Cpu
<1> QED
  BY <1>1, <1>2, <1>3, <1>4, <1>5, <1>6 DEF Registers

LEMMA UnderResetKept == ASSUME IInv, Next PROVE UnderReset'
BY DEF Next, BootRegister, CpuReset, RomRead, RomReadUpTo, Rst, Reboot, UnderReset, IInv, Registers, Bit

LEMMA UnderRestartKept == ASSUME IInv, Next PROVE UnderRestart'
<1> SUFFICES ASSUME cpu_rst_req' = 1
             PROVE  /\ rom_r_valid' = 1 /\ rom_r_addr' = 0
                    /\ cpu'.req.to = "restart" /\ s_sel_reg' = 1
  BY DEF UnderRestart
<1>1. rst = 0 /\ rst' = 0 /\ requests("restart")
  BY DEF Next, BootRegister, Rst, IInv, Registers, Bit
<1>2. cpu' = cpu /\ cpu.req.to = "restart"
  BY <1>1, Asking DEF requests
<1> QED
  BY <1>1, <1>2 DEF Next, RomRead, RomReadUpTo, Reboot, Split, Rst

LEMMA HeldKept == ASSUME IInv, Next PROVE Held'
<1>1. rom_r_valid' = 1 => sram_valid' = 1
  BY DEF IInv, Registers, Bit, Next, RomRead, RomReadUpTo, SramWrite, SramWriteTo, Reboot, Rst
<1>2. sram_valid' = 1 => cpu_rst' = 1 \/ cpu_rst_req' = 1
  BY DEF IInv, Held, Registers, Bit, Next, SramWrite, SramWriteTo, CpuReset, Reboot, Rst
<1>3. ASSUME cpu_rst' = 1, rst' = 0
      PROVE  cpu'.req = NoRequest
  <2>1. CASE cpu_reset
    BY <2>1 DEF Next, Cpu, CpuHeld, CpuWaits, CpuAnswered, CpuRequests
  <2>2. CASE ~cpu_reset
    <3>1. rst = 0 /\ cpu_rst = 0 /\ cpu_rst_req = 1
      BY <1>3, <2>2 DEF cpu_reset, IInv, Held, Registers, Bit, Next, CpuReset, Rst
    <3>2. answered
      BY <3>1 DEF answered, IInv, UnderRestart, Ports
    <3>3. cpu.req # NoRequest
      BY <3>2 DEF answered, NoRequest
    <3>4. CpuAnswered
      BY <2>2, <3>2, <3>3 DEF Next, Cpu, CpuHeld, CpuWaits, CpuRequests
    <3> QED
      BY <3>4 DEF CpuAnswered, IInv, Registers
  <2> QED
    BY <2>1, <2>2
<1> QED
  BY <1>1, <1>2, <1>3 DEF Held

\* One edge of the copy: the word that was on its way is in place, the next one is on
\* its way.
LEMMA CopyAdvances ==
  ASSUME IInv, Next, rst = 0, rst' = 0, cpu_rst_req = 0, cpu_rst_req' = 0, rom_r_valid = 1,
         NEW n \in RomAddr, rom_r_addr = n
  PROVE  OnItsWay(n)'
<1>1. sram_valid = 1 /\ CopyWrites
  BY CopyHasMemory DEF IInv, Held
<1>2. ram_w_addr' = Top + n /\ rom_r_rdata' = Rom[n]
  BY CopyAddress DEF Next, SramWrite, SramWriteTo, RomRead, RomReadUpTo, Reboot, Rst
<1>3. ASSUME NEW a \in 0 .. n - 1
      PROVE  ram'[Top + a] = Rom[a]
  <2>1. n # 0 /\ OnItsWay(n - 1)
    BY DEF IInv, Copying, RomAddr
  <2>2. Top + a \in RamAddr
    BY Sizes DEF RamAddr, RomAddr
  <2>3. ram'[Top + a] = IF Top + a = ram_w_addr THEN rom_r_rdata ELSE ram[Top + a]
    BY <1>1, <2>2, RamStep
  <2> QED
    BY <2>1, <2>3, Sizes DEF OnItsWay, InPlace, RomAddr
<1> QED
  BY <1>2, <1>3 DEF OnItsWay, InPlace

LEMMA CopyingKept == ASSUME IInv, Next PROVE Copying'
<1> DEFINE Cut == rst = 1 \/ rst' = 1 \/ cpu_rst_req = 1 \/ cpu_rst_req' = 1
<1>1. CASE Cut
  <2>1. rom_r_valid' = 1 /\ rom_r_addr' = 0 /\ ram_w_addr' = 0
    BY <1>1 DEF Next, RomRead, RomReadUpTo, SramWrite, SramWriteTo, Reboot, Rst
  <2> QED
    BY <2>1 DEF Copying
<1>2. CASE ~Cut
  <2>1. /\ rst = 0 /\ rst' = 0 /\ cpu_rst_req = 0 /\ cpu_rst_req' = 0
        /\ rom_r_valid' = IF rom_r_addr # LastRom THEN rom_r_valid ELSE 0
        /\ rom_r_addr' = IF rom_r_addr # LastRom THEN rom_r_addr + 1 ELSE rom_r_addr
        /\ sram_valid' = rom_r_valid
        /\ cpu_rst' = IF sram_valid = 1 THEN 1 ELSE 0
    BY <1>2 DEF Next, IInv, Registers, Bit, BootRegister, RomRead, RomReadUpTo, SramWrite,
                SramWriteTo, CpuReset, Reboot, Rst, LastRom
  <2>2. rom_r_addr \in RomAddr /\ rom_r_valid \in Bit /\ sram_valid \in Bit /\ LastRom \in RomAddr
    BY Sizes DEF IInv, Registers, LastRom, RomAddr
  <2>3. CASE rom_r_valid = 1
    <3>1. ASSUME NEW n \in RomAddr, rom_r_addr = n
          PROVE  OnItsWay(n)'
      BY <2>1, <2>3, <3>1, CopyAdvances
    <3>2. CASE rom_r_addr = LastRom
      <4>1. rom_r_valid' = 0 /\ rom_r_addr' = LastRom /\ sram_valid' = 1
        BY <2>1, <2>3, <3>2
      <4>2. OnItsWay(LastRom)'
        <5> DEFINE n == LastRom
        <5>1. OnItsWay(n)'
          BY <2>2, <3>1, <3>2
        <5> QED
          BY <5>1 DEF LastRom
      <4> QED
        BY <4>1, <4>2 DEF Copying, LastRom
    <3>3. CASE rom_r_addr # LastRom
      <4>1. rom_r_valid' = 1 /\ rom_r_addr' = rom_r_addr + 1
        BY <2>1, <2>3, <3>3
      <4>2. PICK n \in RomAddr : n = rom_r_addr
        BY <2>2
      <4>3. rom_r_addr' - 1 = n /\ rom_r_addr' # 0
        BY <4>1, <4>2 DEF RomAddr
      <4>4. OnItsWay(n)'
        BY <3>1, <4>2
      <4>5. OnItsWay(rom_r_addr - 1)'
        BY <4>3, <4>4 DEF OnItsWay, InPlace
      <4> QED
        BY <4>1, <4>3, <4>5 DEF Copying
    <3> QED
      BY <3>2, <3>3
  <2>4. CASE rom_r_valid = 0
    <3>1. rom_r_addr = LastRom
      BY <2>4 DEF IInv, Copying
    <3>2. rom_r_valid' = 0 /\ rom_r_addr' = LastRom /\ sram_valid' = 0
      BY <2>1, <2>4, <3>1
    <3>3. ASSUME cpu_rst' = 1, NEW a \in 0 .. RomWords - 1
          PROVE  ram'[Top + a] = Rom[a]
      <4>1. sram_valid = 1 /\ OnItsWay(LastRom)
        BY <2>1, <2>2, <2>4, <3>3 DEF IInv, Copying
      <4>2. CopyWrites
        BY <4>1, CopyHasMemory
      <4>3. Top + a \in RamAddr
        BY Sizes DEF RamAddr
      <4>4. ram'[Top + a] = IF Top + a = ram_w_addr THEN rom_r_rdata ELSE ram[Top + a]
        BY <2>1, <4>2, <4>3, RamStep
      <4> QED
        BY <4>1, <4>4, Sizes DEF OnItsWay, InPlace, LastRom
    <3> QED
      BY <3>2, <3>3 DEF Copying, InPlace, LastRom
  <2> QED
    BY <2>2, <2>3, <2>4 DEF Bit
<1> QED
  BY <1>1, <1>2

LEMMA PortsKept == ASSUME IInv, Next PROVE Ports'
<1>1. sel_en' = 0 => i_ready' = 1
  BY DEF IInv, Ports, Registers, Bit, Next, Merge, Ready, Rst
<1>2. ASSUME sram_valid' = 1, sel_en' # 1
      PROVE  sel_reg' = 1
  <2>1. rst = 0 /\ rst' = 0
    BY <1>2 DEF Next, Merge, Rst, IInv, Registers, Bit
  <2>2. CopyWrites \/ Fetches
    BY <1>2, <2>1 DEF Next, Merge, Rst, IInv, Ports, Registers, Bit
  <2>3. CASE CopyWrites
    BY <2>1, <2>3 DEF CopyWrites, Next, Merge, Rst
  <2>4. CASE Fetches
    <3>1. requests("fetch") /\ ~requests("restart")
      BY <2>4 DEF Fetches, requests
    <3>2. sram_valid = 0 /\ rom_r_valid = 0 /\ cpu_rst_req = 0
      BY <2>1, <3>1, Asking
    <3>3. cpu_rst_req' = 0
      BY <2>1, <3>1 DEF Next, BootRegister, Rst
    <3>4. sram_valid' = 0
      BY <2>1, <3>2, <3>3 DEF Next, SramWrite, SramWriteTo, Reboot, Rst
    <3> QED
      BY <1>2, <3>4
  <2> QED
    BY <2>2, <2>3, <2>4
<1>3. ctr_ready' = cpu_rst_req'
  BY DEF Next, BootRegister, Ready, Rst
<1>4. ASSUME d_ready' = 1
      PROVE  cpu'.req.to = "store" /\ s_sel_reg' = 0
  <2>1. rst = 0 /\ rst' = 0 /\ requests("store")
    BY <1>4 DEF Next, Ready, Rst, IInv, Registers, Bit
  <2>2. cpu' = cpu /\ cpu.req.to = "store"
    BY <2>1, Asking DEF requests
  <2> QED
    BY <2>1, <2>2 DEF Next, Split, Rst
<1>5. sel_en' \in Bit
  BY RegistersKept DEF Registers
<1> QED
  BY <1>1, <1>2, <1>3, <1>4, <1>5 DEF Ports, Bit

LEMMA AskedKept == ASSUME IInv, Next PROVE Asked'
<1> SUFFICES ASSUME cpu'.asked
             PROVE  cpu_reset' /\ cpu'.req = NoRequest
  BY DEF Asked
<1>1. CASE CpuHeld
  BY <1>1 DEF CpuHeld
<1>2. CASE CpuWaits \/ CpuRequests
  BY <1>2 DEF CpuWaits, CpuRequests, IInv, Asked, Registers
<1>3. CASE CpuAnswered
  <2>1. cpu'.req = NoRequest /\ cpu.req.to = "restart" /\ answered
    BY <1>3 DEF CpuAnswered, IInv, Asked, Registers
  <2>2. cpu_rst_req = 1
    BY <2>1 DEF answered, IInv, Ports
  <2>3. cpu_rst' = 1
    BY <2>2 DEF Next, CpuReset, Rst
  <2> QED
    BY <2>1, <2>3 DEF cpu_reset
<1> QED
  BY <1>1, <1>2, <1>3 DEF Next, Cpu

\* What is answered while no restart is accepted is a fetch or a store.
LEMMA Answers ==
  ASSUME IInv, ~cpu_reset, cpu_rst_req = 0, answered
  PROVE  cpu.req.to \in {"fetch", "store"}
BY RequestShape DEF IInv, Registers, Ports, answered

\* A memory that nothing is written to.
LEMMA RamStays ==
  ASSUME IInv, Next, ~cpu_reset', ~requests("store")
  PROVE  \A a \in RamAddr : ram'[a] = ram[a]
BY LetGo, RamStep

\* A bootloader's store leaves its image and the firmware that is there alone.
LEMMA LoaderStores ==
  ASSUME IInv, Next, ~cpu_reset', ~cpu_reset, requests("store"), cpu.prog = "loader"
  PROVE  /\ \A a \in RomAddr : ram'[Top + a] = Rom[a]
         /\ \A a \in 0 .. cpu.n - 1 : ram'[a] = Firmware[a]
         /\ IsNextWord(cpu.req) => ram'[cpu.n] = Firmware[cpu.n]
<1>1. rst = 0 /\ cpu_rst_req = 0 /\ boot = 1
  BY LetGo DEF IInv, Running, LoaderRuns
<1>2. /\ cpu.req.to = "store" /\ cpu.req.addr \in RamAddr /\ cpu.req.addr >= RomWords
      /\ cpu.n \in 0 .. FwWords
  BY RequestShape DEF requests, IInv, Running, LoaderRuns, Registers
<1>3. Offset(cpu.req.addr) = cpu.req.addr - RomWords
  BY <1>1, <1>2, OffsetOfRest, Sizes DEF RamAddr
<1>4. \A a \in RamAddr : ram'[a] = IF a = cpu.req.addr - RomWords THEN cpu.req.word ELSE ram[a]
  BY <1>1, <1>3, RamStep
<1>5. ASSUME NEW a \in RomAddr
      PROVE  ram'[Top + a] = Rom[a]
  <2>1. ram[Top + a] = Rom[a]
    BY DEF IInv, Running, LoaderRuns, InPlace, RomAddr
  <2>2. Top + a \in RamAddr /\ Top + a # cpu.req.addr - RomWords
    BY <1>2, Sizes DEF RomAddr, RamAddr
  <2> QED
    BY <1>4, <2>1, <2>2
<1>6. ASSUME NEW a \in 0 .. cpu.n - 1
      PROVE  ram'[a] = Firmware[a]
  <2>1. ram[a] = Firmware[a]
    BY DEF IInv, Running, LoaderRuns
  <2>2. a \in RamAddr
    BY <1>2, Sizes DEF RamAddr
  <2>3. a # cpu.req.addr - RomWords
    <3>1. CASE IsNextWord(cpu.req)
      BY <1>2, <3>1, Sizes DEF IsNextWord, Store
    <3>2. CASE ~IsNextWord(cpu.req)
      <4>1. cpu.req.addr >= RomWords + FwWords
        BY <1>2, <3>2 DEF IInv, Running, LoaderRuns
      <4> QED
        BY <1>2, <4>1, Sizes DEF RamAddr
    <3> QED
      BY <3>1, <3>2
  <2> QED
    BY <1>4, <2>1, <2>2, <2>3
<1>7. ASSUME IsNextWord(cpu.req)
      PROVE  ram'[cpu.n] = Firmware[cpu.n]
  <2>1. cpu.req.addr - RomWords = cpu.n /\ cpu.req.word = Firmware[cpu.n] /\ cpu.n \in RamAddr
    BY <1>2, <1>7, Sizes DEF IsNextWord, Store, RamAddr
  <2> QED
    BY <1>4, <2>1
<1> QED
  BY <1>5, <1>6, <1>7

LEMMA RunningKept == ASSUME IInv, Next PROVE Running'
<1> SUFFICES ASSUME ~cpu_reset'
             PROVE  /\ cpu_rst_req' = 0 => (boot' = 1 <=> cpu'.prog = "loader")
                    /\ cpu'.prog = "loader" => LoaderRuns'
                    /\ cpu'.prog = "firmware" => FirmwareRuns'
  BY DEF Running
<1>1. /\ rst = 0 /\ rst' = 0 /\ sram_valid = 0 /\ rom_r_valid = 0 /\ cpu_rst_req = 0
      /\ boot \in Bit /\ cpu.n \in 0 .. FwWords
  BY LetGo DEF IInv, Registers
<1>2. boot' = (IF requests("restart") THEN cpu.req.boot ELSE boot)
  BY <1>1 DEF Next, BootRegister, Rst
<1>3. cpu_rst_req' = 0 => ~requests("restart")
  BY <1>1 DEF Next, BootRegister, Rst
<1>4. CASE CpuHeld
  <2>1. cpu_rst = 1 /\ cpu.req = NoRequest
    BY <1>1, <1>4 DEF CpuHeld, cpu_reset, IInv, Held
  <2>2. ~requests("restart") /\ ~requests("store")
    BY <2>1 DEF requests, NoRequest
  <2>3. /\ cpu'.req = NoRequest /\ cpu'.n = 0
        /\ cpu'.prog = (IF boot = 1 THEN "loader" ELSE "firmware")
    BY <1>4 DEF CpuHeld
  <2>4. InPlace(RomWords)'
    <3>1. ASSUME NEW a \in 0 .. RomWords - 1
          PROVE  ram'[Top + a] = Rom[a]
      <4>1. ram[Top + a] = Rom[a]
        BY <1>1, <2>1 DEF IInv, Copying, InPlace
      <4>2. Top + a \in RamAddr
        BY Sizes DEF RamAddr
      <4> QED
        BY <2>2, <4>1, <4>2, RamStays
    <3> QED
      BY <3>1 DEF InPlace
  <2>5. LoaderRuns' /\ FirmwareRuns'
    BY <2>3, <2>4 DEF LoaderRuns, FirmwareRuns, NoRequest, IsNextWord, Store
  <2> QED
    BY <1>1, <1>2, <2>2, <2>3, <2>5
<1>5. CASE CpuWaits
  <2>1. cpu' = cpu /\ ~cpu_reset
    BY <1>5 DEF CpuWaits
  <2>2. ASSUME cpu.prog = "loader"
        PROVE  LoaderRuns'
    <3>1. LoaderRuns
      BY <2>1, <2>2 DEF IInv, Running
    <3>2. /\ \A a \in RomAddr : ram'[Top + a] = Rom[a]
          /\ \A a \in 0 .. cpu.n - 1 : ram'[a] = Firmware[a]
      <4>1. CASE requests("store")
        BY <2>1, <2>2, <4>1, LoaderStores
      <4>2. CASE ~requests("store")
        <5>1. \A a \in RomAddr : Top + a \in RamAddr
          BY Sizes DEF RomAddr, RamAddr
        <5>2. \A a \in 0 .. cpu.n - 1 : a \in RamAddr
          BY <1>1, Sizes DEF RamAddr
        <5> QED
          BY <3>1, <4>2, <5>1, <5>2, RamStays DEF LoaderRuns, InPlace, RomAddr
      <4> QED
        BY <4>1, <4>2
    <3>3. ASSUME IsNextWord(cpu.req), answered'
          PROVE  ram'[cpu.n] = Firmware[cpu.n]
      <4>1. cpu.req.to = "store"
        BY <3>3 DEF IsNextWord, Store
      <4>2. s_sel_reg' = 0
        BY <1>1, <4>1 DEF Next, Split, Rst
      <4>3. d_ready' = 1
        BY <2>1, <3>3, <4>1, <4>2 DEF answered
      <4>4. requests("store")
        BY <1>1, <4>3 DEF Next, Ready, Rst
      <4> QED
        BY <2>1, <2>2, <3>3, <4>4, LoaderStores
    <3> QED
      BY <2>1, <3>1, <3>2, <3>3 DEF LoaderRuns, InPlace, RomAddr, IsNextWord
  <2>3. ASSUME cpu.prog = "firmware"
        PROVE  FirmwareRuns'
    BY <2>1, <2>3 DEF IInv, Running, FirmwareRuns
  <2> QED
    BY <1>1, <1>2, <1>3, <2>1, <2>2, <2>3 DEF IInv, Running
<1>6. CASE CpuAnswered
  <2>1. /\ ~cpu_reset /\ answered /\ ~requests("store") /\ ~requests("restart")
        /\ cpu'.req = NoRequest /\ cpu'.prog = cpu.prog
        /\ cpu'.n = IF IsNextWord(cpu.req) THEN cpu.n + 1 ELSE cpu.n
    BY <1>6 DEF CpuAnswered, requests, IInv, Registers
  <2>2. \A a \in RamAddr : ram'[a] = ram[a]
    BY <2>1, RamStays
  <2>3. ASSUME cpu.prog = "loader"
        PROVE  LoaderRuns'
    <3>1. LoaderRuns
      BY <2>1, <2>3 DEF IInv, Running
    <3>2. \A a \in RomAddr : Top + a \in RamAddr
      BY Sizes DEF RomAddr, RamAddr
    <3>3. InPlace(RomWords)'
      BY <2>2, <3>1, <3>2 DEF LoaderRuns, InPlace, RomAddr
    <3>4. ASSUME NEW a \in 0 .. cpu'.n - 1
          PROVE  ram'[a] = Firmware[a]
      <4>1. a \in RamAddr
        BY <1>1, <2>1, Sizes DEF RamAddr, IsNextWord
      <4>2. ram[a] = Firmware[a]
        BY <1>1, <2>1, <3>1 DEF LoaderRuns
      <4> QED
        BY <2>2, <4>1, <4>2
    <3> QED
      BY <2>1, <3>3, <3>4 DEF LoaderRuns, NoRequest, IsNextWord, Store
  <2>4. FirmwareRuns'
    BY <2>1 DEF FirmwareRuns, NoRequest
  <2> QED
    BY <1>1, <1>2, <2>1, <2>3, <2>4 DEF IInv, Running
<1>7. CASE CpuRequests
  <2>1. PICK r \in Requests :
          /\ IF cpu.prog = "loader" THEN LoaderRequest(r) ELSE FirmwareRequest(r)
          /\ cpu' = [cpu EXCEPT !.req = r]
    BY <1>7 DEF CpuRequests
  <2>2. /\ ~cpu_reset /\ cpu.req = NoRequest /\ ~requests("store") /\ ~requests("restart")
        /\ cpu'.req = r /\ cpu'.prog = cpu.prog /\ cpu'.n = cpu.n
    BY <1>7, <2>1 DEF CpuRequests, requests, NoRequest, IInv, Registers
  <2>3. \A a \in RamAddr : ram'[a] = ram[a]
    BY <2>2, RamStays
  <2>4. ASSUME cpu.prog = "loader"
        PROVE  LoaderRuns'
    <3>1. LoaderRuns /\ LoaderRequest(r)
      BY <2>1, <2>2, <2>4 DEF IInv, Running
    <3>2. \A a \in RomAddr : Top + a \in RamAddr
      BY Sizes DEF RomAddr, RamAddr
    <3>3. InPlace(RomWords)'
      BY <2>3, <3>1, <3>2 DEF LoaderRuns, InPlace, RomAddr
    <3>4. \A a \in 0 .. cpu'.n - 1 : ram'[a] = Firmware[a]
      BY <1>1, <2>2, <2>3, <3>1, Sizes DEF LoaderRuns, RamAddr
    <3>5. r.to = "store" => r.addr >= RomWords /\ (r.addr >= RomWords + FwWords \/ IsNextWord(r)')
      BY <1>1, <2>2, <3>1, Sizes DEF LoaderRequest, IsNextWord, Fetch, Store, Restart, RomAddr
    <3>6. r.to = "restart" => cpu'.n = FwWords /\ r.boot = 0
      BY <2>2, <3>1 DEF LoaderRequest, IsNextWord, Fetch, Store, Restart
    <3>7. r.to = "fetch" => r.addr \in RomAddr
      BY <3>1 DEF LoaderRequest, IsNextWord, Fetch, Store, Restart
    <3>8. ~(IsNextWord(r)' /\ answered')
      <4>1. d_ready' = 0 /\ ctr_ready' = 0
        BY <1>1, <2>2 DEF Next, Ready, Rst
      <4> QED
        BY <2>2, <4>1 DEF answered, IsNextWord, Store
    <3> QED
      BY <2>2, <3>3, <3>4, <3>5, <3>6, <3>7, <3>8 DEF LoaderRuns, IsNextWord
  <2>5. ASSUME cpu.prog = "firmware"
        PROVE  FirmwareRuns'
    BY <2>1, <2>2, <2>5, Sizes DEF FirmwareRequest, FirmwareRuns, Fetch, Store, Restart
  <2> QED
    BY <1>1, <1>2, <2>2, <2>4, <2>5 DEF IInv, Running
<1> QED
  BY <1>4, <1>5, <1>6, <1>7 DEF Next, Cpu

LEMMA LoadedKept == ASSUME IInv, Next PROVE Loaded'
<1> SUFFICES ASSUME boot' = 0, NEW a \in 1 .. FwWords - 1
             PROVE  ram'[a] = Firmware[a]
  BY DEF Loaded
<1>1. rst = 0 /\ rst' = 0 /\ a \in RamAddr /\ a < Top
  BY Sizes DEF Next, BootRegister, Rst, IInv, Registers, Bit, RamAddr
<1>2. CASE requests("restart")
  <2>1. ~cpu_reset /\ cpu_rst_req = 0 /\ ~CopyWrites
    BY <1>1, <1>2, Asking
  <2>2. cpu.req.to = "restart" /\ cpu.req.boot = 0 /\ ~requests("store")
    BY <1>1, <1>2 DEF requests, Next, BootRegister, Rst
  <2>3. cpu.prog = "loader" /\ LoaderRuns
    BY <2>1, <2>2 DEF IInv, Running, FirmwareRuns, Registers
  <2>4. ram[a] = Firmware[a]
    BY <2>2, <2>3, Sizes DEF LoaderRuns
  <2> QED
    BY <1>1, <2>1, <2>2, <2>4, RamStep
<1>3. CASE ~requests("restart")
  <2>1. boot = 0 /\ ram[a] = Firmware[a]
    BY <1>1, <1>3 DEF Next, BootRegister, Rst, IInv, Loaded
  <2>2. CASE CopyWrites
    <3>1. sram_valid = 1
      BY <2>2 DEF CopyWrites
    <3>2. ram_w_addr = 0 \/ \E n \in RomAddr : ram_w_addr = Top + n
      <4>1. CASE rom_r_valid = 1 /\ rom_r_addr = 0
        BY <4>1 DEF IInv, Copying
      <4>2. CASE rom_r_valid = 1 /\ rom_r_addr # 0
        <5>1. rom_r_addr - 1 \in RomAddr
          BY <4>2, Sizes DEF IInv, Registers, RomAddr
        <5> QED
          BY <4>2, <5>1 DEF IInv, Copying, OnItsWay
      <4>3. CASE rom_r_valid = 0
        <5>1. LastRom \in RomAddr
          BY Sizes DEF LastRom, RomAddr
        <5> QED
          BY <3>1, <4>3, <5>1 DEF IInv, Copying, OnItsWay
      <4> QED
        BY <4>1, <4>2, <4>3 DEF IInv, Registers, Bit
    <3>3. a # ram_w_addr
      BY <1>1, <3>2, Sizes DEF RomAddr
    <3> QED
      BY <1>1, <2>1, <2>2, <3>3, RamStep
  <2>3. CASE requests("store")
    <3>1. ~cpu_reset /\ cpu_rst_req = 0 /\ cpu.req.to = "store"
      BY <1>1, <2>3, Asking DEF requests
    <3>2. cpu.prog = "firmware"
      BY <2>1, <3>1 DEF IInv, Running, Registers
    <3>3. cpu.req.addr >= FwWords /\ cpu.req.addr \in RamAddr
      BY <3>1, <3>2, RequestShape DEF IInv, Running, FirmwareRuns, Registers
    <3>4. a # Offset(cpu.req.addr)
      BY <2>1, <3>3, Sizes DEF Offset, RamAddr
    <3> QED
      BY <1>1, <2>1, <2>3, <3>4, RamStep
  <2>4. CASE ~CopyWrites /\ ~requests("store")
    BY <1>1, <2>1, <2>4, RamStep
  <2> QED
    BY <2>2, <2>3, <2>4
<1> QED
  BY <1>2, <1>3

LEMMA FetchedKept == ASSUME IInv, Next PROVE Fetched'
<1> SUFFICES ASSUME ~cpu_reset', cpu'.req.to = "fetch", answered',
                    cpu'.prog = "firmware" => cpu'.req.addr # 0
             PROVE  i_rdata' = IF cpu'.prog = "loader" THEN Rom[cpu'.req.addr]
                                                       ELSE Firmware[cpu'.req.addr]
  BY DEF Fetched, FetchedWord
<1>1. rst = 0 /\ rst' = 0
  BY LetGo
<1>2. i_ready' = 1 /\ sel_reg' = 0
  BY DEF answered
<1>3. sel = 0
  BY <1>1, <1>2 DEF Next, Merge, Rst
<1>4. Fetches
  BY <1>1, <1>2, <1>3 DEF Next, Ready, Rst, CopyWrites
<1>5. ~cpu_reset /\ cpu_rst_req = 0 /\ cpu' = cpu
  BY <1>1, <1>4, Asking DEF Fetches
<1>6. i_rdata' = ram[Offset(cpu.req.addr)]
  BY <1>4 DEF Next, Memory
<1>7. cpu.req.addr \in RamAddr
  BY <1>5, RequestShape DEF IInv, Registers
<1>8. CASE cpu.prog = "loader"
  <2>1. boot = 1 /\ cpu.req.addr \in RomAddr /\ InPlace(RomWords)
    BY <1>5, <1>8 DEF IInv, Running, LoaderRuns
  <2> QED
    BY <1>5, <1>6, <1>8, <2>1, OffsetOfImage DEF InPlace, RomAddr
<1>9. CASE cpu.prog = "firmware"
  <2>1. boot = 0 /\ cpu.req.addr \in 1 .. FwWords - 1
    BY <1>5, <1>7, <1>9, Sizes DEF IInv, Running, FirmwareRuns, Registers, Bit, RamAddr
  <2> QED
    BY <1>5, <1>6, <1>9, <2>1 DEF Offset, IInv, Loaded
<1> QED
  BY <1>5, <1>8, <1>9 DEF IInv, Registers

---------------------------------------------------------------------------
(* The theorems *)

LEMMA Initially == Init => IInv
<1> SUFFICES ASSUME Init PROVE IInv
  OBVIOUS
<1>1. Registers
  BY Sizes DEF Init, Registers, Bit, RomAddr
<1>2. UnderReset /\ UnderRestart /\ Held /\ Ports /\ Asked
  BY DEF Init, UnderReset, UnderRestart, Held, Ports, Asked
<1>3. Copying /\ Running /\ Loaded /\ Fetched
  BY DEF Init, Copying, Running, Loaded, Fetched, cpu_reset
<1> QED
  BY <1>1, <1>2, <1>3 DEF IInv

LEMMA Kept == IInv /\ [Next]_vars => IInv'
<1> SUFFICES ASSUME IInv, [Next]_vars PROVE IInv'
  OBVIOUS
<1>1. CASE Next
  BY <1>1, RegistersKept, UnderResetKept, UnderRestartKept, HeldKept, CopyingKept, PortsKept,
     RunningKept, LoadedKept, FetchedKept, AskedKept DEF IInv
<1>2. CASE UNCHANGED vars
  BY <1>2 DEF vars, bootVars, busVars, IInv, Registers, UnderReset, UnderRestart, Held,
    Copying, OnItsWay, InPlace, Ports, Running, LoaderRuns, FirmwareRuns, Loaded, Fetched,
    FetchedWord, Asked, cpu_reset, answered, IsNextWord
<1> QED
  BY <1>1, <1>2

LEMMA Invariant == Spec => []IInv
BY Initially, Kept, PTL DEF Spec

\* All of the boot ROM is in the SRAM whenever the CPU runs the bootloader, whatever
\* the firmware wrote over the copy and wherever a reset cut the copy before
\* (boot_ctr.v, int_mem.v).
THEOREM ImageIsThere == Spec => []ImageThere
<1>1. IInv => ImageThere
  BY DEF IInv, Running, LoaderRuns, InPlace, ImageThere, RomAddr
<1> QED
  BY <1>1, Invariant, PTL

\* Every fetch is answered with the word of the program that runs, the first word of the
\* firmware apart: the copy's accesses, which share the port (merge.v), are never taken
\* for it.
THEOREM FetchesItsProgram == Spec => RunsItsProgram
<1>1. IInv => (answered /\ ~cpu_reset /\ cpu.req.to = "fetch"
                 /\ (cpu.prog = "firmware" => cpu.req.addr # 0)
               => i_rdata = FetchedWord(cpu.req.addr))
  BY DEF IInv, Fetched
<1> QED
  BY <1>1, Invariant, PTL DEF RunsItsProgram

\* A program whose restart is accepted (boot_ctr.v) touches the memory no more.
THEOREM OldProgramIsDone == Spec => OldProgramStops
<1>1. IInv /\ cpu.asked => ~requests("store") /\ ~requests("restart") /\ ~Fetches
  BY DEF IInv, Asked, requests, Fetches, NoRequest
<1> QED
  BY <1>1, Invariant, PTL DEF OldProgramStops

=============================================================================

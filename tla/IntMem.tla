------------------------------- MODULE IntMem -------------------------------
(***************************************************************************)
(* The internal memory and the boot hardware (int_mem.v, boot_ctr.v,       *)
(* sram.v, with merge.v on the instruction port and split.v on the data    *)
(* bus), under the CPU that fetches from it and the two programs that run  *)
(* on it.                                                                  *)
(*                                                                         *)
(* After a reset, and when a program asks for a restart, the controller    *)
(* copies the boot ROM to the top of the SRAM while it keeps the CPU in    *)
(* reset.  The bootloader, whose addresses are offset to that top, stores  *)
(* the firmware at the bottom and restarts with boot = 0; the firmware has *)
(* its stack at the top, over the copy, and restarts with boot = 1.        *)
(*                                                                         *)
(* A step is a rising edge of clk; the system reset comes and goes at any  *)
(* of them.  Addresses count words.                                        *)
(***************************************************************************)
EXTENDS Integers

CONSTANTS
  RomWords,       \* 2^(BOOTROM_ADDR_W-2)
  RamWords,       \* 2^(SRAM_ADDR_W-2)
  FwWords,        \* words of the firmware
  Rom, Firmware,  \* their contents
  Scratch,        \* what a program writes to its stack
  Unknown         \* what is in a memory at power-up

ASSUME SizesAssumption ==
  /\ RomWords \in Nat \ {0} /\ RamWords \in Nat /\ FwWords \in Nat \ {0}
  /\ FwWords + RomWords < RamWords

VARIABLES
  rst,            \* the system reset
  boot, cpu_rst_req, cpu_rst,
  rom_r_valid, rom_r_addr, rom_r_rdata,
  sram_valid, ram_w_addr,               \* sram_wstrb is as sram_valid
  sel_en, sel_reg,                      \* merge: master 1 is the copy, 0 the CPU
  s_sel_reg,                            \* split: slave 1 is the controller, 0 the SRAM
  ram, i_ready, i_rdata, d_ready, ctr_ready,
  cpu             \* the CPU's request, and where its program is

bootVars == <<boot, cpu_rst_req, cpu_rst, rom_r_valid, rom_r_addr, rom_r_rdata,
              sram_valid, ram_w_addr>>
busVars  == <<sel_en, sel_reg, s_sel_reg, ram, i_ready, i_rdata, d_ready, ctr_ready>>
vars     == <<rst, bootVars, busVars, cpu>>

Bit     == 0 .. 1
RomAddr == 0 .. RomWords - 1
RamAddr == 0 .. RamWords - 1
Top     == RamWords - RomWords          \* where the copy goes

(* The CPU's requests *)

NoRequest   == [to |-> "none"]
Fetch(a)    == [to |-> "fetch", addr |-> a]
Store(a, w) == [to |-> "store", addr |-> a, word |-> w]
Restart(b)  == [to |-> "restart", boot |-> b]

---------------------------------------------------------------------------
(* Wires *)

cpu_reset == rst = 1 \/ cpu_rst = 1

\* The bootloader's addresses are moved to the top of the SRAM.
Offset(a) == IF boot = 1 THEN (a + Top) % RamWords ELSE a

\* merge: the copy has priority, and the master that has been served once keeps the
\* memory until its answer is there.
sel       == IF sel_en = 0 THEN sel_reg ELSE sram_valid

answered ==
  CASE cpu.req.to = "none"  -> FALSE
    [] cpu.req.to = "fetch" -> i_ready = 1 /\ sel_reg = 0
    [] OTHER                -> IF s_sel_reg = 1 THEN ctr_ready = 1 ELSE d_ready = 1

\* iob_picorv32: a request is withdrawn while its answer is there.
requests(what) == cpu.req.to = what /\ ~answered

CopyWrites == sel = 1 /\ sram_valid = 1
Fetches    == sel = 0 /\ requests("fetch")

---------------------------------------------------------------------------
(* The controller *)

\* A register with an asynchronous reset: high at the edge, or from it on.
Rst(reset, next)    == IF rst = 1 \/ rst' = 1 THEN reset ELSE next
Reboot(reset, next) == IF cpu_rst_req = 1 \/ cpu_rst_req' = 1 THEN reset
                                                              ELSE Rst(reset, next)

BootRegister ==
  /\ boot'        = Rst(1, IF requests("restart") THEN cpu.req.boot ELSE boot)
  /\ cpu_rst_req' = Rst(0, IF requests("restart") THEN 1 ELSE 0)

RomReadUpTo(last) ==
  /\ rom_r_valid' = Reboot(1, IF rom_r_addr # last THEN rom_r_valid ELSE 0)
  /\ rom_r_addr'  = Reboot(0, IF rom_r_addr # last THEN rom_r_addr + 1 ELSE rom_r_addr)
  /\ rom_r_rdata' = IF rom_r_valid = 1 THEN Rom[rom_r_addr] ELSE rom_r_rdata

RomReadOneShort == RomReadUpTo(RomWords - 2)    \* mutation: the last word is not copied
RomRead         == RomReadUpTo(RomWords - 1)

SramWriteTo(address) ==
  /\ sram_valid' = Reboot(1, rom_r_valid)
  /\ ram_w_addr' = Reboot(0, address)

SramWriteLow == SramWriteTo(rom_r_addr)         \* mutation: the copy goes to the bottom
SramWrite    == SramWriteTo((rom_r_addr - RomWords) % RamWords)

\* mutation: the request alone does not reset the CPU
CpuResetLate == cpu_rst' = Rst(1, IF sram_valid = 1 /\ cpu_rst_req = 0 THEN 1 ELSE 0)

\* mutation: once in reset, it stays
CpuResetKept == cpu_rst' = Rst(1, IF sram_valid = 1 \/ cpu_rst_req = 1 THEN 1 ELSE cpu_rst)

CpuReset     == cpu_rst' = Rst(1, IF sram_valid = 1 \/ cpu_rst_req = 1 THEN 1 ELSE 0)

---------------------------------------------------------------------------
(* The buses and the memory *)

\* mutation: the memory is never given back
MergeKept ==
  /\ sel_en'  = Rst(1, IF CopyWrites \/ Fetches THEN 0 ELSE sel_en)
  /\ sel_reg' = Rst(0, sel)

Merge ==
  /\ sel_en'  = Rst(1, IF CopyWrites \/ Fetches THEN 0 ELSE IF i_ready = 1 THEN 1 ELSE sel_en)
  /\ sel_reg' = Rst(0, sel)

Split == s_sel_reg' = Rst(0, IF cpu.req.to = "restart" THEN 1 ELSE 0)

Ready ==
  /\ i_ready'   = Rst(0, IF CopyWrites \/ Fetches THEN 1 ELSE 0)
  /\ d_ready'   = Rst(0, IF requests("store") THEN 1 ELSE 0)
  /\ ctr_ready' = Rst(0, IF requests("restart") THEN 1 ELSE 0)

\* The two ports; of two writes to one word at one edge, either may stay.
Memory ==
  LET stored == requests("store")
      data   == [a \in RamAddr |-> IF stored /\ a = Offset(cpu.req.addr)
                                     THEN cpu.req.word ELSE ram[a]]
      both   == [a \in RamAddr |-> IF CopyWrites /\ a = ram_w_addr THEN rom_r_rdata ELSE data[a]]
  IN  /\ \/ ram' = both
         \/ /\ stored /\ CopyWrites /\ ram_w_addr = Offset(cpu.req.addr)
            /\ ram' = [both EXCEPT ![ram_w_addr] = cpu.req.word]
      /\ i_rdata' = IF Fetches THEN ram[Offset(cpu.req.addr)] ELSE i_rdata

---------------------------------------------------------------------------
(* The CPU and its programs *)

\* What runs is decided by boot when the reset ends.
CpuHeld ==
  /\ cpu_reset
  /\ cpu' = [req |-> NoRequest, n |-> 0, asked |-> FALSE,
             prog |-> IF boot = 1 THEN "loader" ELSE "firmware"]

CpuWaits == ~cpu_reset /\ ~answered /\ cpu' = cpu

\* n counts the words of the firmware that the bootloader has stored in order.
IsNextWord(r) == cpu.n < FwWords /\ r = Store(RomWords + cpu.n, Firmware[cpu.n])

CpuAnswered ==
  /\ ~cpu_reset /\ answered
  /\ cpu' = [cpu EXCEPT !.req = NoRequest,
                        !.n = IF IsNextWord(cpu.req) THEN @ + 1 ELSE @,
                        !.asked = @ \/ cpu.req.to = "restart"]

\* The bootloader runs from its image, stores the firmware after it, has its stack
\* above that, and restarts when all of the firmware is there.
LoaderRequest(r) ==
  \/ \E a \in RomAddr : r = Fetch(a)
  \/ \E a \in RomWords + FwWords .. RamWords - 1 : r = Store(a, Scratch)
  \/ IsNextWord(r)
  \/ cpu.n = FwWords /\ r = Restart(0)

\* The firmware runs from the bottom and has its stack above itself.
FirmwareRequest(r) ==
  \/ \E a \in 0 .. FwWords - 1 : r = Fetch(a)
  \/ \E a \in FwWords .. RamWords - 1 : r = Store(a, Scratch)
  \/ r = Restart(1)

Requests ==
       {Fetch(a) : a \in RamAddr}
  \cup {Store(a, w) : a \in RamAddr, w \in {Scratch} \cup {Firmware[n] : n \in 0 .. FwWords - 1}}
  \cup {Restart(b) : b \in Bit}

CpuRequests ==
  /\ ~cpu_reset /\ cpu.req = NoRequest
  /\ \E r \in Requests :
       /\ IF cpu.prog = "loader" THEN LoaderRequest(r) ELSE FirmwareRequest(r)
       /\ cpu' = [cpu EXCEPT !.req = r]

Cpu == CpuHeld \/ CpuWaits \/ CpuAnswered \/ CpuRequests

---------------------------------------------------------------------------

Init ==
  /\ rst = 1
  /\ boot = 1 /\ cpu_rst_req = 0 /\ cpu_rst = 1
  /\ rom_r_valid = 1 /\ rom_r_addr = 0 /\ rom_r_rdata = Unknown
  /\ sram_valid = 1 /\ ram_w_addr = 0
  /\ sel_en = 1 /\ sel_reg = 0 /\ s_sel_reg = 0
  /\ ram = [a \in RamAddr |-> Unknown]
  /\ i_ready = 0 /\ i_rdata = Unknown /\ d_ready = 0 /\ ctr_ready = 0
  /\ cpu = [req |-> NoRequest, n |-> 0, asked |-> FALSE, prog |-> "loader"]

Next ==
  /\ rst' \in Bit
  /\ BootRegister /\ RomRead /\ SramWrite /\ CpuReset
  /\ Merge /\ Split /\ Ready /\ Memory
  /\ Cpu

\* The clock never stops: an edge that would change something, with the reset as it
\* is, comes some time.
Spec == Init /\ [][Next]_vars /\ WF_vars(Next /\ rst' = rst)

---------------------------------------------------------------------------
(* Properties *)

\* "keep cpu reset while sram loading" (boot_ctr.v:100): whenever the CPU is let go to
\* run the bootloader, all of the ROM is in the SRAM, whatever the firmware before
\* it wrote over the copy and wherever a reset cut the copy before this one.
ImageThere ==
  ~cpu_reset /\ cpu.prog = "loader" =>
    \A a \in RomAddr : ram[Top + a] = Rom[a]

\* What a fetch is answered with, when it is.
FetchedWord(a) == IF cpu.prog = "loader" THEN Rom[a] ELSE Firmware[a]

\* The CPU executes the program it is running, word for word, the first word of the
\* firmware apart (FirmwareWhole is about that one): no answer of the copy's accesses
\* is taken for its own (merge.v), and no fetch is served with the boot register
\* already changed.
RunsItsProgram ==
  [][answered /\ ~cpu_reset /\ cpu.req.to = "fetch" /\ (cpu.prog = "firmware" => cpu.req.addr # 0)
       => i_rdata = FetchedWord(cpu.req.addr)]_vars

\* Once a restart is accepted the old program does nothing more to the memory: the
\* CPU's reset comes before its next access, not only when the copy begins.
OldProgramStops == [][cpu.asked => ~requests("store") /\ ~requests("restart") /\ ~Fetches]_vars

\* The CPU is let go again: no order of restarts leaves it in reset.
Released == <>[](rst = 0) => []<>(cpu_rst = 0)

\* Every access of the CPU is answered or cut by a reset: the copy, which shares the
\* instruction port, gives it back.
Served == cpu.req # NoRequest ~> cpu.req = NoRequest

\* "reboot and run firmware (not bootloader)" (boot.c:71): what the CPU fetches after
\* the bootloader's restart is the firmware.
FirmwareWhole ==
  [][answered /\ ~cpu_reset /\ cpu.req.to = "fetch" /\ cpu.prog = "firmware"
       => i_rdata = Firmware[cpu.req.addr]]_vars

=============================================================================

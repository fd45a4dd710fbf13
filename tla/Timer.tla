-------------------------------- MODULE Timer --------------------------------
(***************************************************************************)
(* The timer peripheral (timer.v, iob_timer.v) under its driver            *)
(* (iob_timer.c): timer_init, then some calls of timer_get_count.          *)
(*                                                                         *)
(* A step is a rising edge of clk; an access of the driver happens at one, *)
(* and any number of edges passes between two accesses.  A restart of the  *)
(* program resets the CPU and not the timer, so timer_init meets whatever  *)
(* an earlier run of it left.                                              *)
(***************************************************************************)
EXTENDS Integers, Sequences

CONSTANTS
  B,              \* 2^WDATA_W: what half of the counter can hold
  NumCalls,       \* calls of timer_get_count
  Horizon         \* bound: edges after the enabling that are looked at

ASSUME BAssumption == B \in Nat /\ B > 1
ASSUME NumCallsAssumption == NumCalls \in Nat
ASSUME HorizonAssumption == Horizon \in Nat

VARIABLES
  sw,             \* the registers software writes
  counter, timer_sample,
  pc,             \* the next access of the driver
  count,          \* timer_count, while it is put together
  got,            \* what the calls have returned
  base,           \* (history) the counter when it was enabled
  now,            \* (history) edges since
  taken,          \* (history) when timer_sample was last loaded
  calls           \* (history) for each call: when it began, sampled and returned

hwVars   == <<sw, counter, timer_sample>>
history  == <<base, now, taken, calls>>
vars     == <<hwVars, pc, count, got, history>>

Bit   == 0 .. 1
Half  == 0 .. B - 1
Count == 0 .. B * B - 1

wrap == sw.TIMER_WRAP_HIGH * B + sw.TIMER_WRAP_LOW

\* What the driver's wrap value, ~0, becomes on a 32-bit bus.
AllOnes == B - 1

\* As the hardware reset, or an earlier run of the driver, left the timer.
Init ==
  /\ sw \in [TIMER_RESET : Bit, TIMER_ENABLE : Bit, TIMER_SAMPLE : Bit,
             TIMER_WRAP_HIGH : {0}, TIMER_WRAP_LOW : {0, AllOnes}]
  /\ counter \in Half /\ timer_sample \in Half
  /\ sw.TIMER_RESET = 1 => counter = 0
  /\ pc = "reset" /\ count = 0 /\ got = <<>>
  /\ base = 0 /\ now = 0 /\ taken = 0 /\ calls = <<>>

---------------------------------------------------------------------------
(* The hardware *)

NextCountPastWrap == IF counter > wrap THEN 0 ELSE counter + 1   \* mutation: > for >=
NextCount         == IF counter >= wrap THEN 0 ELSE counter + 1

CounterBlock ==
  counter' = IF sw.TIMER_RESET = 1 \/ sw'.TIMER_RESET = 1 THEN 0
             ELSE IF sw.TIMER_ENABLE = 1 THEN NextCount ELSE counter

SampleBlock ==
  timer_sample' = IF sw.TIMER_RESET = 1 THEN 1
                  ELSE IF sw.TIMER_SAMPLE = 1 THEN counter ELSE timer_sample

Enabled == pc \notin {"reset", "unreset", "wrap_high", "wrap_low", "enable"}

Edge ==
  /\ CounterBlock /\ SampleBlock
  /\ now < Horizon /\ now' = (IF Enabled THEN now + 1 ELSE 0)
  /\ taken' = (IF Enabled /\ sw.TIMER_SAMPLE = 1 THEN now ELSE taken)

---------------------------------------------------------------------------
(* The driver *)

Tick == UNCHANGED <<sw, pc, count, got, base, calls>> /\ Edge

Set(from, to, reg, value) ==
  /\ pc = from /\ pc' = to
  /\ sw' = [sw EXCEPT ![reg] = value]
  /\ Edge /\ UNCHANGED <<count, got>>

(* timer_init: timer_soft_rst, timer_wrap, timer_enable *)

ResetOn  == Set("reset", "unreset", "TIMER_RESET", 1) /\ UNCHANGED <<base, calls>>
ResetOff == Set("unreset", "wrap_high", "TIMER_RESET", 0) /\ UNCHANGED <<base, calls>>
WrapHigh == Set("wrap_high", "wrap_low", "TIMER_WRAP_HIGH", 0) /\ UNCHANGED <<base, calls>>
WrapLow  == Set("wrap_low", "enable", "TIMER_WRAP_LOW", AllOnes) /\ UNCHANGED <<base, calls>>
Enable   == Set("enable", "sample", "TIMER_ENABLE", 1) /\ base' = counter' /\ UNCHANGED calls

(* timer_get_count *)

\* Mutation: TIMER_SAMPLE is not raised.
SampleKept ==
  /\ Len(got) < NumCalls
  /\ Set("sample", "unsample", "TIMER_SAMPLE", 0)
  /\ calls' = Append(calls, [began |-> now, sampled |-> now, returned |-> now])
  /\ UNCHANGED base

SampleOn ==
  /\ Len(got) < NumCalls
  /\ Set("sample", "unsample", "TIMER_SAMPLE", 1)
  /\ calls' = Append(calls, [began |-> now, sampled |-> now, returned |-> now])
  /\ UNCHANGED base

SampleOff == Set("unsample", "high", "TIMER_SAMPLE", 0) /\ UNCHANGED <<base, calls>>

ReadHigh ==
  /\ pc = "high" /\ pc' = "low"
  /\ UNCHANGED <<sw, got, base, calls>> /\ Edge
  /\ count' = timer_sample \div B

ReadLow ==
  /\ pc = "low" /\ pc' = "sample"
  /\ UNCHANGED <<sw, base>> /\ Edge
  /\ got' = Append(got, count * B + (timer_sample % B))
  /\ count' = 0
  /\ calls' = [calls EXCEPT ![Len(calls)] = [@ EXCEPT !.sampled = taken, !.returned = now]]

Next == \/ Tick
        \/ ResetOn \/ ResetOff \/ WrapHigh \/ WrapLow \/ Enable
        \/ SampleOn \/ SampleOff \/ ReadHigh \/ ReadLow

Spec == Init /\ [][Next]_vars

---------------------------------------------------------------------------
(* Properties *)

Moment == [began : Nat, sampled : Nat, returned : Nat]

TypeOK ==
  /\ sw \in [TIMER_RESET : Bit, TIMER_ENABLE : Bit, TIMER_SAMPLE : Bit,
             TIMER_WRAP_HIGH : {0}, TIMER_WRAP_LOW : {0, AllOnes}]
  /\ counter \in Half /\ timer_sample \in Half
  /\ pc \in {"reset", "unreset", "wrap_high", "wrap_low", "enable",
             "sample", "unsample", "high", "low"}
  /\ count \in Half /\ got \in Seq(Count) /\ calls \in Seq(Moment)
  /\ base \in Half /\ now \in Nat /\ taken \in Nat

\* c is what a counter that is 0 at 0 and wraps after B - 1 shows after n edges.
Shows(n, c) == \E laps \in 0 .. n : n = laps * B + c

\* timer_get_count returns the number of edges since the timer was enabled, modulo
\* 2^32, as it was at one edge between the call and the return: the moment is this call's
\* and not an earlier one's, and no edge is dropped or counted twice, whatever state
\* timer_init found the timer in.  (The upper half is of that moment too: under the
\* driver's wrap value it is always 0.)
CountOfThisCall ==
  \A k \in 1 .. Len(got) :
    /\ Shows(base + calls[k].sampled, got[k])
    /\ calls[k].began < calls[k].sampled /\ calls[k].sampled <= calls[k].returned

=============================================================================

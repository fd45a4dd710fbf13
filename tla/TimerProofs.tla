----------------------------- MODULE TimerProofs -----------------------------
(***************************************************************************)
(* timer_get_count counts edges, for every width of the counter, every     *)
(* number of calls and every time between two accesses.                    *)
(***************************************************************************)
EXTENDS Timer, TLAPS, SequenceTheorems

SinceReset == pc \notin {"reset", "unreset"}
SinceWrap  == SinceReset /\ pc \notin {"wrap_high", "wrap_low"}
InCall     == pc \in {"unsample", "high", "low"}

\* The registers are as timer_init sets them, from the access that does.
RegistersSet ==
  /\ SinceReset => sw.TIMER_RESET = 0
  /\ SinceWrap  => sw.TIMER_WRAP_LOW = AllOnes
  /\ Enabled    => sw.TIMER_ENABLE = 1

\* The counter follows the edges, and the sample is the counter at one of this call's.
Counting ==
  /\ IF Enabled THEN Shows(base + now, counter) ELSE got = <<>>
  /\ Len(calls) = IF InCall THEN Len(got) + 1 ELSE Len(got)
  /\ pc = "unsample" => sw.TIMER_SAMPLE = 1 /\ calls[Len(calls)].began < now
  /\ pc \in {"high", "low"} =>
       /\ sw.TIMER_SAMPLE = 0 /\ Shows(base + taken, timer_sample)
       /\ calls[Len(calls)].began < taken /\ taken <= now
  /\ count = 0

IInv == TypeOK /\ RegistersSet /\ Counting /\ CountOfThisCall

LEMMA Width == B \in Nat /\ B > 1 /\ AllOnes \in Half /\ AllOnes = B - 1
  BY BAssumption DEF AllOnes, Half

---------------------------------------------------------------------------
(* Counting modulo B *)

LEMMA ShowsNext ==
  ASSUME NEW n \in Nat, NEW c \in Half, Shows(n, c)
  PROVE  Shows(n + 1, IF c >= B - 1 THEN 0 ELSE c + 1)
<1>1. PICK laps \in 0 .. n : n = laps * B + c
  BY DEF Shows
<1>2. CASE c >= B - 1
  <2>1. c = B - 1
    BY <1>2, Width DEF Half
  <2>2. (laps + 1) * B = laps * B + B /\ laps * B \in Nat
    BY Width
  <2>3. n + 1 = (laps + 1) * B + 0
    BY <1>1, <2>1, <2>2, Width
  <2>4. laps + 1 \in 0 .. n + 1
    OBVIOUS
  <2> QED
    BY <1>2, <2>3, <2>4 DEF Shows
<1>3. CASE ~(c >= B - 1)
  <2>1. laps * B \in Nat
    BY Width
  <2>2. n + 1 = laps * B + (c + 1) /\ laps \in 0 .. n + 1
    BY <1>1, <2>1 DEF Half
  <2> QED
    BY <1>3, <2>2 DEF Shows
<1> QED
  BY <1>2, <1>3

LEMMA ShowsStart == \A c \in Half : Shows(c + 0, c)
<1> SUFFICES ASSUME NEW c \in Half PROVE Shows(c + 0, c)
  OBVIOUS
<1>1. c + 0 = 0 * B + c /\ 0 \in 0 .. c + 0
  BY Width DEF Half
<1> QED
  BY <1>1 DEF Shows

LEMMA Halves ==
  ASSUME NEW c \in Half
  PROVE  c \div B = 0 /\ 0 * B + (c % B) = c /\ c \in Count
<1>1. c \div B = 0 /\ c % B = c
  BY Width DEF Half
<1>2. B * B >= B
  BY Width
<1> QED
  BY <1>1, <1>2, Width DEF Half, Count

---------------------------------------------------------------------------
(* One edge *)

Registers == [TIMER_RESET : Bit, TIMER_ENABLE : Bit, TIMER_SAMPLE : Bit,
              TIMER_WRAP_HIGH : {0}, TIMER_WRAP_LOW : {0, AllOnes}]

LEMMA Wrap ==
  ASSUME TypeOK
  PROVE  wrap = sw.TIMER_WRAP_LOW /\ wrap \in Half
<1>1. sw.TIMER_WRAP_HIGH = 0 /\ sw.TIMER_WRAP_LOW \in {0, AllOnes}
  BY DEF TypeOK
<1>2. 0 * B = 0 /\ 0 \in Half
  BY Width DEF Half
<1>3. sw.TIMER_WRAP_LOW \in Half
  BY <1>1, <1>2, Width
<1> QED
  BY <1>1, <1>2, <1>3 DEF wrap, Half

\* What an edge does to the hardware, whatever software does at it.
LEMMA EdgeStep ==
  ASSUME IInv, Edge, sw' \in Registers, Enabled => sw'.TIMER_RESET = 0
  PROVE  /\ counter' \in Half /\ timer_sample' \in Half
         /\ now' \in Nat /\ taken' \in Nat
         /\ Enabled => /\ Shows(base + now', counter') /\ now' = now + 1
                       /\ IF sw.TIMER_SAMPLE = 1
                          THEN timer_sample' = counter /\ taken' = now
                          ELSE timer_sample' = timer_sample /\ taken' = taken
<1> USE DEF IInv, Edge
<1>1. wrap \in Half /\ (Enabled => wrap = B - 1)
  BY Wrap, Width DEF RegistersSet, SinceWrap, SinceReset, Enabled, TypeOK
<1>2. counter \in Half /\ timer_sample \in Half /\ base \in Half /\ now \in Nat /\ taken \in Nat
  BY DEF TypeOK
<1>3. NextCount \in Half
  BY <1>1, <1>2, Width DEF NextCount, Half
<1>4. counter' \in Half /\ timer_sample' \in Half
  BY <1>2, <1>3, Width DEF CounterBlock, SampleBlock, Half
<1>5. now' \in Nat /\ taken' \in Nat
  BY <1>2
<1>6. ASSUME Enabled
      PROVE  /\ Shows(base + now', counter') /\ now' = now + 1
             /\ IF sw.TIMER_SAMPLE = 1
                THEN timer_sample' = counter /\ taken' = now
                ELSE timer_sample' = timer_sample /\ taken' = taken
  <2>1. sw.TIMER_RESET = 0 /\ sw.TIMER_ENABLE = 1
    BY <1>6 DEF RegistersSet, SinceReset, Enabled
  <2>2. counter' = IF counter >= B - 1 THEN 0 ELSE counter + 1
    BY <1>1, <1>6, <2>1 DEF CounterBlock, NextCount
  <2>3. base + now \in Nat /\ Shows(base + now, counter)
    BY <1>2, <1>6 DEF Counting, Half
  <2>4. Shows((base + now) + 1, counter')
    BY <1>2, <2>2, <2>3, ShowsNext
  <2>5. now' = now + 1 /\ (base + now) + 1 = base + now'
    BY <1>2, <1>6 DEF Half
  <2> QED
    BY <1>6, <2>1, <2>4, <2>5 DEF SampleBlock
<1> QED
  BY <1>4, <1>5, <1>6

---------------------------------------------------------------------------
(* The inductive invariant *)

LEMMA InitIInv == Init => IInv
<1> SUFFICES ASSUME Init PROVE IInv
  OBVIOUS
<1>1. TypeOK
  BY Width DEF Init, TypeOK, Half, Bit
<1>2. RegistersSet /\ Counting /\ CountOfThisCall
  BY DEF Init, RegistersSet, Counting, CountOfThisCall, Enabled, SinceReset, SinceWrap, InCall
<1> QED
  BY <1>1, <1>2 DEF IInv

\* An access of timer_init.
LEMMA InitAccess ==
  ASSUME IInv, ResetOn \/ ResetOff \/ WrapHigh \/ WrapLow \/ Enable
  PROVE  IInv'
<1>0. ~Enabled /\ ~InCall /\ Edge /\ UNCHANGED <<count, got, calls>>
  BY DEF ResetOn, ResetOff, WrapHigh, WrapLow, Enable, Set, Enabled, InCall
<1>1. sw' \in Registers
  BY Width DEF IInv, TypeOK, Registers, ResetOn, ResetOff, WrapHigh, WrapLow, Enable, Set, Bit
<1>2. counter' \in Half /\ timer_sample' \in Half /\ now' \in Nat /\ taken' \in Nat
  BY <1>0, <1>1, EdgeStep
<1>3. base' \in Half /\ pc' \in {"unreset", "wrap_high", "wrap_low", "enable", "sample"}
  BY <1>2 DEF IInv, TypeOK, ResetOn, ResetOff, WrapHigh, WrapLow, Enable, Set
<1>4. TypeOK'
  BY <1>0, <1>1, <1>2, <1>3 DEF IInv, TypeOK, Registers
<1>5. RegistersSet'
  BY <1>0, <1>1 DEF IInv, TypeOK, RegistersSet, SinceReset, SinceWrap, Enabled, Registers,
     ResetOn, ResetOff, WrapHigh, WrapLow, Enable, Set
<1>6. Enabled' => Shows(base' + now', counter')
  <2> SUFFICES ASSUME Enabled' PROVE Shows(base' + now', counter')
    OBVIOUS
  <2>1. base' = counter' /\ now' = 0
    BY <1>0 DEF Enabled, ResetOn, ResetOff, WrapHigh, WrapLow, Enable, Set, Edge
  <2> QED
    BY <1>2, <2>1, ShowsStart
<1>7. Counting'
  BY <1>0, <1>3, <1>6 DEF IInv, Counting, InCall, Enabled
<1>8. CountOfThisCall'
  <2>1. got' = <<>>
    BY <1>0 DEF IInv, Counting
  <2> QED
    BY <2>1 DEF CountOfThisCall
<1> QED
  BY <1>4, <1>5, <1>7, <1>8 DEF IInv

\* The call being made is the last of the history.
LEMMA LastCall ==
  ASSUME IInv
  PROVE  /\ Len(got) \in Nat /\ Len(calls) \in Nat
         /\ \A k \in 1 .. Len(calls) :
              /\ calls[k] \in Moment
              /\ calls[k].began \in Nat /\ calls[k].sampled \in Nat /\ calls[k].returned \in Nat
         /\ InCall => Len(calls) \in 1 .. Len(calls) /\ Len(calls) = Len(got) + 1
<1>1. calls \in Seq(Moment) /\ got \in Seq(Count)
  BY DEF IInv, TypeOK
<1>2. Len(got) \in Nat /\ Len(calls) \in Nat
  BY <1>1, LenProperties
<1>3. ASSUME NEW k \in 1 .. Len(calls) PROVE calls[k] \in Moment
  BY <1>1, ElementOfSeq
<1>4. InCall => Len(calls) = Len(got) + 1
  BY DEF IInv, Counting
<1> QED
  BY <1>2, <1>3, <1>4 DEF Moment

\* A step that leaves the driver's variables alone, after timer_init or before.
LEMMA TickKeeps == IInv /\ Tick => IInv'
<1> SUFFICES ASSUME IInv, Tick PROVE IInv'
  OBVIOUS
<1>0. Edge /\ UNCHANGED <<sw, pc, count, got, base, calls>>
  BY DEF Tick
<1>1. sw' \in Registers /\ (Enabled => sw'.TIMER_RESET = 0)
  BY <1>0 DEF IInv, TypeOK, Registers, RegistersSet, SinceReset, Enabled
<1>2. TypeOK'
  BY <1>0, <1>1, EdgeStep DEF IInv, TypeOK
<1>3. RegistersSet'
  BY <1>0 DEF IInv, RegistersSet, SinceReset, SinceWrap, Enabled
<1>4. Counting'
  <2>1. IF Enabled' THEN Shows(base' + now', counter') ELSE got' = <<>>
    BY <1>0, <1>1, EdgeStep DEF IInv, Counting, Enabled
  <2>2. Len(calls') = IF InCall' THEN Len(got') + 1 ELSE Len(got')
    BY <1>0 DEF IInv, Counting, InCall
  <2>3. ASSUME pc = "unsample"
        PROVE  sw'.TIMER_SAMPLE = 1 /\ calls'[Len(calls')].began < now'
    <3>1. sw.TIMER_SAMPLE = 1 /\ calls[Len(calls)].began < now /\ Enabled /\ now' = now + 1
      BY <1>0, <1>1, <2>3, EdgeStep DEF IInv, Counting, Enabled
    <3>2. calls[Len(calls)].began \in Nat /\ now \in Nat
      BY <2>3, LastCall DEF IInv, InCall, TypeOK
    <3> QED
      BY <1>0, <3>1, <3>2
  <2>4. ASSUME pc \in {"high", "low"}
        PROVE  /\ sw'.TIMER_SAMPLE = 0 /\ Shows(base' + taken', timer_sample')
               /\ calls'[Len(calls')].began < taken' /\ taken' <= now'
    <3>1. Enabled /\ sw.TIMER_SAMPLE = 0
      BY <2>4 DEF IInv, Counting, Enabled
    <3>2. now' = now + 1 /\ timer_sample' = timer_sample /\ taken' = taken /\ now \in Nat /\ taken \in Nat
      BY <1>0, <1>1, <3>1, EdgeStep DEF IInv, TypeOK
    <3> QED
      BY <1>0, <2>4, <3>1, <3>2 DEF IInv, Counting
  <2> QED
    BY <1>0, <2>1, <2>2, <2>3, <2>4 DEF IInv, Counting
<1>5. CountOfThisCall'
  BY <1>0 DEF IInv, CountOfThisCall
<1> QED
  BY <1>2, <1>3, <1>4, <1>5 DEF IInv

(* timer_get_count *)

LEMMA SampleOnKeeps == IInv /\ SampleOn => IInv'
<1> SUFFICES ASSUME IInv, SampleOn PROVE IInv'
  OBVIOUS
<1> DEFINE m == [began |-> now, sampled |-> now, returned |-> now]
<1>0. /\ Edge /\ UNCHANGED <<count, got, base>> /\ pc = "sample" /\ pc' = "unsample"
      /\ sw' = [sw EXCEPT !["TIMER_SAMPLE"] = 1] /\ calls' = Append(calls, m)
  BY DEF SampleOn, Set
<1>1. sw' \in Registers /\ sw'.TIMER_RESET = 0 /\ Enabled /\ ~InCall /\ Enabled' /\ InCall'
  BY <1>0 DEF IInv, TypeOK, Registers, RegistersSet, SinceReset, Enabled, InCall, Bit
<1>2. m \in Moment /\ calls \in Seq(Moment) /\ now \in Nat /\ now' = now + 1
  BY <1>1, <1>0, EdgeStep DEF IInv, TypeOK, Moment
<1>3. /\ calls' \in Seq(Moment) /\ Len(calls') = Len(calls) + 1
      /\ calls'[Len(calls')] = m /\ \A k \in 1 .. Len(calls) : calls'[k] = calls[k]
  BY <1>0, <1>2, LenProperties, AppendProperties
<1>4. TypeOK'
  BY <1>0, <1>1, <1>3, EdgeStep DEF IInv, TypeOK, Registers
<1>5. RegistersSet'
  BY <1>0, <1>1 DEF IInv, TypeOK, RegistersSet, SinceReset, SinceWrap, Enabled
<1>6. Counting'
  <2>1. sw'.TIMER_SAMPLE = 1
    BY <1>0 DEF IInv, TypeOK
  <2>2. calls'[Len(calls')].began < now'
    BY <1>2, <1>3
  <2>3. Len(calls') = Len(got') + 1
    BY <1>0, <1>1, <1>3 DEF IInv, Counting
  <2>4. Shows(base' + now', counter')
    BY <1>0, <1>1, EdgeStep
  <2> QED
    BY <1>0, <1>1, <2>1, <2>2, <2>3, <2>4 DEF IInv, Counting
<1>7. CountOfThisCall'
  <2>1. Len(got) = Len(calls)
    BY <1>1 DEF IInv, Counting
  <2> QED
    BY <1>0, <1>3, <2>1 DEF IInv, CountOfThisCall
<1> QED
  BY <1>4, <1>5, <1>6, <1>7 DEF IInv

LEMMA SampleOffKeeps == IInv /\ SampleOff => IInv'
<1> SUFFICES ASSUME IInv, SampleOff PROVE IInv'
  OBVIOUS
<1>0. /\ Edge /\ UNCHANGED <<count, got, base, calls>> /\ pc = "unsample" /\ pc' = "high"
      /\ sw' = [sw EXCEPT !["TIMER_SAMPLE"] = 0]
  BY DEF SampleOff, Set
<1>1. sw' \in Registers /\ sw'.TIMER_RESET = 0 /\ Enabled /\ Enabled' /\ InCall /\ InCall'
  BY <1>0 DEF IInv, TypeOK, Registers, RegistersSet, SinceReset, Enabled, InCall, Bit
<1>2. TypeOK'
  BY <1>0, <1>1, EdgeStep DEF IInv, TypeOK, Registers
<1>3. RegistersSet'
  BY <1>0, <1>1 DEF IInv, TypeOK, RegistersSet, SinceReset, SinceWrap, Enabled
<1>4. sw.TIMER_SAMPLE = 1 /\ calls[Len(calls)].began < now /\ now \in Nat
  BY <1>0 DEF IInv, Counting, TypeOK
<1>5. taken' = now /\ timer_sample' = counter /\ now' = now + 1 /\ Shows(base' + now', counter')
  BY <1>0, <1>1, <1>4, EdgeStep
<1>6. Counting'
  <2>1. Shows(base' + taken', timer_sample')
    BY <1>0, <1>1, <1>5 DEF IInv, Counting
  <2>2. sw'.TIMER_SAMPLE = 0
    BY <1>0 DEF IInv, TypeOK
  <2>3. calls'[Len(calls')].began < taken' /\ taken' <= now'
    BY <1>0, <1>4, <1>5
  <2> QED
    BY <1>0, <1>1, <1>5, <2>1, <2>2, <2>3 DEF IInv, Counting
<1>7. CountOfThisCall'
  BY <1>0 DEF IInv, CountOfThisCall
<1> QED
  BY <1>2, <1>3, <1>6, <1>7 DEF IInv

LEMMA ReadHighKeeps == IInv /\ ReadHigh => IInv'
<1> SUFFICES ASSUME IInv, ReadHigh PROVE IInv'
  OBVIOUS
<1>0. /\ Edge /\ UNCHANGED <<sw, got, base, calls>> /\ pc = "high" /\ pc' = "low"
      /\ count' = timer_sample \div B
  BY DEF ReadHigh
<1>1. sw' \in Registers /\ sw'.TIMER_RESET = 0 /\ Enabled /\ Enabled' /\ InCall /\ InCall'
  BY <1>0 DEF IInv, TypeOK, Registers, RegistersSet, SinceReset, Enabled, InCall
<1>2. count' = 0 /\ count' \in Half
  <2>1. timer_sample \in Half
    BY DEF IInv, TypeOK
  <2>2. count' = 0
    BY <1>0, <2>1, Halves
  <2> QED
    BY <2>2, Width DEF Half
<1>3. TypeOK'
  BY <1>0, <1>1, <1>2, EdgeStep DEF IInv, TypeOK
<1>4. RegistersSet'
  BY <1>0, <1>1 DEF IInv, RegistersSet, SinceReset, SinceWrap, Enabled
<1>5. /\ sw.TIMER_SAMPLE = 0 /\ Shows(base + taken, timer_sample) /\ now \in Nat /\ taken \in Nat
      /\ calls[Len(calls)].began < taken /\ taken <= now
  BY <1>0 DEF IInv, Counting, TypeOK
<1>6. taken' = taken /\ timer_sample' = timer_sample /\ now' = now + 1 /\ Shows(base' + now', counter')
  BY <1>0, <1>1, <1>5, EdgeStep
<1>7. Counting'
  BY <1>0, <1>1, <1>2, <1>5, <1>6 DEF IInv, Counting
<1>8. CountOfThisCall'
  BY <1>0 DEF IInv, CountOfThisCall
<1> QED
  BY <1>3, <1>4, <1>7, <1>8 DEF IInv

LEMMA ReadLowKeeps == IInv /\ ReadLow => IInv'
<1> SUFFICES ASSUME IInv, ReadLow PROVE IInv'
  OBVIOUS
<1> DEFINE n == Len(calls)
           c == [calls EXCEPT ![n] = [@ EXCEPT !.sampled = taken, !.returned = now]]
<1>0. /\ Edge /\ UNCHANGED <<sw, base>> /\ pc = "low" /\ pc' = "sample" /\ count' = 0
      /\ got' = Append(got, count * B + (timer_sample % B)) /\ calls' = c
  BY DEF ReadLow
<1>1. sw' \in Registers /\ sw'.TIMER_RESET = 0 /\ Enabled /\ Enabled' /\ InCall /\ ~InCall'
  BY <1>0 DEF IInv, TypeOK, Registers, RegistersSet, SinceReset, Enabled, InCall
<1>2. /\ Shows(base + taken, timer_sample) /\ now \in Nat /\ taken \in Nat
      /\ calls[n].began < taken /\ taken <= now
      /\ count = 0 /\ timer_sample \in Half /\ base' = base
  BY <1>0 DEF IInv, Counting, TypeOK
<1>3. got' = Append(got, timer_sample) /\ timer_sample \in Count
  BY <1>0, <1>2, Halves
<1>4. n \in 1 .. n /\ n = Len(got) + 1 /\ Len(got) \in Nat /\ n \in Nat
  BY <1>1, LastCall
<1>5. calls \in Seq(Moment) /\ got \in Seq(Count)
  BY DEF IInv, TypeOK
<1>6. /\ got' \in Seq(Count) /\ Len(got') = n /\ got'[n] = timer_sample
      /\ \A k \in 1 .. Len(got) : got'[k] = got[k]
  BY <1>3, <1>4, <1>5, LenProperties, AppendProperties
<1>7. calls[n] \in Moment /\ DOMAIN calls = 1 .. n
  BY <1>4, <1>5, LastCall, LenProperties
<1> DEFINE m == [calls[n] EXCEPT !.sampled = taken, !.returned = now]
<1>8. /\ calls' = [calls EXCEPT ![n] = m] /\ m \in Moment
      /\ m.began = calls[n].began /\ m.sampled = taken /\ m.returned = now
  BY <1>0, <1>2, <1>7 DEF Moment
<1>9. /\ calls' \in Seq(Moment) /\ Len(calls') = n
      /\ calls'[n].began = calls[n].began /\ calls'[n].sampled = taken /\ calls'[n].returned = now
      /\ \A k \in 1 .. Len(got) : calls'[k] = calls[k]
  BY <1>4, <1>5, <1>7, <1>8, ExceptSeq
<1>10. TypeOK'
  BY <1>0, <1>1, <1>6, <1>9, EdgeStep, Width DEF IInv, TypeOK, Half
<1>11. RegistersSet'
  BY <1>0, <1>1 DEF IInv, RegistersSet, SinceReset, SinceWrap, Enabled
<1>12. Counting'
  BY <1>0, <1>1, <1>6, <1>9, EdgeStep DEF IInv, Counting
<1>13. CountOfThisCall'
  <2> SUFFICES ASSUME NEW k \in 1 .. Len(got')
               PROVE  /\ Shows(base' + calls'[k].sampled, got'[k])
                      /\ calls'[k].began < calls'[k].sampled /\ calls'[k].sampled <= calls'[k].returned
    BY DEF CountOfThisCall
  <2>1. CASE k = n
    BY <2>1, <1>2, <1>6, <1>9
  <2>2. CASE k \in 1 .. Len(got)
    BY <2>2, <1>2, <1>6, <1>9 DEF IInv, CountOfThisCall
  <2> QED
    BY <1>4, <1>6, <2>1, <2>2
<1> QED
  BY <1>10, <1>11, <1>12, <1>13 DEF IInv

\* Every count the driver returns is the number of edges since the timer was enabled,
\* as it was during that call (iob_timer.c:44, timer.v, WRAPCNT_ARE of iob_lib.vh).
THEOREM CountsEdges == Spec => [](TypeOK /\ CountOfThisCall)
<1>1. IInv /\ [Next]_vars => IInv'
  <2> SUFFICES ASSUME IInv, [Next]_vars PROVE IInv'
    OBVIOUS
  <2>1. CASE Tick
    BY <2>1, TickKeeps
  <2>2. CASE ResetOn \/ ResetOff \/ WrapHigh \/ WrapLow \/ Enable
    BY <2>2, InitAccess
  <2>3. CASE SampleOn
    BY <2>3, SampleOnKeeps
  <2>4. CASE SampleOff
    BY <2>4, SampleOffKeeps
  <2>5. CASE ReadHigh
    BY <2>5, ReadHighKeeps
  <2>6. CASE ReadLow
    BY <2>6, ReadLowKeeps
  <2>7. CASE UNCHANGED vars
    BY <2>7 DEF vars, hwVars, history, IInv, TypeOK, RegistersSet, Counting, CountOfThisCall,
       SinceReset, SinceWrap, InCall, Enabled, Shows
  <2> QED
    BY <2>1, <2>2, <2>3, <2>4, <2>5, <2>6, <2>7 DEF Next
<1>2. IInv => TypeOK /\ CountOfThisCall
  BY DEF IInv
<1> QED
  BY InitIInv, <1>1, <1>2, PTL DEF Spec

=============================================================================

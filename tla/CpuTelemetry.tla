---------------------------- MODULE CpuTelemetry ---------------------------
(***************************************************************************)
(* cpu_telemetry_sample (src/cpu/cpu_telemetry.c): utilization as a ratio  *)
(* of differences of counters that wrap around, and the TSC rate from two  *)
(* clocks that are read one after the other.  The counters are external;   *)
(* the thread may lose the processor, and time pass, before every reading. *)
(***************************************************************************)
EXTENDS Integers

CONSTANTS
    COUNTER_MOD,  \* 2^64 in the code: idle, kernel, user and TSC wrap here
    Starts,       \* values a counter may have at its first reading
    Elapsed,      \* by how much a system time may grow during the window
    Delays,       \* how much time may pass before a clock is read
    TscRate       \* TSC ticks in one tick of the performance counter

ASSUME TelemetryAssumption ==
    /\ COUNTER_MOD \in Nat \ {0} /\ TscRate \in Nat \ {0}
    /\ Starts \subseteq 0..(COUNTER_MOD - 1)
    /\ \A d \in Delays : d \in Nat /\ TscRate * d < COUNTER_MOD
    /\ \A d \in Elapsed : d \in Nat /\ 2 * d < COUNTER_MOD

VARIABLES
    telPc,
    times,     \* the system times at the first call
    spent,     \* how much they grew during the window (ghost)
    now,       \* true time, in ticks of the performance counter (ghost)
    clocks,    \* readings taken: qpc0, tsc0, tsc1
    ticks,     \* TSC ticks that passed since its first reading (ghost)
    tel        \* *out

telVars == <<telPc, times, spent, now, clocks, ticks, tel>>

Counters   == {"idle", "kernel", "user"}
NoTimes    == [c \in Counters |-> 0]
NoClocks   == [qpc0 |-> 0, tsc0 |-> 0, tsc1 |-> 0]

\* utilization_percent as the fraction busy / total; frequency_hz as the
\* fraction tscDelta / qpcDelta.
EmptyTelemetry ==
    [utilization_available |-> FALSE, busy |-> 0, total |-> 0,
     frequency_available |-> FALSE, tscDelta |-> 0, qpcDelta |-> 0]

TelInit ==
    /\ telPc = "times0" /\ times = NoTimes /\ spent = NoTimes
    /\ now = 0 /\ clocks = NoClocks /\ ticks = 0 /\ tel = EmptyTelemetry

TelGoto(l)   == telPc' = l
Delta(a, b)  == (b - a) % COUNTER_MOD      \* unsigned subtraction
timesVars    == <<times, spent>>
clockVars    == <<now, clocks, ticks>>

-----------------------------------------------------------------------------
(***************************************************************************)
(* sample_utilization.                                                     *)
(***************************************************************************)
FirstTimes ==
    /\ telPc = "times0"
    /\ \/ times' \in [Counters -> Starts] /\ TelGoto("times1")
       \/ UNCHANGED times /\ TelGoto("calibrate")      \* the call fails
    /\ UNCHANGED <<spent, clockVars, tel>>

\* MUTANT: idle time is subtracted without asking whether there is as much.
BusyUnclamped(total, idle) == (total - idle) % COUNTER_MOD

Busy(total, idle) == IF total > idle THEN total - idle ELSE 0

\* After the sleep.  The three times are not one snapshot: idle may have
\* grown by more than kernel, which includes it.
SecondTimes ==
    /\ telPc = "times1"
    /\ \/ /\ spent' \in [Counters -> Elapsed]
          /\ LET delta == [c \in Counters |->
                              Delta(times[c], (times[c] + spent'[c]) % COUNTER_MOD)]
                 total == (delta["kernel"] + delta["user"]) % COUNTER_MOD
             IN tel' = [tel EXCEPT
                          !.utilization_available = TRUE, !.total = total,
                          !.busy = IF total = 0 THEN 0
                                   ELSE Busy(total, delta["idle"])]
       \/ UNCHANGED <<spent, tel>>                     \* the call fails
    /\ TelGoto("calibrate")
    /\ UNCHANGED <<times, clockVars>>

-----------------------------------------------------------------------------
(***************************************************************************)
(* calibrate_tsc_frequency, called only if CPUID reports an invariant TSC. *)
(***************************************************************************)
StartCalibration(invariant_tsc) ==
    /\ telPc = "calibrate"
    /\ \/ invariant_tsc /\ TelGoto("first")
       \/ TelGoto("done")       \* no invariant TSC, or no counter frequency
    /\ UNCHANGED <<timesVars, clockVars, tel>>

\* MUTANT: RDTSC comes before the performance counter.
FirstReadingsSwapped ==
    /\ telPc = "first"
    /\ \E d0, d1 \in Delays, tsc0 \in Starts :
          /\ now' = now + d0 + d1
          /\ clocks' = [clocks EXCEPT !.qpc0 = now + d0 + d1, !.tsc0 = tsc0]
          /\ ticks' = TscRate * d1
    /\ TelGoto("second")
    /\ UNCHANGED <<timesVars, tel>>

\* QueryPerformanceCounter, then RDTSC; the thread may be preempted between.
FirstReadings ==
    /\ telPc = "first"
    /\ \/ \E d0, d1 \in Delays, tsc0 \in Starts :
             /\ now' = now + d0 + d1
             /\ clocks' = [clocks EXCEPT !.qpc0 = now + d0, !.tsc0 = tsc0]
             /\ ticks' = 0
             /\ TelGoto("second")
       \/ UNCHANGED clockVars /\ TelGoto("done")       \* the call fails
    /\ UNCHANGED <<timesVars, tel>>

\* After the sleep: RDTSC.
SecondTsc ==
    /\ telPc = "second"
    /\ \E d \in Delays :
          /\ now' = now + d
          /\ ticks' = ticks + TscRate * d
          /\ clocks' = [clocks EXCEPT
                          !.tsc1 = (clocks.tsc0 + ticks') % COUNTER_MOD]
    /\ TelGoto("third")
    /\ UNCHANGED <<timesVars, tel>>

\* Then QueryPerformanceCounter.  A counter that did not move, or went
\* backwards, gives no frequency.
SecondQpc ==
    /\ telPc = "third"
    /\ \/ \E d \in Delays :
             LET qpcDelta == now + d - clocks.qpc0 IN
             /\ now' = now + d
             /\ tel' = IF qpcDelta <= 0 THEN tel
                       ELSE [tel EXCEPT !.frequency_available = TRUE,
                               !.qpcDelta = qpcDelta,
                               !.tscDelta = Delta(clocks.tsc0, clocks.tsc1)]
       \/ UNCHANGED <<now, tel>>        \* the call fails, or qpc1 <= qpc0
    /\ TelGoto("done")
    /\ UNCHANGED <<timesVars, clocks, ticks>>

TelNext(invariant_tsc) ==
    \/ FirstTimes \/ SecondTimes
    \/ StartCalibration(invariant_tsc)
    \/ FirstReadings \/ SecondTsc \/ SecondQpc

TelSpec(invariant_tsc) == TelInit /\ [][TelNext(invariant_tsc)]_telVars

-----------------------------------------------------------------------------
(***************************************************************************)
(* Properties.                                                             *)
(***************************************************************************)
\* utilization_percent lies between 0 and 100 and is the share of the time
\* that really passed, although each counter may wrap around during the
\* window and idle may seem to grow by more than the total.
UtilizationIsTrue ==
    tel.utilization_available =>
        LET total == spent["kernel"] + spent["user"] IN
        /\ tel.total = total
        /\ tel.busy \in 0..total
        /\ spent["idle"] <= total => tel.busy = total - spent["idle"]

\* frequency_hz is only reported on a processor with an invariant TSC, from
\* a window of positive length, from the ticks that really passed, and never
\* above the true rate: however long the thread is preempted between two
\* readings, the TSC window lies inside the performance counter's.
FrequencyNeverTooHigh(invariant_tsc) ==
    tel.frequency_available =>
        /\ invariant_tsc /\ tel.qpcDelta > 0
        /\ tel.tscDelta = ticks
        /\ tel.tscDelta <= TscRate * tel.qpcDelta
=============================================================================

-------------------------------- MODULE Metrics --------------------------------
(***************************************************************************)
(* systemMetrics of metrics.go: browsers poll it every two seconds, and    *)
(* all of them share one baseline, the counters of the last sample and its *)
(* time, under one mutex.  The rate of an interface is what its counter    *)
(* has grown since the baseline over the time that has passed.             *)
(*                                                                         *)
(* An interface has one counter here: received and sent bytes are treated  *)
(* alike and must both have grown.  CPU usage has a baseline of its own,   *)
(* which is replaced when /proc/stat could be read, whether or not the     *)
(* counters of the interfaces could.  Memory, storage, links and mesh are  *)
(* read without any state.                                                 *)
(***************************************************************************)
EXTENDS Integers

CONSTANTS
  Pollers,     \* browsers that show a view with rates
  NoPoller,    \* metrics.mu is free
  Interfaces,  \* monitored interfaces
  Absent,      \* the interface does not exist
  Period,      \* the two seconds between two polls, in ticks
  MinGap,      \* the 0.25 s below which no rate is computed
  MaxGap,      \* the 30 s above which none is
  Slow,        \* whether a request takes time
  MaxBytes,    \* bound of the counters
  MaxJiffies,  \* bound of the processor's busy and idle time
  Width        \* 2^64: uint64 differences are taken modulo Width

ASSUME MetricsAssumption ==
  /\ NoPoller \notin Pollers
  /\ Absent \notin Int
  /\ Slow \in BOOLEAN
  /\ Period \in Nat \ {0} /\ MinGap \in Nat \ {0} /\ MaxGap \in Nat
  /\ MaxBytes \in Nat /\ MaxJiffies \in Nat
  /\ Width \in Nat /\ MaxBytes < Width /\ 2 * MaxJiffies < Width

VARIABLES
  counter,  \* counter[i]: what /proc/net/dev shows of i
  base,     \* lastNetwork: the counters of the last sample
  age,      \* ticks since lastNetAt, up to MaxGap + 1; lastNetAt is the zero time at first
  since,    \* history: ticks since the counters of base were read, up to MaxGap + 1
  lag,      \* history: how long before that the clock had been read
  passed,   \* history: passed[i]: bytes that went through i since the last sample
  timer,    \* timer[p]: ticks until the interval timer of p fires
  pc,       \* pc[p]: idle, lock or sample
  holder,   \* who holds metrics.mu
  delta,    \* deltaSeconds of the holder
  stall,    \* ticks since the holder looked at the clock
  shown,    \* shown[p]: p shows rates of all interfaces, waits for them, or has no interfaces
  busy,     \* the processor's time in /proc/stat that is neither idle nor waiting for I/O
  idle,     \* and the time that is: waiting for I/O is taken back by the kernel at times
  lastCPU,  \* the counters of the last sample, zero at first
  cpuReady, \* there was one
  worked    \* history: busy time since then

sampler == <<base, age, since, lag, holder, delta, stall>>
processor == <<busy, idle, lastCPU, cpuReady, worked>>
vars == <<counter, passed, timer, pc, shown, sampler, processor>>

TooOld == MaxGap + 1

Capped(ticks) == IF ticks > TooOld THEN TooOld ELSE ticks

Init ==
  /\ counter \in [Interfaces -> 0..MaxBytes \cup {Absent}]
  /\ base = [i \in Interfaces |-> Absent]
  /\ age = TooOld /\ since = TooOld /\ lag = 0
  /\ passed = [i \in Interfaces |-> 0]
  /\ timer \in [Pollers -> 0..(Period - 1)]
  /\ pc = [p \in Pollers |-> "idle"]
  /\ holder = NoPoller
  /\ delta = TooOld
  /\ stall = 0
  /\ shown = [p \in Pollers |-> "none"]
  /\ busy \in 0..MaxJiffies /\ idle \in 0..MaxJiffies
  /\ lastCPU = [total |-> 0, idle |-> 0] /\ cpuReady = FALSE /\ worked = 0

Present == {i \in Interfaces : counter[i] # Absent}

-------------------------------------------------------------------------------
(* The interval timer of app.js.  A reply that takes longer than a period  *)
(* would overlap with the next poll: such a poll counts as another poller. *)
Poll(p) ==
  /\ pc[p] = "idle"
  /\ timer[p] = 0
  /\ timer' = [timer EXCEPT ![p] = Period]
  /\ pc' = [pc EXCEPT ![p] = "lock"]
  /\ UNCHANGED <<counter, passed, shown, sampler, processor>>

(* metrics.mu is acquired and the clock read; then memory, storage, links  *)
(* and mesh are, then the processor's counters and the interfaces'         *)
Enter(p) ==
  /\ pc[p] = "lock"
  /\ holder = NoPoller
  /\ holder' = p
  /\ delta' = age
  /\ stall' = 0
  /\ pc' = [pc EXCEPT ![p] = "sample"]
  /\ UNCHANGED <<counter, passed, timer, shown, base, age, since, lag, processor>>

GrewUnchecked(i) == TRUE     \* mutant: a counter that was reset is not noticed

Grew(i) == counter[i] >= base[i]

Ready(i) ==
  /\ counter[i] # Absent
  /\ base[i] # Absent
  /\ delta \in MinGap..MaxGap
  /\ Grew(i)

(* The numerator of the rate, as uint64 *)
Reported(i) == (counter[i] - base[i]) % Width

(***************************************************************************)
(* calculateCPUUsage                                                       *)
(***************************************************************************)
DeltaTotal == (busy + idle - lastCPU.total) % Width
DeltaIdle  == (idle - lastCPU.idle) % Width

(* mutant: the idle times are not compared *)
UsageReadyByTotal == cpuReady /\ busy + idle > lastCPU.total

UsageReady ==
  /\ cpuReady
  /\ busy + idle > lastCPU.total
  /\ idle >= lastCPU.idle
  /\ DeltaIdle <= DeltaTotal

(* The numerator of the share shown, as uint64; the denominator is DeltaTotal *)
Usage == (DeltaTotal - DeltaIdle) % Width

(* mutant: the two fields are mixed up *)
SampleCPUSwapped ==
  \/ /\ lastCPU' = [total |-> idle, idle |-> busy + idle]
     /\ cpuReady' = TRUE
     /\ worked' = 0
  \/ UNCHANGED <<lastCPU, cpuReady, worked>>

(* A line of /proc/stat that cannot be read leaves the baseline as it is *)
SampleCPU ==
  \/ /\ lastCPU' = [total |-> busy + idle, idle |-> idle]
     /\ cpuReady' = TRUE
     /\ worked' = 0
  \/ UNCHANGED <<lastCPU, cpuReady, worked>>

BaselineKept == age          \* mutant: lastNetAt is not set

BaselineAge == stall

(* The end of the critical section; the mutex is released when it returns *)
Leave(p, view) ==
  /\ pc[p] = "sample"
  /\ shown' = [shown EXCEPT ![p] = view]
  /\ holder' = NoPoller
  /\ stall' = 0
  /\ delta' = TooOld
  /\ pc' = [pc EXCEPT ![p] = "idle"]
  /\ SampleCPU
  /\ UNCHANGED <<counter, timer, busy, idle>>

(* What the reply shows: the code's sample_ready of every interface in it *)
View == IF \A i \in Present : Ready(i) THEN "rates" ELSE "waiting"

(* The counters are read, the reply built and the baseline replaced as a   *)
(* whole.  The loopback interface is always there, so something is read.   *)
Sample(p) ==
  /\ Leave(p, View)
  /\ base' = counter
  /\ passed' = [i \in Interfaces |-> 0]
  /\ age' = BaselineAge /\ since' = 0 /\ lag' = stall

(* mutant: its counters stay, its time does not *)
BaselineRestamped == age' = stall /\ UNCHANGED <<base, since, lag, passed>>

BaselineStays == UNCHANGED <<base, age, since, lag, passed>>

(* /proc/net/dev could not be opened: no interfaces, and the baseline stays *)
SampleFails(p) ==
  /\ Leave(p, "none")
  /\ BaselineStays

-------------------------------------------------------------------------------
(* Traffic: the counter of i goes up *)
Flow(i) ==
  /\ counter[i] # Absent
  /\ counter[i] < MaxBytes
  /\ counter' = [counter EXCEPT ![i] = @ + 1]
  /\ passed' = [passed EXCEPT ![i] = @ + 1]
  /\ UNCHANGED <<timer, pc, shown, sampler, processor>>

(* A tunnel is taken down, and set up again with a new counter *)
Vanish(i) ==
  /\ counter[i] # Absent
  /\ counter' = [counter EXCEPT ![i] = Absent]
  /\ UNCHANGED <<passed, timer, pc, shown, sampler, processor>>

Appear(i) ==
  /\ counter[i] = Absent
  /\ passed[i] < MaxBytes
  /\ counter' = [counter EXCEPT ![i] = 0]
  /\ UNCHANGED <<passed, timer, pc, shown, sampler, processor>>

(* The processor works, idles, or its time waiting for I/O is corrected *)
Work == busy < MaxJiffies /\ busy' = busy + 1 /\ worked' = worked + 1 /\ UNCHANGED idle

Idle == idle < MaxJiffies /\ idle' = idle + 1 /\ UNCHANGED <<busy, worked>>

Correct == idle > 0 /\ idle' = idle - 1 /\ UNCHANGED <<busy, worked>>

Processor ==
  /\ Work \/ Idle \/ Correct
  /\ UNCHANGED <<counter, passed, timer, pc, shown, sampler, lastCPU, cpuReady>>

(* Timers that are due fire before the clock goes on; requests may take time *)
Tick ==
  /\ \A p \in Pollers : timer[p] > 0 /\ (Slow \/ pc[p] = "idle")
  /\ timer' = [p \in Pollers |-> timer[p] - 1]
  /\ age' = Capped(age + 1) /\ since' = Capped(since + 1)
  /\ stall' = IF holder = NoPoller THEN stall ELSE Capped(stall + 1)
  /\ UNCHANGED <<counter, passed, pc, shown, base, lag, holder, delta, processor>>

Next ==
  \/ \E p \in Pollers : Poll(p) \/ Enter(p) \/ Sample(p) \/ SampleFails(p)
  \/ \E i \in Interfaces : Flow(i) \/ Vanish(i) \/ Appear(i)
  \/ Processor
  \/ Tick

Spec == Init /\ [][Next]_vars

(* Timers fire, requests are handled, time passes *)
Fairness ==
  /\ WF_vars(Tick)
  /\ \A p \in Pollers : WF_vars(Poll(p)) /\ SF_vars(Enter(p)) /\ WF_vars(Sample(p) \/ SampleFails(p))

FairSpec == Spec /\ Fairness

-------------------------------------------------------------------------------
(***************************************************************************)
(* Properties                                                              *)
(***************************************************************************)
TypeOK ==
  /\ counter \in [Interfaces -> 0..MaxBytes \cup {Absent}]
  /\ base \in [Interfaces -> 0..MaxBytes \cup {Absent}]
  /\ age \in 0..TooOld /\ since \in 0..TooOld /\ lag \in 0..TooOld
  /\ passed \in [Interfaces -> Nat]
  /\ timer \in [Pollers -> 0..Period]
  /\ pc \in [Pollers -> {"idle", "lock", "sample"}]
  /\ holder \in Pollers \cup {NoPoller}
  /\ delta \in 0..TooOld
  /\ stall \in 0..TooOld
  /\ shown \in [Pollers -> {"none", "waiting", "rates"}]
  /\ busy \in 0..MaxJiffies /\ idle \in 0..MaxJiffies
  /\ lastCPU \in [total : 0..(2 * MaxJiffies), idle : 0..MaxJiffies]
  /\ lastCPU.idle <= lastCPU.total
  /\ cpuReady \in BOOLEAN
  /\ worked \in Nat

(* No reply shows more traffic than there was: not after the tunnel of an  *)
(* interface was replaced by a new one once or many times between two      *)
(* samples, and not when other browsers moved the baseline.                *)
NeverInflated == \A i \in Interfaces : Ready(i) => Reported(i) <= passed[i]

(* The time a rate is computed over is the one its bytes took: the clock is *)
(* read first and the counters later, after other reads that may be slow,   *)
(* and the two times differ by no more than this request has spent on them  *)
(* or the one that left the baseline had.                                   *)
IntervalIsHonest == \A i \in Interfaces :
  Ready(i) => since <= delta + stall /\ delta <= since + lag

(* The processor's usage that is shown is what it has worked since the last *)
(* sample, out of more than none and no more than all the time there was,   *)
(* although its idle time may have gone back below the baseline while the   *)
(* total has gone on.                                                       *)
UsageIsHonest ==
  UsageReady => /\ Usage = worked
                /\ 0 < DeltaTotal /\ worked <= DeltaTotal

(* README, Features: the rates of the interfaces are shown anew every two  *)
(* seconds.  A browser that always polls too soon after another one has    *)
(* moved the baseline sees none.                                           *)
(* Here: a browser that polls on, of interfaces that stay and can be read, *)
(* gets rates.                                                             *)
RatesAreShown ==
  /\ \A i \in Interfaces : <>[](counter[i] # Absent)
  /\ \A p \in Pollers : <>[](shown[p] # "none")
  => \A p \in Pollers : []<>(shown[p] = "rates")

-------------------------------------------------------------------------------
(* Why no rate is inflated: a counter is never ahead of the baseline by    *)
(* more than has passed, and a new one starts at 0                         *)
GrowthInv == \A i \in Interfaces :
  counter[i] # Absent => counter[i] <= passed[i] + (IF base[i] = Absent THEN MaxBytes ELSE base[i])

(* metrics.mu: only its holder samples *)
MutexInv == \A p \in Pollers : (pc[p] = "sample") = (holder = p)

(* Why the interval is right: the baseline's clock is never behind its     *)
(* counters by more than the lag, and nobody moves it under the holder     *)
IntervalInv ==
  /\ since <= age /\ age <= since + lag
  /\ IF holder = NoPoller THEN delta = TooOld
                          ELSE since <= delta + stall /\ delta <= since + lag

(* The busy time since the last sample is what the counters say *)
ProcessorInv == IF cpuReady THEN busy = worked + lastCPU.total - lastCPU.idle
                            ELSE lastCPU = [total |-> 0, idle |-> 0]

IndInv == TypeOK /\ GrowthInv /\ MutexInv /\ IntervalInv /\ ProcessorInv

===============================================================================

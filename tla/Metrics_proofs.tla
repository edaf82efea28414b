----------------------------- MODULE Metrics_proofs -----------------------------
(***************************************************************************)
(* Theorems about Metrics, for any browsers, interfaces and thresholds.    *)
(***************************************************************************)
EXTENDS Metrics, TLAPS

USE MetricsAssumption

(* Capping an age gives an age. *)
LEMMA CappedIsAge == \A ticks \in Nat : Capped(ticks) \in 0..TooOld
BY DEF Capped, TooOld

(* Below Width, the difference of two counters is not wrapped around. *)
LEMMA SmallDifference == \A x \in 0..MaxBytes : x % Width = x
OBVIOUS

(* The invariant initially holds. *)
LEMMA IndInit == Init => IndInv
<1> SUFFICES ASSUME Init PROVE IndInv
  OBVIOUS
<1>1. TypeOK
  <2>1. lastCPU \in [total : 0..(2 * MaxJiffies), idle : 0..MaxJiffies] /\ lastCPU.idle <= lastCPU.total
    BY DEF Init
  <2>2. cpuReady \in BOOLEAN /\ busy \in 0..MaxJiffies /\ idle \in 0..MaxJiffies /\ worked \in Nat
    BY DEF Init
  <2> QED BY <2>1, <2>2 DEF Init, TypeOK, TooOld
<1>2. GrowthInv
  BY DEF Init, GrowthInv
<1>3. ProcessorInv
  BY DEF Init, ProcessorInv
<1>4. MutexInv /\ IntervalInv
  BY DEF Init, MutexInv, IntervalInv, TooOld
<1> QED BY <1>1, <1>2, <1>3, <1>4 DEF IndInv

-------------------------------------------------------------------------------
(* A sample of the processor is typed. *)
LEMMA SampledType ==
  ASSUME TypeOK, SampleCPU
  PROVE  /\ lastCPU' \in [total : 0..(2 * MaxJiffies), idle : 0..MaxJiffies]
         /\ lastCPU'.idle <= lastCPU'.total
         /\ cpuReady' \in BOOLEAN /\ worked' \in Nat
<1>1. CASE UNCHANGED <<lastCPU, cpuReady, worked>>
  BY <1>1 DEF TypeOK
<1>2. CASE lastCPU' = [total |-> busy + idle, idle |-> idle] /\ cpuReady' = TRUE /\ worked' = 0
  <2>1. busy + idle \in 0..(2 * MaxJiffies) /\ idle \in 0..MaxJiffies
    BY DEF TypeOK
  <2>2. idle <= busy + idle
    BY DEF TypeOK
  <2> QED BY <1>2, <2>1, <2>2
<1> QED BY <1>1, <1>2 DEF SampleCPU

(* No poll, request, interface or tick leaves the types. *)
THEOREM TypeStep == TypeOK /\ [Next]_vars => TypeOK'
<1> SUFFICES ASSUME TypeOK, [Next]_vars PROVE TypeOK'
  OBVIOUS
<1> USE DEF TypeOK, sampler, processor
<1>1. ASSUME NEW p \in Pollers, Poll(p) PROVE TypeOK'
  BY <1>1 DEF Poll
<1>2. ASSUME NEW p \in Pollers, Enter(p) PROVE TypeOK'
  BY <1>2 DEF Enter, TooOld
<1>3. ASSUME NEW p \in Pollers, Sample(p) PROVE TypeOK'
  <2>1. View \in {"none", "waiting", "rates"}
    BY DEF View
  <2>2. SampleCPU /\ busy' = busy /\ idle' = idle
    BY <1>3 DEF Sample, Leave
  <2>3. /\ lastCPU' \in [total : 0..(2 * MaxJiffies), idle : 0..MaxJiffies]
        /\ lastCPU'.idle <= lastCPU'.total
        /\ cpuReady' \in BOOLEAN /\ worked' \in Nat
    BY <2>2, SampledType
  <2> HIDE DEF processor
  <2> QED BY <1>3, <2>1, <2>2, <2>3 DEF Sample, Leave, BaselineAge, TooOld
<1>4. ASSUME NEW p \in Pollers, SampleFails(p) PROVE TypeOK'
  <2>1. SampleCPU /\ busy' = busy /\ idle' = idle
    BY <1>4 DEF SampleFails, Leave
  <2>2. /\ lastCPU' \in [total : 0..(2 * MaxJiffies), idle : 0..MaxJiffies]
        /\ lastCPU'.idle <= lastCPU'.total
        /\ cpuReady' \in BOOLEAN /\ worked' \in Nat
    BY <2>1, SampledType
  <2> QED BY <1>4, <2>1, <2>2 DEF SampleFails, BaselineStays, Leave, TooOld
<1>5. ASSUME NEW i \in Interfaces, Flow(i) \/ Vanish(i) \/ Appear(i) PROVE TypeOK'
  BY <1>5 DEF Flow, Vanish, Appear
<1>8. CASE Processor
  BY <1>8 DEF Processor, Work, Idle, Correct
<1>6. CASE Tick
  <2>1. /\ Capped(age + 1) \in 0..TooOld /\ Capped(since + 1) \in 0..TooOld
        /\ Capped(stall + 1) \in 0..TooOld
    BY CappedIsAge
  <2> QED BY <1>6, <2>1 DEF Tick
<1>7. CASE UNCHANGED vars
  BY <1>7 DEF vars
<1> QED BY <1>1, <1>2, <1>3, <1>4, <1>5, <1>6, <1>7, <1>8 DEF Next

(* No interface grows faster, against the baseline, than bytes go through  *)
(* it, whatever is sampled, dropped or replaced.                           *)
THEOREM GrowthStep == TypeOK /\ GrowthInv /\ [Next]_vars => GrowthInv'
<1> SUFFICES ASSUME TypeOK, GrowthInv, [Next]_vars PROVE GrowthInv'
  OBVIOUS
<1> USE DEF TypeOK, GrowthInv, sampler, processor
<1>1. ASSUME NEW p \in Pollers, Poll(p) \/ Enter(p) \/ SampleFails(p) PROVE GrowthInv'
  BY <1>1 DEF Poll, Enter, SampleFails, BaselineStays, Leave
<1>2. ASSUME NEW p \in Pollers, Sample(p) PROVE GrowthInv'
  BY <1>2 DEF Sample, Leave
<1>3. ASSUME NEW i \in Interfaces, Flow(i) PROVE GrowthInv'
  BY <1>3 DEF Flow
<1>4. ASSUME NEW i \in Interfaces, Vanish(i) \/ Appear(i) PROVE GrowthInv'
  BY <1>4 DEF Vanish, Appear
<1>5. CASE Tick \/ Processor
  BY <1>5 DEF Tick, Processor
<1>6. CASE UNCHANGED vars
  BY <1>6 DEF vars
<1> QED BY <1>1, <1>2, <1>3, <1>4, <1>5, <1>6 DEF Next

(* Only the holder of metrics.mu samples, whoever polls. *)
THEOREM MutexStep == TypeOK /\ MutexInv /\ [Next]_vars => MutexInv'
<1> SUFFICES ASSUME TypeOK, MutexInv, [Next]_vars PROVE MutexInv'
  OBVIOUS
<1> USE DEF TypeOK, MutexInv, sampler
<1>1. ASSUME NEW p \in Pollers, Poll(p) \/ Enter(p) PROVE MutexInv'
  BY <1>1 DEF Poll, Enter
<1>2. ASSUME NEW p \in Pollers, Sample(p) \/ SampleFails(p) PROVE MutexInv'
  <2>1. pc[p] = "sample" /\ holder = p /\ pc' = [pc EXCEPT ![p] = "idle"] /\ holder' = NoPoller
    BY <1>2 DEF Sample, SampleFails, Leave
  <2> QED BY <2>1
<1>3. ASSUME UNCHANGED <<pc, holder>> PROVE MutexInv'
  BY <1>3
<1>4. ASSUME NEW i \in Interfaces, Flow(i) \/ Vanish(i) \/ Appear(i) PROVE UNCHANGED <<pc, holder>>
  BY <1>4 DEF Flow, Vanish, Appear
<1>5. CASE Processor \/ Tick \/ UNCHANGED vars
  BY <1>3, <1>5 DEF Processor, Tick, vars
<1> QED BY <1>1, <1>2, <1>3, <1>4, <1>5 DEF Next

(* The clock of the baseline and the one of the holder are never further    *)
(* from the counters than the requests took, however they interleave.       *)
THEOREM IntervalStep == TypeOK /\ MutexInv /\ IntervalInv /\ [Next]_vars => IntervalInv'
<1> SUFFICES ASSUME TypeOK, MutexInv, IntervalInv, [Next]_vars PROVE IntervalInv'
  OBVIOUS
<1>0. /\ age \in 0..TooOld /\ since \in 0..TooOld /\ lag \in 0..TooOld
      /\ delta \in 0..TooOld /\ stall \in 0..TooOld /\ TooOld \in Nat
  BY DEF TypeOK, TooOld
<1> USE DEF IntervalInv
<1>1. ASSUME UNCHANGED sampler PROVE IntervalInv'
  BY <1>1 DEF sampler
<1>2. ASSUME NEW p \in Pollers, Enter(p) PROVE IntervalInv'
  BY <1>0, <1>2 DEF Enter
<1>3. ASSUME NEW p \in Pollers, Sample(p) PROVE IntervalInv'
  BY <1>0, <1>3 DEF Sample, Leave, BaselineAge
<1>4. ASSUME NEW p \in Pollers, SampleFails(p) PROVE IntervalInv'
  BY <1>0, <1>4 DEF SampleFails, BaselineStays, Leave
<1>5. CASE Tick
  <2>1. /\ age' = Capped(age + 1) /\ since' = Capped(since + 1)
        /\ stall' = (IF holder = NoPoller THEN stall ELSE Capped(stall + 1))
        /\ holder' = holder /\ delta' = delta /\ lag' = lag
    BY <1>5 DEF Tick
  <2> QED BY <1>0, <2>1 DEF Capped
<1>6. ASSUME NEW p \in Pollers, Poll(p) PROVE UNCHANGED sampler
  BY <1>6 DEF Poll
<1>7. ASSUME NEW i \in Interfaces, Flow(i) \/ Vanish(i) \/ Appear(i) PROVE UNCHANGED sampler
  BY <1>7 DEF Flow, Vanish, Appear
<1>8. CASE Processor \/ UNCHANGED vars
  BY <1>1, <1>8 DEF Processor, vars
<1> QED BY <1>1, <1>2, <1>3, <1>4, <1>5, <1>6, <1>7, <1>8 DEF Next

(* The busy time since the last sample is what the counters say, whenever  *)
(* the kernel corrects the idle time and whichever samples fail.           *)
THEOREM ProcessorStep == TypeOK /\ ProcessorInv /\ [Next]_vars => ProcessorInv'
<1> SUFFICES ASSUME TypeOK, ProcessorInv, [Next]_vars PROVE ProcessorInv'
  OBVIOUS
<1>0. busy \in Nat /\ idle \in Nat /\ worked \in Nat /\ lastCPU \in [total : Nat, idle : Nat]
  BY DEF TypeOK
<1> USE DEF ProcessorInv
<1>1. ASSUME UNCHANGED processor PROVE ProcessorInv'
  BY <1>1 DEF processor
<1>2. ASSUME SampleCPU, UNCHANGED <<busy, idle>> PROVE ProcessorInv'
  BY <1>0, <1>2 DEF SampleCPU
<1>3. CASE Processor
  BY <1>0, <1>3 DEF Processor, Work, Idle, Correct
<1>4. ASSUME NEW p \in Pollers, Poll(p) \/ Enter(p) \/ Sample(p) \/ SampleFails(p) PROVE ProcessorInv'
  BY <1>1, <1>2, <1>4 DEF Poll, Enter, Sample, SampleFails, Leave
<1>5. ASSUME NEW i \in Interfaces, Flow(i) \/ Vanish(i) \/ Appear(i) PROVE ProcessorInv'
  BY <1>1, <1>5 DEF Flow, Vanish, Appear
<1>6. CASE Tick \/ UNCHANGED vars
  BY <1>1, <1>6 DEF Tick, vars
<1> QED BY <1>3, <1>4, <1>5, <1>6 DEF Next

(* The invariant is kept by every step. *)
THEOREM IndStep == IndInv /\ [Next]_vars => IndInv'
BY TypeStep, GrowthStep, MutexStep, IntervalStep, ProcessorStep DEF IndInv

(* The invariant holds in every reachable state. *)
THEOREM Invariance == Spec => []IndInv
BY IndInit, IndStep, PTL DEF Spec

-------------------------------------------------------------------------------
(* Every variable keeps its type, ages and counters their bounds. *)
THEOREM TypeCorrect == Spec => []TypeOK
<1>1. IndInv => TypeOK
  BY DEF IndInv
<1> QED BY <1>1, Invariance, PTL

(* No rate is computed from more bytes than went through the interface     *)
(* since the baseline, for any number of browsers and replaced tunnels.    *)
THEOREM RatesAreHonest == Spec => []NeverInflated
<1>1. IndInv => NeverInflated
  <2> SUFFICES ASSUME IndInv, NEW i \in Interfaces, Ready(i)
               PROVE  Reported(i) <= passed[i]
    BY DEF NeverInflated
  <2>1. counter[i] \in 0..MaxBytes /\ base[i] \in 0..MaxBytes /\ passed[i] \in Nat
    BY DEF IndInv, TypeOK, Ready
  <2>2. counter[i] - base[i] \in 0..MaxBytes
    BY <2>1 DEF Ready, Grew
  <2>3. Reported(i) = counter[i] - base[i]
    BY <2>2, SmallDifference DEF Reported
  <2>4. counter[i] <= passed[i] + base[i]
    BY <2>1 DEF IndInv, GrowthInv, Ready
  <2> QED BY <2>1, <2>3, <2>4
<1> QED BY <1>1, Invariance, PTL

(* The time of a rate and that of its bytes differ by no more than one of   *)
(* the two requests took, for any browsers that queue for metrics.mu.       *)
THEOREM IntervalCorrect == Spec => []IntervalIsHonest
<1>1. IndInv => IntervalIsHonest
  <2> SUFFICES ASSUME IndInv, NEW i \in Interfaces, Ready(i)
               PROVE  since <= delta + stall /\ delta <= since + lag
    BY DEF IntervalIsHonest
  <2>1. delta # TooOld
    BY DEF Ready, TooOld
  <2> QED BY <2>1 DEF IndInv, IntervalInv
<1> QED BY <1>1, Invariance, PTL

(* The usage shown is what the processor worked since the last sample,     *)
(* however idle time is corrected and whichever samples fail.              *)
THEOREM UsageCorrect == Spec => []UsageIsHonest
<1>1. IndInv => UsageIsHonest
  <2> SUFFICES ASSUME TypeOK, ProcessorInv, UsageReady
               PROVE  Usage = worked /\ 0 < DeltaTotal /\ worked <= DeltaTotal
    BY DEF IndInv, UsageIsHonest
  <2>1. /\ busy \in 0..MaxJiffies /\ idle \in 0..MaxJiffies /\ worked \in Nat
        /\ lastCPU.total \in 0..(2 * MaxJiffies) /\ lastCPU.idle \in 0..MaxJiffies
    BY DEF TypeOK
  <2>2. cpuReady /\ busy + idle > lastCPU.total /\ idle >= lastCPU.idle
    BY DEF UsageReady
  <2>3. busy + idle - lastCPU.total \in 0..(2 * MaxJiffies) /\ idle - lastCPU.idle \in 0..(2 * MaxJiffies)
    BY <2>1, <2>2
  <2>4. \A x \in 0..(2 * MaxJiffies) : x % Width = x
    OBVIOUS
  <2>5. DeltaTotal = busy + idle - lastCPU.total /\ DeltaIdle = idle - lastCPU.idle
    BY <2>3, <2>4 DEF DeltaTotal, DeltaIdle
  <2>6. busy = worked + lastCPU.total - lastCPU.idle
    BY <2>2 DEF ProcessorInv
  <2>7. Usage = DeltaTotal - DeltaIdle
    <3>1. DeltaTotal - DeltaIdle \in 0..(2 * MaxJiffies)
      BY <2>3, <2>5 DEF UsageReady
    <3> QED BY <2>4, <3>1 DEF Usage
  <2> QED BY <2>1, <2>2, <2>5, <2>6, <2>7
<1> QED BY <1>1, Invariance, PTL

===============================================================================

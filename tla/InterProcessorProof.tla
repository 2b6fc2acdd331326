------------------------- MODULE InterProcessorProof -------------------------
(* Proofs about InterProcessor, for any number of CPUs and threads.          *)
EXTENDS InterProcessor, FiniteSetTheorems, TLAPS

-----------------------------------------------------------------------------
(* The barriers of boot and resume, and the stop of all CPUs before a suspend *)

In(m) == {c \in Cpu : mode[c] = m}

\* The CPUs that have passed the initialization are counted, first those of the
\* boot, then, after a reset by the first CPU that resumes, those of a resume.
BarrierInv ==
  /\ \A c \in Cpu : mode[c] = "boot" =>
       /\ \A d \in Cpu : mode[d] \in {"boot", "counted"}
       /\ ~kernelInitialized /\ nrOfInitializedCpus = Cardinality(In("counted"))
  /\ \A c \in Cpu : mode[c] = "resume" =>
       /\ \A d \in Cpu : mode[d] \in {"resume", "barrier"}
       /\ kernelInitialized => \A d \in Cpu : mode[d] = "resume"
       /\ ~kernelInitialized => nrOfInitializedCpus = Cardinality(In("barrier"))
  /\ (\A c \in Cpu : mode[c] \notin {"boot", "resume"}) =>
       /\ nrOfInitializedCpus = NrOfCpus
       /\ kernelInitialized \/ \A c \in Cpu : mode[c] = "counted"

\* CPUs are stopping, and left counts those that have not stopped.
Stopping ==
  /\ In("suspend") = {} /\ In("halt") # {}
  /\ left > 0 /\ left = NrOfCpus - Cardinality(In("halt"))

\* All have stopped, the last one is about to switch off.
Suspending ==
  left = 0 /\ \E c \in Cpu : mode[c] = "suspend" /\ In("halt") = Cpu \ {c}

\* The system works again, but the suspend call has not been finished.
Resumed == left = 0 /\ In("suspend") = {} /\ In("halt") = {}

\* An IPI has stopped a CPU after the resume, and left has wrapped around.
Wrapped ==
  /\ In("suspend") = {} /\ In("halt") # {}
  /\ left = UintMax - (Cardinality(In("halt")) - 1)

SuspendInv ==
  IF left = None THEN In("halt") = {} /\ In("suspend") = {}
  ELSE Stopping \/ Suspending \/ Resumed \/ Wrapped

ModeTypeOK ==
  /\ mode \in [Cpu -> Mode]
  /\ left = None \/ left \in 0 .. UintMax
  /\ nrOfInitializedCpus \in Nat
  /\ kernelInitialized \in BOOLEAN

SInv == ModeTypeOK /\ BarrierInv /\ SuspendInv

\* Sets of CPUs are finite, and one CPU more or less is counted.
LEMMA Counts ==
  ASSUME NEW S \in SUBSET Cpu
  PROVE  /\ IsFiniteSet(S) /\ Cardinality(S) \in Nat /\ Cardinality(S) <= NrOfCpus
         /\ NrOfCpus \in Nat /\ NrOfCpus > 0
         /\ Cardinality(S) = NrOfCpus <=> S = Cpu
         /\ Cardinality(S) = 0 <=> S = {}
         /\ \A x \in Cpu : x \notin S => Cardinality(S \cup {x}) = Cardinality(S) + 1
         /\ \A x \in S : Cardinality(S \ {x}) = Cardinality(S) - 1
<1>1. IsFiniteSet(Cpu) /\ Cpu # {}
  BY InterProcessorAssumption
<1>2. IsFiniteSet(S) /\ Cardinality(S) <= Cardinality(Cpu) /\ (Cardinality(Cpu) = Cardinality(S) => Cpu = S)
  BY <1>1, FS_Subset
<1>3. Cardinality(S) \in Nat /\ Cardinality(Cpu) \in Nat
  BY <1>1, <1>2, FS_CardinalityType
<1>4. (Cardinality(S) = 0 <=> S = {}) /\ Cardinality(Cpu) # 0
  BY <1>1, <1>2, FS_EmptySet
<1>5. \A x \in Cpu : x \notin S => Cardinality(S \cup {x}) = Cardinality(S) + 1
  BY <1>2, FS_AddElement
<1>6. \A x \in S : Cardinality(S \ {x}) = Cardinality(S) - 1
  BY <1>2, FS_RemoveElement
<1> QED
  BY <1>2, <1>3, <1>4, <1>5, <1>6 DEF NrOfCpus

\* A CPU that moves leaves one set of CPUs and enters another one.
LEMMA Moved ==
  ASSUME ModeTypeOK, NEW c \in Cpu, NEW m \in Mode, mode' = [mode EXCEPT ![c] = m]
  PROVE  /\ \A d \in Cpu : mode'[d] = IF d = c THEN m ELSE mode[d]
         /\ \A k : k # mode[c] /\ k # m => In(k)' = In(k)
         /\ mode[c] # m => In(m)' = In(m) \cup {c} /\ c \notin In(m)
         /\ \A k : k = mode[c] /\ k # m => In(k)' = In(k) \ {c}
         /\ mode' \in [Cpu -> Mode]
<1>1. \A d \in Cpu : mode'[d] = IF d = c THEN m ELSE mode[d]
  BY DEF ModeTypeOK
<1>2. mode' \in [Cpu -> Mode]
  BY DEF ModeTypeOK
<1> QED
  BY <1>1, <1>2 DEF In
\* While a CPU works, all have passed the barrier.
LEMMA WorkingPassed ==
  ASSUME SInv, NEW c \in Cpu, mode[c] \in {"run", "entry", "halt", "suspend"}
  PROVE  /\ \A d \in Cpu : mode[d] \notin {"boot", "resume"}
         /\ nrOfInitializedCpus = NrOfCpus /\ kernelInitialized
<1>1. \A d \in Cpu : mode[d] \notin {"boot", "resume"}
  BY DEF SInv, BarrierInv
<1> QED
  BY <1>1 DEF SInv, BarrierInv

\* A counter that has wrapped around is far from zero.
LEMMA WrappedPositive ==
  ASSUME SInv, Wrapped
  PROVE  left \in Nat /\ left > 1
<1>1. Cardinality(In("halt")) \in Nat /\ Cardinality(In("halt")) <= NrOfCpus
      /\ NrOfCpus \in Nat
  BY Counts DEF In
<1> QED
  BY <1>1, InterProcessorAssumption DEF Wrapped

\* A CPU handles an exception and goes on; the end of the suspend call may
\* remove the counter.
LEMMA GoesOnKeeps ==
  ASSUME SInv, NEW c \in Cpu, NEW m \in {"run", "entry"},
         mode[c] \in {"run", "entry"}, mode' = [mode EXCEPT ![c] = m],
         UNCHANGED <<nrOfInitializedCpus, kernelInitialized>>,
         left' = left \/ (left = 0 /\ left' = None)
  PROVE  SInv'
<1>1. m \in Mode /\ ModeTypeOK
  BY DEF Mode, SInv
<1>2. /\ \A d \in Cpu : mode'[d] = IF d = c THEN m ELSE mode[d]
      /\ In("halt")' = In("halt") /\ In("suspend")' = In("suspend")
      /\ mode' \in [Cpu -> Mode]
  BY <1>1, Moved
<1>3. ModeTypeOK'
  BY <1>2 DEF ModeTypeOK, SInv
<1>4. BarrierInv'
  BY <1>2, WorkingPassed DEF BarrierInv
<1>5. SuspendInv'
  <2>1. CASE left' = left
    BY <1>2, <2>1 DEF SInv, SuspendInv, Stopping, Suspending, Resumed, Wrapped, In
  <2>2. CASE left = 0 /\ left' = None
    <3>1. ~Stopping
      BY <2>2 DEF Stopping
    <3>2. ~Wrapped
      BY <2>2, WrappedPositive
    <3>3. ~Suspending
      BY DEF Suspending, In
    <3>4. Resumed
      BY <2>2, <3>1, <3>2, <3>3, InterProcessorAssumption DEF SInv, SuspendInv
    <3> QED
      BY <1>2, <2>2, <3>4 DEF SuspendInv, Resumed
  <2> QED
    BY <2>1, <2>2
<1> QED
  BY <1>3, <1>4, <1>5 DEF SInv

\* The caller of the suspend stops itself.
LEMMA StopCpusKeeps ==
  ASSUME SInv, NEW c \in Cpu, NEW h, StopCpus(c, h)
  PROVE  SInv'
<1> DEFINE m == IF NrOfCpus = 1 THEN "suspend" ELSE "halt"
<1>1. /\ mode[c] = "entry" /\ left = None /\ left' = NrOfCpus - 1
      /\ mode' = [mode EXCEPT ![c] = m]
      /\ UNCHANGED <<nrOfInitializedCpus, kernelInitialized>>
  BY DEF StopCpus, Enters, CpusToStop, bootVars
<1>2. m \in Mode /\ ModeTypeOK
  BY DEF Mode, SInv
<1>3. NrOfCpus \in Nat /\ NrOfCpus > 0 /\ NrOfCpus < UintMax /\ UintMax \in Nat
  BY Counts, InterProcessorAssumption
<1>4. In("halt") = {} /\ In("suspend") = {}
  BY <1>1 DEF SInv, SuspendInv
<1>5. mode' \in [Cpu -> Mode] /\ \A d \in Cpu : mode'[d] = IF d = c THEN m ELSE mode[d]
  BY <1>1, <1>2, Moved
<1>6. ModeTypeOK'
  BY <1>1, <1>3, <1>5 DEF ModeTypeOK, SInv
<1>7. BarrierInv'
  BY <1>1, <1>5, WorkingPassed DEF BarrierInv
<1>8. left' # None
  BY <1>1, <1>3, InterProcessorAssumption
<1>9. CASE NrOfCpus = 1
  <2>1. Cpu = {c}
    <3>1. Cardinality({c}) = 1
      BY FS_Singleton
    <3> QED
      BY <1>9, <3>1, Counts
  <2>2. mode'[c] = "suspend" /\ In("halt")' = {}
    BY <1>5, <1>9, <2>1 DEF In
  <2>3. Suspending'
    BY <1>1, <1>9, <2>1, <2>2 DEF Suspending
  <2> QED
    BY <1>6, <1>7, <1>8, <2>3 DEF SInv, SuspendInv
<1>10. CASE NrOfCpus # 1
  <2>1. In("halt")' = {c} /\ In("suspend")' = {}
    BY <1>1, <1>4, <1>5, <1>10 DEF In
  <2>2. Cardinality({c}) = 1
    BY FS_Singleton
  <2>3. Stopping'
    BY <1>1, <1>3, <1>10, <2>1, <2>2 DEF Stopping
  <2> QED
    BY <1>6, <1>7, <1>8, <2>3 DEF SInv, SuspendInv
<1> QED
  BY <1>9, <1>10

\* Another CPU stops because of the IPI.
LEMMA StoppedKeeps ==
  ASSUME SInv, NEW c \in Cpu, mode[c] = "entry", left # None,
         left' = CountDown, mode' = [mode EXCEPT ![c] = StopPlace],
         UNCHANGED <<nrOfInitializedCpus, kernelInitialized>>
  PROVE  SInv'
<1>1. StopPlace \in Mode /\ ModeTypeOK /\ left \in 0 .. UintMax /\ UintMax \in Nat
      /\ NrOfCpus \in Nat /\ UintMax > NrOfCpus /\ NrOfCpus > 0
  BY InterProcessorAssumption, Counts DEF Mode, SInv, StopPlace, ModeTypeOK
<1>2. CountDown \in 0 .. UintMax /\ CountDown # None
  BY <1>1, InterProcessorAssumption DEF CountDown
<1>3. mode' \in [Cpu -> Mode] /\ \A d \in Cpu : mode'[d] = IF d = c THEN StopPlace ELSE mode[d]
  BY <1>1, Moved
<1>4. ModeTypeOK'
  BY <1>1, <1>2, <1>3 DEF ModeTypeOK, SInv
<1>5. BarrierInv'
  BY <1>3, WorkingPassed DEF BarrierInv, StopPlace
<1> DEFINE H == In("halt")
<1>6. /\ H \in SUBSET Cpu /\ c \notin H /\ Cardinality(H) \in Nat /\ Cardinality(H) < NrOfCpus
      /\ Cardinality(H \cup {c}) = Cardinality(H) + 1
      /\ Cardinality(H) = 0 <=> H = {}
  <2>1. H \in SUBSET Cpu /\ c \notin H
    BY DEF In
  <2> HIDE DEF H
  <2> QED
    BY <2>1, Counts
<1>7. ~Suspending
  BY DEF Suspending, In
<1>8. In("suspend") = {}
  BY <1>7 DEF SInv, SuspendInv, Stopping, Resumed, Wrapped
<1>9. CASE CountDown = 0
  <2>1. left = 1
    BY <1>1, <1>9 DEF CountDown
  <2>2. ~Wrapped
    BY <2>1, WrappedPositive
  <2>3. Stopping
    BY <1>7, <2>1, <2>2 DEF SInv, SuspendInv, Resumed
  <2>4. Cardinality(H) + 1 = NrOfCpus
    BY <1>1, <1>6, <2>1, <2>3 DEF Stopping
  <2>5. H \cup {c} = Cpu
    <3> DEFINE S == H \cup {c}
    <3>1. S \in SUBSET Cpu /\ Cardinality(S) = NrOfCpus
      BY <1>6, <2>4
    <3> HIDE DEF S
    <3>2. S = Cpu
      BY <3>1, Counts
    <3> QED
      BY <3>2 DEF S
  <2>6. mode'[c] = "suspend" /\ In("halt")' = Cpu \ {c}
    BY <1>3, <1>6, <1>9, <2>5 DEF StopPlace, In
  <2>7. Suspending'
    BY <1>9, <2>6 DEF Suspending
  <2> QED
    BY <1>2, <1>4, <1>5, <2>7 DEF SInv, SuspendInv
<1>10. CASE CountDown # 0
  <2>1. In("halt")' = H \cup {c} /\ In("suspend")' = {}
    BY <1>3, <1>8, <1>10 DEF StopPlace, In
  <2> HIDE DEF H
  <2>2. Stopping' \/ Wrapped'
    <3> DEFINE H1 == In("halt")' n == Cardinality(H)
    <3>4. n = Cardinality(In("halt")) /\ n \in Nat /\ n < NrOfCpus /\ (H = {} => n = 0)
      BY <1>6 DEF H
    <3>5. Cardinality(H1) = n + 1 /\ H1 # {}
      BY <1>6, <2>1
    <3>6. left' = IF left = 0 THEN UintMax ELSE left - 1
      BY DEF CountDown
    <3> HIDE DEF n, H1
    <3>1. CASE Stopping
      <4>1. left' = NrOfCpus - (n + 1) /\ left' > 0
        BY <1>1, <1>2, <1>10, <3>1, <3>4, <3>6 DEF Stopping
      <4> QED
        BY <2>1, <3>5, <4>1 DEF Stopping, H1
    <3>2. CASE Resumed
      <4>1. n = 0 /\ left' = UintMax
        BY <3>2, <3>4, <3>6 DEF Resumed, H
      <4>2. left' = UintMax - ((n + 1) - 1)
        BY <1>1, <4>1
      <4> QED
        BY <2>1, <3>5, <4>2 DEF Wrapped, H1
    <3>3. CASE Wrapped
      <4>1. left > 1
        BY <3>3, WrappedPositive
      <4>2. left' = UintMax - ((n + 1) - 1)
        BY <1>1, <3>3, <3>4, <3>6, <4>1 DEF Wrapped
      <4> QED
        BY <2>1, <3>5, <4>2 DEF Wrapped, H1
    <3> QED
      BY <1>7, <3>1, <3>2, <3>3 DEF SInv, SuspendInv
  <2> QED
    BY <1>2, <1>4, <1>5, <2>2 DEF SInv, SuspendInv
<1> QED
  BY <1>9, <1>10

\* A CPU that starts up has no part in a suspend.
LEMMA StartingKept ==
  ASSUME SInv, NEW c \in Cpu, NEW m \in Mode, m \notin {"halt", "suspend"},
         mode[c] \notin {"halt", "suspend"},
         mode' = [mode EXCEPT ![c] = m], left' = left
  PROVE  SuspendInv'
<1>1. In("halt")' = In("halt") /\ In("suspend")' = In("suspend")
  BY Moved DEF SInv
<1> QED
  BY <1>1 DEF SInv, SuspendInv, Stopping, Suspending, Resumed, Wrapped, In

LEMMA InitializeCpuKeeps ==
  ASSUME SInv, NEW c \in Cpu, InitializeCpu(c)
  PROVE  SInv'
<1>1. /\ mode[c] = "boot" /\ nrOfInitializedCpus' = nrOfInitializedCpus + 1
      /\ mode' = [mode EXCEPT ![c] = "counted"]
      /\ UNCHANGED <<left, kernelInitialized>>
  BY DEF InitializeCpu, workVars
<1>2. "counted" \in Mode /\ ModeTypeOK
  BY DEF Mode, SInv
<1>3. /\ \A d \in Cpu : mode[d] \in {"boot", "counted"}
      /\ ~kernelInitialized /\ nrOfInitializedCpus = Cardinality(In("counted"))
  BY <1>1 DEF SInv, BarrierInv
<1>4. /\ \A d \in Cpu : mode'[d] = IF d = c THEN "counted" ELSE mode[d]
      /\ In("counted")' = In("counted") \cup {c} /\ c \notin In("counted")
      /\ mode' \in [Cpu -> Mode]
  BY <1>1, <1>2, Moved
<1> DEFINE S == In("counted")
<1>5. nrOfInitializedCpus' = Cardinality(In("counted")')
  <2>1. S \in SUBSET Cpu /\ c \notin S
    BY <1>4 DEF In
  <2> HIDE DEF S
  <2>2. Cardinality(S \cup {c}) = Cardinality(S) + 1
    BY <2>1, Counts
  <2> QED
    BY <1>1, <1>3, <1>4, <2>2 DEF S
<1>6. (\A d \in Cpu : mode'[d] = "counted") => nrOfInitializedCpus' = NrOfCpus
  BY <1>5 DEF In, NrOfCpus
<1>7. BarrierInv'
  BY <1>1, <1>3, <1>4, <1>5, <1>6 DEF BarrierInv
<1>8. ModeTypeOK'
  BY <1>1, <1>4 DEF ModeTypeOK, SInv
<1>9. SuspendInv'
  BY <1>1, <1>2, StartingKept
<1> QED
  BY <1>7, <1>8, <1>9 DEF SInv

\* A CPU passes a barrier when all have been counted.
LEMMA BarriersKeep ==
  ASSUME SInv, NEW c \in Cpu, BootBarrier(c) \/ ResumeBarrier(c)
  PROVE  SInv'
<1>1. /\ mode' = [mode EXCEPT ![c] = "entry"] /\ mode[c] \in {"counted", "barrier"}
      /\ kernelInitialized' /\ UNCHANGED <<left, nrOfInitializedCpus>>
      /\ mode[c] = "counted" => nrOfInitializedCpus >= NrOfCpus
      /\ mode[c] = "barrier" => kernelInitialized
      /\ kernelInitialized' = TRUE
  BY DEF BootBarrier, ResumeBarrier, workVars, bootVars, SInv, ModeTypeOK
<1>2. "entry" \in Mode /\ ModeTypeOK
  BY DEF Mode, SInv
<1>3. \A d \in Cpu : mode[d] # "resume"
  BY <1>1 DEF SInv, BarrierInv
<1>4. \A d \in Cpu : mode[d] # "boot"
  <2>1. SUFFICES ASSUME NEW d \in Cpu, mode[d] = "boot" PROVE FALSE
    OBVIOUS
  <2>2. mode[c] = "counted" /\ nrOfInitializedCpus = Cardinality(In("counted"))
    BY <1>1, <2>1 DEF SInv, BarrierInv
  <2> DEFINE S == In("counted")
  <2>3. S \in SUBSET Cpu /\ d \notin S
    BY <2>1 DEF In
  <2>4. Cardinality(S) >= NrOfCpus
    BY <1>1, <2>2
  <2> HIDE DEF S
  <2>5. S = Cpu
    BY <2>3, <2>4, Counts
  <2> QED
    BY <2>3, <2>5
<1>5. nrOfInitializedCpus = NrOfCpus
  BY <1>3, <1>4 DEF SInv, BarrierInv
<1>6. mode' \in [Cpu -> Mode] /\ \A d \in Cpu : mode'[d] = IF d = c THEN "entry" ELSE mode[d]
  BY <1>1, <1>2, Moved
<1>7. BarrierInv'
  BY <1>1, <1>3, <1>4, <1>5, <1>6 DEF BarrierInv
<1>8. ModeTypeOK'
  BY <1>1, <1>6 DEF ModeTypeOK, SInv
<1>9. SuspendInv'
  BY <1>1, <1>2, StartingKept
<1> QED
  BY <1>7, <1>8, <1>9 DEF SInv

\* The first CPU that resumes resets the barrier, the last one opens it.
LEMMA ReinitCpuKeeps ==
  ASSUME SInv, NEW c \in Cpu, ReinitCpu(c)
  PROVE  SInv'
<1>1. /\ mode[c] = "resume" /\ nrOfInitializedCpus' = CountAfterReset
      /\ kernelInitialized' = (nrOfInitializedCpus' = NrOfCpus)
      /\ mode' = [mode EXCEPT ![c] = "barrier"]
      /\ left' = left
  BY DEF ReinitCpu, AllReinitialized, workVars
<1>2. "barrier" \in Mode /\ ModeTypeOK
  BY DEF Mode, SInv
<1>3. /\ \A d \in Cpu : mode[d] \in {"resume", "barrier"}
      /\ kernelInitialized => \A d \in Cpu : mode[d] = "resume"
      /\ ~kernelInitialized => nrOfInitializedCpus = Cardinality(In("barrier"))
  BY <1>1 DEF SInv, BarrierInv
<1>4. /\ \A d \in Cpu : mode'[d] = IF d = c THEN "barrier" ELSE mode[d]
      /\ In("barrier")' = In("barrier") \cup {c} /\ c \notin In("barrier")
      /\ mode' \in [Cpu -> Mode]
  BY <1>1, <1>2, Moved
<1> DEFINE S == In("barrier")
<1>5. /\ Cardinality(S \cup {c}) = Cardinality(S) + 1 /\ Cardinality(S) \in Nat
      /\ S = {} => Cardinality(S) = 0
      /\ Cardinality(S \cup {c}) = NrOfCpus <=> S \cup {c} = Cpu
  <2>1. S \in SUBSET Cpu /\ c \notin S /\ S \cup {c} \in SUBSET Cpu
    BY <1>4 DEF In
  <2> HIDE DEF S
  <2> QED
    BY <2>1, Counts
<1>6. nrOfInitializedCpus' = Cardinality(In("barrier")')
  <2>1. CASE kernelInitialized
    <3>1. S = {}
      BY <1>3, <2>1 DEF In
    <3> QED
      BY <1>1, <1>4, <1>5, <2>1, <3>1 DEF CountAfterReset
  <2>2. CASE ~kernelInitialized
    BY <1>1, <1>3, <1>4, <1>5, <2>2 DEF CountAfterReset
  <2> QED
    BY <2>1, <2>2
<1>7. kernelInitialized' <=> \A d \in Cpu : mode'[d] # "resume"
  <2>1. kernelInitialized' <=> S \cup {c} = Cpu
    BY <1>1, <1>4, <1>5, <1>6
  <2>2. S \cup {c} = Cpu <=> \A d \in Cpu : mode'[d] = "barrier"
    BY <1>4 DEF In
  <2> QED
    BY <1>3, <1>4, <2>1, <2>2
<1>8. kernelInitialized' => nrOfInitializedCpus' = NrOfCpus
  BY <1>1
<1>9. BarrierInv'
  BY <1>3, <1>4, <1>6, <1>7, <1>8 DEF BarrierInv
<1>10. ModeTypeOK'
  BY <1>1, <1>4, <1>5, <1>6 DEF ModeTypeOK, SInv
<1>11. SuspendInv'
  BY <1>1, <1>2, StartingKept
<1> QED
  BY <1>9, <1>10, <1>11 DEF SInv

LEMMA PowerCycleKeeps ==
  ASSUME SInv, NEW c \in Cpu, PowerCycle(c)
  PROVE  SInv'
<1>1. /\ mode[c] = "suspend" /\ mode' = [d \in Cpu |-> "resume"]
      /\ UNCHANGED <<left, nrOfInitializedCpus, kernelInitialized>>
  BY DEF PowerCycle, bootVars
<1>2. kernelInitialized
  BY <1>1, WorkingPassed
<1>3. BarrierInv' /\ ModeTypeOK'
  BY <1>1, <1>2 DEF BarrierInv, ModeTypeOK, Mode, SInv
<1>4. left = 0
  <2>1. c \in In("suspend")
    BY <1>1 DEF In
  <2> QED
    BY <2>1 DEF SInv, SuspendInv, Stopping, Suspending, Resumed, Wrapped
<1>5. Resumed'
  BY <1>1, <1>4 DEF Resumed, In
<1> QED
  BY <1>1, <1>3, <1>4, <1>5, InterProcessorAssumption DEF SInv, SuspendInv

LEMMA SuspendNext == SInv /\ [Next]_vars => SInv'
<1> SUFFICES ASSUME SInv, [Next]_vars PROVE SInv'
  OBVIOUS
<1>1. CASE UNCHANGED vars
  BY <1>1 DEF vars, workVars, bootVars, SInv, ModeTypeOK, BarrierInv, SuspendInv, Stopping, Suspending,
              Resumed, Wrapped, In
<1>2. ASSUME NEW c \in Cpu, Startup(c) \/ PowerCycle(c)
      PROVE  SInv'
  BY <1>2, InitializeCpuKeeps, BarriersKeep, ReinitCpuKeeps, PowerCycleKeeps DEF Startup
<1>3. ASSUME NEW c \in Cpu, NEW call \in Call, SystemCall(c, call)
      PROVE  SInv'
  BY <1>3, GoesOnKeeps DEF SystemCall, workVars, bootVars
<1>4. ASSUME NEW c \in Cpu, Interrupt(c)
      PROVE  SInv'
  BY <1>4, GoesOnKeeps DEF Interrupt, workVars, bootVars
<1>5. ASSUME NEW c \in Cpu, NEW h \in Heads(c),
             OtherInterrupt(c, h) \/ InvalidateTlb(c, h) \/ RestartThread(c, h)
             \/ StopThread(c, h) \/ SendRequest(c, h) \/ SendReply(c, h) \/ FailSuspend(c, h)
      PROVE  SInv'
  <2>1. mode[c] = "entry" /\ UNCHANGED <<left, nrOfInitializedCpus, kernelInitialized>>
    BY <1>5 DEF OtherInterrupt, InvalidateTlb, RestartThread, StopThread, SendRequest, SendReply,
                FailSuspend, Enters, workVars, bootVars
  <2>2. mode' = [mode EXCEPT ![c] = "run"]
    BY <1>5 DEF OtherInterrupt, InvalidateTlb, RestartThread, StopThread, SendRequest, SendReply,
                FailSuspend, Leave
  <2> QED
    BY <2>1, <2>2, GoesOnKeeps
<1>6. ASSUME NEW c \in Cpu, NEW h \in Heads(c), DeleteThread(c, h)
      PROVE  SInv'
  <2>1. mode[c] = "entry" /\ UNCHANGED <<left, nrOfInitializedCpus, kernelInitialized>>
    BY <1>6 DEF DeleteThread, Enters, bootVars
  <2>2. mode' = [mode EXCEPT ![c] = "run"]
    BY <1>6 DEF DeleteThread, Leave
  <2> QED
    BY <2>1, <2>2, GoesOnKeeps
<1>7. ASSUME NEW c \in Cpu, NEW h \in Heads(c), EndSuspend(c, h)
      PROVE  SInv'
  <2>1. /\ mode[c] = "entry" /\ UNCHANGED <<nrOfInitializedCpus, kernelInitialized>>
        /\ left' = left \/ (left = 0 /\ left' = None)
    BY <1>7 DEF EndSuspend, Enters, bootVars, StopCpuDestructed
  <2>2. mode' = [mode EXCEPT ![c] = "run"]
    BY <1>7 DEF EndSuspend, Leave
  <2> QED
    BY <2>1, <2>2, GoesOnKeeps
<1>8. ASSUME NEW c \in Cpu, NEW h \in Heads(c), IpiOccurred(c, h)
      PROVE  SInv'
  <2>1. mode[c] = "entry" /\ UNCHANGED <<nrOfInitializedCpus, kernelInitialized>>
    BY <1>8 DEF IpiOccurred, Enters, bootVars
  <2>2. CASE left = None
    <3>1. left' = left /\ mode' = [mode EXCEPT ![c] = "run"]
      BY <1>8, <2>2 DEF IpiOccurred, Leave
    <3> QED
      BY <2>1, <3>1, GoesOnKeeps
  <2>3. CASE left # None
    BY <1>8, <2>1, <2>3, StoppedKeeps DEF IpiOccurred
  <2> QED
    BY <2>2, <2>3
<1> QED
  BY <1>1, <1>2, <1>3, <1>4, <1>5, <1>6, <1>7, <1>8, StopCpusKeeps DEF Next, Handle

LEMMA SuspendInit == Init => SInv
<1> SUFFICES ASSUME Init PROVE SInv
  OBVIOUS
<1>1. In("counted") = {} /\ In("halt") = {} /\ In("suspend") = {}
  BY DEF Init, In
<1>2. Cardinality({}) = 0
  BY FS_EmptySet
<1>3. BarrierInv
  BY <1>1, <1>2, InterProcessorAssumption DEF Init, BarrierInv
<1> QED
  BY <1>1, <1>3 DEF Init, SInv, ModeTypeOK, Mode, SuspendInv

\* The inductive invariant of boot, suspend and resume holds in every state.
THEOREM SuspendInvariance == Spec => []SInv
BY SuspendInit, SuspendNext, PTL DEF Spec

\* The power is switched off only after all other CPUs have stopped, whatever
\* IPIs, also after an earlier resume, made them count (x86_64 thread.cc:60-85).
THEOREM StopsBeforeSuspend == Spec => []StoppedBeforeSuspend
<1>1. SInv => StoppedBeforeSuspend
  BY DEF SInv, SuspendInv, Stopping, Suspending, Resumed, Wrapped, In, StoppedBeforeSuspend
<1> QED
  BY <1>1, SuspendInvariance, PTL

\* No CPU works before all CPUs have been initialized at boot, and initialized
\* again at each resume (main.cc).
THEOREM BarriersHold == Spec => []BarrierHolds
<1>1. SInv => BarrierHolds
  BY WorkingPassed DEF BarrierHolds
<1> QED
  BY <1>1, SuspendInvariance, PTL

-----------------------------------------------------------------------------
(* Work for other CPUs, as long as the system is not suspended *)

\* Scheduling and the places of CPUs
JobInv ==
  /\ head \in [Cpu -> Job \cup {None}] /\ ran \in [Cpu -> Job]
  /\ \A c \in Cpu : head[c] \in JobsOf(c) \cup {None} /\ ran[c] \in JobsOf(c)
  /\ mode \in [Cpu -> {"boot", "counted", "run", "entry"}]

\* Threads, which help servers of their own CPU only
ThreadInv ==
  /\ state \in [Thread -> {"ACTIVE", "AWAITS_RESTART", "AWAITS_IPC", "GONE"}]
  /\ helps \in [Thread -> UserThread \cup {None}]
  /\ \A t \in Thread : helps[t] # None => Home[helps[t]] = Home[t]

\* What is in the registers of a job is an interrupt or a call it may make.
Permitted(t, op, arg) ==
  /\ op \in {"tlb", "delete", "suspend"} => t \in CoreThread
  /\ op \in {"delete", "wake", "call"} => arg \in UserThread
  /\ op = "call" => Home[arg] = Home[t]
TrapInv ==
  /\ trap \in [Job -> Call \cup {Irq}]
  /\ \A c \in Cpu : trap[c] = Irq
  /\ \A t \in Thread : Permitted(t, trap[t].op, trap[t].arg)

\* An IPI is pending as long as it is on its way or not finished.
IpiInv ==
  /\ pending \subseteq Cpu /\ pending = line \cup isr
  /\ line \cap isr = {}

\* The work lists, and the IPIs that announce them
WorkInv ==
  /\ tlb \in [CoreThread -> 0 .. NrOfCpus - 1]
  /\ destroy \in [CoreThread -> UserThread \cup {None}]
  /\ stale \in [CoreThread -> SUBSET Cpu]
  /\ left = None
  /\ WorkAnnounced

WInv ==
  /\ SInv /\ JobInv /\ ThreadInv /\ TrapInv /\ IpiInv /\ WorkInv
  /\ instanceInitialized \in BOOLEAN /\ suspends \in 0 .. MaxSuspends

\* Every CPU executes the job that its scheduler's head stands for, which nobody
\* else destructs, as long as nobody removes that head.
HeadRuns(c) ==
  /\ head[c] # None /\ Dest(head[c]) = ran[c]
  /\ ran[c] \in Thread => state[ran[c]] # "GONE"
HeadsInv == \A c \in Cpu \ orphaned : HeadRuns(c)

\* A thread and the one it helps are jobs of the same CPU.
LEMMA DestLocal ==
  ASSUME NEW hp \in [Thread -> UserThread \cup {None}],
         \A t \in Thread : hp[t] # None => Home[hp[t]] = Home[t],
         NEW c \in Cpu, NEW j \in JobsOf(c)
  PROVE  (IF j \in Thread /\ hp[j] # None THEN hp[j] ELSE j) \in JobsOf(c)
<1>1. Thread \cap Cpu = {} /\ UserThread \subseteq Thread
  BY InterProcessorAssumption DEF Thread
<1> QED
  BY <1>1 DEF JobsOf

LEMMA DestNow ==
  ASSUME ThreadInv, NEW c \in Cpu, NEW j \in JobsOf(c)
  PROVE  Dest(j) \in JobsOf(c)
<1> DEFINE hp == helps
<1>1. hp \in [Thread -> UserThread \cup {None}] /\ \A t \in Thread : hp[t] # None => Home[hp[t]] = Home[t]
  BY DEF ThreadInv
<1> HIDE DEF hp
<1>2. (IF j \in Thread /\ hp[j] # None THEN hp[j] ELSE j) \in JobsOf(c)
  BY <1>1, DestLocal
<1> QED
  BY <1>2 DEF Dest, hp

\* The job whose exception is handled is one of the CPU.
LEMMA HandledJob ==
  ASSUME JobInv, ThreadInv, NEW c \in Cpu, NEW h \in Heads(c)
  PROVE  h \in JobsOf(c) /\ Dest(h) \in JobsOf(c)
<1>1. Heads(c) \subseteq JobsOf(c)
  BY DEF Heads, Candidates, Ready, JobInv, JobsOf
<1> QED
  BY <1>1, DestNow

\* The CPU selects one of its own jobs again.
LEMMA LeaveKeeps ==
  ASSUME JobInv, ThreadInv', NEW c \in Cpu,
         NEW heads \in [Cpu -> Job \cup {None}],
         \A d \in Cpu : heads[d] \in JobsOf(d) \cup {None},
         Leave(c, heads)
  PROVE  JobInv'
<1>1. PICK h \in Candidates(c)' : /\ head' = [heads EXCEPT ![c] = h]
                                  /\ ran' = [ran EXCEPT ![c] = Dest(h)']
                                  /\ mode' = [mode EXCEPT ![c] = "run"]
  BY DEF Leave
<1>2. h \in JobsOf(c)
  BY DEF Candidates, Ready, JobsOf
<1> DEFINE hp == helps' r == Dest(h)'
<1>3. hp \in [Thread -> UserThread \cup {None}] /\ \A t \in Thread : hp[t] # None => Home[hp[t]] = Home[t]
  BY DEF ThreadInv
<1> HIDE DEF hp
<1>4. (IF h \in Thread /\ hp[h] # None THEN hp[h] ELSE h) \in JobsOf(c)
  BY <1>2, <1>3, DestLocal
<1>5. r \in JobsOf(c)
  BY <1>4 DEF Dest, hp
<1> HIDE DEF r
<1>6. ran' = [ran EXCEPT ![c] = r]
  BY <1>1 DEF r
<1>7. \A d \in Cpu : JobsOf(d) \subseteq Job
  BY DEF JobsOf, Job
<1>8. head' \in [Cpu -> Job \cup {None}] /\ ran' \in [Cpu -> Job]
  BY <1>1, <1>2, <1>5, <1>6, <1>7 DEF JobInv
<1>9. \A d \in Cpu : head'[d] \in JobsOf(d) \cup {None} /\ ran'[d] \in JobsOf(d)
  BY <1>1, <1>2, <1>5, <1>6 DEF JobInv
<1>10. mode' \in [Cpu -> {"boot", "counted", "run", "entry"}]
  BY <1>1 DEF JobInv
<1> QED
  BY <1>8, <1>9, <1>10 DEF JobInv

\* Sending IPIs to the CPUs in C, and finishing those of the CPUs in done
LEMMA TriggerKeeps ==
  ASSUME IpiInv, NEW C \in SUBSET Cpu, NEW done \in SUBSET isr, C \cap done = {},
         Trigger(C, done)
  PROVE  IpiInv' /\ pending' = (pending \cup C) \ done
BY DEF IpiInv, Trigger

\* Work that nobody takes from the lists is still announced.
LEMMA WorkKept ==
  ASSUME WorkInv, UNCHANGED workVars, IpiInv, IpiInv', pending \subseteq pending'
  PROVE  WorkInv'
<1>1. UNCHANGED <<tlb, destroy, left, stale>>
  BY DEF workVars
<1>2. \A c \in Cpu : Destroyers(c)' = Destroyers(c) /\ Invalidations' = Invalidations
  BY <1>1 DEF Destroyers, Invalidations
<1>3. WorkAnnounced'
  BY <1>1, <1>2 DEF WorkInv, WorkAnnounced, IpiInv
<1> QED
  BY <1>1, <1>3 DEF WorkInv

LEMMA SystemCallKeeps ==
  ASSUME WInv, NEW c \in Cpu, NEW call \in Call, SystemCall(c, call)
  PROVE  JobInv' /\ ThreadInv' /\ TrapInv' /\ IpiInv' /\ WorkInv' /\ UNCHANGED <<instanceInitialized, suspends>>
<1>1. /\ ran[c] \in Thread /\ MayCall(ran[c], call) /\ trap' = [trap EXCEPT ![ran[c]] = call]
      /\ mode' = [mode EXCEPT ![c] = "entry"]
      /\ UNCHANGED <<head, ran, state, helps, pending, line, isr>>
      /\ UNCHANGED workVars /\ UNCHANGED <<instanceInitialized, suspends>>
  BY DEF SystemCall, ipiVars, bootVars
<1>2. JobInv' /\ ThreadInv' /\ IpiInv'
  BY <1>1 DEF WInv, JobInv, ThreadInv, IpiInv, SInv, ModeTypeOK
<1>3. WorkInv'
  BY <1>1, <1>2, WorkKept DEF WInv
<1> DEFINE t == ran[c]
<1>4. call.op \in Calls /\ call.arg \in UserThread \cup {None}
  BY DEF Call
<1>5. Permitted(t, call.op, call.arg)
  <2>1. call.op \in {"tlb", "delete", "suspend", "wake", "stop", "call", "reply"}
    BY <1>4, InterProcessorAssumption
  <2>2. t \in Thread /\ None \notin Thread
    BY <1>1, InterProcessorAssumption DEF Job
  <2> HIDE DEF t
  <2> QED
    BY <1>1, <2>1, <2>2, InterProcessorAssumption DEF MayCall, Permitted, t
<1>6. Thread \subseteq Job /\ Thread \cap Cpu = {} /\ Cpu \subseteq Job
  BY InterProcessorAssumption DEF Job
<1>7. TrapInv'
  <2> HIDE DEF t
  <2>1. t \in Thread /\ trap' = [trap EXCEPT ![t] = call]
    BY <1>1 DEF t
  <2> QED
    BY <1>4, <1>5, <1>6, <2>1 DEF WInv, TrapInv, Call
<1> QED
  BY <1>1, <1>2, <1>3, <1>7

LEMMA InterruptKeeps ==
  ASSUME WInv, NEW c \in Cpu, Interrupt(c)
  PROVE  JobInv' /\ ThreadInv' /\ TrapInv' /\ IpiInv' /\ WorkInv' /\ UNCHANGED <<instanceInitialized, suspends>>
<1>1. /\ trap' = [trap EXCEPT ![ran[c]] = Irq]
      /\ mode' = [mode EXCEPT ![c] = "entry"]
      /\ isr' = isr \cup (line \cap {c}) /\ line' = line \ {c}
      /\ UNCHANGED <<head, ran, state, helps, pending>>
      /\ UNCHANGED workVars /\ UNCHANGED <<instanceInitialized, suspends>>
  BY DEF Interrupt, bootVars
<1>2. JobInv' /\ ThreadInv' /\ IpiInv'
  BY <1>1 DEF WInv, JobInv, ThreadInv, IpiInv, SInv, ModeTypeOK
<1>3. WorkInv'
  BY <1>1, <1>2, WorkKept DEF WInv
<1> DEFINE t == ran[c]
<1>4. t \in Job /\ trap' = [trap EXCEPT ![t] = Irq]
  BY <1>1 DEF WInv, JobInv
<1>5. \A u : Permitted(u, Irq.op, Irq.arg)
  BY DEF Permitted, Irq
<1> HIDE DEF t
<1>6. TrapInv'
  BY <1>4, <1>5 DEF WInv, TrapInv, Job
<1> QED
  BY <1>1, <1>2, <1>3, <1>6

\* The exception that a CPU handles: that of a thread if it is a system call.
LEMMA HandledCall ==
  ASSUME WInv, NEW c \in Cpu, NEW h \in Heads(c), NEW op, op # "irq", Enters(c, h, op)
  PROVE  /\ Dest(h) \in Thread /\ Home[Dest(h)] = c /\ op \in Calls
         /\ Permitted(Dest(h), op, trap[Dest(h)].arg) /\ mode[c] = "entry"
<1>1. Dest(h) \in JobsOf(c)
  BY HandledJob DEF WInv
<1>2. Dest(h) \notin Cpu
  BY DEF WInv, TrapInv, Enters, Irq
<1>3. Dest(h) \in Thread /\ Home[Dest(h)] = c
  BY <1>1, <1>2 DEF JobsOf
<1>4. trap[Dest(h)].op = op /\ mode[c] = "entry"
  BY DEF Enters
<1>5. trap[Dest(h)] \in Call \cup {Irq}
  BY <1>3 DEF WInv, TrapInv, Job
<1>6. op \in Calls
  BY <1>4, <1>5 DEF Call, Irq
<1> QED
  BY <1>3, <1>4, <1>6 DEF WInv, TrapInv

\* A step that changes nothing but threads and the scheduling of its CPU, and
\* that may send IPIs.
LEMMA ThreadStepKeeps ==
  ASSUME WInv, NEW c \in Cpu, Leave(c, head), ThreadInv',
         UNCHANGED <<trap, workVars, bootVars, suspends>>,
         IpiInv', pending \subseteq pending'
  PROVE  JobInv' /\ ThreadInv' /\ TrapInv' /\ IpiInv' /\ WorkInv' /\ UNCHANGED <<instanceInitialized, suspends>>
<1> DEFINE heads == head
<1>1. heads \in [Cpu -> Job \cup {None}] /\ \A d \in Cpu : heads[d] \in JobsOf(d) \cup {None}
  BY DEF WInv, JobInv
<1>2. JobInv /\ Leave(c, heads)
  BY DEF WInv
<1> HIDE DEF heads
<1>3. JobInv'
  BY <1>1, <1>2, LeaveKeeps
<1>4. WorkInv'
  BY WorkKept DEF WInv
<1>5. TrapInv' /\ UNCHANGED <<instanceInitialized, suspends>>
  BY DEF WInv, TrapInv, bootVars
<1> QED
  BY <1>3, <1>4, <1>5

\* Restarting threads, and ending the calls of those that help one in D
LEMMA RestartsKeep ==
  ASSUME ThreadInv, NEW T
  PROVE  Restart(T) \in [Thread -> {"ACTIVE", "AWAITS_RESTART", "AWAITS_IPC", "GONE"}]
BY DEF ThreadInv, Restart

LEMMA NoHelpKeeps ==
  ASSUME ThreadInv, NEW D
  PROVE  /\ NoHelp(D) \in [Thread -> UserThread \cup {None}]
         /\ \A t \in Thread : NoHelp(D)[t] # None => Home[NoHelp(D)[t]] = Home[t]
BY DEF ThreadInv, NoHelp

\* Steps that send no IPI
LEMMA QuietStepsKeep ==
  ASSUME WInv, NEW c \in Cpu, NEW h \in Heads(c),
         \/ OtherInterrupt(c, h) \/ StopThread(c, h) \/ SendRequest(c, h) \/ SendReply(c, h)
  PROVE  JobInv' /\ ThreadInv' /\ TrapInv' /\ IpiInv' /\ WorkInv' /\ UNCHANGED <<instanceInitialized, suspends>>
<1>1. /\ Leave(c, head) /\ UNCHANGED <<pending, line, isr>>
      /\ UNCHANGED <<trap, workVars, bootVars, suspends>>
  BY DEF OtherInterrupt, StopThread, SendRequest, SendReply, ipiVars
<1>2. IpiInv' /\ pending \subseteq pending'
  BY <1>1 DEF WInv, IpiInv
<1>3. ThreadInv'
  <2>1. CASE OtherInterrupt(c, h)
    BY <2>1 DEF OtherInterrupt, WInv, ThreadInv
  <2>2. CASE StopThread(c, h)
    BY <2>2 DEF StopThread, WInv, ThreadInv
  <2>3. CASE SendRequest(c, h)
    <3> DEFINE t == Dest(h) u == trap[t].arg
    <3>1. "call" # "irq" /\ Enters(c, h, "call")
      BY <2>3 DEF SendRequest
    <3>2. t \in Thread /\ u \in UserThread /\ Home[u] = Home[t]
      BY <3>1, HandledCall DEF Permitted
    <3>3. \/ UNCHANGED <<state, helps>>
          \/ state' = [state EXCEPT ![t] = "AWAITS_IPC"] /\ helps' = [helps EXCEPT ![t] = u]
      BY <2>3 DEF SendRequest
    <3> HIDE DEF t, u
    <3> QED
      BY <3>2, <3>3 DEF WInv, ThreadInv
  <2>4. CASE SendReply(c, h)
    <3> DEFINE T == {t \in Thread : helps[t] = Dest(h)} D == {Dest(h)}
    <3>1. state' = Restart(T) /\ helps' = NoHelp(D)
      BY <2>4 DEF SendReply
    <3> HIDE DEF T, D
    <3> QED
      BY <3>1, RestartsKeep, NoHelpKeeps DEF WInv, ThreadInv
  <2> QED
    BY <2>1, <2>2, <2>3, <2>4
<1> QED
  BY <1>1, <1>2, <1>3, ThreadStepKeeps

LEMMA RestartThreadKeeps ==
  ASSUME WInv, NEW c \in Cpu, NEW h \in Heads(c), RestartThread(c, h)
  PROVE  JobInv' /\ ThreadInv' /\ TrapInv' /\ IpiInv' /\ WorkInv' /\ UNCHANGED <<instanceInitialized, suspends>>
<1> DEFINE u == trap[Dest(h)].arg
           T == IF state[u] = "AWAITS_RESTART" THEN {u} ELSE {}
<1>1. /\ Leave(c, head) /\ UNCHANGED <<trap, workVars, bootVars, suspends>>
      /\ state' = Restart(T) /\ helps' = helps
      /\ \E C \in Schedules(c, T) : Trigger(C, {})
  BY DEF RestartThread
<1>2. "wake" # "irq" /\ Enters(c, h, "wake")
  BY DEF RestartThread
<1>3. T \subseteq Thread
  BY <1>2, HandledCall DEF Permitted, Thread
<1> HIDE DEF T
<1>4. PICK C \in Schedules(c, T) : Trigger(C, {})
  BY <1>1
<1>5. C \in SUBSET Cpu
  BY <1>3, InterProcessorAssumption DEF Schedules, MaySchedule
<1>6. IpiInv' /\ pending \subseteq pending'
  BY <1>4, <1>5, TriggerKeeps DEF WInv
<1>7. ThreadInv'
  BY <1>1, RestartsKeep DEF WInv, ThreadInv
<1> QED
  BY <1>1, <1>6, <1>7, ThreadStepKeeps

LEMMA InvalidateTlbKeeps ==
  ASSUME WInv, NEW c \in Cpu, NEW h \in Heads(c), InvalidateTlb(c, h)
  PROVE  JobInv' /\ ThreadInv' /\ TrapInv' /\ IpiInv' /\ WorkInv' /\ UNCHANGED <<instanceInitialized, suspends>>
<1> DEFINE t == Dest(h) heads == head others == Cpu \ {c}
<1>1. /\ Leave(c, heads) /\ Trigger(others, {})
      /\ state' = (IF NrOfCpus > 1 THEN [state EXCEPT ![t] = "AWAITS_RESTART"] ELSE state)
      /\ tlb' = [tlb EXCEPT ![t] = NrOfCpus - 1]
      /\ stale' = [Flushed(c) EXCEPT ![t] = others]
      /\ UNCHANGED <<trap, helps, destroy, left, instanceInitialized, suspends>>
  BY DEF InvalidateTlb, bootVars
<1>2. "tlb" # "irq" /\ Enters(c, h, "tlb")
  BY DEF InvalidateTlb
<1>3. t \in CoreThread
  BY <1>2, HandledCall DEF Permitted
<1>4. /\ heads \in [Cpu -> Job \cup {None}]
      /\ \A d \in Cpu : heads[d] \in JobsOf(d) \cup {None}
  BY DEF WInv, JobInv
<1>5. NrOfCpus - 1 \in 0 .. NrOfCpus - 1
  BY Counts
<1> HIDE DEF t, heads, others
<1>6. ThreadInv'
  BY <1>1, <1>3 DEF WInv, ThreadInv
<1>7. JobInv'
  BY <1>1, <1>4, <1>6, LeaveKeeps DEF WInv
<1>8. IpiInv' /\ pending' = pending \cup others
  <2>1. others \in SUBSET Cpu
    BY DEF others
  <2> QED
    BY <1>1, <2>1, TriggerKeeps DEF WInv
<1>9. TrapInv'
  BY <1>1 DEF WInv, TrapInv
<1>10. /\ tlb' \in [CoreThread -> 0 .. NrOfCpus - 1]
       /\ stale' \in [CoreThread -> SUBSET Cpu]
       /\ \A u \in CoreThread : c \notin stale'[u]
  BY <1>1, <1>3, <1>5 DEF WInv, WorkInv, Flushed, others
<1>11. WorkAnnounced'
  <2>1. \A d \in Cpu : Destroyers(d)' = Destroyers(d)
    BY <1>1 DEF Destroyers
  <2>2. \A d \in Cpu : Destroyers(d) # {} => d \in pending'
    BY <1>8 DEF WInv, WorkInv, WorkAnnounced, IpiInv
  <2>3. \A d \in Cpu, u \in CoreThread : d \in stale'[u] => d \in pending'
    BY <1>8, <1>10 DEF others
  <2>4. Invalidations' \subseteq CoreThread
    BY DEF Invalidations
  <2> QED
    BY <1>8, <2>1, <2>2, <2>3, <2>4 DEF WorkAnnounced, IpiInv
<1> QED
  BY <1>1, <1>6, <1>7, <1>8, <1>9, <1>10, <1>11 DEF WInv, WorkInv

LEMMA DestructKeeps ==
  ASSUME ThreadInv, NEW D, NEW st \in [Thread -> {"ACTIVE", "AWAITS_RESTART", "AWAITS_IPC", "GONE"}]
  PROVE  Destruct(D, st) \in [Thread -> {"ACTIVE", "AWAITS_RESTART", "AWAITS_IPC", "GONE"}]
BY DEF Destruct

LEMMA DeleteThreadKeeps ==
  ASSUME WInv, NEW c \in Cpu, NEW h \in Heads(c), DeleteThread(c, h)
  PROVE  JobInv' /\ ThreadInv' /\ TrapInv' /\ IpiInv' /\ WorkInv' /\ UNCHANGED <<instanceInitialized, suspends>>
<1> DEFINE t == Dest(h) u == trap[t].arg
<1>1. "delete" # "irq" /\ Enters(c, h, "delete")
  BY DEF DeleteThread
<1>2. t \in CoreThread /\ u \in UserThread
  BY <1>1, HandledCall DEF Permitted
<1>3. u \in Thread /\ Home[u] \in Cpu
  BY <1>2, InterProcessorAssumption DEF Thread
<1>4. TrapInv' /\ UNCHANGED <<tlb, left, stale, instanceInitialized, suspends>>
  BY DEF DeleteThread, WInv, TrapInv, bootVars
<1>5. PICK d \in Heads(Home[u]) :
        IF DeletesNow(c, u, d)
        THEN /\ state' = Destruct({u}, state)
             /\ helps' = NoHelp({u})
             /\ LET heads == [head EXCEPT ![Home[u]] = IF d = u THEN None ELSE d]
                    woken == {x \in Thread : helps[x] = u}
                IN \E C \in Schedules(c, woken) : Trigger(C, {}) /\ Leave(c, heads)
             /\ UNCHANGED destroy
        ELSE /\ state' = [state EXCEPT ![t] = "AWAITS_RESTART"]
             /\ destroy' = [destroy EXCEPT ![t] = u]
             /\ Trigger({Home[u]}, {})
             /\ UNCHANGED helps
             /\ Leave(c, [head EXCEPT ![Home[u]] = d])
  BY DEF DeleteThread
<1> DEFINE b == Home[u]
<1>6. b \in Cpu /\ d \in JobsOf(b) /\ JobsOf(b) \subseteq Job
  <2>1. \A x \in Cpu : \A y \in Heads(x) : y \in JobsOf(x)
    BY HandledJob DEF WInv
  <2> QED
    BY <1>3, <1>5, <2>1 DEF JobsOf, Job
<1>7. \A x \in {None, d} :
        /\ [head EXCEPT ![b] = x] \in [Cpu -> Job \cup {None}]
        /\ \A e \in Cpu : [head EXCEPT ![b] = x][e] \in JobsOf(e) \cup {None}
  <2> HIDE DEF b
  <2> QED
    BY <1>6 DEF WInv, JobInv
<1>8. CASE DeletesNow(c, u, d)
  <2> DEFINE D == {u}
             heads == [head EXCEPT ![b] = IF d = u THEN None ELSE d]
             woken == {x \in Thread : helps[x] = u}
  <2>1. /\ state' = Destruct(D, state) /\ helps' = NoHelp(D) /\ destroy' = destroy
        /\ Leave(c, heads)
    BY <1>5, <1>8
  <2>2. PICK C \in Schedules(c, woken) : Trigger(C, {})
    BY <1>5, <1>8
  <2>3. heads \in [Cpu -> Job \cup {None}] /\ \A e \in Cpu : heads[e] \in JobsOf(e) \cup {None}
    BY <1>7
  <2> HIDE DEF heads, D, b, u
  <2>4. ThreadInv'
    BY <2>1, DestructKeeps, NoHelpKeeps DEF WInv, ThreadInv
  <2>5. JobInv'
    BY <2>1, <2>3, <2>4, LeaveKeeps DEF WInv
  <2>6. C \in SUBSET Cpu
    BY InterProcessorAssumption DEF Schedules, MaySchedule
  <2>7. IpiInv' /\ pending \subseteq pending'
    BY <2>2, <2>6, TriggerKeeps DEF WInv
  <2>8. WorkInv'
    BY <1>4, <2>1, <2>7, WorkKept DEF WInv, workVars
  <2> QED
    BY <1>4, <2>4, <2>5, <2>7, <2>8
<1>9. CASE ~DeletesNow(c, u, d)
  <2> DEFINE heads == [head EXCEPT ![b] = d]
  <2>1. /\ state' = [state EXCEPT ![t] = "AWAITS_RESTART"] /\ helps' = helps
        /\ destroy' = [destroy EXCEPT ![t] = u]
        /\ Trigger({b}, {}) /\ Leave(c, heads)
    BY <1>5, <1>9
  <2>2. heads \in [Cpu -> Job \cup {None}] /\ \A e \in Cpu : heads[e] \in JobsOf(e) \cup {None}
    BY <1>7
  <2> HIDE DEF heads, t, u, b
  <2>3. ThreadInv'
    BY <1>2, <2>1 DEF WInv, ThreadInv
  <2>4. JobInv'
    BY <2>1, <2>2, <2>3, LeaveKeeps DEF WInv
  <2>5. IpiInv' /\ pending' = pending \cup {b}
    <3> DEFINE B == {b}
    <3>1. B \in SUBSET Cpu /\ Trigger(B, {})
      BY <1>6, <2>1
    <3> HIDE DEF B
    <3>2. IpiInv' /\ pending' = pending \cup B
      BY <3>1, TriggerKeeps DEF WInv
    <3> QED
      BY <3>2 DEF B
  <2>6. destroy' \in [CoreThread -> UserThread \cup {None}]
    BY <1>2, <2>1 DEF WInv, WorkInv
  <2>7. \A e \in Cpu : Destroyers(e)' # {} => Destroyers(e) # {} \/ e = b
    BY <1>2, <2>1 DEF WInv, WorkInv, Destroyers, b
  <2>8. Invalidations' = Invalidations
    BY <1>4 DEF Invalidations
  <2>9. WorkAnnounced'
    BY <1>4, <2>5, <2>7, <2>8 DEF WInv, WorkInv, WorkAnnounced, IpiInv
  <2> QED
    BY <1>4, <2>3, <2>4, <2>5, <2>6, <2>9 DEF WInv, WorkInv
<1> QED
  BY <1>8, <1>9

LEMMA IpiOccurredKeeps ==
  ASSUME WInv, NEW c \in Cpu, NEW h \in Heads(c), IpiOccurred(c, h)
  PROVE  JobInv' /\ ThreadInv' /\ TrapInv' /\ IpiInv' /\ WorkInv' /\ UNCHANGED <<instanceInitialized, suspends>>
<1> DEFINE done == Destroyers(c) \cup LastInvalidations
           victims == {destroy[t] : t \in Destroyers(c)}
           heads == head
           st == Restart(done)
<1>1. /\ c \in isr
      /\ state' = Destruct(victims, st) /\ helps' = NoHelp(victims)
      /\ destroy' = [t \in CoreThread |-> IF t \in Destroyers(c) THEN None ELSE destroy[t]]
      /\ tlb' = Invalidated
      /\ stale' = (IF Invalidations = {} THEN stale ELSE Flushed(c))
      /\ Leave(c, heads) /\ left' = None
      /\ UNCHANGED <<trap, instanceInitialized, suspends>>
  BY DEF IpiOccurred, bootVars, WInv, WorkInv
<1>2. PICK C \in Schedules(c, done) : Trigger(C, {c})
  BY DEF IpiOccurred
<1>3. done \subseteq Thread
  BY DEF Destroyers, LastInvalidations, Thread
<1>4. /\ heads \in [Cpu -> Job \cup {None}]
      /\ \A d \in Cpu : heads[d] \in JobsOf(d) \cup {None}
  BY DEF WInv, JobInv
<1>5. st \in [Thread -> {"ACTIVE", "AWAITS_RESTART", "AWAITS_IPC", "GONE"}]
  BY RestartsKeep DEF WInv
<1> HIDE DEF done, victims, heads, st
<1>6. ThreadInv'
  BY <1>1, <1>5, DestructKeeps, NoHelpKeeps DEF WInv, ThreadInv
<1>7. JobInv'
  BY <1>1, <1>4, <1>6, LeaveKeeps DEF WInv
<1>8. C \in SUBSET Cpu /\ c \notin C
  BY <1>3, InterProcessorAssumption DEF Schedules, MaySchedule
<1>9. IpiInv' /\ pending' = (pending \cup C) \ {c}
  <2> DEFINE E == {c}
  <2>1. E \in SUBSET isr /\ C \cap E = {} /\ Trigger(C, E)
    BY <1>1, <1>2, <1>8
  <2> HIDE DEF E
  <2>2. IpiInv' /\ pending' = (pending \cup C) \ E
    BY <1>8, <2>1, TriggerKeeps DEF WInv
  <2> QED
    BY <2>2 DEF E
<1>10. TrapInv'
  BY <1>1 DEF WInv, TrapInv
<1>11. NrOfCpus \in Nat
  BY Counts
<1>12. /\ tlb' \in [CoreThread -> 0 .. NrOfCpus - 1]
       /\ \A t \in CoreThread : tlb'[t] > 0 => tlb[t] > 0
  BY <1>1, <1>11 DEF WInv, WorkInv, Invalidated
<1>13. destroy' \in [CoreThread -> UserThread \cup {None}]
  BY <1>1 DEF WInv, WorkInv
<1>14. /\ stale' \in [CoreThread -> SUBSET Cpu]
       /\ \A t \in CoreThread : stale'[t] \subseteq stale[t]
       /\ Invalidations # {} => \A t \in CoreThread : c \notin stale'[t]
  BY <1>1 DEF WInv, WorkInv, Flushed
<1>15. WorkAnnounced'
  <2>1. \A d \in Cpu : Destroyers(d)' \subseteq Destroyers(d) /\ Destroyers(c)' = {}
    BY <1>1 DEF Destroyers
  <2>2. Invalidations' \subseteq Invalidations /\ Invalidations' \subseteq CoreThread
    BY <1>12 DEF Invalidations
  <2>3. \A d \in Cpu : d # c /\ d \in pending => d \in pending'
    BY <1>9
  <2>4. \A d \in Cpu : Destroyers(d)' # {} => d \in pending'
    BY <2>1, <2>3 DEF WInv, WorkInv, WorkAnnounced, IpiInv
  <2>5. \A d \in Cpu : \A t \in Invalidations' : d \in stale'[t] => d \in pending'
    BY <1>14, <2>2, <2>3 DEF WInv, WorkInv, WorkAnnounced, IpiInv
  <2> QED
    BY <1>9, <2>4, <2>5 DEF WorkAnnounced, IpiInv
<1> QED
  BY <1>1, <1>6, <1>7, <1>9, <1>10, <1>12, <1>13, <1>14, <1>15 DEF WorkInv

\* Boot; there is no resume without a suspend.
LEMMA StartupKeeps ==
  ASSUME WInv, NEW c \in Cpu, Startup(c) \/ PowerCycle(c)
  PROVE  /\ JobInv' /\ ThreadInv' /\ TrapInv' /\ IpiInv' /\ WorkInv'
         /\ instanceInitialized' \in BOOLEAN
         /\ UNCHANGED <<head, ran, state, helps, trap, destroy, suspends, orphaned>>
<1>1. mode[c] \in {"boot", "counted", "run", "entry"}
  BY DEF WInv, JobInv
<1>2. InitializeCpu(c) \/ BootBarrier(c)
  BY <1>1 DEF Startup, ReinitCpu, ResumeBarrier, PowerCycle
<1>3. /\ UNCHANGED <<head, ran, state, helps, trap, pending, line, isr, suspends, orphaned>>
      /\ UNCHANGED workVars /\ UNCHANGED destroy
      /\ instanceInitialized' \in BOOLEAN
      /\ mode' = [mode EXCEPT ![c] = "counted"] \/ mode' = [mode EXCEPT ![c] = "entry"]
  BY <1>2 DEF InitializeCpu, BootBarrier, ipiVars, workVars, WInv
<1>4. JobInv' /\ ThreadInv' /\ TrapInv' /\ IpiInv'
  BY <1>3 DEF WInv, JobInv, ThreadInv, TrapInv, IpiInv
<1>5. WorkInv'
  BY <1>3, <1>4, WorkKept DEF WInv
<1> QED
  BY <1>3, <1>4, <1>5

LEMMA WorkNext ==
  ASSUME "suspend" \notin Calls
  PROVE  WInv /\ [Next]_vars => WInv'
<1> SUFFICES ASSUME WInv, [Next]_vars PROVE WInv'
  OBVIOUS
<1>1. SInv'
  BY SuspendNext DEF WInv
<1>2. CASE UNCHANGED vars
  <2>1. UNCHANGED <<mode, head, ran, state, helps, trap, pending, line, isr, instanceInitialized, suspends>>
        /\ UNCHANGED workVars
    BY <1>2 DEF vars, ipiVars, bootVars
  <2>2. JobInv' /\ ThreadInv' /\ TrapInv' /\ IpiInv'
    BY <2>1 DEF WInv, JobInv, ThreadInv, TrapInv, IpiInv
  <2>3. WorkInv'
    BY <2>1, <2>2, WorkKept DEF WInv
  <2> QED
    BY <1>1, <2>1, <2>2, <2>3 DEF WInv
<1>3. ASSUME NEW c \in Cpu, NEW h \in Heads(c),
             StopCpus(c, h) \/ EndSuspend(c, h) \/ FailSuspend(c, h)
      PROVE  FALSE
  <2>1. "suspend" # "irq" /\ Enters(c, h, "suspend")
    BY <1>3 DEF StopCpus, EndSuspend, FailSuspend
  <2> QED
    BY <2>1, HandledCall
<1> QED
  BY <1>1, <1>2, <1>3, SystemCallKeeps, InterruptKeeps, QuietStepsKeep, RestartThreadKeeps,
     InvalidateTlbKeeps, DeleteThreadKeeps, IpiOccurredKeeps, StartupKeeps DEF Next, Handle, WInv

LEMMA WorkInit == Init => WInv
<1> SUFFICES ASSUME Init PROVE WInv
  OBVIOUS
<1>1. SInv
  BY SuspendInit
<1>2. \A c \in Cpu : c \in JobsOf(c) /\ c \in Job
  BY DEF JobsOf, Job
<1>3. JobInv
  BY <1>2 DEF Init, JobInv
<1>4. ThreadInv
  BY DEF Init, ThreadInv
<1>5. TrapInv
  <2>1. \A t \in Thread : Permitted(t, Irq.op, Irq.arg)
    BY DEF Permitted, Irq
  <2> QED
    BY <2>1 DEF Init, TrapInv, Job
<1>6. IpiInv
  BY DEF Init, IpiInv
<1>7. WorkInv
  <2>1. 0 \in 0 .. NrOfCpus - 1
    BY Counts
  <2>2. \A c \in Cpu : Destroyers(c) = {}
    BY DEF Init, Destroyers
  <2>3. Invalidations = {}
    BY DEF Init, Invalidations
  <2> QED
    BY <2>1, <2>2, <2>3 DEF Init, WorkInv, WorkAnnounced
<1>8. instanceInitialized \in BOOLEAN
  BY DEF Init
<1>9. suspends \in 0 .. MaxSuspends
  <2>1. suspends = 0 /\ MaxSuspends \in Nat
    BY InterProcessorAssumption DEF Init
  <2> QED
    BY <2>1
<1> QED
  BY <1>1, <1>3, <1>4, <1>5, <1>6, <1>7, <1>8, <1>9 DEF WInv

\* As long as nobody suspends the system, the invariant of the work for other
\* CPUs holds in every state.
THEOREM WorkInvariance == ASSUME "suspend" \notin Calls PROVE Spec => []WInv
BY WorkInit, WorkNext, PTL DEF Spec

\* What the boot information says, and whose head was removed
RestInv == fadt \in BOOLEAN /\ orphaned \subseteq Cpu

LEMMA RestInit == Init => RestInv
BY InterProcessorAssumption DEF Init, RestInv

LEMMA RestNext == RestInv /\ [Next]_vars => RestInv'
<1> SUFFICES ASSUME RestInv, [Next]_vars PROVE RestInv'
  OBVIOUS
<1>1. CASE UNCHANGED vars
  BY <1>1 DEF vars, bootVars, RestInv
<1>2. ASSUME NEW c \in Cpu, Startup(c) \/ PowerCycle(c) \/ Interrupt(c) PROVE RestInv'
  BY <1>2 DEF Startup, InitializeCpu, BootBarrier, ReinitCpu, ResumeBarrier, PowerCycle, Interrupt,
              bootVars, RestInv
<1>3. ASSUME NEW c \in Cpu, NEW call \in Call, SystemCall(c, call) PROVE RestInv'
  BY <1>3 DEF SystemCall, bootVars, RestInv
<1>4. ASSUME NEW c \in Cpu, NEW heads, Leave(c, heads) PROVE orphaned' \subseteq Cpu
  BY <1>4 DEF Leave
<1>5. ASSUME NEW c \in Cpu, NEW h \in Heads(c),
             \/ OtherInterrupt(c, h) \/ InvalidateTlb(c, h) \/ EndSuspend(c, h) \/ FailSuspend(c, h)
             \/ RestartThread(c, h) \/ StopThread(c, h) \/ SendRequest(c, h) \/ SendReply(c, h)
      PROVE  RestInv'
  <2>1. Leave(c, head) /\ fadt' = fadt
    BY <1>5 DEF OtherInterrupt, InvalidateTlb, EndSuspend, FailSuspend, RestartThread, StopThread,
                SendRequest, SendReply, bootVars
  <2> QED
    BY <1>4, <2>1 DEF RestInv
<1>6. ASSUME NEW c \in Cpu, NEW h \in Heads(c), DeleteThread(c, h) PROVE RestInv'
  <2>1. fadt' = fadt /\ \E heads : Leave(c, heads)
    BY <1>6 DEF DeleteThread, bootVars
  <2> QED
    BY <1>4, <2>1 DEF RestInv
<1>7. ASSUME NEW c \in Cpu, NEW h \in Heads(c), IpiOccurred(c, h) PROVE RestInv'
  <2>1. fadt' = fadt /\ (Leave(c, head) \/ UNCHANGED orphaned)
    BY <1>7 DEF IpiOccurred, bootVars
  <2> QED
    BY <1>4, <2>1 DEF RestInv
<1>8. ASSUME NEW c \in Cpu, NEW h \in Heads(c), StopCpus(c, h) PROVE RestInv'
  BY <1>8 DEF StopCpus, bootVars, RestInv
<1> QED
  BY <1>1, <1>2, <1>3, <1>5, <1>6, <1>7, <1>8 DEF Next, Handle

\* Every variable keeps its type; in particular each CPU schedules and executes
\* only its own jobs, and no counter leaves its range.
THEOREM TypeCorrect == ASSUME "suspend" \notin Calls PROVE Spec => []TypeOK
<1>1. WInv /\ RestInv => TypeOK
  <2> SUFFICES ASSUME WInv, RestInv PROVE TypeOK
    OBVIOUS
  <2>1. nrOfInitializedCpus \in 0 .. NrOfCpus
    <3>1. NrOfCpus \in Nat
      BY Counts
    <3>2. \A c \in Cpu : mode[c] # "resume"
      BY DEF WInv, JobInv
    <3>3. CASE \E c \in Cpu : mode[c] = "boot"
      <4>1. nrOfInitializedCpus = Cardinality(In("counted"))
        BY <3>3 DEF WInv, SInv, BarrierInv
      <4> DEFINE S == In("counted")
      <4>2. S \in SUBSET Cpu
        BY DEF In
      <4> HIDE DEF S
      <4>3. Cardinality(S) \in Nat /\ Cardinality(S) <= NrOfCpus
        BY <4>2, Counts
      <4> QED
        BY <3>1, <4>1, <4>3 DEF S
    <3>4. CASE \A c \in Cpu : mode[c] # "boot"
      BY <3>1, <3>2, <3>4 DEF WInv, SInv, BarrierInv
    <3> QED
      BY <3>3, <3>4
  <2>2. line \subseteq Cpu /\ isr \subseteq Cpu
    BY DEF WInv, IpiInv
  <2> QED
    BY <2>1, <2>2 DEF WInv, SInv, ModeTypeOK, JobInv, ThreadInv, TrapInv, IpiInv, WorkInv, RestInv, TypeOK
<1>2. Spec => []RestInv
  BY RestInit, RestNext, PTL DEF Spec
<1> QED
  BY <1>1, <1>2, WorkInvariance, PTL

\* Work for another CPU is always announced by an IPI that is on its way or being
\* handled, though IPIs are not sent to a CPU that has one pending
\* (cpu_mp.cc, thread.cc).
THEOREM WorkIsAnnounced == ASSUME "suspend" \notin Calls PROVE Spec => []WorkAnnounced
<1>1. WInv => WorkAnnounced
  BY DEF WInv, WorkInv
<1> QED
  BY <1>1, WorkInvariance, PTL

-----------------------------------------------------------------------------
(* The job that a CPU executes *)

\* A CPU that leaves the kernel executes what its new head stands for, and the
\* others go on with theirs if the step has not touched their head and its
\* threads, or else has removed it.
Untouched(d, heads) ==
  /\ heads[d] = head[d]
  /\ head[d] \in Thread => helps'[head[d]] = helps[head[d]]
  /\ ran[d] \in Thread => state'[ran[d]] # "GONE"

LEMMA HeadsLeave ==
  ASSUME WInv, HeadsInv, NEW c \in Cpu, NEW heads \in [Cpu -> Job \cup {None}],
         Leave(c, heads),
         \A d \in Cpu \ orphaned : d = c \/ heads[d] = None \/ Untouched(d, heads)
  PROVE  HeadsInv'
<1>1. PICK h \in Candidates(c)' :
        /\ head' = [heads EXCEPT ![c] = h]
        /\ ran' = [ran EXCEPT ![c] = Dest(h)']
        /\ orphaned' = {d \in Cpu \ {c} : d \in orphaned \/ heads[d] = None}
  BY DEF Leave
<1>2. Thread \cap Cpu = {} /\ None \notin Thread /\ None \notin Cpu /\ None \notin UserThread
  BY InterProcessorAssumption DEF Job, Thread
<1>3. HeadRuns(c)'
  <2> DEFINE r == Dest(h)'
  <2>1. head'[c] = h /\ ran'[c] = r
    BY <1>1 DEF WInv, JobInv
  <2>2. Dest(head[c])' = r
    BY <2>1 DEF Dest
  <2>3. CASE h = c
    <3>1. r = c
      BY <1>2, <2>3 DEF Dest
    <3> QED
      BY <1>2, <2>1, <2>2, <2>3, <3>1 DEF HeadRuns
  <2>4. CASE h # c
    <3>1. h \in Thread /\ state'[r] = "ACTIVE"
      BY <2>4 DEF Candidates, Ready
    <3> QED
      BY <1>2, <2>1, <2>2, <3>1 DEF HeadRuns
  <2> QED
    BY <2>3, <2>4
<1>4. ASSUME NEW d \in Cpu \ orphaned', d # c PROVE HeadRuns(d)'
  <2>1. d \notin orphaned /\ heads[d] # None
    BY <1>1, <1>4
  <2>2. HeadRuns(d) /\ Untouched(d, heads)
    BY <1>4, <2>1 DEF HeadsInv
  <2>3. head'[d] = head[d] /\ ran'[d] = ran[d]
    BY <1>1, <1>4, <2>2 DEF WInv, JobInv, Untouched
  <2>4. Dest(head[d])' = Dest(head[d])
    BY <2>2, <2>3 DEF Dest, Untouched
  <2> QED
    BY <2>2, <2>3, <2>4 DEF HeadRuns, Untouched
<1> QED
  BY <1>3, <1>4 DEF HeadsInv

\* The same for a CPU that takes its head from its own scheduler and does nothing
\* to threads of other CPUs.
LEMMA HeadsLeaveOwn ==
  ASSUME WInv, HeadsInv, NEW c \in Cpu, Leave(c, head),
         \A t \in Thread : Home[t] # c => helps'[t] = helps[t],
         \A t \in Thread : Home[t] # c /\ state[t] # "GONE" => state'[t] # "GONE"
  PROVE  HeadsInv'
<1> DEFINE heads == head
<1>1. heads \in [Cpu -> Job \cup {None}] /\ Leave(c, heads) /\ heads = head
  BY DEF WInv, JobInv
<1>2. Thread \cap Cpu = {}
  BY InterProcessorAssumption
<1> HIDE DEF heads
<1>3. ASSUME NEW d \in Cpu \ orphaned, d # c PROVE Untouched(d, heads)
  <2>1. HeadRuns(d)
    BY <1>3 DEF HeadsInv
  <2>2. head[d] \in JobsOf(d) /\ ran[d] \in JobsOf(d)
    BY <2>1 DEF WInv, JobInv, HeadRuns
  <2> QED
    BY <1>1, <1>2, <1>3, <2>1, <2>2 DEF HeadRuns, JobsOf, Untouched
<1> QED
  BY <1>1, <1>3, HeadsLeave

\* Steps that schedule nothing
LEMMA HeadsKept ==
  ASSUME HeadsInv, UNCHANGED <<head, ran, state, helps, orphaned>>
  PROVE  HeadsInv'
BY DEF HeadsInv, HeadRuns, Dest

\* Steps that destruct no thread
LEMMA HeadsQuiet ==
  ASSUME WInv, HeadsInv, NEW c \in Cpu, NEW h \in Heads(c),
         \/ OtherInterrupt(c, h) \/ StopThread(c, h) \/ RestartThread(c, h) \/ InvalidateTlb(c, h)
  PROVE  HeadsInv'
<1>1. Leave(c, head) /\ UNCHANGED helps
  BY DEF OtherInterrupt, StopThread, RestartThread, InvalidateTlb
<1>2. \A t \in Thread : state'[t] = "GONE" => state[t] = "GONE"
  BY DEF OtherInterrupt, StopThread, RestartThread, InvalidateTlb, Restart, WInv, ThreadInv
<1> QED
  BY <1>1, <1>2, HeadsLeaveOwn

LEMMA HeadsIpc ==
  ASSUME WInv, HeadsInv, NEW c \in Cpu, NEW h \in Heads(c), SendRequest(c, h) \/ SendReply(c, h)
  PROVE  HeadsInv'
<1>1. Leave(c, head)
  BY DEF SendRequest, SendReply
<1>2. Dest(h) \in JobsOf(c) /\ Thread \cap Cpu = {}
  BY HandledJob, InterProcessorAssumption DEF WInv
<1>3. \A t \in Thread : Home[t] # c => helps'[t] = helps[t] /\ state'[t] = state[t]
  <2>1. CASE SendRequest(c, h)
    <3>1. Dest(h) \in Thread => Home[Dest(h)] = c
      BY <1>2 DEF JobsOf
    <3> QED
      BY <2>1, <3>1 DEF SendRequest, WInv, ThreadInv
  <2>2. CASE SendReply(c, h)
    <3>1. Dest(h) \in Thread => Home[Dest(h)] = c
      BY <1>2 DEF JobsOf
    <3>2. \A t \in Thread : helps[t] = Dest(h) => Home[t] = c
      <4>1. Dest(h) # None
        BY <1>2, InterProcessorAssumption DEF Job, JobsOf
      <4>2. \A t \in Thread : helps[t] # None => helps[t] \in Thread /\ Home[helps[t]] = Home[t]
        BY DEF WInv, ThreadInv, Thread
      <4> QED
        BY <3>1, <4>1, <4>2
    <3> QED
      BY <2>2, <3>1, <3>2 DEF SendReply, Restart, NoHelp
  <2> QED
    BY <2>1, <2>2
<1> QED
  BY <1>1, <1>3, HeadsLeaveOwn

\* CPU c destructs threads of its own only.
LEMMA HeadsIpi ==
  ASSUME WInv, HeadsInv, NEW c \in Cpu, NEW h \in Heads(c), IpiOccurred(c, h)
  PROVE  HeadsInv'
<1> DEFINE done == Destroyers(c) \cup LastInvalidations
           victims == {destroy[t] : t \in Destroyers(c)}
<1>1. /\ state' = Destruct(victims, Restart(done)) /\ helps' = NoHelp(victims)
      /\ Leave(c, head)
  BY DEF IpiOccurred, WInv, WorkInv
<1>2. \A v \in victims : v # None /\ Home[v] = c
  BY DEF Destroyers
<1> HIDE DEF done, victims
<1>3. \A t \in Thread : Home[t] # c => t \notin victims /\ helps[t] \notin victims
  BY <1>2 DEF WInv, ThreadInv
<1>4. \A t \in Thread : Home[t] # c => helps'[t] = helps[t]
  BY <1>1, <1>3 DEF NoHelp
<1>5. \A t \in Thread : Home[t] # c /\ state[t] # "GONE" => state'[t] # "GONE"
  BY <1>1, <1>3 DEF Destruct, Restart
<1> QED
  BY <1>1, <1>4, <1>5, HeadsLeaveOwn

\* A thread that another CPU executes is not deleted at once. Its client may be,
\* if it is the head.
LEMMA HeadsDelete ==
  ASSUME WInv, HeadsInv, NEW c \in Cpu, NEW h \in Heads(c), DeleteThread(c, h)
  PROVE  HeadsInv'
<1> DEFINE t == Dest(h) u == trap[t].arg b == Home[u]
<1>1. "delete" # "irq" /\ Enters(c, h, "delete")
  BY DEF DeleteThread
<1>2. t \in CoreThread /\ u \in UserThread
  BY <1>1, HandledCall DEF Permitted
<1>3. u \in Thread /\ b \in Cpu /\ None \notin Cpu /\ Thread \cap Cpu = {} /\ None \notin Thread
  BY <1>2, InterProcessorAssumption DEF Thread, Job
<1>4. PICK d \in Heads(b) :
        IF DeletesNow(c, u, d)
        THEN /\ state' = Destruct({u}, state)
             /\ helps' = NoHelp({u})
             /\ LET heads == [head EXCEPT ![b] = IF d = u THEN None ELSE d]
                    woken == {x \in Thread : helps[x] = u}
                IN \E C \in Schedules(c, woken) : Trigger(C, {}) /\ Leave(c, heads)
             /\ UNCHANGED destroy
        ELSE /\ state' = [state EXCEPT ![t] = "AWAITS_RESTART"]
             /\ destroy' = [destroy EXCEPT ![t] = u]
             /\ Trigger({b}, {})
             /\ UNCHANGED helps
             /\ Leave(c, [head EXCEPT ![b] = d])
  BY DEF DeleteThread
<1>5. d \in JobsOf(b) /\ d \in Job /\ head \in [Cpu -> Job \cup {None}]
  <2>1. \A x \in Cpu : \A y \in Heads(x) : y \in JobsOf(x)
    BY HandledJob DEF WInv
  <2> QED
    BY <1>3, <1>4, <2>1 DEF JobsOf, Job, WInv, JobInv
<1>6. b \notin orphaned => d = head[b] /\ HeadRuns(b)
  BY <1>3, <1>4 DEF HeadsInv, HeadRuns, Heads
<1>7. \A e \in Cpu \ orphaned :
        /\ HeadRuns(e) /\ head[e] \in JobsOf(e) /\ ran[e] \in JobsOf(e)
        /\ head[e] \in Thread => Home[head[e]] = e
        /\ ran[e] \in Thread => Home[ran[e]] = e
        /\ head[e] \in Thread /\ helps[head[e]] # None => Home[helps[head[e]]] = e
  <2>1. \A e \in Cpu \ orphaned : HeadRuns(e) /\ head[e] \in JobsOf(e) /\ ran[e] \in JobsOf(e)
    BY DEF HeadsInv, HeadRuns, WInv, JobInv
  <2> QED
    BY <1>3, <2>1 DEF JobsOf, WInv, ThreadInv
<1>8. CASE DeletesNow(c, u, d)
  <2> DEFINE heads == [head EXCEPT ![b] = IF d = u THEN None ELSE d]
  <2>1. /\ state' = Destruct({u}, state) /\ helps' = NoHelp({u}) /\ Leave(c, heads)
    BY <1>4, <1>8
  <2>2. b = c \/ Dest(d) # u
    BY <1>8 DEF DeletesNow
  <2>3. /\ heads \in [Cpu -> Job \cup {None}]
        /\ \A e \in Cpu : heads[e] = IF e = b THEN (IF d = u THEN None ELSE d) ELSE head[e]
    <3> HIDE DEF b, u
    <3> QED
      BY <1>5
  <2>4. /\ \A x \in Thread : x # u /\ helps[x] # u => helps'[x] = helps[x]
        /\ \A x \in Thread : x # u /\ state[x] # "GONE" => state'[x] # "GONE"
    BY <2>1 DEF NoHelp, Destruct
  <2> HIDE DEF heads, u, b
  <2>5. ASSUME NEW e \in Cpu \ orphaned, e # c, heads[e] # None PROVE Untouched(e, heads)
    <3>1. heads[e] = head[e] /\ (e = b => d = head[e] /\ d # u /\ Dest(d) # u)
      BY <1>6, <2>2, <2>3, <2>5
    <3>2. head[e] \in Thread => head[e] # u /\ helps[head[e]] # u
      <4>1. CASE e = b
        BY <1>3, <3>1, <4>1 DEF Dest
      <4>2. CASE e # b
        BY <1>3, <1>7, <4>2 DEF b
      <4> QED
        BY <4>1, <4>2
    <3>3. ran[e] \in Thread => ran[e] # u /\ state[ran[e]] # "GONE"
      <4>1. HeadRuns(e)
        BY <1>7
      <4>2. CASE e = b
        BY <3>1, <4>1, <4>2 DEF HeadRuns
      <4>3. CASE e # b
        BY <1>3, <1>7, <4>1, <4>3 DEF HeadRuns, b
      <4> QED
        BY <4>2, <4>3
    <3> QED
      BY <2>4, <3>1, <3>2, <3>3 DEF Untouched
  <2> QED
    BY <2>1, <2>3, <2>5, HeadsLeave
<1>9. CASE ~DeletesNow(c, u, d)
  <2> DEFINE heads == [head EXCEPT ![b] = d]
  <2>1. /\ state' = [state EXCEPT ![t] = "AWAITS_RESTART"] /\ helps' = helps
        /\ Leave(c, heads)
    BY <1>4, <1>9
  <2>2. /\ heads \in [Cpu -> Job \cup {None}]
        /\ \A e \in Cpu \ orphaned : heads[e] = head[e]
    <3> HIDE DEF b
    <3> QED
      BY <1>5, <1>6
  <2>3. \A x \in Thread : state[x] # "GONE" => state'[x] # "GONE"
    <3> HIDE DEF t
    <3> QED
      BY <2>1 DEF WInv, ThreadInv
  <2> HIDE DEF heads
  <2>4. \A e \in Cpu \ orphaned : Untouched(e, heads)
    BY <1>7, <2>1, <2>2, <2>3 DEF HeadRuns, Untouched
  <2> QED
    BY <2>1, <2>2, <2>4, HeadsLeave
<1> QED
  BY <1>8, <1>9

\* Each CPU executes the job that its scheduler's head stands for, unless another
\* CPU has removed that head.
THEOREM HeadsInvariance ==
  ASSUME "suspend" \notin Calls
  PROVE  Spec => [](WInv /\ HeadsInv)
<1>1. Init => HeadsInv
  <2> SUFFICES ASSUME Init PROVE HeadsInv
    OBVIOUS
  <2>1. Thread \cap Cpu = {} /\ None \notin Cpu
    BY InterProcessorAssumption DEF Job
  <2>2. \A c \in Cpu : HeadRuns(c)
    BY <2>1 DEF Init, HeadRuns, Dest
  <2> QED
    BY <2>2 DEF HeadsInv
<1>2. WInv /\ HeadsInv /\ [Next]_vars => HeadsInv'
  <2> SUFFICES ASSUME WInv, HeadsInv, [Next]_vars PROVE HeadsInv'
    OBVIOUS
  <2>1. CASE UNCHANGED vars
    BY <2>1, HeadsKept DEF vars
  <2>2. ASSUME NEW c \in Cpu, NEW call \in Call, SystemCall(c, call) PROVE HeadsInv'
    BY <2>2, HeadsKept DEF SystemCall
  <2>3. ASSUME NEW c \in Cpu, Interrupt(c) PROVE HeadsInv'
    BY <2>3, HeadsKept DEF Interrupt
  <2>4. ASSUME NEW c \in Cpu, Startup(c) \/ PowerCycle(c) PROVE HeadsInv'
    BY <2>4, StartupKeeps, HeadsKept
  <2>5. ASSUME NEW c \in Cpu, NEW h \in Heads(c),
               StopCpus(c, h) \/ EndSuspend(c, h) \/ FailSuspend(c, h)
        PROVE  FALSE
    <3>1. "suspend" # "irq" /\ Enters(c, h, "suspend")
      BY <2>5 DEF StopCpus, EndSuspend, FailSuspend
    <3> QED
      BY <3>1, HandledCall
  <2> QED
    BY <2>1, <2>2, <2>3, <2>4, <2>5, HeadsQuiet, HeadsIpc, HeadsIpi, HeadsDelete DEF Next, Handle
<1> QED
  BY <1>1, <1>2, WorkInit, WorkNext, PTL DEF Spec

\* Threads call, help and delete each other on any CPU. No CPU executes a thread,
\* or is about to handle its exception, that another CPU has destructed, unless its
\* head, a client of the thread, was deleted since: the deletion of a scheduled
\* thread is left to its own CPU (thread.cc, _call_delete_thread).
THEOREM RunningThreadsExist ==
  ASSUME "suspend" \notin Calls
  PROVE  Spec => []RunningExists
<1>1. WInv /\ HeadsInv => RunningExists
  BY DEF HeadsInv, HeadRuns, RunningExists, Executes
<1> QED
  BY <1>1, HeadsInvariance, PTL

\* A CPU that enters the kernel handles the exception of the job it executed, be it
\* its head or the thread that this helps, and not of another one that became the
\* head meanwhile, unless the head was deleted (cpu.cc, Cpu::schedule).
THEOREM OwnExceptionHandled ==
  ASSUME "suspend" \notin Calls
  PROVE  Spec => []HandlesOwnException
<1>1. WInv /\ HeadsInv => HandlesOwnException
  BY DEF HeadsInv, HeadRuns, HandlesOwnException, Heads
<1> QED
  BY <1>1, HeadsInvariance, PTL

=============================================================================

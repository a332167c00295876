------------------------- MODULE ForkJoinPoolProofs -------------------------
(***************************************************************************)
(* Proofs about ForkJoinPool, for every number of callers and threads and  *)
(* every modulus of generation_.                                           *)
(***************************************************************************)
EXTENDS ForkJoinPool, ChunkPartitionProofs, FiniteSetTheorems

-----------------------------------------------------------------------------
(* Helper facts.                                                           *)

LEMMA UnreportedFacts ==
  ASSUME TypeOK
  PROVE  /\ IsFiniteSet(Unreported) /\ Unreported \subseteq 1 .. spawned
         /\ Cardinality(Unreported) \in 0 .. spawned
         /\ Cardinality(Unreported) = 0 <=> Unreported = {}
<1>1. spawned \in Nat
  BY PoolAssumption DEF TypeOK
<1>2. IsFiniteSet(1 .. spawned) /\ Cardinality(1 .. spawned) = spawned
  BY <1>1, FS_Interval
<1>3. Unreported \subseteq 1 .. spawned
  BY DEF Unreported
<1>4. /\ IsFiniteSet(Unreported)
      /\ Cardinality(Unreported) <= Cardinality(1 .. spawned)
  BY <1>2, <1>3, FS_Subset
<1>5. Cardinality(Unreported) \in Nat
  BY <1>4, FS_CardinalityType
<1>6. Cardinality(Unreported) = 0 <=> Unreported = {}
  BY <1>4, FS_EmptySet
<1> QED BY <1>1, <1>2, <1>3, <1>4, <1>5, <1>6

LEMMA RegionPartsFacts ==
  ASSUME TypeOK, NEW c \in Callers, req[c].count \in Counts
  PROVE  /\ req[c].count \in Nat \ {0}
         /\ RegionParts(c) \in 1 .. total /\ RegionParts(c) \in Nat \ {0}
         /\ RegionParts(c) <= req[c].count
<1>1. req[c] \in [count : Counts \cup {0}, min : Int, threads : 1 .. MaxThreads]
  BY DEF TypeOK
<1>2. req[c].min \in Int
  BY <1>1
<1>3. req[c].count \in Nat \ {0}
  BY PoolAssumption
<1>4. total \in Nat \ {0}
  BY PoolAssumption DEF TypeOK
<1>5. /\ RegionParts(c) \in 1 .. total
      /\ RegionParts(c) <= req[c].count
  BY <1>2, <1>3, <1>4, PartsBounds DEF RegionParts
<1> QED BY <1>3, <1>4, <1>5

\* A chunk is a set of naturals.
LEMMA ChunkNat ==
  ASSUME NEW count \in Nat, NEW parts \in Nat \ {0}, NEW i \in 0 .. (parts - 1)
  PROVE  Chunk(count, parts, i) \subseteq Nat
BY ChunksCover

LEMMA ClampedCall ==
  ASSUME PoolAssumption
  PROVE  \A n \in ThreadArgs : [count |-> 0, min |-> 1, threads |-> ClampThreads(n)]
           \in [count : Counts \cup {0}, min : Int, threads : 1 .. MaxThreads]
<1>1. \A n \in ThreadArgs : ClampThreads(n) \in 1 .. MaxThreads
  BY DEF PoolAssumption, ClampThreads
<1> QED BY <1>1

\* The generation that follows differs from the present one.
LEMMA NextGenerationFacts ==
  ASSUME TypeOK
  PROVE  NextGeneration \in 0 .. (GenModulus - 1) /\ NextGeneration # generation
<1>1. generation \in Nat /\ generation < GenModulus /\ GenModulus \in Nat
      /\ GenModulus >= 2
  BY PoolAssumption DEF TypeOK
<1>2. NextGeneration = IF generation + 1 = GenModulus THEN 0 ELSE generation + 1
  BY <1>1 DEF NextGeneration
<1> QED BY <1>1, <1>2

\* A step that leaves the workers alone leaves the debts alone.
LEMMA UnreportedFrame ==
  ASSUME UNCHANGED <<wpc, seen, spawned, generation>>
  PROVE  Unreported' = Unreported
BY DEF Unreported

\* The recorded items of a region whose finished parts and request stay.
LEMMA DoneFrame ==
  ASSUME IDone,
         \A d \in Callers :
           /\ (control' = d /\ pc'[d] \in JobPcs) <=> (control = d /\ pc[d] \in JobPcs)
           /\ pc'[d] = "soloDone" <=> pc[d] = "soloDone"
           /\ pc[d] \in JobPcs \cup {"soloDone"} =>
                /\ req'[d] = req[d] /\ total' = total
           /\ control = d /\ pc[d] \in JobPcs => FinishedParts(d)' = FinishedParts(d)
           /\ done'[d] = done[d]
  PROVE  IDone'
<1> SUFFICES ASSUME NEW d \in Callers
             PROVE  done'[d] = (IF control = d /\ pc[d] \in JobPcs
                                THEN ItemsOf(req[d].count, RegionParts(d), FinishedParts(d))
                                ELSE IF pc[d] = "soloDone" THEN 0 .. (req[d].count - 1) ELSE {})'
  BY DEF IDone
<1>1. done[d] = IF control = d /\ pc[d] \in JobPcs
                THEN ItemsOf(req[d].count, RegionParts(d), FinishedParts(d))
                ELSE IF pc[d] = "soloDone" THEN 0 .. (req[d].count - 1) ELSE {}
  BY DEF IDone
<1>2. CASE control = d /\ pc[d] \in JobPcs
  <2>1. RegionParts(d)' = RegionParts(d) /\ FinishedParts(d)' = FinishedParts(d)
        /\ req'[d] = req[d]
    BY <1>2 DEF RegionParts
  <2>2. control' = d /\ pc'[d] \in JobPcs
    BY <1>2
  <2> QED BY <1>1, <1>2, <2>1, <2>2 DEF JobPcs
<1>3. CASE ~(control = d /\ pc[d] \in JobPcs)
  BY <1>1, <1>3 DEF JobPcs
<1> QED BY <1>2, <1>3

-----------------------------------------------------------------------------
(* Steps of the callers.                                                     *)

\* A caller that steps outside its callbacks leaves every thread's flag right.
LEMMA CallerBodies ==
  ASSUME IBodies, NEW c \in Callers, tls' = tls, nest' = nest, wpc' = wpc,
         pc[c] \notin {"solo", "chunk0"}, pc'[c] \notin {"solo", "chunk0"},
         \A d \in Callers : d # c => pc'[d] = pc[d]
  PROVE  IBodies'
<1>1. \A t \in Threads : InBody(t)' <=> InBody(t)
  BY DEF InBody
<1> QED BY <1>1 DEF IBodies


LEMMA CallRunStep ==
  ASSUME IInv, NEW c \in Callers, CallRun(c)
  PROVE  IInv'
<1> USE PoolAssumption DEF TypeOK, CallerPcs, WaitPcs, RegionPcs, ResizePcs, WorkerPcs, Workers, Threads,
      callerVars, jobVars, workerVars, poolVars, bodyVars, CallRun
<1>0. TypeOK /\ IControl /\ IBodies /\ IThreads /\ IAlive /\ IStop /\ IWorkers
      /\ IJob /\ IReq /\ IDone
  BY DEF IInv
<1>u. Unreported' = Unreported
  BY UnreportedFrame
<1>v. \A d \in Callers : pc[d] \in JobPcs \cup {"soloDone"} => d # c
  BY <1>0 DEF JobPcs
<1>f. \A d \in Callers : control = d /\ pc[d] \in JobPcs =>
        FinishedParts(d)' = FinishedParts(d)
  BY <1>0, <1>u, <1>v DEF FinishedParts, PartFinished, RegionParts, JobPcs
<1>1. TypeOK'
  <2>1. PICK n \in Counts, m \in MinPerChunks :
          req' = [req EXCEPT ![c] = [count |-> n, min |-> m, threads |-> 1]]
    OBVIOUS
  <2>2. [count |-> n, min |-> m, threads |-> 1]
          \in [count : Counts \cup {0}, min : Int, threads : 1 .. MaxThreads]
    OBVIOUS
  <2>3. req' \in [Callers -> [count : Counts \cup {0}, min : Int,
                              threads : 1 .. MaxThreads]]
    BY <1>0, <2>1, <2>2
  <2> QED BY <1>0, <2>3 DEF Jobs
<1>2. IControl'
  BY <1>0 DEF IControl
<1>3. IBodies'
  BY <1>0 DEF IBodies, IControl, InBody
<1>4. IThreads'
  BY <1>0 DEF IThreads, IControl
<1>5. IAlive'
  BY <1>0 DEF IAlive, IControl, StopPcs
<1>6. IStop'
  BY <1>0 DEF IStop, IControl, Stopping, StopPcs
<1>7. IWorkers'
  BY <1>0, SMTT(60) DEF IWorkers, IControl, IStop, IJob, JobOut, JobPcs, Stopping, StopPcs, IThreads, HasChunk
<1>8. IReq'
  BY <1>0 DEF IReq, IControl
<1>9. IJob'
  BY <1>0, <1>u DEF IJob, IControl, JobOut, JobPcs, RegionParts
<1>10. IDone'
  BY <1>0, <1>v, <1>f, DoneFrame DEF IControl, JobPcs
<1> QED BY <1>1, <1>2, <1>3, <1>4, <1>5, <1>6, <1>7, <1>8, <1>9, <1>10 DEF IInv

LEMMA CallResizeStep ==
  ASSUME IInv, NEW c \in Callers, CallResize(c)
  PROVE  IInv'
<1> USE PoolAssumption DEF TypeOK, CallerPcs, WaitPcs, RegionPcs, ResizePcs, WorkerPcs, Workers, Threads,
      callerVars, jobVars, workerVars, poolVars, bodyVars, CallResize, ClampThreads
<1>0. TypeOK /\ IControl /\ IBodies /\ IThreads /\ IAlive /\ IStop /\ IWorkers
      /\ IJob /\ IReq /\ IDone
  BY DEF IInv
<1>u. Unreported' = Unreported
  BY UnreportedFrame
<1>v. \A d \in Callers : pc[d] \in JobPcs \cup {"soloDone"} => d # c
  BY <1>0 DEF JobPcs
<1>f. \A d \in Callers : control = d /\ pc[d] \in JobPcs =>
        FinishedParts(d)' = FinishedParts(d)
  BY <1>0, <1>u, <1>v DEF FinishedParts, PartFinished, RegionParts, JobPcs
<1>1. TypeOK'
  <2>1. pc' \in [Callers -> CallerPcs]
    BY <1>0
  <2>2. req' \in [Callers -> [count : Counts \cup {0}, min : Int, threads : 1 .. MaxThreads]]
    BY <1>0, ClampedCall
  <2> QED BY <1>0, <2>1, <2>2 DEF Jobs
<1>2. IControl'
  BY <1>0 DEF IControl
<1>3. IBodies'
  BY <1>0 DEF IBodies, IControl, InBody
<1>4. IThreads'
  BY <1>0 DEF IThreads, IControl
<1>5. IAlive'
  BY <1>0 DEF IAlive, IControl, StopPcs
<1>6. IStop'
  BY <1>0 DEF IStop, IControl, Stopping, StopPcs
<1>7. IWorkers'
  BY <1>0, SMTT(30) DEF IWorkers, IControl, IStop, IJob, JobOut, JobPcs, Stopping, StopPcs, IThreads, HasChunk
<1>8. IReq'
  BY <1>0 DEF IReq, IControl
<1>9. IJob'
  BY <1>0, <1>u DEF IJob, IControl, JobOut, JobPcs, RegionParts
<1>10. IDone'
  BY <1>0, <1>v, <1>f, DoneFrame DEF IControl, JobPcs
<1> QED BY <1>1, <1>2, <1>3, <1>4, <1>5, <1>6, <1>7, <1>8, <1>9, <1>10 DEF IInv

LEMMA DestroyStep ==
  ASSUME IInv, NEW c \in Callers, Destroy(c)
  PROVE  IInv'
<1> USE PoolAssumption DEF TypeOK, CallerPcs, WaitPcs, RegionPcs, ResizePcs, WorkerPcs, Workers, Threads,
      callerVars, jobVars, workerVars, poolVars, bodyVars, Destroy
<1>0. TypeOK /\ IControl /\ IBodies /\ IThreads /\ IAlive /\ IStop /\ IWorkers
      /\ IJob /\ IReq /\ IDone
  BY DEF IInv
<1>u. Unreported' = Unreported
  BY UnreportedFrame
<1>v. \A d \in Callers : pc[d] \in JobPcs \cup {"soloDone"} => d # c
  BY <1>0 DEF JobPcs
<1>f. \A d \in Callers : control = d /\ pc[d] \in JobPcs =>
        FinishedParts(d)' = FinishedParts(d)
  BY <1>0, <1>u, <1>v DEF FinishedParts, PartFinished, RegionParts, JobPcs
<1>1. TypeOK'
  BY <1>0 DEF Jobs
<1>2. IControl'
  BY <1>0 DEF IControl
<1>3. IBodies'
  BY <1>0 DEF IBodies, IControl, InBody
<1>4. IThreads'
  BY <1>0 DEF IThreads, IControl
<1>5. IAlive'
  BY <1>0 DEF IAlive, IControl, StopPcs
<1>6. IStop'
  BY <1>0 DEF IStop, IControl, Stopping, StopPcs
<1>7. IWorkers'
  BY <1>0 DEF IWorkers, IControl, IStop, IJob, JobOut, JobPcs, Stopping, StopPcs, IThreads, HasChunk
<1>8. IReq'
  BY <1>0 DEF IReq, IControl
<1>9. IJob'
  BY <1>0, <1>u DEF IJob, IControl, JobOut, JobPcs, RegionParts
<1>10. IDone'
  BY <1>0, <1>v, <1>f, DoneFrame DEF IControl, JobPcs
<1> QED BY <1>1, <1>2, <1>3, <1>4, <1>5, <1>6, <1>7, <1>8, <1>9, <1>10 DEF IInv

LEMMA AcquireRunStep ==
  ASSUME IInv, NEW c \in Callers, AcquireRun(c)
  PROVE  IInv'
<1> USE PoolAssumption DEF TypeOK, CallerPcs, WaitPcs, RegionPcs, ResizePcs, WorkerPcs, Workers, Threads,
      callerVars, jobVars, workerVars, poolVars, bodyVars, AcquireRun, EnterBody
<1>0. TypeOK /\ IControl /\ IBodies /\ IThreads /\ IAlive /\ IStop /\ IWorkers
      /\ IJob /\ IReq /\ IDone
  BY DEF IInv
<1>1. TypeOK'
  BY <1>0, ZenonT(60) DEF Jobs
<1>2. IControl'
  BY <1>0 DEF IControl
<1>3. IBodies'
  <2> SUFFICES ASSUME NEW t \in Threads
               PROVE  /\ tls'[t] <=> InBody(t)'
                      /\ nest'[t] # "no" => InBody(t)'
    BY DEF IBodies
  <2>1. /\ tls[t] <=> InBody(t)
        /\ nest[t] # "no" => InBody(t)
    BY <1>0 DEF IBodies
  <2>2. CASE t = c
    BY <1>0, <2>1, <2>2 DEF InBody
  <2>3. CASE t # c
    <3>1. tls'[t] = tls[t] /\ nest'[t] = nest[t]
      BY <1>0, <2>3
    <3>2. InBody(t)' <=> InBody(t)
      BY <1>0, <2>3 DEF InBody
    <3> QED BY <2>1, <3>1, <3>2
  <2> QED BY <2>2, <2>3
<1>4. IThreads'
  BY <1>0 DEF IThreads, IControl
<1>5. IAlive'
  BY <1>0, ZenonT(60) DEF IAlive, IControl, StopPcs
<1>6. IStop'
  BY <1>0 DEF IStop, IControl, Stopping, StopPcs
<1>7. IWorkers'
  BY <1>0 DEF IWorkers, IControl, IStop, IJob, JobOut, JobPcs, Stopping, StopPcs, IThreads, HasChunk
<1>8. IReq'
  BY <1>0 DEF IReq, IControl
<1>9. IJob'
  BY <1>0 DEF IJob, IControl, JobOut, JobPcs, RegionParts
<1>10. IDone'
  <2>1. \A d \in Callers : control # d
    OBVIOUS
  <2>2. pc[c] = "wantRun" /\ pc'[c] \in {"solo", "post"}
        /\ \A d \in Callers : d # c => pc'[d] = pc[d]
    BY <1>0
  <2>3. req' = req /\ total' = total /\ done' = done /\ control' = c
    OBVIOUS
  <2> HIDE DEF AcquireRun, TypeOK
  <2> QED BY <1>0, <2>1, <2>2, <2>3, DoneFrame DEF JobPcs
<1> QED BY <1>1, <1>2, <1>3, <1>4, <1>5, <1>6, <1>7, <1>8, <1>9, <1>10 DEF IInv

LEMMA SoloBodyDoneStep ==
  ASSUME IInv, NEW c \in Callers, SoloBodyDone(c)
  PROVE  IInv'
<1> USE PoolAssumption DEF TypeOK, CallerPcs, WaitPcs, RegionPcs, ResizePcs, WorkerPcs, Workers, Threads,
      callerVars, jobVars, workerVars, poolVars, bodyVars, SoloBodyDone, LeaveBody, BodyMayEnd
<1>0. TypeOK /\ IControl /\ IBodies /\ IThreads /\ IAlive /\ IStop /\ IWorkers
      /\ IJob /\ IReq /\ IDone
  BY DEF IInv
<1>1. TypeOK'
  <2>1. req[c].count \in Nat
    BY <1>0 DEF IReq
  <2>2. 0 .. (req[c].count - 1) \subseteq Nat
    BY <2>1
  <2>3. done' \in [Callers -> SUBSET Nat]
    BY <1>0, <2>2
  <2> QED BY <1>0, <2>3
<1>2. IControl'
  BY <1>0 DEF IControl
<1>3. IBodies'
  BY <1>0 DEF IBodies, IControl, InBody
<1>4. IThreads'
  BY <1>0 DEF IThreads, IControl
<1>5. IAlive'
  BY <1>0 DEF IAlive, IControl, StopPcs
<1>6. IStop'
  BY <1>0 DEF IStop, IControl, Stopping, StopPcs
<1>7. IWorkers'
  BY <1>0 DEF IWorkers, IControl, IStop, IJob, JobOut, JobPcs, Stopping, StopPcs, IThreads, HasChunk
<1>8. IReq'
  BY <1>0 DEF IReq, IControl
<1>9. IJob'
  BY <1>0 DEF IJob, IControl, JobOut, JobPcs, RegionParts
<1>10. IDone'
  <2>1. control = c /\ control' = c /\ pc'[c] = "soloDone" /\ pc[c] \notin JobPcs
    BY <1>0 DEF IControl, JobPcs
  <2>2. \A d \in Callers : d # c => pc'[d] = pc[d] /\ done'[d] = done[d] /\ req' = req
    BY <1>0
  <2>3. done[c] = {} /\ done'[c] = 0 .. (req[c].count - 1)
    BY <1>0, <2>1 DEF IDone, JobPcs
  <2>4. \A d \in Callers : d # c => ~(control = d) /\ ~(control' = d)
    BY <2>1
  <2>5. \A d \in Callers : d # c =>
          done[d] = IF pc[d] = "soloDone" THEN 0 .. (req[d].count - 1) ELSE {}
    BY <1>0, <2>4 DEF IDone
  <2>6. req' = req
    OBVIOUS
  <2> HIDE DEF SoloBodyDone, TypeOK
  <2> SUFFICES ASSUME NEW d \in Callers
               PROVE  done'[d] = (IF control = d /\ pc[d] \in JobPcs
                                  THEN ItemsOf(req[d].count, RegionParts(d), FinishedParts(d))
                                  ELSE IF pc[d] = "soloDone" THEN 0 .. (req[d].count - 1)
                                  ELSE {})'
    BY DEF IDone
  <2>7. CASE d = c
    BY <2>1, <2>3, <2>6, <2>7 DEF JobPcs
  <2>8. CASE d # c
    BY <2>2, <2>4, <2>5, <2>6, <2>8
  <2> QED BY <2>7, <2>8
<1> QED BY <1>1, <1>2, <1>3, <1>4, <1>5, <1>6, <1>7, <1>8, <1>9, <1>10 DEF IInv

LEMMA SoloReturnStep ==
  ASSUME IInv, NEW c \in Callers, SoloReturn(c)
  PROVE  IInv'
<1> USE PoolAssumption DEF TypeOK, CallerPcs, WaitPcs, RegionPcs, ResizePcs, WorkerPcs, Workers, Threads,
      callerVars, jobVars, workerVars, poolVars, bodyVars, SoloReturn, EndRegion
<1>0. TypeOK /\ IControl /\ IBodies /\ IThreads /\ IAlive /\ IStop /\ IWorkers
      /\ IJob /\ IReq /\ IDone
  BY DEF IInv
<1>1. TypeOK'
  BY <1>0 DEF Jobs
<1>2. IControl'
  BY <1>0 DEF IControl
<1>3. IBodies'
  BY <1>0 DEF IBodies, IControl, InBody
<1>4. IThreads'
  BY <1>0 DEF IThreads, IControl
<1>5. IAlive'
  BY <1>0 DEF IAlive, IControl, StopPcs
<1>6. IStop'
  BY <1>0 DEF IStop, IControl, Stopping, StopPcs
<1>7. IWorkers'
  BY <1>0 DEF IWorkers, IControl, IStop, IJob, JobOut, JobPcs, Stopping, StopPcs, IThreads, HasChunk
<1>8. IReq'
  BY <1>0 DEF IReq, IControl
<1>9. IJob'
  BY <1>0 DEF IJob, IControl, JobOut, JobPcs, RegionParts
<1>10. IDone'
  BY <1>0 DEF IDone, IControl, JobPcs, RegionParts
<1> QED BY <1>1, <1>2, <1>3, <1>4, <1>5, <1>6, <1>7, <1>8, <1>9, <1>10 DEF IInv

LEMMA PostStep ==
  ASSUME IInv, NEW c \in Callers, Post(c)
  PROVE  IInv'
<1> USE PoolAssumption DEF TypeOK, CallerPcs, WaitPcs, RegionPcs, ResizePcs, WorkerPcs, Workers, Threads,
      callerVars, jobVars, workerVars, poolVars, bodyVars, Post, NextGeneration
<1>0. TypeOK /\ IControl /\ IBodies /\ IThreads /\ IAlive /\ IStop /\ IWorkers
      /\ IJob /\ IReq /\ IDone
  BY DEF IInv
<1>r. /\ req[c].count \in Nat \ {0} /\ RegionParts(c) \in 1 .. total
      /\ RegionParts(c) <= req[c].count /\ RegionParts(c) \in Nat \ {0}
      /\ req[c].count \in Counts
  <2>1. req[c].count \in Counts
    BY <1>0 DEF IReq
  <2> QED BY <1>0, <2>1, RegionPartsFacts
<1>v. /\ control = c /\ ~JobOut /\ ~Stopping /\ JobOut'
      /\ spawned \in Nat /\ spawned <= total - 1
      /\ \A d \in Callers : d # c => pc[d] \notin JobPcs \cup {"soloDone"}
  BY <1>0 DEF IControl, JobOut, JobPcs, Stopping, StopPcs, IThreads, IAlive
<1>g. generation' \in 0 .. (GenModulus - 1) /\ generation' # generation
  <2> HIDE DEF NextGeneration
  <2> QED BY <1>0, NextGenerationFacts
<1> HIDE DEF NextGeneration
<1>u. Unreported' = 1 .. spawned
  <2>1. \A w \in 1 .. spawned :
          wpc[w] \in {"loop", "asleep"} /\ seen[w] = generation
    BY <1>0, <1>v DEF IWorkers, IThreads, IStop
  <2> QED BY <2>1, <1>g DEF Unreported
<1>1. TypeOK'
  <2>1. job' \in Jobs
    BY <1>0, <1>r DEF Jobs
  <2>2. pending' \in 0 .. (MaxThreads - 1)
    BY <1>0
  <2> QED BY <1>0, <1>g, <2>1, <2>2
<1>2. IControl'
  BY <1>0 DEF IControl
<1>3. IBodies'
  BY <1>0 DEF IBodies, IControl, InBody
<1>4. IThreads'
  BY <1>0 DEF IThreads, IControl
<1>5. IAlive'
  BY <1>0 DEF IAlive, IControl, StopPcs
<1>6. IStop'
  BY <1>0 DEF IStop, IControl, Stopping, StopPcs
<1>7. IWorkers'
  BY <1>0, SMTT(30) DEF IWorkers, IControl, IStop, IJob, JobOut, JobPcs, Stopping, StopPcs, IThreads, HasChunk
<1>8. IReq'
  BY <1>0 DEF IReq, IControl
<1>9. IJob'
  <2>1. RegionParts(c)' = RegionParts(c)
    BY DEF RegionParts
  <2>2. Cardinality(1 .. spawned) = spawned
    BY <1>0, FS_Interval
  <2>3. pending' = Cardinality(Unreported)' + (total - 1 - spawned)'
    BY <1>0, <1>u, <1>v, <2>2
  <2> QED BY <1>v, <2>1, <2>3 DEF IJob
<1>10. IDone'
  <2>1. FinishedParts(c)' = {}
    <3>1. RegionParts(c)' = RegionParts(c)
      BY DEF RegionParts
    <3>2. ASSUME NEW i \in 0 .. (RegionParts(c) - 1), i # 0
          PROVE  i <= spawned => i \in 1 .. spawned /\ wpc[i] # "report"
      <4> SUFFICES ASSUME i <= spawned PROVE i \in 1 .. spawned /\ wpc[i] # "report"
        OBVIOUS
      <4>1. i \in 1 .. spawned
        BY <1>0, <1>r, <1>v, <3>2
      <4> QED BY <1>0, <1>v, <4>1 DEF IWorkers
    <3>3. pc'[c] = "notify"
      BY <1>0
    <3> QED BY <1>u, <3>1, <3>2, <3>3 DEF FinishedParts, PartFinished
  <2>2. ItemsOf(req[c].count, RegionParts(c), FinishedParts(c))' = {}
    BY <2>1 DEF ItemsOf
  <2>3. \A d \in Callers : done[d] = {}
    BY <1>0, <1>v DEF IDone, JobPcs
  <2>4. \A d \in Callers : d # c => pc'[d] \notin JobPcs \cup {"soloDone"}
    BY <1>0, <1>v
  <2>5. control' = c /\ pc'[c] = "notify"
    BY <1>0, <1>v
  <2> QED BY <2>2, <2>3, <2>4, <2>5 DEF IDone, JobPcs
<1> QED BY <1>1, <1>2, <1>3, <1>4, <1>5, <1>6, <1>7, <1>8, <1>9, <1>10 DEF IInv

LEMMA NotifyStartStep ==
  ASSUME IInv, NEW c \in Callers, NotifyStart(c)
  PROVE  IInv'
<1> USE PoolAssumption DEF TypeOK, CallerPcs, WaitPcs, RegionPcs, ResizePcs, WorkerPcs, Workers, Threads,
      callerVars, jobVars, workerVars, poolVars, bodyVars, NotifyStart, EnterBody, WakeAll
<1>0. TypeOK /\ IControl /\ IBodies /\ IThreads /\ IAlive /\ IStop /\ IWorkers
      /\ IJob /\ IReq /\ IDone
  BY DEF IInv
<1>u. Unreported' = Unreported
  BY <1>0, SMTT(30) DEF Unreported, IThreads
<1>f. \A d \in Callers : control = d /\ pc[d] \in JobPcs =>
        FinishedParts(d)' = FinishedParts(d)
  <2> SUFFICES ASSUME NEW d \in Callers, control = d, pc[d] \in JobPcs
               PROVE  FinishedParts(d)' = FinishedParts(d)
    OBVIOUS
  <2>1. RegionParts(d)' = RegionParts(d) /\ d = c
    BY <1>0 DEF RegionParts, IControl
  <2>2. \A i \in Workers : wpc'[i] = "report" <=> wpc[i] = "report"
    BY <1>0
  <2>3. \A i \in 0 .. (RegionParts(d) - 1) : i = 0 \/ i \in Workers
    BY <1>0, <2>1, RegionPartsFacts, SMTT(30) DEF IReq
  <2>4. pc[d] = "notify" /\ pc'[d] = "chunk0"
    BY <1>0, <2>1
  <2>5. \A i \in 0 .. (RegionParts(d) - 1) : PartFinished(d, i)' <=> PartFinished(d, i)
    BY <1>u, <2>2, <2>3, <2>4 DEF PartFinished
  <2> QED BY <2>1, <2>5 DEF FinishedParts
<1>1. TypeOK'
  BY <1>0 DEF Jobs
<1>2. IControl'
  BY <1>0 DEF IControl
<1>3. IBodies'
  BY <1>0 DEF IBodies, IControl, InBody
<1>4. IThreads'
  BY <1>0 DEF IThreads, IControl
<1>5. IAlive'
  BY <1>0 DEF IAlive, IControl, StopPcs
<1>6. IStop'
  BY <1>0 DEF IStop, IControl, Stopping, StopPcs
<1>7. IWorkers'
  BY <1>0 DEF IWorkers, IControl, IStop, IJob, JobOut, JobPcs, Stopping, StopPcs, IThreads, HasChunk
<1>8. IReq'
  BY <1>0 DEF IReq, IControl
<1>9. IJob'
  BY <1>0, <1>u DEF IJob, IControl, JobOut, JobPcs, RegionParts
<1>10. IDone'
  BY <1>0, <1>f, DoneFrame DEF IControl, JobPcs
<1> QED BY <1>1, <1>2, <1>3, <1>4, <1>5, <1>6, <1>7, <1>8, <1>9, <1>10 DEF IInv

LEMMA Chunk0DoneStep ==
  ASSUME IInv, NEW c \in Callers, Chunk0Done(c)
  PROVE  IInv'
<1> USE PoolAssumption DEF TypeOK, CallerPcs, WaitPcs, RegionPcs, ResizePcs, WorkerPcs, Workers, Threads,
      callerVars, jobVars, workerVars, poolVars, bodyVars, Chunk0Done, LeaveBody, BodyMayEnd
<1>0. TypeOK /\ IControl /\ IBodies /\ IThreads /\ IAlive /\ IStop /\ IWorkers
      /\ IJob /\ IReq /\ IDone
  BY DEF IInv
<1>r. /\ req[c].count \in Nat \ {0} /\ RegionParts(c) \in 1 .. total
      /\ RegionParts(c) <= req[c].count /\ RegionParts(c) \in Nat \ {0}
      /\ req[c].count \in Counts
  <2>1. req[c].count \in Counts
    BY <1>0 DEF IReq
  <2> QED BY <1>0, <2>1, RegionPartsFacts
<1>u. Unreported' = Unreported
  BY UnreportedFrame
<1>c. control = c
  BY <1>0 DEF IControl
<1>1. TypeOK'
  <2>1. 0 \in 0 .. (RegionParts(c) - 1)
    BY <1>r
  <2>2. Chunk(req[c].count, RegionParts(c), 0) \subseteq Nat
    BY <1>r, <2>1, ChunkNat
  <2>3. done' \in [Callers -> SUBSET Nat]
    BY <1>0, <2>2
  <2> QED BY <1>0, <2>3
<1>2. IControl'
  BY <1>0 DEF IControl
<1>3. IBodies'
  BY <1>0 DEF IBodies, IControl, InBody
<1>4. IThreads'
  BY <1>0 DEF IThreads, IControl
<1>5. IAlive'
  BY <1>0 DEF IAlive, IControl, StopPcs
<1>6. IStop'
  BY <1>0 DEF IStop, IControl, Stopping, StopPcs
<1>7. IWorkers'
  BY <1>0 DEF IWorkers, IControl, IStop, IJob, JobOut, JobPcs, Stopping, StopPcs, IThreads, HasChunk
<1>8. IReq'
  BY <1>0 DEF IReq, IControl
<1>9. IJob'
  BY <1>0, <1>u DEF IJob, IControl, JobOut, JobPcs, RegionParts
<1>10. IDone'
  <2>1. RegionParts(c)' = RegionParts(c) /\ req'[c] = req[c] /\ pc'[c] = "wait"
    BY <1>0 DEF RegionParts
  <2>2. FinishedParts(c)' = FinishedParts(c) \cup {0}
    BY <1>0, <1>r, <1>u, <2>1 DEF FinishedParts, PartFinished
  <2>3. done'[c] = done[c] \cup Chunk(req[c].count, RegionParts(c), 0)
    BY <1>0
  <2>4. done[c] = ItemsOf(req[c].count, RegionParts(c), FinishedParts(c))
    BY <1>0, <1>c DEF IDone, JobPcs
  <2>5. done'[c] = ItemsOf(req[c].count, RegionParts(c), FinishedParts(c))'
    BY <2>1, <2>2, <2>3, <2>4 DEF ItemsOf
  <2>6. \A d \in Callers : d # c =>
          /\ done'[d] = done[d] /\ pc[d] # "soloDone" /\ pc'[d] # "soloDone"
          /\ done[d] = {}
    BY <1>0, <1>c DEF IDone, IControl
  <2> QED BY <1>c, <2>1, <2>5, <2>6 DEF IDone, JobPcs
<1> QED BY <1>1, <1>2, <1>3, <1>4, <1>5, <1>6, <1>7, <1>8, <1>9, <1>10 DEF IInv

LEMMA WaitDoneStep ==
  ASSUME IInv, NEW c \in Callers, WaitDone(c)
  PROVE  IInv'
<1> USE PoolAssumption DEF TypeOK, CallerPcs, WaitPcs, RegionPcs, ResizePcs, WorkerPcs, Workers, Threads,
      callerVars, jobVars, workerVars, poolVars, bodyVars, WaitDone, EndRegion, AllReported
<1>0. TypeOK /\ IControl /\ IBodies /\ IThreads /\ IAlive /\ IStop /\ IWorkers
      /\ IJob /\ IReq /\ IDone
  BY DEF IInv
<1>u. Unreported' = Unreported
  BY UnreportedFrame
<1>c. control = c /\ JobOut
  BY <1>0 DEF IControl, JobOut, JobPcs
<1>e. pending = 0 => \A w \in 1 .. spawned :
        wpc[w] \in {"loop", "asleep"} /\ seen[w] = generation
  <2>1. pending = 0 => Unreported = {}
    <3>1. pending = Cardinality(Unreported) + (total - 1 - spawned)
      BY <1>0, <1>c DEF IJob
    <3>2. spawned \in Nat /\ total \in Nat /\ spawned <= total - 1
      BY <1>0 DEF IThreads
    <3>3. /\ Cardinality(Unreported) \in 0 .. spawned
          /\ Cardinality(Unreported) = 0 <=> Unreported = {}
      BY <1>0, UnreportedFacts
    <3> QED BY ONLY <3>1, <3>2, <3>3
  <2> QED BY <1>0, <1>c, <2>1, SMTT(30) DEF Unreported, IThreads, IWorkers, IStop, IControl,
                                  Stopping, StopPcs
<1>1. TypeOK'
  BY <1>0, ZenonT(60) DEF Jobs
<1>2. IControl'
  BY <1>0, SMTT(30) DEF IControl
<1>3. IBodies'
  <2>1. /\ pc[c] \notin {"solo", "chunk0"} /\ pc'[c] \notin {"solo", "chunk0"}
        /\ \A d \in Callers : d # c => pc'[d] = pc[d]
    BY <1>0
  <2> QED BY <1>0, <2>1, CallerBodies
<1>4. IThreads'
  BY <1>0, ZenonT(60) DEF IThreads, IControl
<1>5. IAlive'
  BY <1>0, ZenonT(60) DEF IAlive, IControl, StopPcs
<1>6. IStop'
  BY <1>0, SMTT(30) DEF IStop, IControl, Stopping, StopPcs
<1>7. IWorkers'
  <2>1. CASE pending = 0
    BY <1>0, <1>e, <2>1 DEF IWorkers, HasChunk
  <2>2. CASE pending # 0
    BY <1>0, <1>c, <2>2, SMTT(30) DEF IWorkers, JobOut, JobPcs, Stopping, StopPcs, HasChunk
  <2> QED BY <2>1, <2>2
<1>8. IReq'
  BY <1>0, SMTT(30) DEF IReq, IControl
<1>9. IJob'
  <2>1. CASE pending = 0
    BY <1>0, <1>c, <2>1 DEF IJob, JobOut, Jobs
  <2>2. CASE pending # 0
    BY <1>0, <1>c, <1>u, <2>2 DEF IJob, JobOut, JobPcs, RegionParts
  <2> QED BY <2>1, <2>2
<1>10. IDone'
  <2>1. CASE pending = 0
    <3>1. control' = NoThread /\ pc' = [pc EXCEPT ![c] = "idle"]
          /\ done' = [done EXCEPT ![c] = {}]
      BY <2>1
    <3>2. \A d \in Callers : d # c => done[d] = {} /\ pc[d] # "soloDone"
      BY <1>0, <1>c DEF IDone, IControl
    <3>3. \A d \in Callers : done'[d] = {} /\ pc'[d] # "soloDone" /\ control' # d
      BY <1>0, <3>1, <3>2
    <3> QED BY <3>3 DEF IDone
  <2>2. CASE pending # 0
    <3>1. /\ pc[c] = "wait" /\ pc' = [pc EXCEPT ![c] = "asleep"]
          /\ UNCHANGED <<control, done, req, total, wpc>>
      BY <2>2
    <3>2. FinishedParts(c)' = FinishedParts(c)
      BY <1>0, <1>u, <3>1 DEF FinishedParts, PartFinished, RegionParts
    <3> QED BY <1>0, <1>c, <3>1, <3>2, DoneFrame DEF JobPcs
  <2> QED BY <2>1, <2>2
<1> QED BY <1>1, <1>2, <1>3, <1>4, <1>5, <1>6, <1>7, <1>8, <1>9, <1>10 DEF IInv

LEMMA CallerSpuriousStep ==
  ASSUME IInv, NEW c \in Callers, CallerSpurious(c)
  PROVE  IInv'
<1> USE PoolAssumption DEF TypeOK, CallerPcs, WaitPcs, RegionPcs, ResizePcs, WorkerPcs, Workers, Threads,
      callerVars, jobVars, workerVars, poolVars, bodyVars, CallerSpurious
<1>0. TypeOK /\ IControl /\ IBodies /\ IThreads /\ IAlive /\ IStop /\ IWorkers
      /\ IJob /\ IReq /\ IDone
  BY DEF IInv
<1>u. Unreported' = Unreported
  BY UnreportedFrame
<1>f. \A d \in Callers : control = d /\ pc[d] \in JobPcs =>
        FinishedParts(d)' = FinishedParts(d)
  BY <1>0, <1>u DEF FinishedParts, PartFinished, RegionParts, JobPcs
<1>1. TypeOK'
  BY <1>0 DEF Jobs
<1>2. IControl'
  BY <1>0 DEF IControl
<1>3. IBodies'
  BY <1>0 DEF IBodies, IControl, InBody
<1>4. IThreads'
  BY <1>0 DEF IThreads, IControl
<1>5. IAlive'
  BY <1>0 DEF IAlive, IControl, StopPcs
<1>6. IStop'
  BY <1>0 DEF IStop, IControl, Stopping, StopPcs
<1>7. IWorkers'
  BY <1>0 DEF IWorkers, IControl, IStop, IJob, JobOut, JobPcs, Stopping, StopPcs, IThreads, HasChunk
<1>8. IReq'
  BY <1>0 DEF IReq, IControl
<1>9. IJob'
  BY <1>0, <1>u DEF IJob, IControl, JobOut, JobPcs, RegionParts
<1>10. IDone'
  BY <1>0, <1>f, DoneFrame DEF IControl, JobPcs
<1> QED BY <1>1, <1>2, <1>3, <1>4, <1>5, <1>6, <1>7, <1>8, <1>9, <1>10 DEF IInv

LEMMA AcquireResizeStep ==
  ASSUME IInv, NEW c \in Callers, AcquireResize(c)
  PROVE  IInv'
<1> USE PoolAssumption DEF TypeOK, CallerPcs, WaitPcs, RegionPcs, ResizePcs, WorkerPcs, Workers, Threads,
      callerVars, jobVars, workerVars, poolVars, bodyVars, AcquireResize
<1>0. TypeOK /\ IControl /\ IBodies /\ IThreads /\ IAlive /\ IStop /\ IWorkers
      /\ IJob /\ IReq /\ IDone
  BY DEF IInv
<1>u. Unreported' = Unreported
  BY UnreportedFrame
<1>v. \A d \in Callers : pc[d] \in JobPcs \cup {"soloDone"} => d # c
  BY <1>0 DEF JobPcs
<1>f. \A d \in Callers : control = d /\ pc[d] \in JobPcs =>
        FinishedParts(d)' = FinishedParts(d)
  BY <1>0, <1>u, <1>v DEF FinishedParts, PartFinished, RegionParts, JobPcs
<1>1. TypeOK'
  BY <1>0, ZenonT(60) DEF Jobs
<1>2. IControl'
  BY <1>0 DEF IControl
<1>3. IBodies'
  <2>1. /\ pc[c] \notin {"solo", "chunk0"} /\ pc'[c] \notin {"solo", "chunk0"}
        /\ \A d \in Callers : d # c => pc'[d] = pc[d]
    BY <1>0
  <2> QED BY <1>0, <2>1, CallerBodies
<1>4. IThreads'
  BY <1>0 DEF IThreads, IControl
<1>5. IAlive'
  BY <1>0, ZenonT(60) DEF IAlive, IControl, StopPcs
<1>6. IStop'
  BY <1>0 DEF IStop, IControl, Stopping, StopPcs
<1>7. IWorkers'
  BY <1>0 DEF IWorkers, IControl, IStop, IJob, JobOut, JobPcs, Stopping, StopPcs, IThreads, HasChunk
<1>8. IReq'
  BY <1>0 DEF IReq, IControl
<1>9. IJob'
  BY <1>0, <1>u DEF IJob, IControl, JobOut, JobPcs, RegionParts
<1>10. IDone'
  BY <1>0, <1>v, <1>f, DoneFrame DEF IControl, JobPcs
<1> QED BY <1>1, <1>2, <1>3, <1>4, <1>5, <1>6, <1>7, <1>8, <1>9, <1>10 DEF IInv

LEMMA AcquireDestroyStep ==
  ASSUME IInv, NEW c \in Callers, AcquireDestroy(c)
  PROVE  IInv'
<1> USE PoolAssumption DEF TypeOK, CallerPcs, WaitPcs, RegionPcs, ResizePcs, WorkerPcs, Workers, Threads,
      callerVars, jobVars, workerVars, poolVars, bodyVars, AcquireDestroy
<1>0. TypeOK /\ IControl /\ IBodies /\ IThreads /\ IAlive /\ IStop /\ IWorkers
      /\ IJob /\ IReq /\ IDone
  BY DEF IInv
<1>u. Unreported' = Unreported
  BY UnreportedFrame
<1>v. \A d \in Callers : pc[d] \in JobPcs \cup {"soloDone"} => d # c
  BY <1>0 DEF JobPcs
<1>f. \A d \in Callers : control = d /\ pc[d] \in JobPcs =>
        FinishedParts(d)' = FinishedParts(d)
  BY <1>0, <1>u, <1>v DEF FinishedParts, PartFinished, RegionParts, JobPcs
<1>1. TypeOK'
  BY <1>0 DEF Jobs
<1>2. IControl'
  BY <1>0 DEF IControl
<1>3. IBodies'
  BY <1>0 DEF IBodies, IControl, InBody
<1>4. IThreads'
  BY <1>0 DEF IThreads, IControl
<1>5. IAlive'
  BY <1>0 DEF IAlive, IControl, StopPcs
<1>6. IStop'
  BY <1>0 DEF IStop, IControl, Stopping, StopPcs
<1>7. IWorkers'
  BY <1>0 DEF IWorkers, IControl, IStop, IJob, JobOut, JobPcs, Stopping, StopPcs, IThreads, HasChunk
<1>8. IReq'
  BY <1>0 DEF IReq, IControl
<1>9. IJob'
  BY <1>0, <1>u DEF IJob, IControl, JobOut, JobPcs, RegionParts
<1>10. IDone'
  BY <1>0, <1>v, <1>f, DoneFrame DEF IControl, JobPcs
<1> QED BY <1>1, <1>2, <1>3, <1>4, <1>5, <1>6, <1>7, <1>8, <1>9, <1>10 DEF IInv

LEMMA SetStopStep ==
  ASSUME IInv, NEW c \in Callers, SetStop(c)
  PROVE  IInv'
<1> USE PoolAssumption DEF TypeOK, CallerPcs, WaitPcs, RegionPcs, ResizePcs, WorkerPcs, Workers, Threads,
      callerVars, jobVars, workerVars, poolVars, bodyVars, SetStop, NextGeneration
<1>0. TypeOK /\ IControl /\ IBodies /\ IThreads /\ IAlive /\ IStop /\ IWorkers
      /\ IJob /\ IReq /\ IDone
  BY DEF IInv
<1>1. TypeOK'
  <2>1. generation' \in 0 .. (GenModulus - 1)
    <3> HIDE DEF NextGeneration
    <3> QED BY <1>0, NextGenerationFacts
  <2> HIDE DEF NextGeneration
  <2> QED BY <1>0, <2>1
<1>2. IControl'
  BY <1>0 DEF IControl
<1>3. IBodies'
  BY <1>0 DEF IBodies, IControl, InBody
<1>4. IThreads'
  BY <1>0 DEF IThreads, IControl
<1>5. IAlive'
  BY <1>0 DEF IAlive, IControl, StopPcs
<1>6. IStop'
  BY <1>0 DEF IStop, IControl, Stopping, StopPcs
<1>7. IWorkers'
  BY <1>0 DEF IWorkers, IControl, IStop, IJob, JobOut, JobPcs, Stopping, StopPcs, IThreads, HasChunk
<1>8. IReq'
  BY <1>0 DEF IReq, IControl
<1>9. IJob'
  BY <1>0 DEF IJob, IControl, JobOut, JobPcs, RegionParts
<1>10. IDone'
  BY <1>0 DEF IDone, IControl, JobPcs, RegionParts
<1> QED BY <1>1, <1>2, <1>3, <1>4, <1>5, <1>6, <1>7, <1>8, <1>9, <1>10 DEF IInv

LEMMA NotifyStopStep ==
  ASSUME IInv, NEW c \in Callers, NotifyStop(c)
  PROVE  IInv'
<1> USE PoolAssumption DEF TypeOK, CallerPcs, WaitPcs, RegionPcs, ResizePcs, WorkerPcs, Workers, Threads,
      callerVars, jobVars, workerVars, poolVars, bodyVars, NotifyStop, WakeAll
<1>0. TypeOK /\ IControl /\ IBodies /\ IThreads /\ IAlive /\ IStop /\ IWorkers
      /\ IJob /\ IReq /\ IDone
  BY DEF IInv
<1>1. TypeOK'
  BY <1>0 DEF Jobs
<1>2. IControl'
  BY <1>0 DEF IControl
<1>3. IBodies'
  BY <1>0 DEF IBodies, IControl, InBody
<1>4. IThreads'
  BY <1>0 DEF IThreads, IControl
<1>5. IAlive'
  BY <1>0 DEF IAlive, IControl, StopPcs
<1>6. IStop'
  BY <1>0 DEF IStop, IControl, Stopping, StopPcs
<1>7. IWorkers'
  BY <1>0, SMTT(30) DEF IWorkers, IControl, IStop, IJob, JobOut, JobPcs, Stopping, StopPcs, IThreads, HasChunk
<1>8. IReq'
  BY <1>0 DEF IReq, IControl
<1>9. IJob'
  BY <1>0 DEF IJob, IControl, JobOut, JobPcs, RegionParts
<1>10. IDone'
  BY <1>0 DEF IDone, IControl, JobPcs, RegionParts
<1> QED BY <1>1, <1>2, <1>3, <1>4, <1>5, <1>6, <1>7, <1>8, <1>9, <1>10 DEF IInv

LEMMA JoinStep ==
  ASSUME IInv, NEW c \in Callers, Join(c)
  PROVE  IInv'
<1> USE PoolAssumption DEF TypeOK, CallerPcs, WaitPcs, RegionPcs, ResizePcs, WorkerPcs, Workers, Threads,
      callerVars, jobVars, workerVars, poolVars, bodyVars, Join
<1>0. TypeOK /\ IControl /\ IBodies /\ IThreads /\ IAlive /\ IStop /\ IWorkers
      /\ IJob /\ IReq /\ IDone
  BY DEF IInv
<1>1. TypeOK'
  <2>1. pc' \in [Callers -> CallerPcs] /\ wpc' \in [Workers -> WorkerPcs]
    BY <1>0
  <2>2. spawned' \in 0 .. (MaxThreads - 1)
    OBVIOUS
  <2> QED BY <1>0, <2>1, <2>2 DEF Jobs
<1>2. IControl'
  BY <1>0 DEF IControl
<1>3. IBodies'
  <2> SUFFICES ASSUME NEW t \in Threads
               PROVE  /\ tls'[t] <=> InBody(t)'
                      /\ nest'[t] # "no" => InBody(t)'
    BY DEF IBodies
  <2>1. /\ tls[t] <=> InBody(t)
        /\ nest[t] # "no" => InBody(t)
    BY <1>0 DEF IBodies
  <2>2. \A x \in Workers : wpc[x] # "chunk"
    <3>1. \A x \in Workers : x > spawned \/ x \in 1 .. spawned
      BY <1>0
    <3>2. \A x \in Workers : x > spawned => wpc[x] = "none"
      BY <1>0 DEF IThreads
    <3> QED BY <3>1, <3>2
  <2>3. InBody(t)' <=> InBody(t)
    BY <1>0, <2>2 DEF InBody
  <2> QED BY <2>1, <2>3
<1>4. IThreads'
  BY <1>0 DEF IThreads, IControl
<1>5. IAlive'
  BY <1>0 DEF IAlive, IControl, StopPcs
<1>6. IStop'
  BY <1>0 DEF IStop, IControl, Stopping, StopPcs
<1>7. IWorkers'
  BY <1>0 DEF IWorkers, IControl, IStop, IJob, JobOut, JobPcs, Stopping, StopPcs, IThreads, HasChunk
<1>8. IReq'
  BY <1>0 DEF IReq, IControl
<1>9. IJob'
  BY <1>0 DEF IJob, IControl, JobOut, JobPcs, RegionParts
<1>10. IDone'
  BY <1>0 DEF IDone, IControl, JobPcs, RegionParts
<1> QED BY <1>1, <1>2, <1>3, <1>4, <1>5, <1>6, <1>7, <1>8, <1>9, <1>10 DEF IInv

LEMMA ClearStopStep ==
  ASSUME IInv, NEW c \in Callers, ClearStop(c)
  PROVE  IInv'
<1> USE PoolAssumption DEF TypeOK, CallerPcs, WaitPcs, RegionPcs, ResizePcs, WorkerPcs, Workers, Threads,
      callerVars, jobVars, workerVars, poolVars, bodyVars, ClearStop
<1>0. TypeOK /\ IControl /\ IBodies /\ IThreads /\ IAlive /\ IStop /\ IWorkers
      /\ IJob /\ IReq /\ IDone
  BY DEF IInv
<1>1. TypeOK'
  <2>1. req[c].threads \in 1 .. MaxThreads
    <3>1. req[c] \in [count : Counts \cup {0}, min : Int, threads : 1 .. MaxThreads]
      BY <1>0
    <3> QED BY <3>1
  <2>2. total' \in 1 .. MaxThreads /\ initGen' \in 0 .. (GenModulus - 1)
    BY <1>0, <2>1
  <2>3. control' \in Callers \cup {NoThread} /\ pc' \in [Callers -> CallerPcs]
    BY <1>0
  <2> QED BY <1>0, <2>2, <2>3
<1>2. IControl'
  <2>1. control = c
    BY <1>0 DEF IControl
  <2>2. CASE alive
    BY <1>0, <2>1, <2>2 DEF IControl
  <2>3. CASE ~alive
    <3>1. control' = NoThread /\ pc' = [pc EXCEPT ![c] = "idle"]
      BY <2>3
    <3>2. \A d \in Callers : d # c => pc[d] \notin RegionPcs \cup ResizePcs
      BY <1>0, <2>1 DEF IControl
    <3>3. \A d \in Callers : pc'[d] \notin RegionPcs \cup ResizePcs
      BY <1>0, <3>1, <3>2
    <3> QED BY <3>1, <3>3 DEF IControl
  <2> QED BY <2>2, <2>3
<1>3. IBodies'
  <2>1. /\ pc[c] \notin {"solo", "chunk0"} /\ pc'[c] \notin {"solo", "chunk0"}
        /\ \A d \in Callers : d # c => pc'[d] = pc[d]
    BY <1>0
  <2> QED BY <1>0, <2>1, CallerBodies
<1>4. IThreads'
  BY <1>0 DEF IThreads, IControl
<1>5. IAlive'
  BY <1>0, ZenonT(60) DEF IAlive, IControl, StopPcs
<1>6. IStop'
  BY <1>0 DEF IStop, IControl, Stopping, StopPcs
<1>7. IWorkers'
  BY <1>0 DEF IWorkers, IControl, IStop, IJob, JobOut, JobPcs, Stopping, StopPcs, IThreads, HasChunk
<1>8. IReq'
  BY <1>0 DEF IReq, IControl
<1>9. IJob'
  BY <1>0, SMTT(30) DEF IJob, IControl, JobOut, JobPcs, RegionParts
<1>10. IDone'
  BY <1>0, SMTT(30) DEF IDone, IControl, JobPcs, RegionParts
<1> QED BY <1>1, <1>2, <1>3, <1>4, <1>5, <1>6, <1>7, <1>8, <1>9, <1>10 DEF IInv

LEMMA SpawnStep ==
  ASSUME IInv, NEW c \in Callers, Spawn(c)
  PROVE  IInv'
<1> USE PoolAssumption DEF TypeOK, CallerPcs, WaitPcs, RegionPcs, ResizePcs, WorkerPcs, Workers, Threads,
      callerVars, jobVars, workerVars, poolVars, bodyVars, Spawn
<1>0. TypeOK /\ IControl /\ IBodies /\ IThreads /\ IAlive /\ IStop /\ IWorkers
      /\ IJob /\ IReq /\ IDone
  BY DEF IInv
<1>1. TypeOK'
  <2>1. spawned + 1 \in Workers /\ spawned' \in 0 .. (MaxThreads - 1)
    BY <1>0
  <2>2. wpc' \in [Workers -> WorkerPcs] /\ seen' \in [Workers -> 0 .. (GenModulus - 1)]
    BY <1>0, <2>1
  <2> QED BY <1>0, <2>1, <2>2
<1>2. IControl'
  BY <1>0 DEF IControl
<1>3. IBodies'
  <2> SUFFICES ASSUME NEW t \in Threads
               PROVE  /\ tls'[t] <=> InBody(t)'
                      /\ nest'[t] # "no" => InBody(t)'
    BY DEF IBodies
  <2>1. /\ tls[t] <=> InBody(t)
        /\ nest[t] # "no" => InBody(t)
    BY <1>0 DEF IBodies
  <2>2. wpc[spawned + 1] # "chunk" /\ spawned + 1 \in Workers
    BY <1>0 DEF IThreads
  <2>3. InBody(t)' <=> InBody(t)
    BY <1>0, <2>2 DEF InBody
  <2> QED BY <2>1, <2>3
<1>4. IThreads'
  BY <1>0 DEF IThreads, IControl
<1>5. IAlive'
  BY <1>0 DEF IAlive, IControl, StopPcs
<1>6. IStop'
  BY <1>0 DEF IStop, IControl, Stopping, StopPcs
<1>7. IWorkers'
  BY <1>0, SMTT(30) DEF IWorkers, IControl, IStop, IJob, JobOut, JobPcs, Stopping, StopPcs, IThreads, HasChunk
<1>8. IReq'
  BY <1>0 DEF IReq, IControl
<1>9. IJob'
  BY <1>0 DEF IJob, IControl, JobOut, JobPcs, RegionParts
<1>10. IDone'
  BY <1>0 DEF IDone, IControl, JobPcs, RegionParts
<1> QED BY <1>1, <1>2, <1>3, <1>4, <1>5, <1>6, <1>7, <1>8, <1>9, <1>10 DEF IInv

LEMMA SpawnDoneStep ==
  ASSUME IInv, NEW c \in Callers, SpawnDone(c)
  PROVE  IInv'
<1> USE PoolAssumption DEF TypeOK, CallerPcs, WaitPcs, RegionPcs, ResizePcs, WorkerPcs, Workers, Threads,
      callerVars, jobVars, workerVars, poolVars, bodyVars, SpawnDone
<1>0. TypeOK /\ IControl /\ IBodies /\ IThreads /\ IAlive /\ IStop /\ IWorkers
      /\ IJob /\ IReq /\ IDone
  BY DEF IInv
<1>1. TypeOK'
  BY <1>0 DEF Jobs
<1>2. IControl'
  BY <1>0 DEF IControl
<1>3. IBodies'
  BY <1>0 DEF IBodies, IControl, InBody
<1>4. IThreads'
  BY <1>0 DEF IThreads, IControl
<1>5. IAlive'
  BY <1>0 DEF IAlive, IControl, StopPcs
<1>6. IStop'
  BY <1>0 DEF IStop, IControl, Stopping, StopPcs
<1>7. IWorkers'
  BY <1>0 DEF IWorkers, IControl, IStop, IJob, JobOut, JobPcs, Stopping, StopPcs, IThreads, HasChunk
<1>8. IReq'
  BY <1>0 DEF IReq, IControl
<1>9. IJob'
  BY <1>0 DEF IJob, IControl, JobOut, JobPcs, RegionParts
<1>10. IDone'
  BY <1>0 DEF IDone, IControl, JobPcs, RegionParts
<1> QED BY <1>1, <1>2, <1>3, <1>4, <1>5, <1>6, <1>7, <1>8, <1>9, <1>10 DEF IInv

\* A failed creation leaves fewer workers than total_ - 1, all of them caught up.
LEMMA SpawnFailStep ==
  ASSUME IInv, NEW c \in Callers, SpawnFail(c)
  PROVE  IInv'
<1> USE PoolAssumption DEF TypeOK, CallerPcs, WaitPcs, RegionPcs, ResizePcs, WorkerPcs, Workers, Threads,
      callerVars, jobVars, workerVars, poolVars, bodyVars, SpawnFail
<1>0. TypeOK /\ IControl /\ IBodies /\ IThreads /\ IAlive /\ IStop /\ IWorkers
      /\ IJob /\ IReq /\ IDone
  BY DEF IInv
<1>1. TypeOK'
  BY <1>0 DEF Jobs
<1>2. IControl'
  BY <1>0 DEF IControl
<1>3. IBodies'
  BY <1>0 DEF IBodies, IControl, InBody
<1>4. IThreads'
  BY <1>0 DEF IThreads, IControl
<1>5. IAlive'
  BY <1>0 DEF IAlive, IControl, StopPcs
<1>6. IStop'
  BY <1>0 DEF IStop, IControl, Stopping, StopPcs
<1>7. IWorkers'
  BY <1>0 DEF IWorkers, IControl, IStop, IJob, JobOut, JobPcs, Stopping, StopPcs, IThreads, HasChunk
<1>8. IReq'
  BY <1>0 DEF IReq, IControl
<1>9. IJob'
  BY <1>0 DEF IJob, IControl, JobOut, JobPcs, RegionParts
<1>10. IDone'
  BY <1>0, SMTT(30) DEF IDone, IControl, JobPcs, RegionParts
<1> QED BY <1>1, <1>2, <1>3, <1>4, <1>5, <1>6, <1>7, <1>8, <1>9, <1>10 DEF IInv


-----------------------------------------------------------------------------
(* Steps of the workers.                                                     *)

LEMMA WorkerExitStep ==
  ASSUME IInv, NEW w \in Workers, WorkerExit(w)
  PROVE  IInv'
<1> USE PoolAssumption DEF TypeOK, CallerPcs, WaitPcs, RegionPcs, ResizePcs, WorkerPcs, Workers, Threads,
      callerVars, jobVars, workerVars, poolVars, bodyVars, WorkerExit
<1>0. TypeOK /\ IControl /\ IBodies /\ IThreads /\ IAlive /\ IStop /\ IWorkers
      /\ IJob /\ IReq /\ IDone
  BY DEF IInv
<1>n. ~JobOut /\ ~JobOut'
  BY <1>0 DEF IStop, Stopping, StopPcs, JobOut, JobPcs
<1>1. TypeOK'
  BY <1>0 DEF Jobs
<1>2. IControl'
  BY <1>0 DEF IControl
<1>3. IBodies'
  BY <1>0 DEF IBodies, IControl, InBody
<1>4. IThreads'
  BY <1>0 DEF IThreads, IControl
<1>5. IAlive'
  BY <1>0 DEF IAlive, IControl, StopPcs
<1>6. IStop'
  BY <1>0 DEF IStop, IControl, Stopping, StopPcs
<1>7. IWorkers'
  BY <1>0, SMTT(30) DEF IWorkers, IControl, IStop, IJob, JobOut, JobPcs, Stopping, StopPcs, IThreads, HasChunk
<1>8. IReq'
  BY <1>0 DEF IReq, IControl
<1>9. IJob'
  BY <1>0, <1>n DEF IJob
<1>10. IDone'
  BY <1>0, <1>n, DoneFrame DEF JobOut
<1> QED BY <1>1, <1>2, <1>3, <1>4, <1>5, <1>6, <1>7, <1>8, <1>9, <1>10 DEF IInv

LEMMA WorkerTakeStep ==
  ASSUME IInv, NEW w \in Workers, WorkerTake(w)
  PROVE  IInv'
<1> USE PoolAssumption DEF TypeOK, CallerPcs, WaitPcs, RegionPcs, ResizePcs, WorkerPcs, Workers, Threads,
      callerVars, jobVars, workerVars, poolVars, bodyVars, WorkerTake
<1>0. TypeOK /\ IControl /\ IBodies /\ IThreads /\ IAlive /\ IStop /\ IWorkers
      /\ IJob /\ IReq /\ IDone
  BY DEF IInv
<1>s. w \in 1 .. spawned
  BY <1>0 DEF IThreads
<1>u. Unreported' = Unreported
  BY <1>0, <1>s DEF Unreported
<1>w. \A d \in Callers : \A i \in 0 .. (RegionParts(d) - 1) :
        wpc'[i] = "report" <=> wpc[i] = "report"
  BY <1>0
<1>f. \A d \in Callers : control = d /\ pc[d] \in JobPcs =>
        FinishedParts(d)' = FinishedParts(d)
  BY <1>0, <1>u, <1>w, SMTT(30) DEF FinishedParts, PartFinished, RegionParts, JobPcs
<1>1. TypeOK'
  BY <1>0 DEF Jobs
<1>2. IControl'
  BY <1>0 DEF IControl
<1>3. IBodies'
  BY <1>0, SMTT(30) DEF IBodies, IControl, InBody
<1>4. IThreads'
  BY <1>0 DEF IThreads, IControl
<1>5. IAlive'
  BY <1>0 DEF IAlive, IControl, StopPcs
<1>6. IStop'
  BY <1>0 DEF IStop, IControl, Stopping, StopPcs
<1>7. IWorkers'
  BY <1>0 DEF IWorkers, IControl, IStop, IJob, JobOut, JobPcs, Stopping, StopPcs, IThreads, HasChunk
<1>8. IReq'
  BY <1>0 DEF IReq, IControl
<1>9. IJob'
  BY <1>0, <1>u DEF IJob, IControl, JobOut, JobPcs, RegionParts
<1>10. IDone'
  BY <1>0, <1>f, DoneFrame DEF IControl, JobPcs
<1> QED BY <1>1, <1>2, <1>3, <1>4, <1>5, <1>6, <1>7, <1>8, <1>9, <1>10 DEF IInv

LEMMA WorkerSleepStep ==
  ASSUME IInv, NEW w \in Workers, WorkerSleep(w)
  PROVE  IInv'
<1> USE PoolAssumption DEF TypeOK, CallerPcs, WaitPcs, RegionPcs, ResizePcs, WorkerPcs, Workers, Threads,
      callerVars, jobVars, workerVars, poolVars, bodyVars, WorkerSleep
<1>0. TypeOK /\ IControl /\ IBodies /\ IThreads /\ IAlive /\ IStop /\ IWorkers
      /\ IJob /\ IReq /\ IDone
  BY DEF IInv
<1>u. Unreported' = Unreported
  BY <1>0, SMTT(30) DEF Unreported, IThreads
<1>w. \A d \in Callers : \A i \in 0 .. (RegionParts(d) - 1) :
        wpc'[i] = "report" <=> wpc[i] = "report"
  BY <1>0
<1>f. \A d \in Callers : control = d /\ pc[d] \in JobPcs =>
        FinishedParts(d)' = FinishedParts(d)
  BY <1>0, <1>u, <1>w, SMTT(30) DEF FinishedParts, PartFinished, RegionParts, JobPcs
<1>1. TypeOK'
  BY <1>0 DEF Jobs
<1>2. IControl'
  BY <1>0 DEF IControl
<1>3. IBodies'
  BY <1>0 DEF IBodies, IControl, InBody
<1>4. IThreads'
  BY <1>0 DEF IThreads, IControl
<1>5. IAlive'
  BY <1>0 DEF IAlive, IControl, StopPcs
<1>6. IStop'
  BY <1>0 DEF IStop, IControl, Stopping, StopPcs
<1>7. IWorkers'
  BY <1>0 DEF IWorkers, IControl, IStop, IJob, JobOut, JobPcs, Stopping, StopPcs, IThreads, HasChunk
<1>8. IReq'
  BY <1>0 DEF IReq, IControl
<1>9. IJob'
  BY <1>0, <1>u DEF IJob, IControl, JobOut, JobPcs, RegionParts
<1>10. IDone'
  BY <1>0, <1>f, DoneFrame DEF IControl, JobPcs
<1> QED BY <1>1, <1>2, <1>3, <1>4, <1>5, <1>6, <1>7, <1>8, <1>9, <1>10 DEF IInv

LEMMA WorkerSpuriousStep ==
  ASSUME IInv, NEW w \in Workers, WorkerSpurious(w)
  PROVE  IInv'
<1> USE PoolAssumption DEF TypeOK, CallerPcs, WaitPcs, RegionPcs, ResizePcs, WorkerPcs, Workers, Threads,
      callerVars, jobVars, workerVars, poolVars, bodyVars, WorkerSpurious
<1>0. TypeOK /\ IControl /\ IBodies /\ IThreads /\ IAlive /\ IStop /\ IWorkers
      /\ IJob /\ IReq /\ IDone
  BY DEF IInv
<1>u. Unreported' = Unreported
  BY <1>0, SMTT(30) DEF Unreported, IThreads
<1>w. \A d \in Callers : \A i \in 0 .. (RegionParts(d) - 1) :
        wpc'[i] = "report" <=> wpc[i] = "report"
  BY <1>0
<1>f. \A d \in Callers : control = d /\ pc[d] \in JobPcs =>
        FinishedParts(d)' = FinishedParts(d)
  BY <1>0, <1>u, <1>w, SMTT(30) DEF FinishedParts, PartFinished, RegionParts, JobPcs
<1>1. TypeOK'
  BY <1>0 DEF Jobs
<1>2. IControl'
  BY <1>0 DEF IControl
<1>3. IBodies'
  BY <1>0 DEF IBodies, IControl, InBody
<1>4. IThreads'
  BY <1>0 DEF IThreads, IControl
<1>5. IAlive'
  BY <1>0 DEF IAlive, IControl, StopPcs
<1>6. IStop'
  BY <1>0 DEF IStop, IControl, Stopping, StopPcs
<1>7. IWorkers'
  BY <1>0, SMTT(30) DEF IWorkers, IControl, IStop, IJob, JobOut, JobPcs, Stopping, StopPcs, IThreads, HasChunk
<1>8. IReq'
  BY <1>0 DEF IReq, IControl
<1>9. IJob'
  BY <1>0, <1>u DEF IJob, IControl, JobOut, JobPcs, RegionParts
<1>10. IDone'
  BY <1>0, <1>f, DoneFrame DEF IControl, JobPcs
<1> QED BY <1>1, <1>2, <1>3, <1>4, <1>5, <1>6, <1>7, <1>8, <1>9, <1>10 DEF IInv

LEMMA WorkerBeginStep ==
  ASSUME IInv, NEW w \in Workers, WorkerBegin(w)
  PROVE  IInv'
<1> USE PoolAssumption DEF TypeOK, CallerPcs, WaitPcs, RegionPcs, ResizePcs, WorkerPcs, Workers, Threads,
      callerVars, jobVars, workerVars, poolVars, bodyVars, WorkerBegin, EnterBody
<1>0. TypeOK /\ IControl /\ IBodies /\ IThreads /\ IAlive /\ IStop /\ IWorkers
      /\ IJob /\ IReq /\ IDone
  BY DEF IInv
<1>s. w \in 1 .. spawned /\ JobOut /\ wjob[w] = job /\ seen[w] = generation
  BY <1>0 DEF IThreads, IWorkers
<1>j. /\ wjob[w].fn /\ wjob[w].ctx = control /\ control \in Callers
      /\ pc[control] \in JobPcs
      /\ wjob[w].count = req[control].count /\ wjob[w].parts = RegionParts(control)
  BY <1>0, <1>s DEF IJob, JobOut
<1>r. /\ req[control].count \in Nat \ {0}
      /\ RegionParts(control) \in Nat \ {0} /\ RegionParts(control) \in 1 .. total
  <2>1. req[control].count \in Counts
    BY <1>0, <1>j DEF IReq, JobPcs
  <2> QED BY <1>0, <1>j, <2>1, RegionPartsFacts
<1>u. Unreported' = Unreported
  BY <1>0, <1>s, SMTT(30) DEF Unreported
<1>f. \A d \in Callers : control = d /\ pc[d] \in JobPcs =>
        FinishedParts(d)' = FinishedParts(d)
  <2>1. CASE HasChunk(w)
    <3>1. \A i \in Workers : wpc'[i] = "report" <=> wpc[i] = "report"
      BY <1>0, <2>1
    <3>2. \A i \in 0 .. (RegionParts(control) - 1) : i = 0 \/ i \in Workers
      BY <1>0, <1>r
    <3>3. RegionParts(control)' = RegionParts(control)
      BY DEF RegionParts
    <3> QED BY <1>0, <1>u, <3>1, <3>2, <3>3, SMTT(30) DEF FinishedParts, PartFinished
  <2>2. CASE ~HasChunk(w)
    <3>1. ~(w < RegionParts(control))
      BY <1>j, <2>2 DEF HasChunk
    <3>2. \A i \in 0 .. (RegionParts(control) - 1) : i # w /\ (i = 0 \/ i \in Workers)
      BY <1>0, <1>r, <3>1, SMTT(30)
    <3>3. \A i \in Workers : i # w => wpc'[i] = wpc[i]
      BY <1>0, <2>2
    <3>4. RegionParts(control)' = RegionParts(control) /\ pc' = pc /\ control' = control
      BY DEF RegionParts
    <3> QED BY <1>u, <3>2, <3>3, <3>4 DEF FinishedParts, PartFinished
  <2> QED BY <2>1, <2>2
<1>1. TypeOK'
  BY <1>0, ZenonT(60) DEF Jobs
<1>2. IControl'
  BY <1>0 DEF IControl
<1>3. IBodies'
  <2> SUFFICES ASSUME NEW t \in Threads
               PROVE  /\ tls'[t] <=> InBody(t)'
                      /\ nest'[t] # "no" => InBody(t)'
    BY DEF IBodies
  <2>1. /\ tls[t] <=> InBody(t)
        /\ nest[t] # "no" => InBody(t)
    BY <1>0 DEF IBodies
  <2>2. w \in Threads /\ w \notin Callers
    OBVIOUS
  <2>3. CASE t = w
    BY <1>0, <2>1, <2>2, <2>3 DEF InBody
  <2>4. CASE t # w
    <3>1. tls'[t] = tls[t] /\ nest'[t] = nest[t]
      BY <1>0, <2>2, <2>4
    <3>2. InBody(t)' <=> InBody(t)
      BY <1>0, <2>4 DEF InBody
    <3> QED BY <2>1, <3>1, <3>2
  <2> QED BY <2>3, <2>4
<1>4. IThreads'
  BY <1>0 DEF IThreads, IControl
<1>5. IAlive'
  BY <1>0 DEF IAlive, IControl, StopPcs
<1>6. IStop'
  BY <1>0 DEF IStop, IControl, Stopping, StopPcs
<1>7. IWorkers'
  <2>1. IWorkers
    BY <1>0
  <2>2. /\ spawned' = spawned /\ stop' = stop /\ seen' = seen /\ wjob' = wjob /\ job' = job
        /\ generation' = generation
        /\ (JobOut' <=> JobOut) /\ (Stopping' <=> Stopping)
        /\ \A v : HasChunk(v)' <=> HasChunk(v)
    BY DEF JobOut, Stopping, HasChunk
  <2>3. \A v \in Workers : v # w => wpc'[v] = wpc[v]
    BY <1>0, SMTT(30)
  <2>4. /\ w \in 1 .. spawned /\ wpc[w] = "got" /\ wpc'[w] \in {"chunk", "report"}
        /\ wpc'[w] = "chunk" => HasChunk(w)
    BY <1>0 DEF IThreads
  <2>5. \A v \in 1 .. spawned : v \in Workers
    BY <1>0
  <2> QED BY ONLY <2>1, <2>2, <2>3, <2>4, <2>5 DEF IWorkers
<1>8. IReq'
  BY <1>0 DEF IReq, IControl
<1>9. IJob'
  BY <1>0, <1>u DEF IJob, IControl, JobOut, JobPcs, RegionParts
<1>10. IDone'
  BY <1>0, <1>f, DoneFrame DEF IControl, JobPcs
<1> QED BY <1>1, <1>2, <1>3, <1>4, <1>5, <1>6, <1>7, <1>8, <1>9, <1>10 DEF IInv

LEMMA WorkerBodyDoneStep ==
  ASSUME IInv, NEW w \in Workers, WorkerBodyDone(w)
  PROVE  IInv'
<1> USE PoolAssumption DEF TypeOK, CallerPcs, WaitPcs, RegionPcs, ResizePcs, WorkerPcs, Workers, Threads,
      callerVars, jobVars, workerVars, poolVars, bodyVars, WorkerBodyDone, LeaveBody, BodyMayEnd, WorkerChunk
<1>0. TypeOK /\ IControl /\ IBodies /\ IThreads /\ IAlive /\ IStop /\ IWorkers
      /\ IJob /\ IReq /\ IDone
  BY DEF IInv
<1>s. w \in 1 .. spawned /\ JobOut /\ wjob[w] = job /\ seen[w] = generation
  BY <1>0 DEF IThreads, IWorkers
<1>j. /\ wjob[w].fn /\ wjob[w].ctx = control /\ control \in Callers
      /\ pc[control] \in JobPcs
      /\ wjob[w].count = req[control].count /\ wjob[w].parts = RegionParts(control)
  BY <1>0, <1>s DEF IJob, JobOut
<1>r. /\ req[control].count \in Nat \ {0}
      /\ RegionParts(control) \in Nat \ {0} /\ RegionParts(control) \in 1 .. total
  <2>1. req[control].count \in Counts
    BY <1>0, <1>j DEF IReq, JobPcs
  <2> QED BY <1>0, <1>j, <2>1, RegionPartsFacts
<1>u. Unreported' = Unreported
  BY <1>0, <1>s, SMTT(30) DEF Unreported
<1>p. w \in 0 .. (RegionParts(control) - 1) /\ w # 0
  BY <1>0, <1>s, <1>j, <1>r, SMTT(30) DEF IWorkers, HasChunk
<1>1. TypeOK'
  <2>1. WorkerChunk(w) \subseteq Nat
    BY <1>j, <1>r, <1>p, ChunkNat
  <2> HIDE DEF WorkerChunk
  <2>2. done' \in [Callers -> SUBSET Nat]
    BY <1>0, <1>j, <2>1
  <2> QED BY <1>0, <2>2
<1>2. IControl'
  BY <1>0 DEF IControl
<1>3. IBodies'
  BY <1>0, SMTT(30) DEF IBodies, IControl, InBody
<1>4. IThreads'
  BY <1>0 DEF IThreads, IControl
<1>5. IAlive'
  BY <1>0 DEF IAlive, IControl, StopPcs
<1>6. IStop'
  BY <1>0 DEF IStop, IControl, Stopping, StopPcs
<1>7. IWorkers'
  BY <1>0, SMTT(30) DEF IWorkers, IControl, IStop, IJob, JobOut, JobPcs, Stopping, StopPcs, IThreads, HasChunk
<1>8. IReq'
  BY <1>0 DEF IReq, IControl
<1>9. IJob'
  BY <1>0, <1>u DEF IJob, IControl, JobOut, JobPcs, RegionParts
<1>10. IDone'
  <2>1. UNCHANGED <<control, pc, req, total>> /\ RegionParts(control)' = RegionParts(control)
    BY DEF RegionParts
  <2>2. FinishedParts(control)' = FinishedParts(control) \cup {w}
    BY <1>0, <1>p, <1>s, <1>u, <2>1 DEF FinishedParts, PartFinished
  <2>3. done'[control] = done[control] \cup Chunk(req[control].count, RegionParts(control), w)
    BY <1>0, <1>j
  <2>4. done[control] = ItemsOf(req[control].count, RegionParts(control),
                                FinishedParts(control))
    BY <1>0, <1>j DEF IDone
  <2>5. done'[control] = ItemsOf(req[control].count, RegionParts(control),
                                 FinishedParts(control))'
    BY <2>1, <2>2, <2>3, <2>4 DEF ItemsOf
  <2>6. \A d \in Callers : d # control => done'[d] = done[d]
    BY <1>0, <1>j
  <2>7. \A d \in Callers : d # control =>
          done[d] = IF pc[d] = "soloDone" THEN 0 .. (req[d].count - 1) ELSE {}
    BY <1>0 DEF IDone
  <2> HIDE DEF TypeOK, WorkerBodyDone
  <2> QED BY <1>j, <2>1, <2>5, <2>6, <2>7 DEF IDone
<1> QED BY <1>1, <1>2, <1>3, <1>4, <1>5, <1>6, <1>7, <1>8, <1>9, <1>10 DEF IInv

LEMMA WorkerReportStep ==
  ASSUME IInv, NEW w \in Workers, WorkerReport(w)
  PROVE  IInv'
<1> USE PoolAssumption DEF TypeOK, CallerPcs, WaitPcs, RegionPcs, ResizePcs, WorkerPcs, Workers, Threads,
      callerVars, jobVars, workerVars, poolVars, bodyVars, WorkerReport, WakeCaller
<1>0. TypeOK /\ IControl /\ IBodies /\ IThreads /\ IAlive /\ IStop /\ IWorkers
      /\ IJob /\ IReq /\ IDone
  BY DEF IInv
<1>s. w \in 1 .. spawned /\ JobOut /\ wjob[w] = job /\ seen[w] = generation
  BY <1>0, SMTT(30) DEF IThreads, IWorkers
<1>j. /\ wjob[w].fn /\ wjob[w].ctx = control /\ control \in Callers
      /\ pc[control] \in JobPcs
      /\ wjob[w].count = req[control].count /\ wjob[w].parts = RegionParts(control)
  BY <1>0, <1>s DEF IJob, JobOut
<1>r. /\ req[control].count \in Nat \ {0}
      /\ RegionParts(control) \in Nat \ {0} /\ RegionParts(control) \in 1 .. total
  <2>1. req[control].count \in Counts
    BY <1>0, <1>j DEF IReq, JobPcs
  <2> QED BY <1>0, <1>j, <2>1, RegionPartsFacts
<1>u. Unreported' = Unreported \ {w} /\ w \in Unreported
  BY <1>0, <1>s, SMTT(30) DEF Unreported
<1>k. /\ pending \in 1 .. (MaxThreads - 1)
      /\ Cardinality(Unreported') + (total - 1 - spawned) = pending - 1
  <2>1. /\ pending = Cardinality(Unreported) + (total - 1 - spawned)
        /\ IsFiniteSet(Unreported) /\ total - 1 - spawned \in Nat
        /\ Cardinality(Unreported) \in Nat
    <3>1. pending = Cardinality(Unreported) + (total - 1 - spawned)
      BY <1>0, <1>s DEF IJob
    <3>2. spawned \in Nat /\ total \in Nat /\ spawned <= total - 1
      BY <1>0 DEF IThreads
    <3>3. IsFiniteSet(Unreported) /\ Cardinality(Unreported) \in 0 .. spawned
      BY <1>0, UnreportedFacts
    <3> QED BY ONLY <3>1, <3>2, <3>3
  <2>2. Cardinality(Unreported \ {w}) = Cardinality(Unreported) - 1
    BY <2>1, <1>u, FS_RemoveElement
  <2>3. Cardinality(Unreported) # 0
    BY <1>0, <1>u, UnreportedFacts
  <2>4. pending \in 0 .. (MaxThreads - 1) /\ MaxThreads \in Nat
    BY <1>0
  <2> QED BY ONLY <1>u, <2>1, <2>2, <2>3, <2>4
<1>q. /\ \A d \in Callers : pc'[d] = IF pending' = 0 THEN WakeCaller(d) ELSE pc[d]
      /\ pc' \in [Callers -> CallerPcs]
  BY <1>0 DEF CallerPcs
<1>f. \A d \in Callers : control = d /\ pc[d] \in JobPcs =>
        FinishedParts(d)' = FinishedParts(d)
  <2> SUFFICES ASSUME NEW d \in Callers, control = d, pc[d] \in JobPcs
               PROVE  FinishedParts(d)' = FinishedParts(d)
    OBVIOUS
  <2>1. RegionParts(d)' = RegionParts(d)
    BY DEF RegionParts
  <2>2. pc'[d] \in {"wait", "asleep"} <=> pc[d] \in {"wait", "asleep"}
    BY <1>q
  <2>3. \A i \in Workers : i \notin Unreported' \/ wpc'[i] = "report"
                         <=> i \notin Unreported \/ wpc[i] = "report"
    BY <1>0, <1>u
  <2>4. \A i \in 0 .. (RegionParts(d) - 1) : i = 0 \/ i \in Workers
    BY <1>0, <1>r
  <2> QED BY <2>1, <2>2, <2>3, <2>4 DEF FinishedParts, PartFinished
<1>1. TypeOK'
  <2>1. pending' \in 0 .. (MaxThreads - 1)
    BY <1>k
  <2>2. wpc' \in [Workers -> WorkerPcs]
    BY <1>0
  <2> QED BY <1>0, <1>q, <2>1, <2>2
<1>2. IControl'
  BY <1>0 DEF IControl
<1>3. IBodies'
  BY <1>0 DEF IBodies, IControl, InBody
<1>4. IThreads'
  BY <1>0 DEF IThreads, IControl
<1>5. IAlive'
  BY <1>0 DEF IAlive, IControl, StopPcs
<1>6. IStop'
  BY <1>0 DEF IStop, IControl, Stopping, StopPcs
<1>7. IWorkers'
  BY <1>0, SMTT(30) DEF IWorkers, IControl, IStop, IJob, JobOut, JobPcs, Stopping, StopPcs, IThreads, HasChunk
<1>8. IReq'
  BY <1>0 DEF IReq, IControl
<1>9. IJob'
  BY <1>0, <1>k, <1>s DEF IJob, IControl, JobOut, JobPcs, RegionParts
<1>10. IDone'
  <2>1. \A d \in Callers : /\ pc'[d] \in JobPcs <=> pc[d] \in JobPcs
                           /\ pc'[d] = "soloDone" <=> pc[d] = "soloDone"
    BY <1>q DEF JobPcs
  <2> QED BY <1>0, <1>f, <2>1, DoneFrame
<1> QED BY <1>1, <1>2, <1>3, <1>4, <1>5, <1>6, <1>7, <1>8, <1>9, <1>10 DEF IInv


-----------------------------------------------------------------------------
(* Steps of the nested calls.                                                *)

LEMMA NestedCallStep ==
  ASSUME IInv, NEW t \in Threads, NestedCall(t)
  PROVE  IInv'
<1> USE PoolAssumption DEF TypeOK, CallerPcs, WaitPcs, RegionPcs, ResizePcs, WorkerPcs, Workers, Threads,
      callerVars, jobVars, workerVars, poolVars, bodyVars, NestedCall
<1>0. TypeOK /\ IControl /\ IBodies /\ IThreads /\ IAlive /\ IStop /\ IWorkers
      /\ IJob /\ IReq /\ IDone
  BY DEF IInv
<1>u. Unreported' = Unreported
  BY UnreportedFrame
<1>f. \A d \in Callers : control = d /\ pc[d] \in JobPcs =>
        FinishedParts(d)' = FinishedParts(d)
  BY <1>0, <1>u DEF FinishedParts, PartFinished, RegionParts, JobPcs
<1>1. TypeOK'
  BY <1>0 DEF Jobs
<1>2. IControl'
  BY <1>0 DEF IControl
<1>3. IBodies'
  BY <1>0 DEF IBodies, IControl, InBody
<1>4. IThreads'
  BY <1>0 DEF IThreads, IControl
<1>5. IAlive'
  BY <1>0 DEF IAlive, IControl, StopPcs
<1>6. IStop'
  BY <1>0 DEF IStop, IControl, Stopping, StopPcs
<1>7. IWorkers'
  BY <1>0 DEF IWorkers, IControl, IStop, IJob, JobOut, JobPcs, Stopping, StopPcs, IThreads, HasChunk
<1>8. IReq'
  BY <1>0 DEF IReq, IControl
<1>9. IJob'
  BY <1>0, <1>u DEF IJob, IControl, JobOut, JobPcs, RegionParts
<1>10. IDone'
  BY <1>0, <1>f, DoneFrame DEF IControl, JobPcs
<1> QED BY <1>1, <1>2, <1>3, <1>4, <1>5, <1>6, <1>7, <1>8, <1>9, <1>10 DEF IInv

LEMMA NestedEnterStep ==
  ASSUME IInv, NEW t \in Threads, NestedEnter(t)
  PROVE  IInv'
<1> USE PoolAssumption DEF TypeOK, CallerPcs, WaitPcs, RegionPcs, ResizePcs, WorkerPcs, Workers, Threads,
      callerVars, jobVars, workerVars, poolVars, bodyVars, NestedEnter
<1>0. TypeOK /\ IControl /\ IBodies /\ IThreads /\ IAlive /\ IStop /\ IWorkers
      /\ IJob /\ IReq /\ IDone
  BY DEF IInv
<1>u. Unreported' = Unreported
  BY UnreportedFrame
<1>f. \A d \in Callers : control = d /\ pc[d] \in JobPcs =>
        FinishedParts(d)' = FinishedParts(d)
  BY <1>0, <1>u DEF FinishedParts, PartFinished, RegionParts, JobPcs
<1>1. TypeOK'
  BY <1>0 DEF Jobs
<1>2. IControl'
  BY <1>0 DEF IControl
<1>3. IBodies'
  BY <1>0 DEF IBodies, IControl, InBody
<1>4. IThreads'
  BY <1>0 DEF IThreads, IControl
<1>5. IAlive'
  BY <1>0 DEF IAlive, IControl, StopPcs
<1>6. IStop'
  BY <1>0 DEF IStop, IControl, Stopping, StopPcs
<1>7. IWorkers'
  BY <1>0 DEF IWorkers, IControl, IStop, IJob, JobOut, JobPcs, Stopping, StopPcs, IThreads, HasChunk
<1>8. IReq'
  BY <1>0 DEF IReq, IControl
<1>9. IJob'
  BY <1>0, <1>u DEF IJob, IControl, JobOut, JobPcs, RegionParts
<1>10. IDone'
  BY <1>0, <1>f, DoneFrame DEF IControl, JobPcs
<1> QED BY <1>1, <1>2, <1>3, <1>4, <1>5, <1>6, <1>7, <1>8, <1>9, <1>10 DEF IInv

LEMMA NestedReturnStep ==
  ASSUME IInv, NEW t \in Threads, NestedReturn(t)
  PROVE  IInv'
<1> USE PoolAssumption DEF TypeOK, CallerPcs, WaitPcs, RegionPcs, ResizePcs, WorkerPcs, Workers, Threads,
      callerVars, jobVars, workerVars, poolVars, bodyVars, NestedReturn
<1>0. TypeOK /\ IControl /\ IBodies /\ IThreads /\ IAlive /\ IStop /\ IWorkers
      /\ IJob /\ IReq /\ IDone
  BY DEF IInv
<1>u. Unreported' = Unreported
  BY UnreportedFrame
<1>f. \A d \in Callers : control = d /\ pc[d] \in JobPcs =>
        FinishedParts(d)' = FinishedParts(d)
  BY <1>0, <1>u DEF FinishedParts, PartFinished, RegionParts, JobPcs
<1>1. TypeOK'
  BY <1>0 DEF Jobs
<1>2. IControl'
  BY <1>0 DEF IControl
<1>3. IBodies'
  BY <1>0 DEF IBodies, IControl, InBody
<1>4. IThreads'
  BY <1>0 DEF IThreads, IControl
<1>5. IAlive'
  BY <1>0 DEF IAlive, IControl, StopPcs
<1>6. IStop'
  BY <1>0 DEF IStop, IControl, Stopping, StopPcs
<1>7. IWorkers'
  BY <1>0 DEF IWorkers, IControl, IStop, IJob, JobOut, JobPcs, Stopping, StopPcs, IThreads, HasChunk
<1>8. IReq'
  BY <1>0 DEF IReq, IControl
<1>9. IJob'
  BY <1>0, <1>u DEF IJob, IControl, JobOut, JobPcs, RegionParts
<1>10. IDone'
  BY <1>0, <1>f, DoneFrame DEF IControl, JobPcs
<1> QED BY <1>1, <1>2, <1>3, <1>4, <1>5, <1>6, <1>7, <1>8, <1>9, <1>10 DEF IInv

-----------------------------------------------------------------------------
(* The invariant.                                                          *)

LEMMA InitInv == ASSUME Init PROVE IInv
<1> USE PoolAssumption DEF Init, NoReq, NoJob
<1>1. TypeOK
  <2>1. NoReq \in [count : Counts \cup {0}, min : Int, threads : 1 .. MaxThreads]
    OBVIOUS
  <2>2. NoJob \in Jobs
    BY DEF Jobs
  <2>3. req \in [Callers -> [count : Counts \cup {0}, min : Int,
                             threads : 1 .. MaxThreads]]
    BY <2>1
  <2>4. job \in Jobs /\ wjob \in [Workers -> Jobs]
    BY <2>2
  <2>5. /\ pc \in [Callers -> CallerPcs] /\ wpc \in [Workers -> WorkerPcs]
        /\ seen \in [Workers -> 0 .. (GenModulus - 1)]
    BY DEF CallerPcs, WorkerPcs
  <2>6. /\ tls \in [Threads -> BOOLEAN] /\ done \in [Callers -> SUBSET Nat]
        /\ nest \in [Threads -> {"no", "calling", "inline", "returned"}]
    OBVIOUS
  <2>7. /\ total \in 1 .. MaxThreads /\ spawned \in 0 .. (MaxThreads - 1)
        /\ generation \in 0 .. (GenModulus - 1) /\ initGen \in 0 .. (GenModulus - 1)
        /\ pending \in 0 .. (MaxThreads - 1)
    OBVIOUS
  <2> QED BY <2>3, <2>4, <2>5, <2>6, <2>7 DEF TypeOK
<1>2. \A c \in Callers : control # c
  OBVIOUS
<1>3. IControl /\ IAlive /\ IReq
  BY <1>2 DEF IControl, IAlive, IReq, RegionPcs, ResizePcs
<1>4. IBodies
  BY DEF IBodies, InBody, Threads
<1>5. IThreads
  BY <1>2 DEF IThreads, Workers
<1>6. ~JobOut /\ ~Stopping
  BY DEF JobOut, Stopping
<1>7. IStop /\ IJob /\ IWorkers
  BY <1>6 DEF IStop, IJob, IWorkers
<1>8. IDone
  BY <1>2 DEF IDone
<1> QED BY <1>1, <1>3, <1>4, <1>5, <1>7, <1>8 DEF IInv

LEMMA StutterInv == ASSUME IInv, UNCHANGED vars PROVE IInv'
<1> USE DEF vars, callerVars, jobVars, workerVars, poolVars, bodyVars
<1>1. Unreported' = Unreported
  BY UnreportedFrame
<1>2. \A c \in Callers : FinishedParts(c)' = FinishedParts(c)
  BY <1>1 DEF FinishedParts, PartFinished, RegionParts
<1>3. IDone'
  BY <1>2, DoneFrame DEF IInv
<1>4. TypeOK'
  BY DEF IInv, TypeOK
<1>5. IControl' /\ IBodies' /\ IThreads' /\ IAlive' /\ IStop' /\ IReq'
  BY DEF IInv, IControl, IBodies, InBody, IThreads, IAlive, IStop, Stopping, IReq
<1>6. IWorkers'
  BY DEF IInv, IWorkers, JobOut, Stopping, HasChunk
<1>7. IJob'
  BY <1>1 DEF IInv, IJob, JobOut, RegionParts
<1> QED BY <1>3, <1>4, <1>5, <1>6, <1>7 DEF IInv

LEMMA NextInv == ASSUME IInv, [Next]_vars PROVE IInv'
<1>1. CASE UNCHANGED vars
  BY <1>1, StutterInv
<1>2. ASSUME NEW c \in Callers, CallRun(c) \/ CallResize(c) \/ Destroy(c) \/ CallerSpurious(c)
      PROVE  IInv'
  BY <1>2, CallRunStep, CallResizeStep, DestroyStep, CallerSpuriousStep
<1>3. ASSUME NEW c \in Callers, CallerStep(c)
      PROVE  IInv'
  <2>1. CASE AcquireRun(c) \/ SoloBodyDone(c) \/ SoloReturn(c)
    BY <2>1, AcquireRunStep, SoloBodyDoneStep, SoloReturnStep
  <2>2. CASE Post(c) \/ NotifyStart(c) \/ Chunk0Done(c) \/ WaitDone(c)
    BY <2>2, PostStep, NotifyStartStep, Chunk0DoneStep, WaitDoneStep
  <2>3. CASE AcquireResize(c) \/ AcquireDestroy(c) \/ SetStop(c) \/ NotifyStop(c)
    BY <2>3, AcquireResizeStep, AcquireDestroyStep, SetStopStep, NotifyStopStep
  <2>4. CASE Join(c) \/ ClearStop(c) \/ Spawn(c) \/ SpawnDone(c)
    BY <2>4, JoinStep, ClearStopStep, SpawnStep, SpawnDoneStep
  <2>5. CASE SpawnFail(c)
    BY <2>5, SpawnFailStep
  <2> QED BY <1>3, <2>1, <2>2, <2>3, <2>4, <2>5 DEF CallerStep
<1>4. ASSUME NEW w \in Workers, WorkerStep(w) \/ WorkerSpurious(w)
      PROVE  IInv'
  BY <1>4, WorkerExitStep, WorkerTakeStep, WorkerSleepStep, WorkerSpuriousStep,
     WorkerBeginStep, WorkerBodyDoneStep, WorkerReportStep DEF WorkerStep
<1>5. ASSUME NEW t \in Threads, NestedCall(t) \/ NestedStep(t)
      PROVE  IInv'
  BY <1>5, NestedCallStep, NestedEnterStep, NestedReturnStep DEF NestedStep
<1> QED BY <1>1, <1>2, <1>3, <1>4, <1>5 DEF Next

\* The invariant of the pool, thread creations that fail included.
THEOREM PoolInvariant == Spec => []IInv
<1>1. Init => IInv
  BY InitInv
<1>2. IInv /\ [Next]_vars => IInv'
  BY NextInv
<1> QED BY <1>1, <1>2, PTL DEF Spec

\* Type correctness of the pool.
THEOREM PoolTypeOK == Spec => []TypeOK
<1>1. IInv => TypeOK
  BY DEF IInv
<1> QED BY <1>1, PoolInvariant, PTL

\* A worker only ever holds the job of a caller that is still inside run(), so
\* no callback outlives the frame it was called from.
THEOREM PoolNoUseAfterReturn == Spec => []NoUseAfterReturn
<1>1. IInv => NoUseAfterReturn
  <2> SUFFICES ASSUME IInv, NEW w \in Workers, wpc[w] \in {"got", "chunk"}
               PROVE  /\ wjob[w].ctx \in Callers /\ control = wjob[w].ctx
                      /\ pc[wjob[w].ctx] \in {"notify", "chunk0", "wait", "asleep"}
    BY DEF NoUseAfterReturn
  <2>1. w \in 1 .. spawned
    BY DEF IInv, TypeOK, IThreads, Workers
  <2>2. JobOut /\ wjob[w] = job
    BY <2>1 DEF IInv, IWorkers
  <2> QED BY <2>2 DEF IInv, IJob, JobOut, JobPcs
<1> QED BY <1>1, PoolInvariant, PTL

\* tls_in_parallel is set on a thread exactly while a callback runs on it, so a
\* nested call is recognised and no later region is serialized by a stale flag.
THEOREM PoolInParallelOnlyInBodies == Spec => []InParallelOnlyInBodies
<1>1. IInv => InParallelOnlyInBodies
  BY DEF IInv, IBodies, InParallelOnlyInBodies
<1> QED BY <1>1, PoolInvariant, PTL

\* pending_ counts exactly the workers that still owe the region a report.
THEOREM PoolPendingCounts == ASSUME ~SpawnMayFail PROVE Spec => []PendingCounts
<1>1. ASSUME IInv, JobOut PROVE pending = Cardinality(Unreported)
  <2>1. alive /\ pc[control] \notin ResizePcs
    BY <1>1 DEF IInv, IAlive, JobOut, JobPcs, StopPcs, ResizePcs
  <2>2. spawned = total - 1
    BY <1>1, <2>1 DEF IInv, IThreads
  <2>3. pending = Cardinality(Unreported) + (total - 1 - spawned)
    BY <1>1 DEF IInv, IJob
  <2>4. total \in Int /\ spawned \in Int /\ Cardinality(Unreported) \in Int
    BY <1>1, PoolAssumption, UnreportedFacts DEF IInv, TypeOK
  <2> QED BY <2>2, <2>3, <2>4
<1>2. IInv => PendingCounts
  BY <1>1 DEF IInv, IJob, JobOut, JobPcs, PendingCounts
<1> QED BY <1>2, PoolInvariant, PTL

\* Between calls the pool is at rest and no worker lags behind generation_.
THEOREM PoolQuietBetweenCalls == ASSUME ~SpawnMayFail PROVE Spec => []QuietBetweenCalls
<1>1. ASSUME IInv, control = NoThread PROVE
        /\ ~stop /\ ~job.fn
        /\ alive => spawned = total - 1
        /\ \A w \in 1 .. spawned : wpc[w] \in {"loop", "asleep"} /\ seen[w] = generation
  <2>1. ~JobOut /\ ~Stopping /\ control \notin Callers
    BY <1>1, PoolAssumption DEF JobOut, Stopping
  <2>2. ~stop /\ ~job.fn
    BY <1>1, <2>1 DEF IInv, IStop, IJob
  <2>3. alive => spawned = total - 1
    BY <1>1, <2>1 DEF IInv, IThreads
  <2>4. ASSUME NEW w \in 1 .. spawned
        PROVE  wpc[w] \in {"loop", "asleep"} /\ seen[w] = generation
    <3>1. w \in Workers /\ wpc[w] \in WorkerPcs /\ wpc[w] # "none"
      BY <1>1, PoolAssumption DEF IInv, TypeOK, IThreads, Workers
    <3> QED BY <1>1, <2>1, <2>2, <3>1 DEF IInv, IWorkers, WorkerPcs
  <2> QED BY <2>2, <2>3, <2>4
<1>2. IInv => QuietBetweenCalls
  BY <1>1 DEF QuietBetweenCalls
<1> QED BY <1>2, PoolInvariant, PTL

-----------------------------------------------------------------------------
(* Disjoint execution and refinement.                                      *)

\* What a thread inside a callback is working on: all of a one-part region, or
\* one part of the published job that has not finished yet.
LEMMA ExecutingPart ==
  ASSUME IInv, NEW c \in Callers, NEW t \in Threads, Executing(t, c) # {}
  PROVE  \/ /\ t = c /\ pc[c] = "solo" /\ done[c] = {}
            /\ Executing(t, c) = 0 .. (req[c].count - 1)
         \/ /\ control = c /\ pc[c] \in JobPcs
            /\ \E p \in (0 .. (RegionParts(c) - 1)) \ FinishedParts(c) :
                 /\ p = IF t \in Callers THEN 0 ELSE t
                 /\ Executing(t, c) = Chunk(req[c].count, RegionParts(c), p)
<1>0. TypeOK /\ IControl /\ IThreads /\ IWorkers /\ IJob /\ IReq /\ IDone
  BY DEF IInv
<1>1. CASE t \in Callers
  <2>1. t = c /\ pc[c] \in {"solo", "chunk0"}
    BY <1>1 DEF Executing
  <2>2. CASE pc[c] = "solo"
    BY <1>0, <1>1, <2>1, <2>2 DEF Executing, IDone, JobPcs
  <2>3. CASE pc[c] = "chunk0"
    <3>1. control = c /\ req[c].count \in Counts
      BY <1>0, <2>3 DEF IControl, IReq, RegionPcs
    <3>2. 0 \in (0 .. (RegionParts(c) - 1)) \ FinishedParts(c)
      BY <1>0, <2>3, <3>1, RegionPartsFacts DEF FinishedParts, PartFinished
    <3>3. Executing(t, c) = Chunk(req[c].count, RegionParts(c), 0)
      BY <1>1, <2>1, <2>3 DEF Executing
    <3> QED BY <1>1, <2>3, <3>1, <3>2, <3>3 DEF JobPcs
  <2> QED BY <2>1, <2>2, <2>3
<1>2. CASE t \notin Callers
  <2>1. t \in Workers /\ wpc[t] = "chunk" /\ wjob[t].ctx = c
        /\ Executing(t, c) = WorkerChunk(t)
    BY <1>2 DEF Executing, Threads
  <2>2. t \in 1 .. spawned
    BY <1>0, <2>1, PoolAssumption DEF TypeOK, IThreads, Workers
  <2>3. JobOut /\ wjob[t] = job /\ seen[t] = generation /\ HasChunk(t)
    BY <1>0, <2>1, <2>2 DEF IWorkers
  <2>4. control = c /\ pc[c] \in JobPcs /\ wjob[t].count = req[c].count
        /\ wjob[t].parts = RegionParts(c)
    BY <1>0, <2>1, <2>3 DEF IJob, JobOut
  <2>5. RegionParts(c) \in Nat
    BY <1>0, <2>4, RegionPartsFacts DEF IReq, JobPcs, RegionPcs
  <2>6. t \in 0 .. (RegionParts(c) - 1) /\ t # 0
    BY <2>2, <2>3, <2>4, <2>5 DEF HasChunk
  <2>7. t \in Unreported
    BY <2>1, <2>2 DEF Unreported
  <2>8. t \notin FinishedParts(c)
    BY <2>1, <2>6, <2>7 DEF FinishedParts, PartFinished
  <2> QED BY <1>2, <2>1, <2>4, <2>6, <2>8 DEF WorkerChunk
<1> QED BY <1>1, <1>2

\* What a thread is executing has not been executed before.
LEMMA ExecutingNew ==
  ASSUME IInv, NEW c \in Callers, NEW t \in Threads
  PROVE  /\ Executing(t, c) \cap done[c] = {}
         /\ Executing(t, c) \subseteq 0 .. (req[c].count - 1)
<1>1. CASE Executing(t, c) = {}
  BY <1>1
<1>2. CASE t = c /\ pc[c] = "solo" /\ done[c] = {}
           /\ Executing(t, c) = 0 .. (req[c].count - 1)
  BY <1>2
<1>3. CASE /\ control = c /\ pc[c] \in JobPcs
           /\ \E p \in (0 .. (RegionParts(c) - 1)) \ FinishedParts(c) :
                 Executing(t, c) = Chunk(req[c].count, RegionParts(c), p)
  <2>1. PICK p \in (0 .. (RegionParts(c) - 1)) \ FinishedParts(c) :
           Executing(t, c) = Chunk(req[c].count, RegionParts(c), p)
    BY <1>3
  <2>2. req[c].count \in Nat /\ RegionParts(c) \in Nat \ {0}
    BY <1>3, RegionPartsFacts DEF IInv, IReq, JobPcs, RegionPcs
  <2>3. done[c] = ItemsOf(req[c].count, RegionParts(c), FinishedParts(c))
    BY <1>3 DEF IInv, IDone
  <2>4. \A i \in FinishedParts(c) : i \in 0 .. (RegionParts(c) - 1) /\ i # p
    BY <2>1 DEF FinishedParts
  <2>5. \A i \in FinishedParts(c) :
          Chunk(req[c].count, RegionParts(c), p)
            \cap Chunk(req[c].count, RegionParts(c), i) = {}
    BY <2>2, <2>4, ChunksDisjoint
  <2>6. Executing(t, c) \cap done[c] = {}
    BY <2>1, <2>3, <2>5 DEF ItemsOf
  <2>7. Executing(t, c) \subseteq 0 .. (req[c].count - 1)
    BY <2>1, <2>2, ChunksCover
  <2> QED BY <2>6, <2>7
<1> QED BY <1>1, <1>2, <1>3, ExecutingPart

\* Two threads inside the callback of one region are on disjoint items, none of
\* which was executed before: a callback's plain writes by item do not race.
THEOREM PoolRangesDisjoint == Spec => []RangesDisjoint
<1>1. ASSUME IInv, NEW c \in Callers, NEW t \in Threads, NEW u \in Threads \ {t}
      PROVE  Executing(t, c) \cap Executing(u, c) = {}
  <2>1. CASE Executing(t, c) = {} \/ Executing(u, c) = {}
    BY <2>1
  <2>2. CASE Executing(t, c) # {} /\ Executing(u, c) # {}
    <3>1. CASE pc[c] = "solo"
      BY <1>1, <2>2, <3>1, ExecutingPart DEF JobPcs
    <3>2. CASE pc[c] # "solo"
      <4>1. control = c /\ pc[c] \in JobPcs
        BY <1>1, <2>2, <3>2, ExecutingPart
      <4>2. PICK p \in 0 .. (RegionParts(c) - 1) :
              /\ p = IF t \in Callers THEN 0 ELSE t
              /\ Executing(t, c) = Chunk(req[c].count, RegionParts(c), p)
        BY <1>1, <2>2, <3>2, ExecutingPart
      <4>3. PICK q \in 0 .. (RegionParts(c) - 1) :
              /\ q = IF u \in Callers THEN 0 ELSE u
              /\ Executing(u, c) = Chunk(req[c].count, RegionParts(c), q)
        BY <1>1, <2>2, <3>2, ExecutingPart
      <4>4. p # q
        <5>1. ~(t \in Callers /\ u \in Callers)
          BY <2>2 DEF Executing
        <5>2. \A x \in Threads : x \in Callers \/ (x \in Workers /\ x # 0)
          BY PoolAssumption DEF Threads, Workers
        <5> QED BY <4>2, <4>3, <5>1, <5>2
      <4>5. req[c].count \in Nat /\ RegionParts(c) \in Nat \ {0}
        BY <1>1, <4>1, RegionPartsFacts DEF IInv, IReq, JobPcs, RegionPcs
      <4> QED BY <4>2, <4>3, <4>4, <4>5, ChunksDisjoint
    <3> QED BY <3>1, <3>2
  <2> QED BY <2>1, <2>2
<1>2. IInv => RangesDisjoint
  BY <1>1, ExecutingNew DEF RangesDisjoint
<1> QED BY <1>2, PoolInvariant, PTL

\* Steps that neither begin nor end a region nor execute items.
LEMMA RegionStutter ==
  ASSUME done' = done,
         \A d \in Callers : /\ pc'[d] \in RegionPcs <=> pc[d] \in RegionPcs
                            /\ pc[d] \in RegionPcs => req'[d].count = req[d].count
  PROVE  UNCHANGED Region!vars
<1>1. RegionSize' = RegionSize
  BY DEF RegionSize
<1> QED BY <1>1 DEF Region!vars

\* A thread that leaves a callback executes its range in the abstract region.
LEMMA RegionExecute ==
  ASSUME IInv, NEW c \in Callers, NEW t \in Threads, pc[c] \in RegionPcs,
         Executing(t, c) # {}, UNCHANGED req,
         done' = [done EXCEPT ![c] = @ \cup Executing(t, c)],
         \A d \in Callers : pc'[d] \in RegionPcs <=> pc[d] \in RegionPcs
  PROVE  Region!Next
<1>1. RegionSize' = RegionSize
  BY DEF RegionSize
<1>2. RegionSize[c] = req[c].count
  BY DEF RegionSize
<1>3. req[c].count # 0
  BY PoolAssumption DEF IInv, IReq
<1>4. Executing(t, c) \subseteq Region!Items(c) \ done[c]
  BY <1>2, ExecutingNew DEF Region!Items
<1>5. Region!Execute(c, Executing(t, c))
  BY <1>1, <1>2, <1>3, <1>4 DEF Region!Execute
<1>6. Executing(t, c) \in SUBSET Region!Items(c)
  BY <1>4
<1> QED BY <1>5, <1>6 DEF Region!Next

\* When every part has finished, every item has been executed.
LEMMA RegionComplete ==
  ASSUME IInv, NEW c \in Callers, pc[c] = "wait", pending = 0
  PROVE  done[c] = 0 .. (req[c].count - 1)
<1>1. control = c /\ JobOut
  BY DEF IInv, IControl, RegionPcs, JobOut, JobPcs
<1>2. Unreported = {} /\ spawned = total - 1
  <2>1. /\ Cardinality(Unreported) \in Nat /\ spawned \in Nat /\ total \in Nat
        /\ Cardinality(Unreported) = 0 <=> Unreported = {}
    BY PoolAssumption, UnreportedFacts DEF IInv, TypeOK
  <2>2. spawned <= total - 1 /\ 0 = Cardinality(Unreported) + (total - 1 - spawned)
    BY <1>1 DEF IInv, IThreads, IJob
  <2> QED BY <2>1, <2>2
<1>3. req[c].count \in Nat /\ RegionParts(c) \in Nat \ {0}
  BY RegionPartsFacts DEF IInv, IReq, RegionPcs
<1>4. FinishedParts(c) = 0 .. (RegionParts(c) - 1)
  <2>1. RegionParts(c) \in 1 .. total /\ total \in Nat
    BY RegionPartsFacts, PoolAssumption DEF IInv, IReq, RegionPcs, TypeOK
  <2> QED BY <1>2, <2>1 DEF FinishedParts, PartFinished
<1>5. done[c] = ItemsOf(req[c].count, RegionParts(c), FinishedParts(c))
  BY <1>1 DEF IInv, IDone, JobPcs
<1> QED BY <1>3, <1>4, <1>5, ChunksCover, SMTT(30) DEF ItemsOf

LEMMA RegionReturn ==
  ASSUME IInv, NEW c \in Callers, pc[c] \in RegionPcs, EndRegion(c), UNCHANGED req,
         done[c] = 0 .. (req[c].count - 1)
  PROVE  Region!Next
<1>1. RegionSize[c] = req[c].count /\ req[c].count # 0
  BY PoolAssumption DEF RegionSize, IInv, IReq
<1>2. pc \in [Callers -> CallerPcs]
  BY DEF IInv, TypeOK
<1>3. RegionSize' = [RegionSize EXCEPT ![c] = 0]
  BY <1>2 DEF RegionSize, EndRegion, RegionPcs
<1>4. done' = [done EXCEPT ![c] = {}]
  BY DEF EndRegion
<1>5. Region!Return(c)
  BY <1>1, <1>3, <1>4 DEF Region!Return, Region!Items
<1> QED BY <1>5 DEF Region!Next

LEMMA RegionStart ==
  ASSUME IInv, NEW c \in Callers, AcquireRun(c)
  PROVE  Region!Next
<1>1. \A d \in Callers : pc[d] \notin RegionPcs
  BY PoolAssumption DEF IInv, IControl, AcquireRun
<1>2. \A d \in Callers : RegionSize[d] = 0
  BY <1>1 DEF RegionSize
<1>3. req[c].count \in Counts /\ req[c].count \in Nat \ {0}
  BY PoolAssumption DEF IInv, IReq, AcquireRun
<1>4. pc'[c] \in RegionPcs /\ \A d \in Callers : d # c => pc'[d] = pc[d]
  BY DEF IInv, TypeOK, AcquireRun, RegionPcs
<1>5. RegionSize' = [RegionSize EXCEPT ![c] = req[c].count]
  BY <1>1, <1>4 DEF RegionSize, AcquireRun
<1>6. Region!Start(c, req[c].count)
  BY <1>2, <1>3, <1>5 DEF Region!Start, AcquireRun, bodyVars
<1> QED BY <1>3, <1>6 DEF Region!Next

LEMMA RegionStep ==
  ASSUME IInv, [Next]_vars
  PROVE  Region!Next \/ UNCHANGED Region!vars
<1> USE DEF callerVars, jobVars, workerVars, poolVars, bodyVars
<1>0. TypeOK /\ IControl /\ IReq
  BY DEF IInv
<1>1. CASE UNCHANGED vars
  BY <1>1, RegionStutter DEF vars
<1>2. ASSUME NEW c \in Callers, CallRun(c) \/ CallResize(c) \/ Destroy(c) \/ CallerSpurious(c)
      PROVE  UNCHANGED Region!vars
  <2> USE <1>0 DEF TypeOK, RegionPcs
  <2>1. CASE CallRun(c)
    BY <2>1, RegionStutter DEF CallRun
  <2>2. CASE CallResize(c)
    BY <2>2, RegionStutter DEF CallResize
  <2>3. CASE Destroy(c)
    BY <2>3, RegionStutter DEF Destroy
  <2>4. CASE CallerSpurious(c)
    BY <2>4, RegionStutter DEF CallerSpurious
  <2> QED BY <1>2, <2>1, <2>2, <2>3, <2>4
<1>3. ASSUME NEW c \in Callers, CallerStep(c)
      PROVE  Region!Next \/ UNCHANGED Region!vars
  <2>1. CASE AcquireRun(c)
    BY <2>1, RegionStart
  <2>2. CASE SoloBodyDone(c)
    <3>1. /\ pc[c] = "solo" /\ done' = [done EXCEPT ![c] = @ \cup 0 .. (req[c].count - 1)]
          /\ pc' = [pc EXCEPT ![c] = "soloDone"] /\ UNCHANGED req
      BY <2>2 DEF SoloBodyDone
    <3>2. Executing(c, c) = 0 .. (req[c].count - 1) /\ c \in Threads
      BY <3>1 DEF Executing, Threads
    <3>3. req[c].count \in Nat \ {0} /\ pc[c] \in RegionPcs
      BY <1>0, <3>1, PoolAssumption DEF IReq, RegionPcs
    <3>4. Executing(c, c) # {}
      <4>1. 0 \in 0 .. (req[c].count - 1)
        BY <3>3
      <4> QED BY <3>2, <4>1
    <3>5. \A d \in Callers : pc'[d] \in RegionPcs <=> pc[d] \in RegionPcs
      BY <1>0, <3>1 DEF TypeOK, RegionPcs
    <3>6. done' = [done EXCEPT ![c] = @ \cup Executing(c, c)]
      BY <3>1, <3>2
    <3> QED BY <3>1, <3>2, <3>3, <3>4, <3>5, <3>6, RegionExecute
  <2>3. CASE SoloReturn(c)
    <3>1. pc[c] = "soloDone" /\ EndRegion(c) /\ UNCHANGED req
      BY <2>3 DEF SoloReturn
    <3>2. done[c] = 0 .. (req[c].count - 1) /\ pc[c] \in RegionPcs
      BY <3>1 DEF IInv, IDone, JobPcs, RegionPcs
    <3> QED BY <3>1, <3>2, RegionReturn
  <2>4. CASE Chunk0Done(c)
    <3>1. /\ pc[c] = "chunk0" /\ pc' = [pc EXCEPT ![c] = "wait"] /\ UNCHANGED req
          /\ done' = [done EXCEPT ![c] =
                        @ \cup Chunk(req[c].count, RegionParts(c), 0)]
      BY <2>4 DEF Chunk0Done
    <3>2. /\ Executing(c, c) = Chunk(req[c].count, RegionParts(c), 0)
          /\ c \in Threads /\ pc[c] \in RegionPcs
      BY <3>1 DEF Executing, Threads, RegionPcs
    <3>3. Executing(c, c) # {}
      <4>1. /\ req[c].count \in Nat \ {0} /\ RegionParts(c) \in Nat \ {0}
            /\ RegionParts(c) <= req[c].count
        BY <1>0, <3>2, RegionPartsFacts DEF IReq
      <4> QED BY <3>2, <4>1, ChunksNotEmpty
    <3>4. \A d \in Callers : pc'[d] \in RegionPcs <=> pc[d] \in RegionPcs
      BY <1>0, <3>1 DEF TypeOK, RegionPcs
    <3>5. done' = [done EXCEPT ![c] = @ \cup Executing(c, c)]
      BY <3>1, <3>2
    <3> QED BY <3>1, <3>2, <3>3, <3>4, <3>5, RegionExecute
  <2>5. CASE WaitDone(c)
    <3>1. CASE pending = 0
      BY <2>5, <3>1, RegionComplete, RegionReturn DEF WaitDone, AllReported, RegionPcs
    <3>2. CASE pending # 0
      BY <1>0, <2>5, <3>2, RegionStutter DEF WaitDone, AllReported, TypeOK, RegionPcs
    <3> QED BY <3>1, <3>2
  <2>6. CASE Post(c) \/ NotifyStart(c)
    BY <1>0, <2>6, RegionStutter DEF Post, NotifyStart, TypeOK, RegionPcs
  <2>7. CASE AcquireResize(c) \/ AcquireDestroy(c) \/ SetStop(c) \/ NotifyStop(c)
    BY <1>0, <2>7, RegionStutter
       DEF AcquireResize, AcquireDestroy, SetStop, NotifyStop, TypeOK, RegionPcs
  <2>8. CASE Join(c) \/ ClearStop(c) \/ Spawn(c) \/ SpawnDone(c)
    BY <1>0, <2>8, RegionStutter DEF Join, ClearStop, Spawn, SpawnDone, TypeOK, RegionPcs
  <2>9. CASE SpawnFail(c)
    BY <1>0, <2>9, RegionStutter DEF SpawnFail, TypeOK, RegionPcs
  <2> QED BY <1>3, <2>1, <2>2, <2>3, <2>4, <2>5, <2>6, <2>7, <2>8, <2>9 DEF CallerStep
<1>4. ASSUME NEW w \in Workers, WorkerStep(w) \/ WorkerSpurious(w)
      PROVE  Region!Next \/ UNCHANGED Region!vars
  <2>1. CASE WorkerBodyDone(w)
    <3> DEFINE c == wjob[w].ctx
    <3>1. /\ wpc[w] = "chunk" /\ UNCHANGED <<req, pc>>
          /\ done' = [done EXCEPT ![c] = @ \cup WorkerChunk(w)]
      BY <2>1 DEF WorkerBodyDone
    <3>2. w \in 1 .. spawned
      BY <3>1, PoolAssumption DEF IInv, TypeOK, IThreads, Workers
    <3>3. JobOut /\ wjob[w] = job /\ HasChunk(w)
      BY <3>1, <3>2 DEF IInv, IWorkers
    <3>4. /\ c \in Callers /\ c = control /\ pc[c] \in RegionPcs
          /\ wjob[w].count = req[c].count /\ wjob[w].parts = RegionParts(c)
      BY <3>3 DEF IInv, IJob, JobOut, JobPcs, RegionPcs
    <3>5. w \in Threads /\ w \notin Callers
      BY PoolAssumption DEF Threads
    <3>6. Executing(w, c) = WorkerChunk(w)
      BY <3>1, <3>5 DEF Executing
    <3>7. Executing(w, c) # {}
      <4>1. /\ req[c].count \in Nat \ {0} /\ RegionParts(c) \in Nat \ {0}
            /\ RegionParts(c) <= req[c].count
        BY <1>0, <3>4, RegionPartsFacts DEF IReq
      <4>2. w \in 0 .. (RegionParts(c) - 1)
        BY <3>3, <3>4, <4>1 DEF HasChunk, Workers
      <4> QED BY <3>4, <3>6, <4>1, <4>2, ChunksNotEmpty DEF WorkerChunk
    <3> HIDE DEF c
    <3>8. done' = [done EXCEPT ![c] = @ \cup Executing(w, c)]
      BY <3>1, <3>6
    <3> QED BY <3>1, <3>4, <3>5, <3>7, <3>8, RegionExecute
  <2>2. CASE WorkerReport(w)
    BY <1>0, <2>2, RegionStutter DEF WorkerReport, WakeCaller, TypeOK, RegionPcs
  <2>3. CASE WorkerExit(w) \/ WorkerTake(w) \/ WorkerSleep(w) \/ WorkerSpurious(w)
               \/ WorkerBegin(w)
    BY <2>3, RegionStutter DEF WorkerExit, WorkerTake, WorkerSleep, WorkerSpurious,
                               WorkerBegin
  <2> QED BY <1>4, <2>1, <2>2, <2>3 DEF WorkerStep
<1>5. ASSUME NEW t \in Threads, NestedCall(t) \/ NestedStep(t)
      PROVE  UNCHANGED Region!vars
  BY <1>5, RegionStutter DEF NestedCall, NestedStep, NestedEnter, NestedReturn
<1> QED BY <1>1, <1>2, <1>3, <1>4, <1>5 DEF Next

\* The pool implements the abstract parallel region: every item of a region is
\* executed exactly once, between the call and its return, and top-level regions
\* do not overlap.
THEOREM PoolImplementsRegion == Spec => ImplementsRegion
<1>1. Init => Region!Init
  BY DEF Init, Region!Init, RegionSize, RegionPcs
<1>2. IInv /\ [Next]_vars => [Region!Next]_(Region!vars)
  BY RegionStep
<1> QED BY <1>1, <1>2, PoolInvariant, PTL DEF Spec, ImplementsRegion, Region!Spec
=============================================================================

----------------------------- MODULE ForkJoinPool -----------------------------
(***************************************************************************)
(* The kernel-internal fork-join pool, src/threading/thread_pool.cpp.      *)
(*                                                                         *)
(* Application threads (Callers) run parallel regions and resize the pool; *)
(* pool threads (Workers, numbered from 1 as in the code) execute chunk w  *)
(* of the current region.  control_m_ is held across a whole region or     *)
(* resize and is modelled by its owner.  m_ only protects short sections   *)
(* that block nowhere but in a condition variable, so one action is one    *)
(* critical section of m_.  A thread inside cv_start_.wait or cv_done_.wait*)
(* is "asleep"; a notify puts it back before its predicate, and so does a  *)
(* spurious wakeup.                                                        *)
(***************************************************************************)
EXTENDS ChunkPartition, FiniteSets

CONSTANTS Callers,        \* application threads
          MaxThreads,     \* the clamp of resize() (512 in the code)
          GenModulus,     \* generation_ counts modulo this (2^64 in the code)
          Counts,         \* region sizes asked for (all positive: run()
                          \*   returns at once on count <= 0)
          MinPerChunks,   \* min_per_chunk arguments
          ThreadArgs,     \* set_num_threads arguments
          SpawnMayFail,   \* whether std::thread's constructor may throw
          NoThread        \* not a caller: control_m_ is free

Workers == 1 .. (MaxThreads - 1)
Threads == Callers \cup Workers

ASSUME PoolAssumption ==
  /\ MaxThreads \in Nat \ {0}
  /\ GenModulus \in Nat /\ GenModulus >= 2
  /\ Counts \subseteq Nat \ {0}
  /\ MinPerChunks \subseteq Int
  /\ ThreadArgs \subseteq Int
  /\ SpawnMayFail \in BOOLEAN
  /\ Callers \cap Workers = {}
  /\ NoThread \notin Callers

VARIABLES
  pc,          \* pc[c]: where caller c is
  req,         \* req[c]: the arguments of c's current call
  control,     \* owner of control_m_
  total,       \* total_
  spawned,     \* workers_.size(): workers 1..spawned exist
  initGen,     \* the resizer's initial_generation
  generation,  \* generation_
  pending,     \* pending_
  stop,        \* stop_
  job,         \* job_fn_ (is it set), job_ctx_, job_count_, job_parts_
  wpc,         \* wpc[w]: where worker w is ("none": no such thread)
  seen,        \* seen[w]: the worker's local generation
  wjob,        \* wjob[w]: the worker's copy of the job
  tls,         \* tls[t]: tls_in_parallel of thread t
  nest,        \* nest[t]: the nested call the callback of t makes
  done,        \* done[c]: items of c's region executed so far
  alive        \* FALSE once ~Pool has begun

callerVars == <<pc, req>>
jobVars    == <<generation, pending, stop, job>>
workerVars == <<wpc, seen, wjob>>
poolVars   == <<total, spawned, initGen, alive>>
bodyVars   == <<tls, nest, done>>
vars == <<callerVars, control, jobVars, workerVars, poolVars, bodyVars>>

NoReq == [count |-> 0, min |-> 1, threads |-> 1]
NoJob == [fn |-> FALSE, ctx |-> NoThread, count |-> 0, parts |-> 0]

Jobs == [fn : BOOLEAN, ctx : Callers \cup {NoThread},
         count : Counts \cup {0}, parts : 0 .. MaxThreads]

\* Callers that are inside a region they started (control_m_ is theirs).
RegionPcs == {"solo", "soloDone", "post", "notify", "chunk0", "wait", "asleep"}
\* Callers that are inside resize or ~Pool, with control_m_ theirs.
ResizePcs == {"stop", "notifyStop", "join", "clearStop", "spawn"}
WaitPcs   == {"wantRun", "wantResize", "wantDestroy"}
CallerPcs == {"idle"} \cup WaitPcs \cup RegionPcs \cup ResizePcs

WorkerPcs == {"none", "loop", "asleep", "got", "chunk", "report", "exited"}

\* Types: total_ is a thread count in [1, kMaxThreads] (thread_pool.cpp:42-47), the
\* generation stays in its counter's width, and job_ holds a whole job or none.
TypeOK ==
  /\ pc \in [Callers -> CallerPcs]
  /\ req \in [Callers -> [count : Counts \cup {0}, min : Int,
                          threads : 1 .. MaxThreads]]
  /\ control \in Callers \cup {NoThread}
  /\ total \in 1 .. MaxThreads
  /\ spawned \in 0 .. (MaxThreads - 1)
  /\ initGen \in 0 .. (GenModulus - 1)
  /\ generation \in 0 .. (GenModulus - 1)
  /\ pending \in 0 .. (MaxThreads - 1)
  /\ stop \in BOOLEAN
  /\ job \in Jobs
  /\ wpc \in [Workers -> WorkerPcs]
  /\ seen \in [Workers -> 0 .. (GenModulus - 1)]
  /\ wjob \in [Workers -> Jobs]
  /\ tls \in [Threads -> BOOLEAN]
  /\ nest \in [Threads -> {"no", "calling", "inline", "returned"}]
  /\ done \in [Callers -> SUBSET Nat]
  /\ alive \in BOOLEAN

Init ==
  /\ pc = [c \in Callers |-> "idle"]
  /\ req = [c \in Callers |-> NoReq]
  /\ control = NoThread
  /\ total = 1 /\ spawned = 0 /\ initGen = 0
  /\ generation = 0 /\ pending = 0 /\ stop = FALSE /\ job = NoJob
  /\ wpc = [w \in Workers |-> "none"]
  /\ seen = [w \in Workers |-> 0]
  /\ wjob = [w \in Workers |-> NoJob]
  /\ tls = [t \in Threads |-> FALSE]
  /\ nest = [t \in Threads |-> "no"]
  /\ done = [c \in Callers |-> {}]
  /\ alive = TRUE

\* Operators whose name ends in an underscore and a word are defects the code
\* could have in place of the definition they precede.
NextGeneration_Stuck == generation
NextGeneration == (generation + 1) % GenModulus
ClampThreads_Unclamped(n) == n
ClampThreads(n) == IF n < 1 THEN 1 ELSE IF n > MaxThreads THEN MaxThreads ELSE n
RegionParts(c) == Parts(req[c].count, req[c].min, total)

-----------------------------------------------------------------------------
(* Calls, and the callbacks they run.                                      *)

\* The application calls parallel_ranges outside any region.
CallRun(c) ==
  /\ alive /\ pc[c] = "idle"
  /\ \E n \in Counts, m \in MinPerChunks :
       req' = [req EXCEPT ![c] = [count |-> n, min |-> m, threads |-> 1]]
  /\ pc' = [pc EXCEPT ![c] = "wantRun"]
  /\ UNCHANGED <<control, jobVars, workerVars, poolVars, bodyVars>>

\* The application calls set_num_threads.
CallResize(c) ==
  /\ alive /\ pc[c] = "idle"
  /\ \E n \in ThreadArgs :
       req' = [req EXCEPT ![c] =
                 [count |-> 0, min |-> 1, threads |-> ClampThreads(n)]]
  /\ pc' = [pc EXCEPT ![c] = "wantResize"]
  /\ UNCHANGED <<control, jobVars, workerVars, poolVars, bodyVars>>

\* Static destruction: no other thread still uses the pool.
Destroy(c) ==
  /\ alive /\ \A d \in Callers : pc[d] = "idle"
  /\ pc' = [pc EXCEPT ![c] = "wantDestroy"]
  /\ alive' = FALSE
  /\ UNCHANGED <<req, control, jobVars, workerVars, total, spawned, initGen,
                 bodyVars>>

\* A callback is running on thread t.
InBody(t) == IF t \in Callers THEN pc[t] \in {"solo", "chunk0"}
                              ELSE wpc[t] = "chunk"

RunsInline_CallerOnly(t) == t \in Callers /\ tls[t]
\* The test at the head of run(): a nested call executes inline.
RunsInline(t) == tls[t]

\* A callback calls parallel_ranges (at most once per callback here).
NestedCall(t) ==
  /\ InBody(t) /\ nest[t] = "no"
  /\ nest' = [nest EXCEPT ![t] = "calling"]
  /\ UNCHANGED <<callerVars, control, jobVars, workerVars, poolVars, tls, done>>

\* The nested call runs its range inline; otherwise it would lock control_m_,
\* which the caller of the enclosing region holds.
NestedEnter(t) ==
  /\ nest[t] = "calling"
  /\ RunsInline(t) \/ control = NoThread
  /\ nest' = [nest EXCEPT ![t] = "inline"]
  /\ UNCHANGED <<callerVars, control, jobVars, workerVars, poolVars, tls, done>>

NestedReturn(t) ==
  /\ nest[t] = "inline"
  /\ nest' = [nest EXCEPT ![t] = "returned"]
  /\ UNCHANGED <<callerVars, control, jobVars, workerVars, poolVars, tls, done>>

\* The callback of t may end: it is not inside a nested call.
BodyMayEnd(t) == nest[t] \in {"no", "returned"}
EnterBody(t) == tls' = [tls EXCEPT ![t] = TRUE]
LeaveBody_KeepsFlag(t) == UNCHANGED tls /\ nest' = [nest EXCEPT ![t] = "no"]
LeaveBody(t) == /\ tls' = [tls EXCEPT ![t] = FALSE]
                /\ nest' = [nest EXCEPT ![t] = "no"]

-----------------------------------------------------------------------------
(* Pool::run.                                                              *)

\* Lock control_m_, compute parts; a single part runs on the caller alone.
AcquireRun(c) ==
  /\ pc[c] = "wantRun" /\ control = NoThread
  /\ control' = c
  /\ \/ /\ RegionParts(c) = 1
        /\ pc' = [pc EXCEPT ![c] = "solo"]
        /\ EnterBody(c)
     \/ /\ RegionParts(c) # 1
        /\ pc' = [pc EXCEPT ![c] = "post"]
        /\ UNCHANGED tls
  /\ UNCHANGED <<req, jobVars, workerVars, poolVars, nest, done>>

\* Return from run(): control_m_ is released.  (done[c] is the record of the
\* region that ends here, so it ends with it.)
EndRegion(c) == /\ control' = NoThread
                /\ pc' = [pc EXCEPT ![c] = "idle"]
                /\ done' = [done EXCEPT ![c] = {}]

\* The callback of a one-part region returns.
SoloBodyDone(c) ==
  /\ pc[c] = "solo" /\ BodyMayEnd(c)
  /\ done' = [done EXCEPT ![c] = @ \cup 0 .. (req[c].count - 1)]
  /\ LeaveBody(c)
  /\ pc' = [pc EXCEPT ![c] = "soloDone"]
  /\ UNCHANGED <<req, control, jobVars, workerVars, poolVars>>

SoloReturn(c) ==
  /\ pc[c] = "soloDone"
  /\ EndRegion(c)
  /\ UNCHANGED <<req, jobVars, workerVars, poolVars, tls, nest>>

\* Publish the job under m_.
Post(c) ==
  /\ pc[c] = "post"
  /\ job' = [fn |-> TRUE, ctx |-> c, count |-> req[c].count,
             parts |-> RegionParts(c)]
  /\ pending' = total - 1
  /\ generation' = NextGeneration
  /\ pc' = [pc EXCEPT ![c] = "notify"]
  /\ UNCHANGED <<req, control, stop, workerVars, poolVars, bodyVars>>

WakeAll == wpc' = [w \in Workers |-> IF wpc[w] = "asleep" THEN "loop"
                                                          ELSE wpc[w]]

\* cv_start_.notify_all(), then the caller enters the callback on chunk 0.
NotifyStart(c) ==
  /\ pc[c] = "notify"
  /\ WakeAll
  /\ EnterBody(c)
  /\ pc' = [pc EXCEPT ![c] = "chunk0"]
  /\ UNCHANGED <<req, control, jobVars, seen, wjob, poolVars, nest, done>>

Chunk0Done(c) ==
  /\ pc[c] = "chunk0" /\ BodyMayEnd(c)
  /\ done' = [done EXCEPT ![c] = @ \cup Chunk(req[c].count, RegionParts(c), 0)]
  /\ LeaveBody(c)
  /\ pc' = [pc EXCEPT ![c] = "wait"]
  /\ UNCHANGED <<req, control, jobVars, workerVars, poolVars>>

AllReported_OffByOne == pending <= 1
\* cv_done_.wait: with m_ held, either every worker has reported and run()
\* returns, or the caller goes to sleep.
AllReported == pending = 0
WaitDone(c) ==
  /\ pc[c] = "wait"
  /\ \/ /\ AllReported
        /\ job' = [job EXCEPT !.fn = FALSE]
        /\ EndRegion(c)
     \/ /\ ~AllReported
        /\ pc' = [pc EXCEPT ![c] = "asleep"]
        /\ UNCHANGED <<job, control, done>>
  /\ UNCHANGED <<req, generation, pending, stop, workerVars, poolVars, tls, nest>>

CallerSpurious(c) ==
  /\ pc[c] = "asleep"
  /\ pc' = [pc EXCEPT ![c] = "wait"]
  /\ UNCHANGED <<req, control, jobVars, workerVars, poolVars, bodyVars>>

-----------------------------------------------------------------------------
(* Pool::resize, Pool::stop_workers and ~Pool.                             *)

\* Lock control_m_; a resize to the present size returns at once.
AcquireResize(c) ==
  /\ pc[c] = "wantResize" /\ control = NoThread
  /\ \/ /\ req[c].threads = total
        /\ pc' = [pc EXCEPT ![c] = "idle"]
        /\ UNCHANGED control
     \/ /\ req[c].threads # total
        /\ pc' = [pc EXCEPT ![c] = "stop"]
        /\ control' = c
  /\ UNCHANGED <<req, jobVars, workerVars, poolVars, bodyVars>>

AcquireDestroy(c) ==
  /\ pc[c] = "wantDestroy" /\ control = NoThread
  /\ control' = c
  /\ pc' = [pc EXCEPT ![c] = "stop"]
  /\ UNCHANGED <<req, jobVars, workerVars, poolVars, bodyVars>>

\* stop_workers: raise stop_ under m_ ...
SetStop(c) ==
  /\ pc[c] = "stop"
  /\ stop' = TRUE
  /\ generation' = NextGeneration
  /\ pc' = [pc EXCEPT ![c] = "notifyStop"]
  /\ UNCHANGED <<req, control, pending, job, workerVars, poolVars, bodyVars>>

\* ... wake every worker ...
NotifyStop(c) ==
  /\ pc[c] = "notifyStop"
  /\ WakeAll
  /\ pc' = [pc EXCEPT ![c] = "join"]
  /\ UNCHANGED <<req, control, jobVars, seen, wjob, poolVars, bodyVars>>

\* ... join them all and clear workers_ ...
Join(c) ==
  /\ pc[c] = "join"
  /\ \A w \in 1 .. spawned : wpc[w] = "exited"
  /\ wpc' = [w \in Workers |-> "none"]
  /\ spawned' = 0
  /\ pc' = [pc EXCEPT ![c] = "clearStop"]
  /\ UNCHANGED <<req, control, jobVars, seen, wjob, total, initGen, alive,
                 bodyVars>>

\* ... and lower stop_ again.  ~Pool ends here; resize goes on to store total_
\* and to read generation_ for the workers it is about to create.
ClearStop(c) ==
  /\ pc[c] = "clearStop"
  /\ stop' = FALSE
  /\ \/ /\ alive
        /\ total' = req[c].threads
        /\ initGen' = generation
        /\ pc' = [pc EXCEPT ![c] = "spawn"]
        /\ UNCHANGED control
     \/ /\ ~alive
        /\ control' = NoThread
        /\ pc' = [pc EXCEPT ![c] = "idle"]
        /\ UNCHANGED <<total, initGen>>
  /\ UNCHANGED <<req, generation, pending, job, workerVars, spawned, alive,
                 bodyVars>>

Spawn_SeenZero(c) ==
  /\ pc[c] = "spawn" /\ spawned < total - 1
  /\ spawned' = spawned + 1
  /\ wpc' = [wpc EXCEPT ![spawned + 1] = "loop"]
  /\ seen' = [seen EXCEPT ![spawned + 1] = 0]
  /\ UNCHANGED <<callerVars, control, jobVars, wjob, total, initGen, alive,
                 bodyVars>>

\* workers_.emplace_back: the new thread runs from here on.
Spawn(c) ==
  /\ pc[c] = "spawn" /\ spawned < total - 1
  /\ spawned' = spawned + 1
  /\ wpc' = [wpc EXCEPT ![spawned + 1] = "loop"]
  /\ seen' = [seen EXCEPT ![spawned + 1] = initGen]
  /\ UNCHANGED <<callerVars, control, jobVars, wjob, total, initGen, alive,
                 bodyVars>>

\* All workers exist: resize returns.
SpawnDone(c) ==
  /\ pc[c] = "spawn" /\ spawned = total - 1
  /\ control' = NoThread
  /\ pc' = [pc EXCEPT ![c] = "idle"]
  /\ UNCHANGED <<req, jobVars, workerVars, poolVars, bodyVars>>

\* reserve or emplace_back throws: the lock guard releases control_m_, and
\* total_ keeps the size that was asked for.
SpawnFail(c) ==
  /\ SpawnMayFail
  /\ pc[c] = "spawn" /\ spawned < total - 1
  /\ control' = NoThread
  /\ pc' = [pc EXCEPT ![c] = "idle"]
  /\ UNCHANGED <<req, jobVars, workerVars, poolVars, bodyVars>>

-----------------------------------------------------------------------------
(* Pool::worker_loop.                                                      *)

\* cv_start_.wait with m_ held: exit, take the job, or sleep.
WorkerExit(w) ==
  /\ wpc[w] = "loop" /\ stop
  /\ wpc' = [wpc EXCEPT ![w] = "exited"]
  /\ UNCHANGED <<callerVars, control, jobVars, seen, wjob, poolVars, bodyVars>>

WorkerTake(w) ==
  /\ wpc[w] = "loop" /\ ~stop /\ generation # seen[w]
  /\ seen' = [seen EXCEPT ![w] = generation]
  /\ wjob' = [wjob EXCEPT ![w] = job]
  /\ wpc' = [wpc EXCEPT ![w] = "got"]
  /\ UNCHANGED <<callerVars, control, jobVars, poolVars, bodyVars>>

WorkerSleep(w) ==
  /\ wpc[w] = "loop" /\ ~stop /\ generation = seen[w]
  /\ wpc' = [wpc EXCEPT ![w] = "asleep"]
  /\ UNCHANGED <<callerVars, control, jobVars, seen, wjob, poolVars, bodyVars>>

WorkerSpurious(w) ==
  /\ wpc[w] = "asleep"
  /\ wpc' = [wpc EXCEPT ![w] = "loop"]
  /\ UNCHANGED <<callerVars, control, jobVars, seen, wjob, poolVars, bodyVars>>

\* Is chunk w part of the job the worker copied?
HasChunk(w) == wjob[w].fn /\ w < wjob[w].parts

\* Enter the callback, or skip it when the job has fewer parts.
WorkerBegin(w) ==
  /\ wpc[w] = "got"
  /\ \/ /\ HasChunk(w)
        /\ wpc' = [wpc EXCEPT ![w] = "chunk"]
        /\ EnterBody(w)
     \/ /\ ~HasChunk(w)
        /\ wpc' = [wpc EXCEPT ![w] = "report"]
        /\ UNCHANGED tls
  /\ UNCHANGED <<callerVars, control, jobVars, seen, wjob, poolVars, nest, done>>

WorkerChunk(w) == Chunk(wjob[w].count, wjob[w].parts, w)

WorkerBodyDone(w) ==
  /\ wpc[w] = "chunk" /\ BodyMayEnd(w)
  /\ done' = [done EXCEPT ![wjob[w].ctx] = @ \cup WorkerChunk(w)]
  /\ LeaveBody(w)
  /\ wpc' = [wpc EXCEPT ![w] = "report"]
  /\ UNCHANGED <<callerVars, control, jobVars, seen, wjob, poolVars>>

WakeCaller_Never(c) == pc[c]
\* Under m_: count down, and the last worker notifies the caller.
WakeCaller(c) == IF pc[c] = "asleep" THEN "wait" ELSE pc[c]
WorkerReport(w) ==
  /\ wpc[w] = "report"
  /\ pending' = pending - 1
  /\ wpc' = [wpc EXCEPT ![w] = "loop"]
  /\ pc' = IF pending' = 0 THEN [c \in Callers |-> WakeCaller(c)] ELSE pc
  /\ UNCHANGED <<req, control, generation, stop, job, seen, wjob, poolVars,
                 bodyVars>>

-----------------------------------------------------------------------------
\* The steps a caller that has begun a call takes by itself.
CallerStep(c) ==
  \/ AcquireRun(c) \/ SoloBodyDone(c) \/ SoloReturn(c)
  \/ Post(c) \/ NotifyStart(c) \/ Chunk0Done(c) \/ WaitDone(c)
  \/ AcquireResize(c) \/ AcquireDestroy(c) \/ SetStop(c) \/ NotifyStop(c)
  \/ Join(c) \/ ClearStop(c) \/ Spawn(c) \/ SpawnDone(c) \/ SpawnFail(c)

WorkerStep(w) ==
  \/ WorkerExit(w) \/ WorkerTake(w) \/ WorkerSleep(w) \/ WorkerBegin(w)
  \/ WorkerBodyDone(w) \/ WorkerReport(w)

NestedStep(t) == NestedEnter(t) \/ NestedReturn(t)

Next ==
  \/ \E c \in Callers : \/ CallRun(c) \/ CallResize(c) \/ Destroy(c)
                         \/ CallerStep(c) \/ CallerSpurious(c)
  \/ \E w \in Workers : WorkerStep(w) \/ WorkerSpurious(w)
  \/ \E t \in Threads : NestedCall(t) \/ NestedStep(t)

Spec == Init /\ [][Next]_vars

\* The operating system runs every thread that can run, and a callback ends
\* (its nested call at most delays it).  Nothing is assumed of who gets
\* control_m_ when it is contended, of spurious wakeups, or of new calls.
Fairness == /\ \A c \in Callers : WF_vars(CallerStep(c))
            /\ \A w \in Workers : WF_vars(WorkerStep(w))
            /\ \A t \in Threads : WF_vars(NestedStep(t))

FairSpec == Spec /\ Fairness

-----------------------------------------------------------------------------
(* Properties.                                                             *)

\* Items of [0, count) thread t is inside the callback for, in region c.
Executing(t, c) ==
  IF t \in Callers
  THEN CASE t = c /\ pc[c] = "solo" -> 0 .. (req[c].count - 1)
         [] t = c /\ pc[c] = "chunk0" -> Chunk(req[c].count, RegionParts(c), 0)
         [] OTHER -> {}
  ELSE IF wpc[t] = "chunk" /\ wjob[t].ctx = c THEN WorkerChunk(t) ELSE {}

\* Workers that owe the current region their report.
Unreported == {w \in 1 .. spawned : \/ wpc[w] \in {"got", "chunk", "report"}
                                    \/ /\ wpc[w] \in {"loop", "asleep"}
                                       /\ seen[w] # generation}

\* The caller's stack frame, which the callback and its captures live in,
\* outlives every use: a worker that holds a job holds the job of a caller
\* that is still inside run() (thread_pool.h: "Blocking").
NoUseAfterReturn ==
  \A w \in Workers : wpc[w] \in {"got", "chunk"} =>
     /\ wjob[w].ctx \in Callers
     /\ control = wjob[w].ctx
     /\ pc[wjob[w].ctx] \in {"notify", "chunk0", "wait", "asleep"}

\* Plain writes of a callback do not race: two threads inside the callback of
\* one region are on disjoint ranges, and no item executes a second time.
RangesDisjoint ==
  \A c \in Callers, t \in Threads :
     /\ Executing(t, c) \cap done[c] = {}
     /\ \A u \in Threads \ {t} : Executing(t, c) \cap Executing(u, c) = {}

\* pending_ is the number of workers that still owe a report, from Post to the
\* return of run(); outside a region it is 0.  This is what makes waiting for
\* pending_ = 0 wait for the right thing.
PendingCounts ==
  IF control \in Callers /\ pc[control] \in {"notify", "chunk0", "wait", "asleep"}
  THEN pending = Cardinality(Unreported)
  ELSE pending = 0

\* A pool nobody holds is quiet: stop_ is down, every worker index below total_
\* has a thread, and each worker has caught up with generation_, so that it
\* neither replays an old job nor skips the next one (test_threading.cpp:54).
QuietBetweenCalls ==
  control = NoThread =>
     /\ ~stop /\ ~job.fn
     /\ alive => spawned = total - 1
     /\ \A w \in 1 .. spawned : wpc[w] \in {"loop", "asleep"} /\ seen[w] = generation

\* tls_in_parallel is set exactly while a callback runs on the thread: left set
\* it would silently serialize the thread's later regions.
InParallelOnlyInBodies == \A t \in Threads : tls[t] <=> InBody(t)

\* Refinement: the pool implements the abstract region.
RegionSize == [c \in Callers |-> IF pc[c] \in RegionPcs THEN req[c].count ELSE 0]
Region == INSTANCE ParallelRegion WITH size <- RegionSize, done <- done
ImplementsRegion == Region!Spec

\* A call that has got control_m_ gives it back: no lost wakeup, no worker that
\* never reports, no join that never ends.
ControlReleased == \A c \in Callers : control = c ~> control # c

\* A region whose job has been published covers its range and returns to its
\* caller (thread_pool.h:19-24).  It needs a thread for every part.
PostedRegionReturns == \A c \in Callers : pc[c] = "notify" ~> pc[c] = "idle"

\* A nested parallel_ranges returns instead of deadlocking on control_m_.
NestedCallsReturn ==
  \A t \in Threads : nest[t] = "calling" ~> nest[t] # "calling"
-----------------------------------------------------------------------------
(* The inductive invariant behind the safety properties, whether or not    *)
(* thread creations fail.  Each conjunct is one idea.                      *)

\* The states of run() in which its job is published.
JobPcs == {"notify", "chunk0", "wait", "asleep"}
JobOut == control \in Callers /\ pc[control] \in JobPcs
StopPcs == {"notifyStop", "join", "clearStop"}
Stopping == control \in Callers /\ pc[control] \in StopPcs

\* control_m_ belongs to the caller that is past its lock, and to no other.
IControl == \A c \in Callers : control = c <=> pc[c] \in RegionPcs \cup ResizePcs

IBodies == /\ \A t \in Threads : tls[t] <=> InBody(t)
           /\ \A t \in Threads : nest[t] # "no" => InBody(t)

\* Worker indices are dense and below total_, which is their number outside a
\* resize when no thread creation fails.
IThreads ==
  /\ \A w \in Workers : wpc[w] = "none" <=> w > spawned
  /\ spawned <= total - 1
  /\ ~SpawnMayFail /\ alive /\ ~(control \in Callers /\ pc[control] \in ResizePcs)
       => spawned = total - 1
  /\ control \in Callers /\ pc[control] = "clearStop" => spawned = 0
  /\ control \in Callers /\ pc[control] = "spawn" =>
       initGen = generation

\* ~Pool runs alone.
IAlive == \A c \in Callers :
  IF alive THEN pc[c] # "wantDestroy"
  ELSE pc[c] \in {"idle", "wantDestroy", "stop"} \cup StopPcs

IStop == stop <=> Stopping

\* A worker is working only for the published job; otherwise it is caught up.
IWorkers == \A w \in 1 .. spawned :
  /\ wpc[w] = "exited" => stop
  /\ wpc[w] \in {"got", "chunk", "report"} =>
       JobOut /\ seen[w] = generation /\ wjob[w] = job
  /\ wpc[w] = "chunk" => HasChunk(w)
  /\ ~JobOut /\ ~Stopping => seen[w] = generation

\* pending_ also counts the workers below total_ that were never created.
IJob ==
  IF JobOut
  THEN /\ job = [fn |-> TRUE, ctx |-> control, count |-> req[control].count,
                 parts |-> RegionParts(control)]
       /\ pending = Cardinality(Unreported) + (total - 1 - spawned)
  ELSE ~job.fn /\ pending = 0

IReq == \A c \in Callers :
  pc[c] \in RegionPcs \cup {"wantRun"} => req[c].count \in Counts

\* The parts of c's published job whose callback has returned ...
PartFinished(c, i) ==
  IF i = 0 THEN pc[c] \in {"wait", "asleep"}
           ELSE i <= spawned /\ (i \notin Unreported \/ wpc[i] = "report")
FinishedParts(c) == {i \in 0 .. (RegionParts(c) - 1) : PartFinished(c, i)}

ItemsOf(count, parts, P) == UNION {Chunk(count, parts, i) : i \in P}

\* ... are exactly those whose items are recorded.
IDone == \A c \in Callers :
  done[c] = IF control = c /\ pc[c] \in JobPcs
            THEN ItemsOf(req[c].count, RegionParts(c), FinishedParts(c))
            ELSE IF pc[c] = "soloDone" THEN 0 .. (req[c].count - 1) ELSE {}

\* The inductive invariant of the pool: what holds before every step of any caller
\* or worker, and is strong enough to hold after it (ForkJoinPoolProofs).
IInv == /\ TypeOK /\ IControl /\ IBodies /\ IThreads /\ IAlive /\ IStop
        /\ IWorkers /\ IJob /\ IReq /\ IDone
=============================================================================

-------------------------- MODULE ValidationService --------------------------
(***************************************************************************)
(* Submission (backend/api/documents.py), the Redis queue (backend/queue.py)*)
(* and the workers that consume it (backend/pipeline/worker.py), down to   *)
(* the transactions by which run_validation() claims and finishes a run.   *)
(* What happens between the two is the module RunValidation.               *)
(*                                                                         *)
(* A run has one document and is submitted by one request.  Executors are  *)
(* the workers and, without Redis, the API process itself (background      *)
(* tasks).  The API reads USE_REDIS_QUEUE when it starts; a run is in      *)
(* Queued or not by the setting it was submitted under, so the instances   *)
(* Queued = Runs and Queued = {} are the two deployments, and any other a  *)
(* change from one to the other.  Redis and Postgres outlive the processes. *)
(***************************************************************************)
EXTENDS RunLifecycle, Naturals, Sequences, FiniteSets

CONSTANTS Workers,             \* worker processes
          Api,                 \* the API process
          NoRun,
          WorkerConcurrency,   \* settings.WORKER_CONCURRENCY
          Queued,              \* runs submitted with settings.USE_REDIS_QUEUE on
          MaxCrashes, MaxApiCrashes,   \* bounds on the faults
          MaxDbErrors, MaxRedisErrors, MaxLateReplies,
          MaxFlushed           \* bound: runs that are lost with the list of Redis

Executors == Workers \cup {Api}

ASSUME QueuedAssumption == Queued \subseteq Runs

ASSUME ServiceAssumption ==
  /\ Api \notin Workers
  /\ NoRun \notin Runs
  /\ WorkerConcurrency \in Nat \ {0}
  /\ {MaxCrashes, MaxApiCrashes, MaxDbErrors, MaxRedisErrors, MaxLateReplies,
      MaxFlushed} \subseteq Nat

VARIABLES blobs,        \* runs whose upload is in the blob store
          req,          \* the POST /documents request of each run
          queue,        \* the list in Redis: LPUSH at the left, BRPOP at the right
          main,         \* where each worker's main loop awaits
          free,         \* the value of each worker's semaphore
          reply,        \* the item popped for a worker, on its way to it
          job,          \* the run_validation() of each executor and run
          crashes, apiCrashes, dbErrors, redisErrors, lateReplies,
          flushed       \* runs that were in the list when it was lost

faults == <<crashes, apiCrashes, dbErrors, redisErrors, lateReplies, flushed>>
vars   == <<run, result, blobs, req, queue, main, free, reply, job, faults>>

ReqStates  == {"none", "stored", "committed", "accepted", "failed"}
MainStates == {"down", "acquire", "dequeue", "backoff"}
JobStates  == {"idle", "start", "claim", "work"}

TypeOK ==
  /\ LifecycleTypeOK
  /\ blobs \in SUBSET Runs
  /\ req \in [Runs -> ReqStates]
  /\ queue \in Seq(Runs)
  /\ main \in [Workers -> MainStates]
  /\ free \in [Workers -> Nat]
  /\ reply \in [Workers -> Runs \cup {NoRun}]
  /\ job \in [Executors -> [Runs -> JobStates]]
  /\ crashes \in Nat
  /\ apiCrashes \in Nat
  /\ dbErrors \in Nat
  /\ redisErrors \in Nat
  /\ lateReplies \in Nat
  /\ flushed \in SUBSET Runs

Init ==
  /\ LifecycleInit
  /\ blobs = {}
  /\ req = [r \in Runs |-> "none"]
  /\ queue = <<>>
  /\ main = [w \in Workers |-> "acquire"]
  /\ free = [w \in Workers |-> WorkerConcurrency]
  /\ reply = [w \in Workers |-> NoRun]
  /\ job = [e \in Executors |-> [r \in Runs |-> "idle"]]
  /\ crashes = 0
  /\ apiCrashes = 0
  /\ dbErrors = 0
  /\ redisErrors = 0
  /\ lateReplies = 0
  /\ flushed = {}

-----------------------------------------------------------------------------
(* The request: blob, then rows, then the hand-over.                        *)

\* get_blob_store().put()
StoreBlob(r) ==
  /\ req[r] = "none"
  /\ blobs' = blobs \cup {r}
  /\ req' = [req EXCEPT ![r] = "stored"]
  /\ UNCHANGED <<run, result, queue, main, free, reply, job, faults>>

\* The document and the run are inserted by one commit, ...
CommitRows(r) ==
  /\ req[r] = "stored"
  /\ Submit(r)
  /\ req' = [req EXCEPT ![r] = "committed"]
  /\ UNCHANGED <<blobs, queue, main, free, reply, job, faults>>

\* ... which may fail; the commit may have been applied all the same.
CommitFails(r) ==
  /\ req[r] = "stored"
  /\ dbErrors < MaxDbErrors
  /\ dbErrors' = dbErrors + 1
  /\ Submit(r) \/ UNCHANGED lifecycleVars
  /\ req' = [req EXCEPT ![r] = "failed"]
  /\ UNCHANGED <<blobs, queue, main, free, reply, job, crashes, apiCrashes, redisErrors,
                 lateReplies, flushed>>

\* Mutant: the run is handed over before its rows are committed.
Enqueue_BeforeRows(r) ==
  /\ r \in Queued
  /\ req[r] = "stored"
  /\ queue' = <<r>> \o queue
  /\ req' = [req EXCEPT ![r] = "accepted"]
  /\ UNCHANGED <<run, result, blobs, main, free, reply, job, faults>>

\* enqueue(): LPUSH, then the response.
Enqueue(r) ==
  /\ r \in Queued
  /\ req[r] = "committed"
  /\ queue' = <<r>> \o queue
  /\ req' = [req EXCEPT ![r] = "accepted"]
  /\ UNCHANGED <<run, result, blobs, main, free, reply, job, faults>>

\* Mutant: a failed LPUSH is retried, though the first may have been applied.
EnqueueFails_Retries(r) ==
  /\ r \in Queued
  /\ req[r] = "committed"
  /\ redisErrors < MaxRedisErrors
  /\ redisErrors' = redisErrors + 1
  /\ queue' = <<r, r>> \o queue \/ queue' = <<r>> \o queue
  /\ req' = [req EXCEPT ![r] = "accepted"]
  /\ UNCHANGED <<run, result, blobs, main, free, reply, job, crashes, apiCrashes, dbErrors,
                 lateReplies, flushed>>

\* Redis fails the LPUSH, or its answer does not arrive: the request fails.
EnqueueFails(r) ==
  /\ r \in Queued
  /\ req[r] = "committed"
  /\ redisErrors < MaxRedisErrors
  /\ redisErrors' = redisErrors + 1
  /\ queue' = <<r>> \o queue \/ UNCHANGED queue
  /\ req' = [req EXCEPT ![r] = "failed"]
  /\ UNCHANGED <<run, result, blobs, main, free, reply, job, crashes, apiCrashes, dbErrors,
                 lateReplies, flushed>>

\* Mutant: the run is accepted and forgotten.
ScheduleBackground_Forgets(r) ==
  /\ r \notin Queued
  /\ req[r] = "committed"
  /\ req' = [req EXCEPT ![r] = "accepted"]
  /\ UNCHANGED <<run, result, blobs, queue, main, free, reply, job, faults>>

\* background.add_task(): the API process runs it after the response.
ScheduleBackground(r) ==
  /\ r \notin Queued
  /\ req[r] = "committed"
  /\ req' = [req EXCEPT ![r] = "accepted"]
  /\ job' = [job EXCEPT ![Api][r] = "start"]
  /\ UNCHANGED <<run, result, blobs, queue, main, free, reply, faults>>

\* The API process dies and comes back: open requests and background tasks are gone.
ApiCrash ==
  /\ apiCrashes < MaxApiCrashes
  /\ apiCrashes' = apiCrashes + 1
  /\ req' = [r \in Runs |-> IF req[r] \in {"stored", "committed"} THEN "failed" ELSE req[r]]
  /\ job' = [job EXCEPT ![Api] = [r \in Runs |-> "idle"]]
  /\ UNCHANGED <<run, result, blobs, queue, main, free, reply, crashes, dbErrors, redisErrors,
                 lateReplies, flushed>>

-----------------------------------------------------------------------------
(* The worker's main loop.                                                  *)

\* Mutants: the semaphore never blocks; work is pulled before a slot is taken.
Acquire_Unguarded(w) ==
  /\ main[w] = "acquire"
  /\ free' = [free EXCEPT ![w] = @ - 1]
  /\ main' = [main EXCEPT ![w] = "dequeue"]
  /\ UNCHANGED <<run, result, blobs, req, queue, reply, job, faults>>

Acquire_NoSlot(w) ==
  /\ main[w] = "acquire"
  /\ main' = [main EXCEPT ![w] = "dequeue"]
  /\ UNCHANGED <<run, result, blobs, req, queue, free, reply, job, faults>>

\* A slot is acquired before a job is pulled.
Acquire(w) ==
  /\ main[w] = "acquire"
  /\ free[w] > 0
  /\ free' = [free EXCEPT ![w] = @ - 1]
  /\ main' = [main EXCEPT ![w] = "dequeue"]
  /\ UNCHANGED <<run, result, blobs, req, queue, reply, job, faults>>

\* Mutant: the item is read and stays in the list.
Pop_Peeks(w) ==
  /\ main[w] = "dequeue"
  /\ reply[w] = NoRun
  /\ queue # <<>>
  /\ reply' = [reply EXCEPT ![w] = queue[Len(queue)]]
  /\ UNCHANGED <<run, result, blobs, req, queue, main, free, job, faults>>

\* Redis serves the BRPOP of a worker: the item leaves the list.
Pop(w) ==
  /\ main[w] = "dequeue"
  /\ reply[w] = NoRun
  /\ queue # <<>>
  /\ reply' = [reply EXCEPT ![w] = queue[Len(queue)]]
  /\ queue' = SubSeq(queue, 1, Len(queue) - 1)
  /\ UNCHANGED <<run, result, blobs, req, main, free, job, faults>>

\* The reply arrives, and the job is spawned with the acquired slot.
Receive(w) ==
  /\ main[w] = "dequeue"
  /\ reply[w] # NoRun
  /\ job' = [job EXCEPT ![w][reply[w]] = "start"]
  /\ reply' = [reply EXCEPT ![w] = NoRun]
  /\ main' = [main EXCEPT ![w] = "acquire"]
  /\ UNCHANGED <<run, result, blobs, req, queue, free, faults>>

Released(w) == free' = [free EXCEPT ![w] = @ + 1]

\* Mutant: the poll gives up whether or not something is queued.
PollTimeout_Impatient(w) ==
  /\ main[w] = "dequeue"
  /\ reply[w] = NoRun
  /\ Released(w)
  /\ main' = [main EXCEPT ![w] = "acquire"]
  /\ UNCHANGED <<run, result, blobs, req, queue, reply, job, faults>>

\* Nothing was queued for five seconds.
PollTimeout(w) ==
  /\ main[w] = "dequeue"
  /\ reply[w] = NoRun
  /\ queue = <<>>
  /\ Released(w)
  /\ main' = [main EXCEPT ![w] = "acquire"]
  /\ UNCHANGED <<run, result, blobs, req, queue, reply, job, faults>>

\* The client's read timeout fires while the reply is on its way: dequeue()
\* reports "nothing dequeued" and the item that Redis popped is gone.
LateReply(w) ==
  /\ main[w] = "dequeue"
  /\ reply[w] # NoRun
  /\ lateReplies < MaxLateReplies
  /\ lateReplies' = lateReplies + 1
  /\ reply' = [reply EXCEPT ![w] = NoRun]
  /\ Released(w)
  /\ main' = [main EXCEPT ![w] = "acquire"]
  /\ UNCHANGED <<run, result, blobs, req, queue, job, crashes, apiCrashes, dbErrors, redisErrors,
                 flushed>>

\* Mutant: the slot is not released.
DequeueFails_KeepsSlot(w) ==
  /\ main[w] = "dequeue"
  /\ redisErrors < MaxRedisErrors
  /\ redisErrors' = redisErrors + 1
  /\ reply' = [reply EXCEPT ![w] = NoRun]
  /\ main' = [main EXCEPT ![w] = "backoff"]
  /\ UNCHANGED <<run, result, blobs, req, queue, free, job, crashes, apiCrashes, dbErrors,
                 lateReplies, flushed>>

\* "except RedisError": release the slot, sleep a second, go on.
DequeueFails(w) ==
  /\ main[w] = "dequeue"
  /\ redisErrors < MaxRedisErrors
  /\ redisErrors' = redisErrors + 1
  /\ reply' = [reply EXCEPT ![w] = NoRun]
  /\ Released(w)
  /\ main' = [main EXCEPT ![w] = "backoff"]
  /\ UNCHANGED <<run, result, blobs, req, queue, job, crashes, apiCrashes, dbErrors,
                 lateReplies, flushed>>

Backoff(w) ==
  /\ main[w] = "backoff"
  /\ main' = [main EXCEPT ![w] = "acquire"]
  /\ UNCHANGED <<run, result, blobs, req, queue, free, reply, job, faults>>

-----------------------------------------------------------------------------
(* run_validation() in an executor.                                         *)

\* The job is over; a worker's _run_one() releases its slot in any case.
JobEnds(e, r) ==
  /\ job' = [job EXCEPT ![e][r] = "idle"]
  /\ IF e \in Workers THEN Released(e) ELSE UNCHANGED free

\* SELECT the run: "idempotent: never re-run a claimed/finished run".
JobSelects(e, r) ==
  /\ job[e][r] = "start"
  /\ IF run[r] = "queued"
     THEN /\ job' = [job EXCEPT ![e][r] = "claim"]
          /\ UNCHANGED free
     ELSE JobEnds(e, r)
  /\ UNCHANGED <<run, result, blobs, req, queue, main, reply, faults>>

\* COMMIT the claim.
JobClaims(e, r) ==
  /\ job[e][r] = "claim"
  /\ run' = [run EXCEPT ![r] = "running"]
  /\ job' = [job EXCEPT ![e][r] = "work"]
  /\ UNCHANGED <<result, blobs, req, queue, main, free, reply, faults>>

\* The last transaction: the result row is unique, a second insert fails it all.
JobFinishes(e, r) ==
  /\ job[e][r] = "work"
  /\ IF result[r] = "none"
     THEN \E v \in {"verdict", "error"} :
            /\ result' = [result EXCEPT ![r] = v]
            /\ run' = [run EXCEPT ![r] = StatusFor(v)]
     ELSE UNCHANGED lifecycleVars
  /\ JobEnds(e, r)
  /\ UNCHANGED <<blobs, req, queue, main, reply, faults>>

\* One of the job's own transactions fails, applied or not: the exception ends it.
JobFails(e, r) ==
  /\ job[e][r] # "idle"
  /\ dbErrors < MaxDbErrors
  /\ dbErrors' = dbErrors + 1
  /\ \/ UNCHANGED lifecycleVars
     \/ /\ job[e][r] = "claim"
        /\ run' = [run EXCEPT ![r] = "running"]
        /\ UNCHANGED result
     \/ /\ job[e][r] = "work"
        /\ result[r] = "none"
        /\ \E v \in {"verdict", "error"} :
             /\ result' = [result EXCEPT ![r] = v]
             /\ run' = [run EXCEPT ![r] = StatusFor(v)]
  /\ JobEnds(e, r)
  /\ UNCHANGED <<blobs, req, queue, main, reply, crashes, apiCrashes, redisErrors,
                 lateReplies, flushed>>

-----------------------------------------------------------------------------
\* A worker dies with its jobs and with the reply on its way to it, ...
WorkerCrash(w) ==
  /\ main[w] # "down"
  /\ crashes < MaxCrashes
  /\ crashes' = crashes + 1
  /\ main' = [main EXCEPT ![w] = "down"]
  /\ free' = [free EXCEPT ![w] = WorkerConcurrency]
  /\ reply' = [reply EXCEPT ![w] = NoRun]
  /\ job' = [job EXCEPT ![w] = [r \in Runs |-> "idle"]]
  /\ UNCHANGED <<run, result, blobs, req, queue, apiCrashes, dbErrors, redisErrors,
                 lateReplies, flushed>>

\* ... and is started again, with a new semaphore.
WorkerRestart(w) ==
  /\ main[w] = "down"
  /\ main' = [main EXCEPT ![w] = "acquire"]
  /\ UNCHANGED <<run, result, blobs, req, queue, free, reply, job, faults>>

\* The Redis container is recreated: it has no volume, so the list is gone, while
\* the connections of the workers that wait for it fail (DequeueFails).
RedisRecreated ==
  LET listed == {queue[i] : i \in 1 .. Len(queue)}
  IN  /\ queue # <<>>
      /\ Cardinality(flushed \cup listed) <= MaxFlushed
      /\ flushed' = flushed \cup listed
      /\ queue' = <<>>
      /\ UNCHANGED <<run, result, blobs, req, main, free, reply, job, crashes, apiCrashes,
                     dbErrors, redisErrors, lateReplies>>

RequestStep(r) ==
  StoreBlob(r) \/ CommitRows(r) \/ Enqueue(r) \/ ScheduleBackground(r)

LoopStep(w) ==
  Acquire(w) \/ Pop(w) \/ Receive(w) \/ PollTimeout(w) \/ Backoff(w) \/ WorkerRestart(w)

JobStep(e, r) ==
  JobSelects(e, r) \/ JobClaims(e, r) \/ JobFinishes(e, r)

Fault ==
  \/ \E r \in Runs : CommitFails(r) \/ EnqueueFails(r)
  \/ \E w \in Workers : LateReply(w) \/ DequeueFails(w) \/ WorkerCrash(w)
  \/ \E e \in Executors, r \in Runs : JobFails(e, r)
  \/ ApiCrash
  \/ RedisRecreated

Next ==
  \/ \E r \in Runs : RequestStep(r)
  \/ \E w \in Workers : LoopStep(w)
  \/ \E e \in Executors, r \in Runs : JobStep(e, r)
  \/ Fault

Spec == Init /\ [][Next]_vars

\* A worker's event loop and Redis go on, the calls of a job answer, and a dead
\* worker is started again.  Nothing is assumed of clients or of the faults.
Fairness ==
  /\ \A w \in Workers : WF_vars(LoopStep(w))
  /\ \A e \in Executors, r \in Runs : WF_vars(JobStep(e, r))

FairSpec == Spec /\ Fairness

-----------------------------------------------------------------------------
InQueue(r)    == \E i \in 1 .. Len(queue) : queue[i] = r
InReply(w, r) == reply[w] = r
Active(e)     == {r \in Runs : job[e][r] # "idle"}

\* Every slot of a live worker is free, held by the poll, or held by one job; a
\* dead worker keeps nothing (worker.py:26,31,37-46: no path leaks a slot or
\* releases it twice).
SlotConservation ==
  \A w \in Workers :
    IF main[w] = "down"
    THEN free[w] = WorkerConcurrency /\ Active(w) = {} /\ reply[w] = NoRun
    ELSE /\ free[w] + Cardinality(Active(w)) + (IF main[w] = "dequeue" THEN 1 ELSE 0)
              = WorkerConcurrency
         /\ main[w] # "dequeue" => reply[w] = NoRun

\* No worker ever works on more runs than WORKER_CONCURRENCY allows, counting the
\* one on its way to it, and the API process works on none that is queued
\* (validation-api/spec.md:12-14: a bounded pool).
BoundedWork ==
  /\ \A w \in Workers :
       Cardinality(Active(w) \cup {r \in Runs : InReply(w, r)}) <= WorkerConcurrency
  /\ Active(Api) \cap Queued = {}

\* A run is in one place at a time: once in the list, or on its way to one
\* worker, or in one job; so no two jobs ever race for the claim.
OneHolder ==
  /\ \A i, j \in 1 .. Len(queue) : queue[i] = queue[j] => i = j
  /\ \A r \in Runs :
       /\ InQueue(r) => \A w \in Workers : ~InReply(w, r)
       /\ InQueue(r) => \A e \in Executors : r \notin Active(e)
       /\ \A w \in Workers : InReply(w, r) => \A e \in Executors : r \notin Active(e)
       /\ \A w, v \in Workers : InReply(w, r) /\ InReply(v, r) => w = v
       /\ \A e, f \in Executors : r \in Active(e) \cap Active(f) => e = f

\* Whoever holds a run knows how far it is: in the list, on its way and up to the
\* claim it is queued, at work it is running; and it was handed over only after
\* its rows were committed (documents.py:63-69, validate.py:41-49).
HoldersAgree ==
  \A r \in Runs :
    /\ req[r] \in {"none", "stored"} => run[r] = "none"
    /\ req[r] = "committed" => run[r] = "queued"
    /\ InQueue(r) => run[r] = "queued" /\ req[r] \in {"accepted", "failed"}
    /\ \A w \in Workers :
         InReply(w, r) => run[r] = "queued" /\ req[r] \in {"accepted", "failed"}
    /\ \A e \in Executors :
         /\ job[e][r] \in {"start", "claim"} =>
              run[r] = "queued" /\ req[r] \in {"accepted", "failed"}
         /\ job[e][r] = "work" =>
              run[r] = "running" /\ req[r] \in {"accepted", "failed"}

\* Accepted runs that nobody will finish: not over, and in nobody's hands.
Lost ==
  {r \in Runs : /\ req[r] = "accepted"
                /\ run[r] \notin Terminal
                /\ ~InQueue(r)
                /\ \A w \in Workers : ~InReply(w, r)
                /\ \A e \in Executors : r \notin Active(e)}

\* What faults cost: a crash of a worker loses at most its slots, any other fault
\* at most one queued run; the backlog is never lost (worker.py:35-36).  A run that
\* is not queued is lost only to a crash of the API or a failing database.
LossAccounted ==
  /\ Cardinality((Lost \cap Queued) \ flushed)
       <= WorkerConcurrency * crashes + dbErrors + redisErrors + lateReplies
  /\ Lost \ Queued # {} => apiCrashes + dbErrors > 0

\* Every accepted run is finished, or was lost to a fault: no backlog waits
\* forever behind a dead worker, a failed dequeue or a leaked slot.
Settles == \A r \in Runs : req[r] = "accepted" ~> run[r] \in Terminal \/ r \in Lost

-----------------------------------------------------------------------------
(* A claim of the repository that a run refutes.                             *)

\* orca-validation/spec.md:29-36: a run interrupted by a restart is resumed.
RunsResume == \A r \in Runs : run[r] = "running" ~> run[r] \in Terminal
=============================================================================

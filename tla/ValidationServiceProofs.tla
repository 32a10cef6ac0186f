----------------------- MODULE ValidationServiceProofs -----------------------
(***************************************************************************)
(* Theorems about ValidationService, for any number of runs and workers    *)
(* (infinitely many included) and any bounds on the faults.                *)
(*                                                                         *)
(* Single delivery and the lifecycle rest on one inductive invariant,      *)
(* TokenInv: a run is a token that is in one place at a time, and the      *)
(* place agrees with its status.  The slots rest on SlotInv, which needs   *)
(* TokenInv: a worker that receives a run does not work on it already.     *)
(* What faults cost rests on LossInv, which needs both.                    *)
(***************************************************************************)
EXTENDS ValidationService, TLAPS, FiniteSetTheorems, SequenceTheorems

TokenInv == TypeOK /\ OneHolder /\ HoldersAgree /\ ResultMatchesStatus

-----------------------------------------------------------------------------
(* The list in Redis: LPUSH and BRPOP, index by index.                      *)

\* LPUSH shifts every item by one and puts the new one in front.
LEMMA PushLeft ==
  ASSUME NEW S, NEW q \in Seq(S), NEW x \in S
  PROVE  /\ <<x>> \o q \in Seq(S)
         /\ Len(<<x>> \o q) = Len(q) + 1
         /\ (<<x>> \o q)[1] = x
         /\ \A i \in 2 .. Len(q) + 1 :
              i - 1 \in 1 .. Len(q) /\ (<<x>> \o q)[i] = q[i - 1]
<1>1. <<x>> \in Seq(S) /\ Len(<<x>>) = 1 /\ <<x>>[1] = x /\ Len(q) \in Nat
  OBVIOUS
<1>2. /\ <<x>> \o q \in Seq(S)
      /\ Len(<<x>> \o q) = 1 + Len(q)
      /\ \A i \in 1 .. 1 + Len(q) :
           (<<x>> \o q)[i] = IF i <= 1 THEN <<x>>[i] ELSE q[i - 1]
  BY <1>1, ConcatProperties, Zenon
<1> QED BY <1>1, <1>2

\* BRPOP removes the last item and moves no other.
LEMMA PopRight ==
  ASSUME NEW S, NEW q \in Seq(S), q # <<>>
  PROVE  /\ SubSeq(q, 1, Len(q) - 1) \in Seq(S)
         /\ Len(q) \in 1 .. Len(q)
         /\ q[Len(q)] \in S
         /\ Len(SubSeq(q, 1, Len(q) - 1)) = Len(q) - 1
         /\ \A i \in 1 .. Len(q) - 1 :
              i \in 1 .. Len(q) /\ i # Len(q) /\ SubSeq(q, 1, Len(q) - 1)[i] = q[i]
<1>1. Len(q) \in Nat /\ Len(q) # 0
  BY EmptySeq
<1>2. q[Len(q)] \in S /\ Len(q) \in 1 .. Len(q)
  BY <1>1
<1>3. /\ SubSeq(q, 1, Len(q) - 1) \in Seq(S)
      /\ Len(SubSeq(q, 1, Len(q) - 1)) = Len(q) - 1
      /\ \A i \in 1 .. Len(q) - 1 : SubSeq(q, 1, Len(q) - 1)[i] = q[i]
  <2> DEFINE n == Len(q) - 1
  <2>1. 1 \in Int /\ n \in Int /\ n >= 0 /\ \A i \in 1 .. n : q[i] \in S
    BY <1>1
  <2> HIDE DEF n
  <2>2. /\ SubSeq(q, 1, n) \in Seq(S)
        /\ Len(SubSeq(q, 1, n)) = IF 1 <= n THEN n - 1 + 1 ELSE 0
        /\ \A i \in 1 .. n - 1 + 1 : SubSeq(q, 1, n)[i] = q[1 + i - 1]
    BY <2>1, SubSeqProperties
  <2>3. Len(SubSeq(q, 1, n)) = n
    BY <2>1, <2>2
  <2>4. \A i \in 1 .. n : SubSeq(q, 1, n)[i] = q[i]
    BY <2>1, <2>2
  <2> QED BY <2>2, <2>3, <2>4 DEF n
<1> QED BY <1>1, <1>2, <1>3

-----------------------------------------------------------------------------
\* The token invariant holds initially: no run is anywhere.
LEMMA InitToken == Init => TokenInv
<1> SUFFICES ASSUME Init PROVE TokenInv
  OBVIOUS
<1> USE DEF Init, LifecycleInit
<1>1. TypeOK
  <2>1. queue \in Seq(Runs) /\ Len(queue) = 0
    BY EmptySeq
  <2> QED
    BY <2>1, ServiceAssumption
    DEF TypeOK, LifecycleTypeOK, Statuses, Results, ReqStates, MainStates, JobStates
<1>2. 1 .. Len(queue) = {}
  <2>1. Len(queue) = 0
    BY EmptySeq
  <2> QED BY <2>1
<1>3. OneHolder
  BY <1>2, ServiceAssumption DEF OneHolder, InQueue, InReply, Active
<1>4. HoldersAgree
  BY <1>2, ServiceAssumption DEF HoldersAgree, InQueue, InReply
<1>5. ResultMatchesStatus
  BY DEF ResultMatchesStatus, Terminal
<1> QED BY <1>1, <1>3, <1>4, <1>5 DEF TokenInv

-----------------------------------------------------------------------------
\* However a job ends, it leaves a slot count and a job table of the right type.
LEMMA EndsTyped ==
  ASSUME TypeOK, NEW e \in Executors, NEW r \in Runs, JobEnds(e, r)
  PROVE  /\ job' \in [Executors -> [Runs -> JobStates]]
         /\ free' \in [Workers -> Nat]
<1>1. job \in [Executors -> [Runs -> JobStates]] /\ free \in [Workers -> Nat]
  BY DEF TypeOK
<1>2. job' \in [Executors -> [Runs -> JobStates]]
  BY <1>1 DEF JobEnds, JobStates
<1>3. free' \in [Workers -> Nat]
  BY <1>1 DEF JobEnds, Released
<1> QED BY <1>2, <1>3

\* TypeOK is inductive by itself.
LEMMA TypeStep == TypeOK /\ [Next]_vars => TypeOK'
<1> SUFFICES ASSUME TypeOK, [Next]_vars PROVE TypeOK'
  OBVIOUS
<1> USE ServiceAssumption
    DEF TypeOK, LifecycleTypeOK, Statuses, Results, ReqStates, MainStates, JobStates, Executors,
        faults
<1>1. ASSUME NEW r \in Runs, StoreBlob(r) PROVE TypeOK'
  BY <1>1 DEF StoreBlob
<1>2. ASSUME NEW r \in Runs, CommitRows(r) PROVE TypeOK'
  BY <1>2 DEF CommitRows, Submit
<1>3. ASSUME NEW r \in Runs, CommitFails(r) PROVE TypeOK'
  BY <1>3 DEF CommitFails, Submit, lifecycleVars
<1>4. ASSUME NEW r \in Runs, Enqueue(r) PROVE TypeOK'
  BY PushLeft, <1>4 DEF Enqueue
<1>5. ASSUME NEW r \in Runs, EnqueueFails(r) PROVE TypeOK'
  <2>1. <<r>> \o queue \in Seq(Runs)
    BY PushLeft
  <2>2. queue' = <<r>> \o queue \/ queue' = queue
    BY <1>5 DEF EnqueueFails
  <2> HIDE DEF Executors, JobStates, MainStates
  <2>4. queue' \in Seq(Runs)
    BY <2>1, <2>2
  <2>5. req' \in [Runs -> ReqStates] /\ redisErrors' \in Nat
    BY <1>5 DEF EnqueueFails
  <2>3. UNCHANGED <<run, result, blobs, main, free, reply, job, crashes, apiCrashes, dbErrors,
                    lateReplies, flushed>>
    BY <1>5 DEF EnqueueFails
  <2> QED BY <2>3, <2>4, <2>5
<1>6. ASSUME NEW r \in Runs, ScheduleBackground(r) PROVE TypeOK'
  BY <1>6 DEF ScheduleBackground
<1>7. ASSUME NEW w \in Workers, Acquire(w) PROVE TypeOK'
  BY <1>7 DEF Acquire
<1>8. ASSUME NEW w \in Workers, Pop(w) PROVE TypeOK'
  BY PopRight, <1>8 DEF Pop
<1>9. ASSUME NEW w \in Workers, Receive(w) PROVE TypeOK'
  BY <1>9 DEF Receive
<1>10. ASSUME NEW w \in Workers, PollTimeout(w) PROVE TypeOK'
  BY <1>10 DEF PollTimeout, Released
<1>11. ASSUME NEW w \in Workers, Backoff(w) PROVE TypeOK'
  BY <1>11 DEF Backoff
<1>12. ASSUME NEW w \in Workers, WorkerRestart(w) PROVE TypeOK'
  BY <1>12 DEF WorkerRestart
<1>13. ASSUME NEW w \in Workers, LateReply(w) PROVE TypeOK'
  BY <1>13 DEF LateReply, Released
<1>14. ASSUME NEW w \in Workers, DequeueFails(w) PROVE TypeOK'
  BY <1>14 DEF DequeueFails, Released
<1>15. ASSUME NEW w \in Workers, WorkerCrash(w) PROVE TypeOK'
  BY <1>15 DEF WorkerCrash
<1>16. ASSUME NEW e \in Executors, NEW r \in Runs, JobSelects(e, r) PROVE TypeOK'
  <2>1. /\ job' \in [Executors -> [Runs -> JobStates]]
        /\ free' \in [Workers -> Nat]
    <3>1. CASE run[r] = "queued"
      <4>1. job' = [job EXCEPT ![e][r] = "claim"] /\ free' = free
        BY <1>16, <3>1 DEF JobSelects
      <4> QED BY <4>1
    <3>2. CASE run[r] # "queued"
      <4>1. JobEnds(e, r)
        BY <1>16, <3>2 DEF JobSelects
      <4> QED BY <4>1, EndsTyped, Zenon
    <3> QED BY <3>1, <3>2
  <2>2. UNCHANGED <<run, result, blobs, req, queue, main, reply, faults>>
    BY <1>16 DEF JobSelects
  <2> QED BY <2>1, <2>2
<1>17. ASSUME NEW e \in Executors, NEW r \in Runs, JobClaims(e, r) PROVE TypeOK'
  BY <1>17 DEF JobClaims
<1>18. ASSUME NEW e \in Executors, NEW r \in Runs, JobFinishes(e, r) PROVE TypeOK'
  <2>1. /\ job' \in [Executors -> [Runs -> JobStates]]
        /\ free' \in [Workers -> Nat]
    <3>1. JobEnds(e, r)
      BY <1>18 DEF JobFinishes
    <3> QED BY <3>1, EndsTyped, Zenon
  <2>2. LifecycleTypeOK'
    <3>1. CASE UNCHANGED lifecycleVars
      BY <3>1 DEF lifecycleVars
    <3>2. CASE \E v \in {"verdict", "error"} :
                 /\ result' = [result EXCEPT ![r] = v]
                 /\ run' = [run EXCEPT ![r] = StatusFor(v)]
      BY <3>2 DEF StatusFor
    <3> QED BY <1>18, <3>1, <3>2 DEF JobFinishes
  <2>3. UNCHANGED <<blobs, req, queue, main, reply, faults>>
    BY <1>18 DEF JobFinishes
  <2> QED BY <2>1, <2>2, <2>3
<1>19. ASSUME NEW e \in Executors, NEW r \in Runs, JobFails(e, r) PROVE TypeOK'
  <2>1. /\ job' \in [Executors -> [Runs -> JobStates]]
        /\ free' \in [Workers -> Nat]
    <3>1. JobEnds(e, r)
      BY <1>19 DEF JobFails
    <3> QED BY <3>1, EndsTyped, Zenon
  <2>2. LifecycleTypeOK'
    <3>1. CASE UNCHANGED lifecycleVars
      BY <3>1 DEF lifecycleVars
    <3>2. CASE run' = [run EXCEPT ![r] = "running"] /\ UNCHANGED result
      BY <3>2
    <3>3. CASE \E v \in {"verdict", "error"} :
                 /\ result' = [result EXCEPT ![r] = v]
                 /\ run' = [run EXCEPT ![r] = StatusFor(v)]
      BY <3>3 DEF StatusFor
    <3> QED BY <1>19, <3>1, <3>2, <3>3 DEF JobFails
  <2>3. /\ UNCHANGED <<blobs, req, queue, main, reply, crashes, apiCrashes, redisErrors,
                       lateReplies, flushed>>
        /\ dbErrors' \in Nat
    BY <1>19 DEF JobFails
  <2> QED BY <2>1, <2>2, <2>3
<1>20. CASE ApiCrash
  BY <1>20 DEF ApiCrash
<1>21. CASE UNCHANGED vars
  BY <1>21 DEF vars
<1>22. CASE RedisRecreated
  BY <1>22 DEF RedisRecreated
<1> QED
  BY <1>1, <1>2, <1>3, <1>4, <1>5, <1>6, <1>7, <1>8, <1>9, <1>10, <1>11, <1>12, <1>13, <1>14,
     <1>15, <1>16, <1>17, <1>18, <1>19, <1>20, <1>21, <1>22
  DEF Next, RequestStep, LoopStep, JobStep, Fault

-----------------------------------------------------------------------------
(* A run is one token.                                                      *)

\* A step that only drops tokens, or lets the holder go on, keeps OneHolder.
LEMMA FewerTokens ==
  ASSUME TypeOK, OneHolder,
         queue' = queue,
         \A w \in Workers : reply'[w] = reply[w] \/ reply'[w] = NoRun,
         \A e \in Executors, r \in Runs : job'[e][r] # "idle" => job[e][r] # "idle"
  PROVE  OneHolder'
<1>1. \A r \in Runs : InQueue(r)' => InQueue(r)
  BY DEF InQueue
<1>2. \A r \in Runs, w \in Workers : InReply(w, r)' => InReply(w, r)
  BY ServiceAssumption DEF InReply
<1>3. \A e \in Executors : Active(e)' \subseteq Active(e)
  BY DEF Active
<1>4. \A i, j \in 1 .. Len(queue') : queue'[i] = queue'[j] => i = j
  BY DEF OneHolder
<1> HIDE DEF InQueue, InReply, Active
<1> QED
  BY <1>1, <1>2, <1>3, <1>4, Zenon DEF OneHolder

\* LPUSH of a run that nobody holds.
LEMMA NewToken ==
  ASSUME TypeOK, OneHolder, NEW r \in Runs,
         ~InQueue(r), \A w \in Workers : ~InReply(w, r), \A e \in Executors : r \notin Active(e),
         queue' = <<r>> \o queue, UNCHANGED <<reply, job>>
  PROVE  OneHolder'
<1>1. /\ Len(queue') = Len(queue) + 1 /\ Len(queue) \in Nat
      /\ queue'[1] = r
      /\ \A i \in 2 .. Len(queue) + 1 : i - 1 \in 1 .. Len(queue) /\ queue'[i] = queue[i - 1]
  BY PushLeft DEF TypeOK
<1>2. \A s \in Runs : InQueue(s)' => s = r \/ InQueue(s)
  BY <1>1 DEF InQueue
<1>3. \A i, j \in 1 .. Len(queue') : queue'[i] = queue'[j] => i = j
  BY <1>1 DEF OneHolder, InQueue
<1>4. \A s \in Runs, w \in Workers : InReply(w, s)' => InReply(w, s)
  BY DEF InReply
<1>5. \A e \in Executors : \A s \in Active(e)' : s \in Active(e)
  BY DEF Active
<1> QED
  BY <1>2, <1>3, <1>4, <1>5 DEF OneHolder

\* BRPOP moves the last item from the list to one worker.
LEMMA PopOne ==
  ASSUME TypeOK, OneHolder, NEW w \in Workers, Pop(w)
  PROVE  OneHolder'
<1> DEFINE r == queue[Len(queue)]
<1>1. /\ Len(queue') = Len(queue) - 1 /\ Len(queue) \in 1 .. Len(queue) /\ r \in Runs
      /\ \A i \in 1 .. Len(queue) - 1 :
           i \in 1 .. Len(queue) /\ i # Len(queue) /\ queue'[i] = queue[i]
  BY PopRight DEF Pop, TypeOK
<1>2. /\ reply' = [reply EXCEPT ![w] = r] /\ job' = job
  BY DEF Pop
<1>3. InQueue(r)
  BY <1>1 DEF InQueue
<1>4. \A s \in Runs : InQueue(s)' => s # r /\ InQueue(s)
  BY <1>1 DEF InQueue, OneHolder
<1>5. \A i, j \in 1 .. Len(queue') : queue'[i] = queue'[j] => i = j
  BY <1>1 DEF OneHolder
<1>6. \A s \in Runs, v \in Workers : InReply(v, s)' => (v = w /\ s = r) \/ (v # w /\ InReply(v, s))
  BY <1>2 DEF InReply, TypeOK
<1>7. \A e \in Executors : Active(e)' = Active(e)
  BY <1>2 DEF Active
<1> HIDE DEF r
<1> QED
  BY <1>1, <1>3, <1>4, <1>5, <1>6, <1>7 DEF OneHolder

\* The reply becomes a job of the worker it was for.
LEMMA ReceiveOne ==
  ASSUME TypeOK, OneHolder, NEW w \in Workers, Receive(w)
  PROVE  OneHolder'
<1>1. PICK r \in Runs : reply[w] = r
  BY DEF Receive, TypeOK
<1>2. /\ reply' = [reply EXCEPT ![w] = NoRun]
      /\ job' = [job EXCEPT ![w][r] = "start"]
      /\ queue' = queue
      /\ w \in Executors
  BY <1>1 DEF Receive, Executors
<1>3. \A s \in Runs : InQueue(s)' <=> InQueue(s)
  BY <1>2 DEF InQueue
<1>4. \A s \in Runs, v \in Workers : InReply(v, s)' => v # w /\ InReply(v, s)
  BY <1>2, ServiceAssumption DEF InReply, TypeOK
<1>5. \A e \in Executors : \A s \in Active(e)' : s \in Active(e) \/ (e = w /\ s = r)
  BY <1>2 DEF Active, TypeOK
<1>6. InReply(w, r)
  BY <1>1 DEF InReply
<1>7. \A i, j \in 1 .. Len(queue') : queue'[i] = queue'[j] => i = j
  BY <1>2 DEF OneHolder
<1> QED
  BY <1>2, <1>3, <1>4, <1>5, <1>6, <1>7 DEF OneHolder

\* A committed run is held by nobody yet, so the background task is its one holder.
LEMMA BackgroundOne ==
  ASSUME TypeOK, OneHolder, HoldersAgree, NEW r \in Runs, ScheduleBackground(r)
  PROVE  OneHolder'
<1>1. /\ ~InQueue(r) /\ \A w \in Workers : ~InReply(w, r)
      /\ \A e \in Executors : r \notin Active(e)
  BY DEF HoldersAgree, ScheduleBackground, Active, TypeOK, JobStates
<1>2. /\ UNCHANGED <<queue, reply>>
      /\ job' = [job EXCEPT ![Api][r] = "start"]
  BY DEF ScheduleBackground
<1>3. /\ \A s \in Runs : InQueue(s)' <=> InQueue(s)
      /\ \A s \in Runs, v \in Workers : InReply(v, s)' <=> InReply(v, s)
  BY <1>2 DEF InQueue, InReply
<1>5. \A e \in Executors : \A s \in Active(e)' : s \in Active(e) \/ (e = Api /\ s = r)
  BY <1>2 DEF Active, TypeOK, Executors
<1>7. \A i, j \in 1 .. Len(queue') : queue'[i] = queue'[j] => i = j
  BY <1>2 DEF OneHolder
<1> QED
  BY <1>1, <1>3, <1>5, <1>7 DEF OneHolder

\* A job that selects its run goes on to the claim, or gives the run up.
LEMMA SelectsKeeps ==
  ASSUME TypeOK, OneHolder, HoldersAgree, NEW e \in Executors, NEW r \in Runs, JobSelects(e, r)
  PROVE  OneHolder' /\ HoldersAgree'
<1>1. /\ UNCHANGED <<queue, reply, run, req>>
      /\ job[e][r] = "start"
      /\ job' = [job EXCEPT ![e][r] = "claim"] \/ job' = [job EXCEPT ![e][r] = "idle"]
  BY DEF JobSelects, JobEnds
<1>2. \A d \in Executors, s \in Runs :
        /\ job'[d][s] # "idle" => job[d][s] # "idle"
        /\ job'[d][s] \in {"start", "claim"} => job[d][s] \in {"start", "claim"}
        /\ job'[d][s] = "work" => job[d][s] = "work"
  <2>1. CASE job' = [job EXCEPT ![e][r] = "claim"]
    BY <1>1, <2>1 DEF TypeOK
  <2>2. CASE job' = [job EXCEPT ![e][r] = "idle"]
    BY <2>2 DEF TypeOK
  <2> QED BY <1>1, <2>1, <2>2
<1>3. OneHolder'
  BY <1>1, <1>2, FewerTokens
<1>4. HoldersAgree'
  BY <1>1, <1>2 DEF HoldersAgree, InQueue, InReply
<1> QED BY <1>3, <1>4

\* No step puts a run in two places.
LEMMA OneHolderStep == TokenInv /\ [Next]_vars => OneHolder'
<1> SUFFICES ASSUME TypeOK, OneHolder, HoldersAgree, ResultMatchesStatus, [Next]_vars
             PROVE  OneHolder'
  BY DEF TokenInv
<1>1. ASSUME NEW r \in Runs, StoreBlob(r) PROVE OneHolder'
  <2>1. UNCHANGED <<queue, reply, job>>
    BY <1>1 DEF StoreBlob
  <2> QED BY <2>1, FewerTokens
<1>2. ASSUME NEW r \in Runs, CommitRows(r) PROVE OneHolder'
  <2>1. UNCHANGED <<queue, reply, job>>
    BY <1>2 DEF CommitRows
  <2> QED BY <2>1, FewerTokens
<1>3. ASSUME NEW r \in Runs, CommitFails(r) PROVE OneHolder'
  <2>1. UNCHANGED <<queue, reply, job>>
    BY <1>3 DEF CommitFails
  <2> QED BY <2>1, FewerTokens
<1>4. ASSUME NEW r \in Runs, Enqueue(r) PROVE OneHolder'
  <2>1. /\ ~InQueue(r) /\ \A w \in Workers : ~InReply(w, r)
        /\ \A e \in Executors : r \notin Active(e)
    BY <1>4 DEF HoldersAgree, Enqueue, Active, TypeOK, JobStates
  <2>2. /\ queue' = <<r>> \o queue
        /\ UNCHANGED <<reply, job>>
    BY <1>4 DEF Enqueue
  <2> QED BY <2>1, <2>2, NewToken
<1>5. ASSUME NEW r \in Runs, EnqueueFails(r) PROVE OneHolder'
  <2>1. /\ ~InQueue(r) /\ \A w \in Workers : ~InReply(w, r)
        /\ \A e \in Executors : r \notin Active(e)
    BY <1>5 DEF HoldersAgree, EnqueueFails, Active, TypeOK, JobStates
  <2>2. /\ queue' = <<r>> \o queue \/ queue' = queue
        /\ UNCHANGED <<reply, job>>
    BY <1>5 DEF EnqueueFails
  <2> QED BY <2>1, <2>2, NewToken, FewerTokens
<1>6. ASSUME NEW r \in Runs, ScheduleBackground(r) PROVE OneHolder'
  BY <1>6, BackgroundOne
<1>7. ASSUME NEW w \in Workers, Acquire(w) PROVE OneHolder'
  <2>1. UNCHANGED <<queue, reply, job>>
    BY <1>7 DEF Acquire
  <2> QED BY <2>1, FewerTokens
<1>8. ASSUME NEW w \in Workers, Pop(w) PROVE OneHolder'
  BY <1>8, PopOne
<1>9. ASSUME NEW w \in Workers, Receive(w) PROVE OneHolder'
  BY <1>9, ReceiveOne
<1>10. ASSUME NEW w \in Workers, PollTimeout(w) PROVE OneHolder'
  <2>1. UNCHANGED <<queue, reply, job>>
    BY <1>10 DEF PollTimeout
  <2> QED BY <2>1, FewerTokens
<1>11. ASSUME NEW w \in Workers, Backoff(w) PROVE OneHolder'
  <2>1. UNCHANGED <<queue, reply, job>>
    BY <1>11 DEF Backoff
  <2> QED BY <2>1, FewerTokens
<1>12. ASSUME NEW w \in Workers, WorkerRestart(w) PROVE OneHolder'
  <2>1. UNCHANGED <<queue, reply, job>>
    BY <1>12 DEF WorkerRestart
  <2> QED BY <2>1, FewerTokens
<1>13. ASSUME NEW w \in Workers, LateReply(w) PROVE OneHolder'
  <2>1. /\ UNCHANGED <<queue, job>>
        /\ reply' = [reply EXCEPT ![w] = NoRun]
    BY <1>13 DEF LateReply
  <2> QED BY <2>1, FewerTokens DEF TypeOK
<1>14. ASSUME NEW w \in Workers, DequeueFails(w) PROVE OneHolder'
  <2>1. /\ UNCHANGED <<queue, job>>
        /\ reply' = [reply EXCEPT ![w] = NoRun]
    BY <1>14 DEF DequeueFails
  <2> QED BY <2>1, FewerTokens DEF TypeOK
<1>15. ASSUME NEW w \in Workers, WorkerCrash(w) PROVE OneHolder'
  <2>1. /\ UNCHANGED queue
        /\ reply' = [reply EXCEPT ![w] = NoRun]
        /\ job' = [job EXCEPT ![w] = [r \in Runs |-> "idle"]]
    BY <1>15 DEF WorkerCrash
  <2> QED BY <2>1, FewerTokens DEF TypeOK
<1>16. ASSUME NEW e \in Executors, NEW r \in Runs, JobSelects(e, r) PROVE OneHolder'
  BY <1>16, SelectsKeeps
<1>17. ASSUME NEW e \in Executors, NEW r \in Runs, JobClaims(e, r) PROVE OneHolder'
  <2>1. /\ UNCHANGED <<queue, reply>>
        /\ job[e][r] # "idle"
        /\ job' = [job EXCEPT ![e][r] = "work"]
    BY <1>17 DEF JobClaims
  <2> QED BY <2>1, FewerTokens DEF TypeOK
<1>18. ASSUME NEW e \in Executors, NEW r \in Runs, JobFinishes(e, r) PROVE OneHolder'
  <2>1. /\ UNCHANGED <<queue, reply>>
        /\ job[e][r] # "idle"
        /\ job' = [job EXCEPT ![e][r] = "idle"]
    BY <1>18 DEF JobFinishes, JobEnds
  <2> QED BY <2>1, FewerTokens DEF TypeOK
<1>19. ASSUME NEW e \in Executors, NEW r \in Runs, JobFails(e, r) PROVE OneHolder'
  <2>1. /\ UNCHANGED <<queue, reply>>
        /\ job[e][r] # "idle"
        /\ job' = [job EXCEPT ![e][r] = "idle"]
    BY <1>19 DEF JobFails, JobEnds
  <2> QED BY <2>1, FewerTokens DEF TypeOK
<1>20. CASE ApiCrash
  <2>1. /\ UNCHANGED <<queue, reply>>
        /\ job' = [job EXCEPT ![Api] = [r \in Runs |-> "idle"]]
    BY <1>20 DEF ApiCrash
  <2> QED BY <2>1, FewerTokens DEF TypeOK
<1>21. CASE UNCHANGED vars
  <2>1. UNCHANGED <<queue, reply, job>>
    BY <1>21 DEF vars
  <2> QED BY <2>1, FewerTokens
<1>22. CASE RedisRecreated
  BY <1>22 DEF RedisRecreated, OneHolder, InQueue, InReply, Active
<1> QED
  BY <1>1, <1>2, <1>3, <1>4, <1>5, <1>6, <1>7, <1>8, <1>9, <1>10, <1>11, <1>12, <1>13,
     <1>14, <1>15, <1>16, <1>17, <1>18, <1>19, <1>20, <1>21, <1>22
  DEF Next, RequestStep, LoopStep, JobStep, Fault

\* No step makes a holder wrong about the status of its run: no other holder can change it.
LEMMA HoldersStep == TokenInv /\ [Next]_vars => HoldersAgree'
<1> SUFFICES ASSUME TypeOK, OneHolder, HoldersAgree, ResultMatchesStatus, [Next]_vars
             PROVE  HoldersAgree'
  BY DEF TokenInv
<1>1. ASSUME NEW r \in Runs, StoreBlob(r) PROVE HoldersAgree'
  BY <1>1, ServiceAssumption
  DEF TypeOK, LifecycleTypeOK, OneHolder, HoldersAgree, InQueue, InReply, Active,
      StoreBlob
<1>2. ASSUME NEW r \in Runs, CommitRows(r) PROVE HoldersAgree'
  BY <1>2, ServiceAssumption
  DEF TypeOK, LifecycleTypeOK, OneHolder, HoldersAgree, InQueue, InReply, Active,
      CommitRows, Submit
<1>3. ASSUME NEW r \in Runs, CommitFails(r) PROVE HoldersAgree'
  BY <1>3, ServiceAssumption
  DEF TypeOK, LifecycleTypeOK, OneHolder, HoldersAgree, InQueue, InReply, Active,
      CommitFails, Submit, lifecycleVars
<1>4. ASSUME NEW r \in Runs, Enqueue(r) PROVE HoldersAgree'
  BY <1>4, PushLeft, ServiceAssumption
  DEF TypeOK, LifecycleTypeOK, OneHolder, HoldersAgree, InQueue, InReply, Active,
      Enqueue
<1>5. ASSUME NEW r \in Runs, EnqueueFails(r) PROVE HoldersAgree'
  <2>1. /\ queue' = <<r>> \o queue \/ queue' = queue
        /\ req' = [req EXCEPT ![r] = "failed"] /\ req[r] = "committed"
        /\ UNCHANGED <<run, reply, job>>
    BY <1>5 DEF EnqueueFails
  <2>2. \A s \in Runs : InQueue(s)' => s = r \/ InQueue(s)
    <3>1. CASE queue' = queue
      BY <3>1 DEF InQueue
    <3>2. CASE queue' = <<r>> \o queue
      BY <3>2, PushLeft DEF InQueue, TypeOK
    <3> QED BY <2>1, <3>1, <3>2
  <2> QED BY <2>1, <2>2 DEF HoldersAgree, InReply, TypeOK
<1>6. ASSUME NEW r \in Runs, ScheduleBackground(r) PROVE HoldersAgree'
  BY <1>6, ServiceAssumption
  DEF TypeOK, LifecycleTypeOK, OneHolder, HoldersAgree, InQueue, InReply, Active,
      ScheduleBackground
<1>7. ASSUME NEW w \in Workers, Acquire(w) PROVE HoldersAgree'
  BY <1>7, ServiceAssumption
  DEF TypeOK, LifecycleTypeOK, OneHolder, HoldersAgree, InQueue, InReply, Active,
      Acquire
<1>8. ASSUME NEW w \in Workers, Pop(w) PROVE HoldersAgree'
  <2> DEFINE r == queue[Len(queue)]
             rest == SubSeq(queue, 1, Len(queue) - 1)
  <2>1. /\ reply' = [reply EXCEPT ![w] = r] /\ queue' = rest /\ queue # <<>>
        /\ UNCHANGED <<run, req, job>>
    BY <1>8 DEF Pop
  <2>2. /\ r \in Runs /\ Len(queue) \in 1 .. Len(queue)
        /\ Len(rest) = Len(queue) - 1
        /\ \A i \in 1 .. Len(queue) - 1 : i \in 1 .. Len(queue) /\ rest[i] = queue[i]
    BY <2>1, PopRight DEF TypeOK
  <2>3. InQueue(r)
    BY <2>2 DEF InQueue
  <2>4. \A s \in Runs : InQueue(s)' => InQueue(s)
    <3> HIDE DEF rest
    <3> QED
      BY <2>1, <2>2 DEF InQueue
  <2>5. \A s \in Runs, v \in Workers : InReply(v, s)' => InReply(v, s) \/ s = r
    <3> HIDE DEF r
    <3> QED
      BY <2>1 DEF InReply, TypeOK
  <2> HIDE DEF r
  <2> QED
    BY <2>1, <2>2, <2>3, <2>4, <2>5 DEF HoldersAgree
<1>9. ASSUME NEW w \in Workers, Receive(w) PROVE HoldersAgree'
  BY <1>9, ServiceAssumption
  DEF TypeOK, LifecycleTypeOK, OneHolder, HoldersAgree, InQueue, InReply, Active,
      Receive
<1>10. ASSUME NEW w \in Workers, PollTimeout(w) PROVE HoldersAgree'
  BY <1>10, ServiceAssumption
  DEF TypeOK, LifecycleTypeOK, OneHolder, HoldersAgree, InQueue, InReply, Active,
      PollTimeout
<1>11. ASSUME NEW w \in Workers, Backoff(w) PROVE HoldersAgree'
  BY <1>11, ServiceAssumption
  DEF TypeOK, LifecycleTypeOK, OneHolder, HoldersAgree, InQueue, InReply, Active,
      Backoff
<1>12. ASSUME NEW w \in Workers, WorkerRestart(w) PROVE HoldersAgree'
  BY <1>12, ServiceAssumption
  DEF TypeOK, LifecycleTypeOK, OneHolder, HoldersAgree, InQueue, InReply, Active,
      WorkerRestart
<1>13. ASSUME NEW w \in Workers, LateReply(w) PROVE HoldersAgree'
  BY <1>13, ServiceAssumption
  DEF TypeOK, LifecycleTypeOK, OneHolder, HoldersAgree, InQueue, InReply, Active,
      LateReply
<1>14. ASSUME NEW w \in Workers, DequeueFails(w) PROVE HoldersAgree'
  BY <1>14, ServiceAssumption
  DEF TypeOK, LifecycleTypeOK, OneHolder, HoldersAgree, InQueue, InReply, Active,
      DequeueFails
<1>15. ASSUME NEW w \in Workers, WorkerCrash(w) PROVE HoldersAgree'
  BY <1>15, ServiceAssumption
  DEF TypeOK, LifecycleTypeOK, OneHolder, HoldersAgree, InQueue, InReply, Active,
      WorkerCrash
<1>16. ASSUME NEW e \in Executors, NEW r \in Runs, JobSelects(e, r) PROVE HoldersAgree'
  BY <1>16, SelectsKeeps
<1>17. ASSUME NEW e \in Executors, NEW r \in Runs, JobClaims(e, r) PROVE HoldersAgree'
  BY <1>17, ServiceAssumption
  DEF TypeOK, LifecycleTypeOK, OneHolder, HoldersAgree, InQueue, InReply, Active,
      JobClaims
<1>18. ASSUME NEW e \in Executors, NEW r \in Runs, JobFinishes(e, r) PROVE HoldersAgree'
  BY <1>18, ServiceAssumption
  DEF TypeOK, LifecycleTypeOK, OneHolder, HoldersAgree, InQueue, InReply, Active,
      JobFinishes, JobEnds, lifecycleVars
<1>19. ASSUME NEW e \in Executors, NEW r \in Runs, JobFails(e, r) PROVE HoldersAgree'
  BY <1>19, ServiceAssumption
  DEF TypeOK, LifecycleTypeOK, OneHolder, HoldersAgree, InQueue, InReply, Active,
      JobFails, JobEnds, lifecycleVars
<1>20. CASE ApiCrash
  BY <1>20, ServiceAssumption
  DEF TypeOK, LifecycleTypeOK, OneHolder, HoldersAgree, InQueue, InReply, Active,
      ApiCrash
<1>21. CASE UNCHANGED vars
  BY <1>21, ServiceAssumption
  DEF TypeOK, LifecycleTypeOK, OneHolder, HoldersAgree, InQueue, InReply, Active,
      vars
<1>22. CASE RedisRecreated
  BY <1>22 DEF RedisRecreated, HoldersAgree, InQueue, InReply
<1> QED
  BY <1>1, <1>2, <1>3, <1>4, <1>5, <1>6, <1>7, <1>8, <1>9, <1>10, <1>11, <1>12, <1>13,
     <1>14, <1>15, <1>16, <1>17, <1>18, <1>19, <1>20, <1>21, <1>22
  DEF Next, RequestStep, LoopStep, JobStep, Fault

\* Only the last transaction of a job writes a result, with the status that fits it.
LEMMA ResultStep == TokenInv /\ [Next]_vars => ResultMatchesStatus'
<1> SUFFICES ASSUME TypeOK, OneHolder, HoldersAgree, ResultMatchesStatus, [Next]_vars
             PROVE  ResultMatchesStatus'
  BY DEF TokenInv
<1>1. ASSUME NEW r \in Runs, StoreBlob(r) PROVE ResultMatchesStatus'
  BY <1>1 DEF ResultMatchesStatus, StoreBlob
<1>2. ASSUME NEW r \in Runs, CommitRows(r) PROVE ResultMatchesStatus'
  BY <1>2
  DEF TypeOK, LifecycleTypeOK, HoldersAgree, ResultMatchesStatus, Terminal,
      CommitRows, Submit
<1>3. ASSUME NEW r \in Runs, CommitFails(r) PROVE ResultMatchesStatus'
  BY <1>3
  DEF TypeOK, LifecycleTypeOK, HoldersAgree, ResultMatchesStatus, Terminal,
      CommitFails, Submit, lifecycleVars
<1>4. ASSUME NEW r \in Runs, Enqueue(r) PROVE ResultMatchesStatus'
  BY <1>4 DEF ResultMatchesStatus, Enqueue
<1>5. ASSUME NEW r \in Runs, EnqueueFails(r) PROVE ResultMatchesStatus'
  BY <1>5 DEF ResultMatchesStatus, EnqueueFails
<1>6. ASSUME NEW r \in Runs, ScheduleBackground(r) PROVE ResultMatchesStatus'
  BY <1>6 DEF ResultMatchesStatus, ScheduleBackground
<1>7. ASSUME NEW w \in Workers, Acquire(w) PROVE ResultMatchesStatus'
  BY <1>7 DEF ResultMatchesStatus, Acquire
<1>8. ASSUME NEW w \in Workers, Pop(w) PROVE ResultMatchesStatus'
  BY <1>8 DEF ResultMatchesStatus, Pop
<1>9. ASSUME NEW w \in Workers, Receive(w) PROVE ResultMatchesStatus'
  BY <1>9 DEF ResultMatchesStatus, Receive
<1>10. ASSUME NEW w \in Workers, PollTimeout(w) PROVE ResultMatchesStatus'
  BY <1>10 DEF ResultMatchesStatus, PollTimeout
<1>11. ASSUME NEW w \in Workers, Backoff(w) PROVE ResultMatchesStatus'
  BY <1>11 DEF ResultMatchesStatus, Backoff
<1>12. ASSUME NEW w \in Workers, WorkerRestart(w) PROVE ResultMatchesStatus'
  BY <1>12 DEF ResultMatchesStatus, WorkerRestart
<1>13. ASSUME NEW w \in Workers, LateReply(w) PROVE ResultMatchesStatus'
  BY <1>13 DEF ResultMatchesStatus, LateReply
<1>14. ASSUME NEW w \in Workers, DequeueFails(w) PROVE ResultMatchesStatus'
  BY <1>14 DEF ResultMatchesStatus, DequeueFails
<1>15. ASSUME NEW w \in Workers, WorkerCrash(w) PROVE ResultMatchesStatus'
  BY <1>15 DEF ResultMatchesStatus, WorkerCrash
<1>16. ASSUME NEW e \in Executors, NEW r \in Runs, JobSelects(e, r) PROVE ResultMatchesStatus'
  BY <1>16 DEF ResultMatchesStatus, JobSelects
<1>17. ASSUME NEW e \in Executors, NEW r \in Runs, JobClaims(e, r) PROVE ResultMatchesStatus'
  BY <1>17
  DEF TypeOK, LifecycleTypeOK, HoldersAgree, ResultMatchesStatus, Terminal,
      JobClaims
<1>18. ASSUME NEW e \in Executors, NEW r \in Runs, JobFinishes(e, r) PROVE ResultMatchesStatus'
  BY <1>18
  DEF TypeOK, LifecycleTypeOK, HoldersAgree, ResultMatchesStatus, Terminal,
      JobFinishes, lifecycleVars, StatusFor
<1>19. ASSUME NEW e \in Executors, NEW r \in Runs, JobFails(e, r) PROVE ResultMatchesStatus'
  BY <1>19
  DEF TypeOK, LifecycleTypeOK, HoldersAgree, ResultMatchesStatus, Terminal,
      JobFails, lifecycleVars, StatusFor
<1>20. CASE ApiCrash
  BY <1>20 DEF ResultMatchesStatus, ApiCrash
<1>21. CASE UNCHANGED vars
  BY <1>21 DEF ResultMatchesStatus, vars
<1>22. CASE RedisRecreated
  BY <1>22 DEF RedisRecreated, ResultMatchesStatus
<1> QED
  BY <1>1, <1>2, <1>3, <1>4, <1>5, <1>6, <1>7, <1>8, <1>9, <1>10, <1>11, <1>12, <1>13,
     <1>14, <1>15, <1>16, <1>17, <1>18, <1>19, <1>20, <1>21, <1>22
  DEF Next, RequestStep, LoopStep, JobStep, Fault

\* Every step is a step of the lifecycle, or leaves run and result alone.
LEMMA LifecycleStep == TokenInv /\ [Next]_vars => [LifecycleNext]_lifecycleVars
<1> SUFFICES ASSUME TypeOK, OneHolder, HoldersAgree, ResultMatchesStatus, [Next]_vars
             PROVE  [LifecycleNext]_lifecycleVars
  BY DEF TokenInv
<1>1. ASSUME NEW r \in Runs, StoreBlob(r) PROVE [LifecycleNext]_lifecycleVars
  BY <1>1 DEF lifecycleVars, StoreBlob
<1>2. ASSUME NEW r \in Runs, CommitRows(r) PROVE [LifecycleNext]_lifecycleVars
  BY <1>2 DEF LifecycleNext, CommitRows
<1>3. ASSUME NEW r \in Runs, CommitFails(r) PROVE [LifecycleNext]_lifecycleVars
  BY <1>3 DEF LifecycleNext, CommitFails, lifecycleVars
<1>4. ASSUME NEW r \in Runs, Enqueue(r) PROVE [LifecycleNext]_lifecycleVars
  BY <1>4 DEF lifecycleVars, Enqueue
<1>5. ASSUME NEW r \in Runs, EnqueueFails(r) PROVE [LifecycleNext]_lifecycleVars
  BY <1>5 DEF lifecycleVars, EnqueueFails
<1>6. ASSUME NEW r \in Runs, ScheduleBackground(r) PROVE [LifecycleNext]_lifecycleVars
  BY <1>6 DEF lifecycleVars, ScheduleBackground
<1>7. ASSUME NEW w \in Workers, Acquire(w) PROVE [LifecycleNext]_lifecycleVars
  BY <1>7 DEF lifecycleVars, Acquire
<1>8. ASSUME NEW w \in Workers, Pop(w) PROVE [LifecycleNext]_lifecycleVars
  BY <1>8 DEF lifecycleVars, Pop
<1>9. ASSUME NEW w \in Workers, Receive(w) PROVE [LifecycleNext]_lifecycleVars
  BY <1>9 DEF lifecycleVars, Receive
<1>10. ASSUME NEW w \in Workers, PollTimeout(w) PROVE [LifecycleNext]_lifecycleVars
  BY <1>10 DEF lifecycleVars, PollTimeout
<1>11. ASSUME NEW w \in Workers, Backoff(w) PROVE [LifecycleNext]_lifecycleVars
  BY <1>11 DEF lifecycleVars, Backoff
<1>12. ASSUME NEW w \in Workers, WorkerRestart(w) PROVE [LifecycleNext]_lifecycleVars
  BY <1>12 DEF lifecycleVars, WorkerRestart
<1>13. ASSUME NEW w \in Workers, LateReply(w) PROVE [LifecycleNext]_lifecycleVars
  BY <1>13 DEF lifecycleVars, LateReply
<1>14. ASSUME NEW w \in Workers, DequeueFails(w) PROVE [LifecycleNext]_lifecycleVars
  BY <1>14 DEF lifecycleVars, DequeueFails
<1>15. ASSUME NEW w \in Workers, WorkerCrash(w) PROVE [LifecycleNext]_lifecycleVars
  BY <1>15 DEF lifecycleVars, WorkerCrash
<1>16. ASSUME NEW e \in Executors, NEW r \in Runs, JobSelects(e, r)
       PROVE  [LifecycleNext]_lifecycleVars
  BY <1>16 DEF lifecycleVars, JobSelects
<1>17. ASSUME NEW e \in Executors, NEW r \in Runs, JobClaims(e, r)
       PROVE  [LifecycleNext]_lifecycleVars
  BY <1>17 DEF HoldersAgree, LifecycleNext, Claim, JobClaims
<1>18. ASSUME NEW e \in Executors, NEW r \in Runs, JobFinishes(e, r)
       PROVE  [LifecycleNext]_lifecycleVars
  BY <1>18 DEF HoldersAgree, LifecycleNext, Finish, JobFinishes, lifecycleVars
<1>19. ASSUME NEW e \in Executors, NEW r \in Runs, JobFails(e, r)
       PROVE  [LifecycleNext]_lifecycleVars
  BY <1>19 DEF HoldersAgree, LifecycleNext, Claim, Finish, JobFails, lifecycleVars
<1>20. CASE ApiCrash
  BY <1>20 DEF lifecycleVars, ApiCrash
<1>21. CASE UNCHANGED vars
  BY <1>21 DEF lifecycleVars, vars
<1>22. CASE RedisRecreated
  BY <1>22 DEF RedisRecreated, lifecycleVars
<1> QED
  BY <1>1, <1>2, <1>3, <1>4, <1>5, <1>6, <1>7, <1>8, <1>9, <1>10, <1>11, <1>12, <1>13,
     <1>14, <1>15, <1>16, <1>17, <1>18, <1>19, <1>20, <1>21, <1>22
  DEF Next, RequestStep, LoopStep, JobStep, Fault

\* TokenInv is inductive.
LEMMA TokenStep == TokenInv /\ [Next]_vars => TokenInv'
  BY TypeStep, OneHolderStep, HoldersStep, ResultStep DEF TokenInv

-----------------------------------------------------------------------------
(* Theorems.                                                                  *)

\* The token invariant holds of every behaviour of the service.
THEOREM TokenInvariant == Spec => []TokenInv
  BY InitToken, TokenStep, PTL DEF Spec

\* Type correctness of the queue, the slots, the replies and the jobs.
THEOREM ServiceTyped == Spec => []TypeOK
<1>1. TokenInv => TypeOK
  BY DEF TokenInv
<1> QED BY <1>1, TokenInvariant, PTL

\* Single delivery: whatever fails, a run is never in two hands (queue.py, worker.py), so
\* the unlocked check-then-claim of run_validation() (validate.py:40-49) is safe in this
\* service.
THEOREM SingleDelivery == Spec => []OneHolder
<1>1. TokenInv => OneHolder
  BY DEF TokenInv
<1> QED BY <1>1, TokenInvariant, PTL

\* Who holds a run knows its status, and was handed it after its rows were committed.
THEOREM HoldersKnow == Spec => []HoldersAgree
<1>1. TokenInv => HoldersAgree
  BY DEF TokenInv
<1> QED BY <1>1, TokenInvariant, PTL

\* A result is there exactly when its run is over, and agrees with its status.
THEOREM ResultsMatch == Spec => []ResultMatchesStatus
<1>1. TokenInv => ResultMatchesStatus
  BY DEF TokenInv
<1> QED BY <1>1, TokenInvariant, PTL

\* The service implements the lifecycle: whatever is lost or fails, a run is submitted,
\* claimed once and finished once.
THEOREM ServiceImplementsLifecycle == Spec => LifecycleSpec
<1>1. Init => LifecycleInit
  BY DEF Init
<1> QED BY <1>1, TokenInvariant, LifecycleStep, PTL DEF Spec, LifecycleSpec

-----------------------------------------------------------------------------
(* The slots of a worker.                                                    *)

\* The slots of one worker add up, and a worker works on finitely many runs.
WorkerSlots(w) ==
  /\ IsFiniteSet(Active(w))
  /\ IF main[w] = "down"
     THEN free[w] = WorkerConcurrency /\ Active(w) = {} /\ reply[w] = NoRun
     ELSE /\ free[w] + Cardinality(Active(w)) + (IF main[w] = "dequeue" THEN 1 ELSE 0)
               = WorkerConcurrency
          /\ main[w] # "dequeue" => reply[w] = NoRun

\* The API process runs no job that is queued.
ApiIdle == Active(Api) \cap Queued = {}

SlotInv == ApiIdle /\ \A w \in Workers : WorkerSlots(w)

\* Every semaphore starts full, with no job.
LEMMA InitSlots == Init => SlotInv
<1> SUFFICES ASSUME Init PROVE SlotInv
  OBVIOUS
<1>1. \A e \in Executors : Active(e) = {}
  BY DEF Init, Active
<1>2. IsFiniteSet({}) /\ Cardinality({}) = 0
  BY FS_EmptySet
<1>3. ApiIdle
  BY <1>1 DEF ApiIdle, Executors
<1>4. ASSUME NEW w \in Workers PROVE WorkerSlots(w)
  <2>1. /\ main[w] = "acquire" /\ free[w] = WorkerConcurrency /\ reply[w] = NoRun
    BY DEF Init
  <2>2. Active(w) = {}
    BY <1>1 DEF Executors
  <2> QED BY <1>2, <2>1, <2>2, ServiceAssumption DEF WorkerSlots
<1> QED BY <1>3, <1>4 DEF SlotInv

\* A worker whose loop, semaphore, reply and jobs are left alone keeps its slots.
LEMMA SlotsFrame ==
  ASSUME NEW w \in Workers, WorkerSlots(w),
         main'[w] = main[w], free'[w] = free[w], reply'[w] = reply[w],
         \A r \in Runs : job'[w][r] = "idle" <=> job[w][r] = "idle"
  PROVE  WorkerSlots(w)'
<1>1. Active(w)' = Active(w)
  BY DEF Active
<1> QED BY <1>1 DEF WorkerSlots

\* A job that ends gives back the slot it held.
LEMMA SlotsJobEnds ==
  ASSUME TypeOK, NEW w \in Workers, WorkerSlots(w), NEW e \in Executors, NEW r \in Runs,
         job[e][r] # "idle", JobEnds(e, r), UNCHANGED <<main, reply>>
  PROVE  WorkerSlots(w)'
<1>1. CASE e # w
  <2>1. job'[w] = job[w] /\ free'[w] = free[w]
    BY <1>1 DEF JobEnds, Released, TypeOK, Executors
  <2> QED BY <2>1, SlotsFrame
<1>2. CASE e = w
  <2>1. free' = [free EXCEPT ![w] = @ + 1] /\ job' = [job EXCEPT ![w][r] = "idle"]
    BY <1>2 DEF JobEnds, Released
  <2>2. free'[w] = free[w] + 1 /\ free[w] \in Nat
    BY <2>1 DEF TypeOK
  <2>3. Active(w)' = Active(w) \ {r} /\ r \in Active(w)
    BY <1>2, <2>1 DEF Active, TypeOK, Executors
  <2>4. main[w] # "down"
    BY <2>3 DEF WorkerSlots
  <2>5. /\ IsFiniteSet(Active(w)')
        /\ Cardinality(Active(w)') = Cardinality(Active(w)) - 1
        /\ Cardinality(Active(w)) \in Nat
    BY <2>3, FS_RemoveElement, FS_CardinalityType DEF WorkerSlots
  <2> QED BY <2>2, <2>4, <2>5, ServiceAssumption DEF WorkerSlots
<1> QED BY <1>1, <1>2

\* The slot of the poll becomes the slot of the job; OneHolder says the job is a new one.
LEMMA SlotsReceive ==
  ASSUME TypeOK, OneHolder, NEW w \in Workers, WorkerSlots(w), Receive(w)
  PROVE  WorkerSlots(w)'
<1>1. PICK r \in Runs : reply[w] = r
  BY DEF Receive, TypeOK
<1>2. /\ main[w] = "dequeue"
      /\ reply' = [reply EXCEPT ![w] = NoRun]
      /\ job' = [job EXCEPT ![w][r] = "start"]
      /\ main' = [main EXCEPT ![w] = "acquire"]
      /\ free' = free
  BY <1>1 DEF Receive
<1>3. r \notin Active(w)
  BY <1>1 DEF OneHolder, InReply, Executors
<1>4. Active(w)' = Active(w) \cup {r}
  BY <1>2 DEF Active, TypeOK, Executors
<1>5. /\ IsFiniteSet(Active(w)')
      /\ Cardinality(Active(w)') = Cardinality(Active(w)) + 1
      /\ Cardinality(Active(w)) \in Nat
  BY <1>3, <1>4, FS_AddElement, FS_CardinalityType DEF WorkerSlots
<1>6. main'[w] = "acquire" /\ reply'[w] = NoRun /\ free'[w] = free[w] /\ free[w] \in Nat
  BY <1>2 DEF TypeOK
<1> QED BY <1>2, <1>5, <1>6 DEF WorkerSlots

\* A dead worker holds nothing and its semaphore is made anew.
LEMMA SlotsCrash ==
  ASSUME TypeOK, NEW w \in Workers, WorkerCrash(w)
  PROVE  WorkerSlots(w)'
<1>1. /\ main'[w] = "down" /\ free'[w] = WorkerConcurrency /\ reply'[w] = NoRun
      /\ job'[w] = [r \in Runs |-> "idle"]
  BY DEF WorkerCrash, TypeOK, Executors
<1>2. Active(w)' = {}
  BY <1>1 DEF Active
<1>3. IsFiniteSet({})
  BY FS_EmptySet
<1> QED BY <1>1, <1>2, <1>3 DEF WorkerSlots

\* The loop takes a slot before it polls and gives it back on every path but the spawn.
LEMMA SlotsLoop ==
  ASSUME TypeOK, NEW w \in Workers, WorkerSlots(w),
         \/ Acquire(w) \/ Pop(w) \/ PollTimeout(w) \/ Backoff(w) \/ WorkerRestart(w)
         \/ LateReply(w) \/ DequeueFails(w)
  PROVE  WorkerSlots(w)'
<1>1. Active(w)' = Active(w)
  BY DEF Active, Acquire, Pop, PollTimeout, Backoff, WorkerRestart, LateReply, DequeueFails
<1>2. IsFiniteSet(Active(w)) /\ Cardinality(Active(w)) \in Nat /\ free[w] \in Nat
  BY FS_CardinalityType DEF WorkerSlots, TypeOK
<1>3. Cardinality({}) = 0
  BY FS_EmptySet
<1> HIDE DEF Active
<1>4. CASE Acquire(w)
  BY <1>1, <1>2, <1>4 DEF Acquire, WorkerSlots, TypeOK
<1>5. CASE Pop(w)
  BY <1>1, <1>2, <1>5 DEF Pop, WorkerSlots, TypeOK
<1>6. CASE PollTimeout(w)
  BY <1>1, <1>2, <1>6 DEF PollTimeout, Released, WorkerSlots, TypeOK
<1>7. CASE Backoff(w)
  BY <1>1, <1>2, <1>7 DEF Backoff, WorkerSlots, TypeOK
<1>8. CASE WorkerRestart(w)
  <2>1. /\ free[w] = WorkerConcurrency /\ Active(w) = {} /\ reply[w] = NoRun
    BY <1>8 DEF WorkerRestart, WorkerSlots
  <2>2. main'[w] = "acquire" /\ UNCHANGED <<free, reply>>
    BY <1>8 DEF WorkerRestart, TypeOK
  <2>3. Active(w)' = {}
    BY <1>1, <2>1
  <2> QED BY <1>2, <1>3, <2>1, <2>2, <2>3, ServiceAssumption DEF WorkerSlots
<1>9. CASE LateReply(w)
  BY <1>1, <1>2, <1>9 DEF LateReply, Released, WorkerSlots, TypeOK
<1>10. CASE DequeueFails(w)
  BY <1>1, <1>2, <1>10 DEF DequeueFails, Released, WorkerSlots, TypeOK
<1> QED BY <1>4, <1>5, <1>6, <1>7, <1>8, <1>9, <1>10

\* A step of the loop of v is nothing to the slots of w.
LEMMA SlotsOther ==
  ASSUME TypeOK, NEW w \in Workers, WorkerSlots(w), NEW v \in Workers, v # w,
         LoopStep(v) \/ LateReply(v) \/ DequeueFails(v) \/ WorkerCrash(v)
  PROVE  WorkerSlots(w)'
<1>1. main'[w] = main[w] /\ free'[w] = free[w] /\ reply'[w] = reply[w]
  BY DEF LoopStep, Acquire, Pop, Receive, PollTimeout, Backoff, WorkerRestart, LateReply,
         DequeueFails, WorkerCrash, Released, TypeOK
<1>2. job'[w] = job[w]
  BY DEF LoopStep, Acquire, Pop, Receive, PollTimeout, Backoff, WorkerRestart, LateReply,
         DequeueFails, WorkerCrash, TypeOK, Executors
<1> QED BY <1>1, <1>2, SlotsFrame

\* Every step keeps the slots of every worker.
LEMMA SlotsStep ==
  ASSUME TokenInv, [Next]_vars, NEW w \in Workers, WorkerSlots(w)
  PROVE  WorkerSlots(w)'
<1>1. TypeOK /\ OneHolder
  BY DEF TokenInv
<1>2. ASSUME NEW r \in Runs,
             \/ StoreBlob(r) \/ CommitRows(r) \/ CommitFails(r) \/ Enqueue(r) \/ EnqueueFails(r)
      PROVE  WorkerSlots(w)'
  <2>1. UNCHANGED <<main, free, reply, job>>
    BY <1>2 DEF StoreBlob, CommitRows, CommitFails, Enqueue, EnqueueFails
  <2> QED BY <2>1, SlotsFrame
<1>3. ASSUME NEW r \in Runs, ScheduleBackground(r) PROVE WorkerSlots(w)'
  <2>1. UNCHANGED <<main, free, reply>> /\ job'[w] = job[w]
    BY <1>1, <1>3, ServiceAssumption DEF ScheduleBackground, TypeOK, Executors
  <2> QED BY <2>1, SlotsFrame
<1>4. CASE ApiCrash
  <2>1. UNCHANGED <<main, free, reply>> /\ job'[w] = job[w]
    BY <1>1, <1>4, ServiceAssumption DEF ApiCrash, TypeOK, Executors
  <2> QED BY <2>1, SlotsFrame
<1>5. ASSUME NEW v \in Workers,
             LoopStep(v) \/ LateReply(v) \/ DequeueFails(v) \/ WorkerCrash(v)
      PROVE  WorkerSlots(w)'
  <2>1. CASE v # w
    BY <1>1, <1>5, <2>1, SlotsOther
  <2>2. CASE v = w
    BY <1>1, <1>5, <2>2, SlotsLoop, SlotsReceive, SlotsCrash, Zenon DEF LoopStep
  <2> QED BY <2>1, <2>2
<1>6. ASSUME NEW e \in Executors, NEW r \in Runs, JobSelects(e, r) PROVE WorkerSlots(w)'
  <2>1. CASE run[r] = "queued"
    <3>1. UNCHANGED <<main, free, reply>> /\ job' = [job EXCEPT ![e][r] = "claim"]
             /\ job[e][r] = "start"
      BY <1>6, <2>1 DEF JobSelects
    <3>2. \A s \in Runs : job'[w][s] = "idle" <=> job[w][s] = "idle"
      BY <1>1, <3>1 DEF TypeOK, Executors
    <3> QED BY <3>1, <3>2, SlotsFrame
  <2>2. CASE run[r] # "queued"
    <3>1. JobEnds(e, r) /\ job[e][r] # "idle" /\ UNCHANGED <<main, reply>>
      BY <1>6, <2>2 DEF JobSelects
    <3> QED BY <1>1, <3>1, SlotsJobEnds
  <2> QED BY <2>1, <2>2
<1>7. ASSUME NEW e \in Executors, NEW r \in Runs, JobClaims(e, r) PROVE WorkerSlots(w)'
  <2>1. UNCHANGED <<main, free, reply>> /\ job' = [job EXCEPT ![e][r] = "work"]
          /\ job[e][r] = "claim"
    BY <1>7 DEF JobClaims
  <2>2. \A s \in Runs : job'[w][s] = "idle" <=> job[w][s] = "idle"
    BY <1>1, <2>1 DEF TypeOK, Executors
  <2> QED BY <2>1, <2>2, SlotsFrame
<1>8. ASSUME NEW e \in Executors, NEW r \in Runs, JobFinishes(e, r) \/ JobFails(e, r)
      PROVE  WorkerSlots(w)'
  <2>1. JobEnds(e, r) /\ job[e][r] # "idle" /\ UNCHANGED <<main, reply>>
    BY <1>8 DEF JobFinishes, JobFails
  <2> QED BY <1>1, <2>1, SlotsJobEnds
<1>9. CASE UNCHANGED vars
  <2>1. UNCHANGED <<main, free, reply, job>>
    BY <1>9 DEF vars
  <2> QED BY <2>1, SlotsFrame
<1>10. CASE RedisRecreated
  <2>1. UNCHANGED <<main, free, reply, job>>
    BY <1>10 DEF RedisRecreated
  <2> QED BY <2>1, SlotsFrame
<1> QED
  BY <1>2, <1>3, <1>4, <1>5, <1>6, <1>7, <1>8, <1>9, <1>10
  DEF Next, RequestStep, JobStep, Fault

\* Only ScheduleBackground starts a job in the API process, and for no queued run.
LEMMA ApiIdleStep ==
  ASSUME TokenInv, [Next]_vars, ApiIdle
  PROVE  ApiIdle'
<1> SUFFICES ASSUME NEW s \in Queued PROVE job'[Api][s] = "idle"
  BY DEF ApiIdle, Active
<1>1. s \in Runs /\ job[Api][s] = "idle"
  BY QueuedAssumption DEF ApiIdle, Active
<1>2. job \in [Executors -> [Runs -> JobStates]]
  BY DEF TokenInv, TypeOK
<1>3. ASSUME NEW r \in Runs, RequestStep(r) \/ CommitFails(r) \/ EnqueueFails(r)
      PROVE  job'[Api][s] = job[Api][s]
  <2>1. CASE ScheduleBackground(r)
    BY <1>2, <2>1 DEF ScheduleBackground, Executors
  <2>2. CASE ~ScheduleBackground(r)
    BY <1>3, <2>2 DEF RequestStep, StoreBlob, CommitRows, CommitFails, Enqueue, EnqueueFails
  <2> QED BY <2>1, <2>2
<1>4. ASSUME NEW v \in Workers,
             LoopStep(v) \/ LateReply(v) \/ DequeueFails(v) \/ WorkerCrash(v)
      PROVE  job'[Api] = job[Api]
  BY <1>2, <1>4, ServiceAssumption
  DEF LoopStep, Acquire, Pop, Receive, PollTimeout, Backoff, WorkerRestart, LateReply,
      DequeueFails, WorkerCrash, Executors
<1>5. ASSUME NEW e \in Executors, NEW r \in Runs, JobStep(e, r) \/ JobFails(e, r)
      PROVE  job'[Api][s] = job[Api][s]
  <2>1. job[e][r] # "idle"
    BY <1>5 DEF JobStep, JobSelects, JobClaims, JobFinishes, JobFails
  <2>2. e # Api \/ r # s
    BY <1>1, <2>1
  <2>3. \E x \in JobStates : job' = [job EXCEPT ![e][r] = x]
    BY <1>5 DEF JobStep, JobSelects, JobClaims, JobFinishes, JobFails, JobEnds, JobStates
  <2> QED BY <1>1, <1>2, <2>2, <2>3 DEF Executors
<1>6. CASE ApiCrash
  BY <1>1, <1>2, <1>6 DEF ApiCrash, Executors
<1>7. CASE UNCHANGED vars
  BY <1>1, <1>7 DEF vars
<1>8. CASE RedisRecreated
  BY <1>1, <1>8 DEF RedisRecreated
<1> QED
  BY <1>1, <1>3, <1>4, <1>5, <1>6, <1>7, <1>8 DEF Next, Fault

\* SlotInv is inductive relative to TokenInv.
LEMMA SlotInvStep == TokenInv /\ SlotInv /\ [Next]_vars => SlotInv'
  BY SlotsStep, ApiIdleStep, Zenon DEF SlotInv

\* Slots are conserved by every path of main() and _run_one(), faults included.
THEOREM SlotsConserved == Spec => []SlotConservation
<1>1. SlotInv => SlotConservation
  BY DEF SlotInv, WorkerSlots, SlotConservation
<1> QED BY <1>1, InitSlots, SlotInvStep, TokenInvariant, PTL DEF Spec

\* Slots that add up bound the work.
LEMMA SlotsBound == TypeOK /\ SlotInv => BoundedWork
<1> SUFFICES ASSUME TypeOK, SlotInv, NEW w \in Workers
             PROVE  Cardinality(Active(w) \cup {r \in Runs : InReply(w, r)})
                      <= WorkerConcurrency
  BY DEF BoundedWork, SlotInv, ApiIdle
<1> DEFINE coming == {r \in Runs : InReply(w, r)}
<1>1. /\ IsFiniteSet(Active(w)) /\ Cardinality(Active(w)) \in Nat /\ free[w] \in Nat
  BY FS_CardinalityType DEF SlotInv, WorkerSlots, TypeOK
<1>2. CASE reply[w] = NoRun
  <2>1. Active(w) \cup coming = Active(w)
    BY <1>2, ServiceAssumption DEF InReply
  <2>2. Cardinality(Active(w)) <= WorkerConcurrency
    <3>1. CASE main[w] = "down"
      BY <3>1, FS_EmptySet, ServiceAssumption DEF SlotInv, WorkerSlots
    <3>2. CASE main[w] # "down"
      BY <1>1, <3>2, ServiceAssumption DEF SlotInv, WorkerSlots
    <3> QED BY <3>1, <3>2
  <2> QED BY <2>1, <2>2
<1>3. CASE reply[w] # NoRun
  <2>1. main[w] = "dequeue" /\ Cardinality(Active(w)) + 1 <= WorkerConcurrency
    BY <1>1, <1>3, ServiceAssumption DEF SlotInv, WorkerSlots
  <2>2. Active(w) \cup coming = Active(w) \cup {reply[w]}
    BY <1>3 DEF InReply, TypeOK
  <2>3. Cardinality(Active(w) \cup {reply[w]}) <= Cardinality(Active(w)) + 1
    BY <1>1, FS_AddElement
  <2>4. Cardinality(Active(w) \cup {reply[w]}) \in Nat
    BY <1>1, FS_AddElement, FS_CardinalityType
  <2> QED BY <1>1, <2>1, <2>2, <2>3, <2>4, ServiceAssumption
<1> QED BY <1>2, <1>3

\* No worker exceeds WORKER_CONCURRENCY (worker.py:35-50), the run that is on its way to
\* it counted, and the API process runs none that is queued.
THEOREM WorkIsBounded == Spec => []BoundedWork
<1>1. TokenInv /\ SlotInv => BoundedWork
  BY SlotsBound DEF TokenInv
<1> QED BY <1>1, InitSlots, SlotInvStep, TokenInvariant, PTL DEF Spec

-----------------------------------------------------------------------------
(* Losses: what faults cost the service.  LossInv says that the queued runs  *)
(* nobody will finish are finitely many and no more than the faults so far   *)
(* have cost (Cost), and, so that it is inductive, that the list, the        *)
(* replies and the jobs of the workers hold queued runs only.  A step adds   *)
(* to Lost the runs it drops, no others; that a dying worker drops no more   *)
(* than its slots is BoundedWork.                                            *)

\* What the workers and Redis have to do with are queued runs.
QueuedOnly ==
  /\ \A r \in Runs : InQueue(r) => r \in Queued
  /\ \A w \in Workers :
       /\ \A r \in Runs : InReply(w, r) => r \in Queued
       /\ Active(w) \subseteq Queued

\* Queued runs that are lost, the contents of a lost list apart, and what faults
\* may have cost by now.
Loss == (Lost \cap Queued) \ flushed
Cost == WorkerConcurrency * crashes + dbErrors + redisErrors + lateReplies

Accounted ==
  /\ IsFiniteSet(Loss) /\ Cardinality(Loss) <= Cost
  /\ Lost \ Queued # {} => apiCrashes + dbErrors > 0

LossInv == QueuedOnly /\ Accounted

\* Somebody has the run in hand.
Held(r) ==
  \/ InQueue(r)
  \/ \E w \in Workers : InReply(w, r)
  \/ \E e \in Executors : r \in Active(e)

-----------------------------------------------------------------------------
(* What a step loses.                                                        *)

\* The price of the faults is a number.
LEMMA CostTyped ==
  ASSUME TypeOK
  PROVE  Cost \in Nat
<1>1. /\ crashes \in Nat /\ dbErrors \in Nat /\ redisErrors \in Nat /\ lateReplies \in Nat
      /\ WorkerConcurrency \in Nat
  BY ServiceAssumption DEF TypeOK
<1> QED
  BY <1>1 DEF Cost

\* A step drops no run but those of D: it takes no other out of every hand, nor
\* accepts one that nobody has, nor reopens one.
Spares(D) ==
  \A r \in Runs \ D :
    req'[r] = "accepted" /\ run'[r] \notin Terminal =>
      /\ req[r] = "accepted" \/ Held(r)'
      /\ run[r] \notin Terminal \/ Held(r)'
      /\ Held(r) => Held(r)'

\* What a step spares it does not lose.
LEMMA OnlyDropped ==
  ASSUME NEW D, Spares(D)
  PROVE  Lost' \subseteq Lost \cup D
<1>1. \A r \in Runs :
        /\ r \in Lost <=> req[r] = "accepted" /\ run[r] \notin Terminal /\ ~Held(r)
        /\ r \in Lost' <=> req'[r] = "accepted" /\ run'[r] \notin Terminal /\ ~Held(r)'
  BY DEF Lost, Held
<1>2. Lost' \subseteq Runs
  BY DEF Lost
<1> QED
  BY <1>1, <1>2 DEF Spares

\* The account after a step that drops the runs D and raises the price by as many.
LEMMA AccountGrows ==
  ASSUME TypeOK, Accounted, NEW D, IsFiniteSet(D),
         Loss' \subseteq Loss \cup D,
         NEW price \in Nat, Cardinality(D) <= price, Cost' = Cost + price,
         Lost' \ Queued # {} => Lost \ Queued # {} \/ apiCrashes' + dbErrors' > 0,
         apiCrashes' \in {apiCrashes, apiCrashes + 1}, dbErrors' \in {dbErrors, dbErrors + 1}
  PROVE  Accounted'
<1>1. Cost \in Nat /\ apiCrashes \in Nat /\ dbErrors \in Nat
  BY CostTyped DEF TypeOK
<1>2. IsFiniteSet(Loss) /\ Cardinality(Loss) <= Cost /\ Cardinality(Loss) \in Nat
  BY FS_CardinalityType DEF Accounted
<1>3. /\ IsFiniteSet(Loss \cup D) /\ Cardinality(Loss \cup D) <= Cardinality(Loss) + Cardinality(D)
      /\ Cardinality(D) \in Nat /\ Cardinality(Loss \cap D) \in Nat
  <2>1. /\ IsFiniteSet(Loss \cup D)
        /\ Cardinality(Loss \cup D) = Cardinality(Loss) + Cardinality(D) - Cardinality(Loss \cap D)
    BY <1>2, FS_Union
  <2>2. IsFiniteSet(Loss \cap D)
    BY <1>2, FS_Intersection
  <2>3. Cardinality(D) \in Nat /\ Cardinality(Loss \cap D) \in Nat
    BY <2>2, FS_CardinalityType
  <2> QED
    BY <1>2, <2>1, <2>3
<1>4. IsFiniteSet(Loss') /\ Cardinality(Loss') <= Cardinality(Loss \cup D)
  BY <1>3, FS_Subset
<1>5. Cardinality(Loss') \in Nat /\ Cardinality(Loss \cup D) \in Nat
  BY <1>3, <1>4, FS_CardinalityType
<1>6. Cardinality(Loss') <= Cost'
  BY <1>1, <1>2, <1>3, <1>4, <1>5
<1>7. Lost' \ Queued # {} => apiCrashes' + dbErrors' > 0
  <2>1. CASE Lost \ Queued # {}
    <3>1. apiCrashes + dbErrors > 0
      BY <2>1 DEF Accounted
    <3>2. \A a, b \in Nat : \A c \in {a, a + 1}, d \in {b, b + 1} :
            a + b > 0 => c + d > 0
      OBVIOUS
    <3> QED
      BY <1>1, <3>1, <3>2, Zenon
  <2>2. CASE Lost \ Queued = {}
    BY <2>2
  <2> QED
    BY <2>1, <2>2
<1> QED
  BY <1>4, <1>6, <1>7 DEF Accounted

\* The account after a step that costs nothing and drops no run.
LEMMA AccountKept ==
  ASSUME TypeOK, Accounted, Lost' \subseteq Lost,
         UNCHANGED <<crashes, redisErrors, lateReplies, flushed>>,
         apiCrashes' \in {apiCrashes, apiCrashes + 1}, dbErrors' = dbErrors
  PROVE  Accounted'
<1>1. Cost' = Cost /\ Cost \in Nat
  BY CostTyped DEF Cost
<1>2. Loss' \subseteq Loss \cup {} /\ IsFiniteSet({}) /\ Cardinality({}) = 0
  BY FS_EmptySet DEF Loss
<1>3. Lost' \ Queued # {} => Lost \ Queued # {}
  OBVIOUS
<1>4. Cost' = Cost + 0
  BY <1>1
<1> QED
  BY <1>2, <1>3, <1>4, AccountGrows
-----------------------------------------------------------------------------
(* The runs in hand.                                                         *)

\* With the list, the replies and the jobs as they were, so is who is in hand.
LEMMA HeldFrame ==
  ASSUME UNCHANGED <<queue, reply, job>>, NEW r \in Runs
  PROVE  Held(r)' = Held(r)
  BY DEF Held, InQueue, InReply, Active

\* LPUSH takes the run in hand, and lets none go.
LEMMA HeldPush ==
  ASSUME TypeOK, NEW r \in Runs, queue' = <<r>> \o queue, UNCHANGED <<reply, job>>
  PROVE  Held(r)' /\ \A s \in Runs : Held(s) => Held(s)'
<1>1. /\ Len(queue') = Len(queue) + 1 /\ Len(queue) \in Nat
      /\ queue'[1] = r
      /\ \A i \in 2 .. Len(queue) + 1 : i - 1 \in 1 .. Len(queue) /\ queue'[i] = queue[i - 1]
  BY PushLeft DEF TypeOK
<1>2. InQueue(r)'
  <2>1. 1 \in 1 .. Len(queue')
    BY <1>1
  <2> QED
    BY <1>1, <2>1 DEF InQueue
<1>3. ASSUME NEW s \in Runs, InQueue(s) PROVE InQueue(s)'
  <2>1. PICK i \in 1 .. Len(queue) : queue[i] = s
    BY <1>3 DEF InQueue
  <2>2. i + 1 \in 2 .. Len(queue) + 1 /\ i + 1 \in 1 .. Len(queue') /\ (i + 1) - 1 = i
    BY <1>1
  <2>3. queue'[i + 1] = s
    BY <1>1, <2>1, <2>2
  <2> QED
    BY <2>2, <2>3 DEF InQueue
<1>4. \A s \in Runs, w \in Workers : InReply(w, s)' = InReply(w, s)
  BY DEF InReply
<1>5. \A e \in Executors : Active(e)' = Active(e)
  BY DEF Active
<1> QED
  BY <1>2, <1>3, <1>4, <1>5 DEF Held

\* BRPOP lets no run go: the item is on its way to the worker.
LEMMA HeldPop ==
  ASSUME TypeOK, NEW w \in Workers, Pop(w), NEW s \in Runs, Held(s)
  PROVE  Held(s)'
<1>1. /\ Len(queue') = Len(queue) - 1 /\ Len(queue) \in 1 .. Len(queue)
      /\ \A i \in 1 .. Len(queue) - 1 :
           i \in 1 .. Len(queue) /\ i # Len(queue) /\ queue'[i] = queue[i]
  BY PopRight DEF Pop, TypeOK
<1>2. /\ reply' = [reply EXCEPT ![w] = queue[Len(queue)]] /\ job' = job
      /\ reply[w] = NoRun
  BY DEF Pop
<1>3. CASE InQueue(s)
  <2>1. PICK i \in 1 .. Len(queue) : queue[i] = s
    BY <1>3 DEF InQueue
  <2>2. CASE i = Len(queue)
    BY <1>2, <2>1, <2>2 DEF Held, InReply, TypeOK
  <2>3. CASE i # Len(queue)
    <3>1. i \in 1 .. Len(queue') /\ queue'[i] = s
      BY <1>1, <2>1, <2>3
    <3> QED
      BY <3>1 DEF Held, InQueue
  <2> QED
    BY <2>2, <2>3
<1>4. ASSUME NEW v \in Workers, InReply(v, s)
      PROVE  InReply(v, s)'
  BY <1>2, <1>4, ServiceAssumption DEF InReply, TypeOK
<1>5. \A e \in Executors : Active(e)' = Active(e)
  BY <1>2 DEF Active
<1> QED
  BY <1>3, <1>4, <1>5 DEF Held

\* The reply becomes a job.
LEMMA HeldReceive ==
  ASSUME TypeOK, NEW w \in Workers, Receive(w), NEW s \in Runs, Held(s)
  PROVE  Held(s)'
<1>1. PICK r \in Runs : reply[w] = r
  BY DEF Receive, TypeOK
<1>2. /\ reply' = [reply EXCEPT ![w] = NoRun]
      /\ job' = [job EXCEPT ![w][r] = "start"]
      /\ queue' = queue
      /\ w \in Executors
  BY <1>1 DEF Receive, Executors
<1>3. InQueue(s)' = InQueue(s)
  BY <1>2 DEF InQueue
<1>4. \A e \in Executors : Active(e) \subseteq Active(e)'
  BY <1>2 DEF Active, TypeOK
<1>5. r \in Active(w)'
  BY <1>2 DEF Active, TypeOK
<1>6. ASSUME NEW v \in Workers, InReply(v, s)
      PROVE  InReply(v, s)' \/ s \in Active(w)'
  BY <1>1, <1>2, <1>5, <1>6 DEF InReply, TypeOK
<1> QED
  BY <1>2, <1>3, <1>4, <1>6 DEF Held
\* A job that ends lets its run go, and no other.
LEMMA HeldEnds ==
  ASSUME TypeOK, NEW e \in Executors, NEW r \in Runs, JobEnds(e, r),
         UNCHANGED <<queue, reply>>, NEW s \in Runs, s # r, Held(s)
  PROVE  Held(s)'
<1>1. job' = [job EXCEPT ![e][r] = "idle"]
  BY DEF JobEnds
<1>2. InQueue(s)' = InQueue(s) /\ \A w \in Workers : InReply(w, s)' = InReply(w, s)
  BY DEF InQueue, InReply
<1>3. \A f \in Executors : s \in Active(f) => s \in Active(f)'
  BY <1>1 DEF Active, TypeOK
<1> QED
  BY <1>2, <1>3 DEF Held

-----------------------------------------------------------------------------
(* What the list, the replies and the workers hold is queued.                *)

\* The parts of QueuedOnly, for a step that adds nothing to them but queued runs.
LEMMA QueuedFrame ==
  ASSUME QueuedOnly,
         \A r \in Runs : InQueue(r)' => InQueue(r) \/ r \in Queued,
         \A w \in Workers, r \in Runs : InReply(w, r)' => InReply(w, r) \/ r \in Queued,
         \A w \in Workers : Active(w)' \subseteq Active(w) \cup Queued
  PROVE  QueuedOnly'
  BY DEF QueuedOnly

\* No step hands a run to Redis or a worker that was not submitted to the queue.
LEMMA QueuedStep ==
  ASSUME TypeOK, QueuedOnly, [Next]_vars
  PROVE  QueuedOnly'
<1>1. CASE UNCHANGED <<queue, reply, job>>
  BY <1>1, QueuedFrame DEF InQueue, InReply, Active
<1>2. ASSUME NEW r \in Queued, queue' = <<r>> \o queue, UNCHANGED <<reply, job>>
      PROVE  QueuedOnly'
  <2>1. /\ Len(queue') = Len(queue) + 1 /\ Len(queue) \in Nat
        /\ queue'[1] = r
        /\ \A i \in 2 .. Len(queue) + 1 : i - 1 \in 1 .. Len(queue) /\ queue'[i] = queue[i - 1]
    BY <1>2, PushLeft, QueuedAssumption DEF TypeOK
  <2>2. \A s \in Runs : InQueue(s)' => s = r \/ InQueue(s)
    BY <2>1 DEF InQueue
  <2> QED
    BY <1>2, <2>2, QueuedFrame DEF InReply, Active
<1>3. ASSUME NEW r \in Runs, Enqueue(r) \/ EnqueueFails(r)
      PROVE  QueuedOnly'
  BY <1>1, <1>2, <1>3 DEF Enqueue, EnqueueFails
<1>4. ASSUME NEW r \in Runs, ScheduleBackground(r)
      PROVE  QueuedOnly'
  <2>1. \A w \in Workers : Active(w)' = Active(w)
    BY <1>4, ServiceAssumption DEF ScheduleBackground, Active, TypeOK, Executors
  <2> QED
    BY <1>4, <2>1, QueuedFrame DEF ScheduleBackground, InQueue, InReply
<1>5. ASSUME NEW w \in Workers, Pop(w)
      PROVE  QueuedOnly'
  <2>1. /\ Len(queue') = Len(queue) - 1 /\ Len(queue) \in 1 .. Len(queue)
        /\ \A i \in 1 .. Len(queue) - 1 : i \in 1 .. Len(queue) /\ queue'[i] = queue[i]
    BY <1>5, PopRight DEF Pop, TypeOK
  <2>2. reply' = [reply EXCEPT ![w] = queue[Len(queue)]] /\ job' = job
    BY <1>5 DEF Pop
  <2>3. \A s \in Runs : InQueue(s)' => InQueue(s)
    BY <2>1 DEF InQueue
  <2>4. \A v \in Workers, s \in Runs : InReply(v, s)' => InReply(v, s) \/ InQueue(s)
    BY <2>1, <2>2 DEF InReply, InQueue, TypeOK
  <2> QED
    BY <2>2, <2>3, <2>4, QueuedFrame DEF QueuedOnly, Active
<1>6. ASSUME NEW w \in Workers, Receive(w)
      PROVE  QueuedOnly'
  <2>1. PICK r \in Runs : reply[w] = r
    BY <1>6 DEF Receive, TypeOK
  <2>2. /\ reply' = [reply EXCEPT ![w] = NoRun] /\ queue' = queue
        /\ job' = [job EXCEPT ![w][r] = "start"]
    BY <1>6, <2>1 DEF Receive
  <2>3. r \in Queued
    BY <2>1 DEF QueuedOnly, InReply
  <2>4. \A v \in Workers, s \in Runs : InReply(v, s)' => InReply(v, s)
    BY <2>2, ServiceAssumption DEF InReply, TypeOK
  <2>5. \A v \in Workers : Active(v)' \subseteq Active(v) \cup {r}
    BY <2>2 DEF Active, TypeOK, Executors
  <2> QED
    BY <2>2, <2>3, <2>4, <2>5, QueuedFrame DEF InQueue
<1>7. ASSUME UNCHANGED queue \/ queue' = <<>>,
             \A w \in Workers : reply'[w] = reply[w] \/ reply'[w] = NoRun,
             \A e \in Executors, r \in Runs : job'[e][r] # "idle" => job[e][r] # "idle"
      PROVE  QueuedOnly'
  <2>1. \A s \in Runs : InQueue(s)' => InQueue(s)
    <3>1. queue' = <<>> => 1 .. Len(queue') = {}
      OBVIOUS
    <3> QED
      BY <1>7, <3>1 DEF InQueue
  <2>2. \A w \in Workers, s \in Runs : InReply(w, s)' => InReply(w, s)
    BY <1>7, ServiceAssumption DEF InReply
  <2>3. \A w \in Workers : Active(w)' \subseteq Active(w)
    BY <1>7 DEF Active, Executors
  <2> QED
    BY <2>1, <2>2, <2>3, QueuedFrame
<1>8. ASSUME NEW w \in Workers, LateReply(w) \/ DequeueFails(w) \/ WorkerCrash(w)
      PROVE  QueuedOnly'
  <2>1. \A v \in Workers : reply'[v] = reply[v] \/ reply'[v] = NoRun
    BY <1>8 DEF LateReply, DequeueFails, WorkerCrash, TypeOK
  <2>2. \A e \in Executors, r \in Runs : job'[e][r] # "idle" => job[e][r] # "idle"
    BY <1>8 DEF LateReply, DequeueFails, WorkerCrash, TypeOK, Executors
  <2> QED
    BY <1>7, <1>8, <2>1, <2>2 DEF LateReply, DequeueFails, WorkerCrash
<1>9. ASSUME NEW e \in Executors, NEW r \in Runs, JobStep(e, r) \/ JobFails(e, r)
      PROVE  QueuedOnly'
  <2>1. /\ UNCHANGED <<queue, reply>> /\ job[e][r] # "idle"
        /\ \/ job' = [job EXCEPT ![e][r] = "idle"] \/ job' = [job EXCEPT ![e][r] = "claim"]
           \/ job' = [job EXCEPT ![e][r] = "work"]
    BY <1>9 DEF JobStep, JobSelects, JobClaims, JobFinishes, JobFails, JobEnds
  <2>2. \A f \in Executors, s \in Runs : job'[f][s] # "idle" => job[f][s] # "idle"
    BY <2>1 DEF TypeOK
  <2> QED
    BY <1>7, <2>1, <2>2
<1>10. CASE ApiCrash \/ RedisRecreated
  <2>1. CASE ApiCrash
    <3>1. \A e \in Executors, r \in Runs : job'[e][r] # "idle" => job[e][r] # "idle"
      BY <2>1 DEF ApiCrash, TypeOK, Executors
    <3> QED
      BY <1>7, <2>1, <3>1 DEF ApiCrash
  <2>2. CASE RedisRecreated
    <3>1. queue' = <<>> /\ UNCHANGED <<reply, job>>
      BY <2>2 DEF RedisRecreated
    <3> QED
      BY <1>7, <3>1
  <2> QED
    BY <1>10, <2>1, <2>2
<1>11. CASE UNCHANGED vars
  BY <1>1, <1>11 DEF vars
<1>12. ASSUME NEW r \in Runs, StoreBlob(r) \/ CommitRows(r) \/ CommitFails(r)
       PROVE  QueuedOnly'
  BY <1>1, <1>12 DEF StoreBlob, CommitRows, CommitFails
<1>13. ASSUME NEW w \in Workers, Acquire(w) \/ PollTimeout(w) \/ Backoff(w) \/ WorkerRestart(w)
       PROVE  QueuedOnly'
  BY <1>1, <1>13 DEF Acquire, PollTimeout, Backoff, WorkerRestart
<1> QED
  BY <1>3, <1>4, <1>5, <1>6, <1>8, <1>9, <1>10, <1>11, <1>12, <1>13
  DEF Next, RequestStep, LoopStep, Fault
-----------------------------------------------------------------------------
(* The account of each step.                                                 *)

\* What a job that ends drops is its run.
LEMMA EndsSpare ==
  ASSUME TypeOK, NEW e \in Executors, NEW r \in Runs, JobEnds(e, r),
         UNCHANGED <<queue, reply, req>>, \A s \in Runs \ {r} : run'[s] = run[s]
  PROVE  Spares({r})
  BY HeldEnds DEF Spares

\* No run is lost by a step that costs nothing.
LEMMA FreeSteps ==
  ASSUME TypeOK, HoldersAgree, ResultMatchesStatus, Accounted,
         \/ \E r \in Runs : RequestStep(r)
         \/ \E w \in Workers : LoopStep(w)
         \/ \E e \in Executors, r \in Runs : JobStep(e, r)
         \/ UNCHANGED vars
  PROVE  Accounted'
<1>1. UNCHANGED faults
  BY DEF RequestStep, StoreBlob, CommitRows, Enqueue, ScheduleBackground, LoopStep, Acquire,
         Pop, Receive, PollTimeout, Backoff, WorkerRestart, JobStep, JobSelects, JobClaims,
         JobFinishes, vars
<1>2. SUFFICES Lost' \subseteq Lost
  BY <1>1, AccountKept DEF faults
<1>3. ASSUME Spares({})
      PROVE  Lost' \subseteq Lost
  BY <1>3, OnlyDropped
<1>4. CASE UNCHANGED <<queue, reply, job, req, run>>
  BY <1>3, <1>4, HeldFrame DEF Spares
<1>5. ASSUME NEW r \in Runs, StoreBlob(r) \/ CommitRows(r)
      PROVE  Spares({})
  <2>1. /\ \A s \in Runs : req'[s] = "accepted" => s # r /\ req[s] = "accepted"
        /\ \A s \in Runs : s # r => run'[s] = run[s]
    BY <1>5 DEF StoreBlob, CommitRows, Submit, TypeOK, LifecycleTypeOK
  <2>2. UNCHANGED <<queue, reply, job>>
    BY <1>5 DEF StoreBlob, CommitRows
  <2> QED
    BY <2>1, <2>2, HeldFrame DEF Spares
<1>6. ASSUME NEW r \in Runs, Enqueue(r)
      PROVE  Spares({})
  <2>1. /\ \A s \in Runs : s # r => req'[s] = req[s]
        /\ run' = run /\ queue' = <<r>> \o queue /\ UNCHANGED <<reply, job>>
    BY <1>6 DEF Enqueue, TypeOK
  <2>2. Held(r)' /\ \A s \in Runs : Held(s) => Held(s)'
    BY <2>1, HeldPush
  <2> QED
    BY <2>1, <2>2 DEF Spares
<1>7. ASSUME NEW r \in Runs, ScheduleBackground(r)
      PROVE  Spares({})
  <2>1. /\ \A s \in Runs : s # r => req'[s] = req[s]
        /\ run' = run /\ UNCHANGED <<queue, reply>>
    BY <1>7 DEF ScheduleBackground, TypeOK
  <2>2. \A e \in Executors : Active(e) \subseteq Active(e)'
    BY <1>7 DEF ScheduleBackground, Active, TypeOK
  <2>3. r \in Active(Api)' /\ Api \in Executors
    BY <1>7 DEF ScheduleBackground, Active, TypeOK, Executors
  <2>4. \A s \in Runs : InQueue(s)' = InQueue(s) /\ \A w \in Workers : InReply(w, s)' = InReply(w, s)
    BY <2>1 DEF InQueue, InReply
  <2>5. Held(r)' /\ \A s \in Runs : Held(s) => Held(s)'
    BY <2>2, <2>3, <2>4 DEF Held
  <2> QED
    BY <2>1, <2>5 DEF Spares
<1>8. ASSUME NEW w \in Workers, LoopStep(w)
      PROVE  Spares({})
  <2>1. CASE Pop(w)
    BY <2>1, HeldPop DEF Pop, Spares
  <2>2. CASE Receive(w)
    BY <2>2, HeldReceive DEF Receive, Spares
  <2>3. CASE Acquire(w) \/ PollTimeout(w) \/ Backoff(w) \/ WorkerRestart(w)
    BY <2>3, HeldFrame DEF Acquire, PollTimeout, Backoff, WorkerRestart, Spares
  <2> QED
    BY <1>8, <2>1, <2>2, <2>3 DEF LoopStep
<1>9. ASSUME NEW e \in Executors, NEW r \in Runs,
             UNCHANGED <<queue, reply, req>>, \A s \in Runs : s # r => run'[s] = run[s],
             \/ job' = [job EXCEPT ![e][r] = "claim"]
             \/ job' = [job EXCEPT ![e][r] = "work"]
      PROVE  Spares({})
  <2>1. PICK st \in {"claim", "work"} : job' = [job EXCEPT ![e][r] = st]
    BY <1>9
  <2>2. r \in Active(e)' /\ \A f \in Executors : Active(f) \subseteq Active(f)'
    BY <2>1 DEF Active, TypeOK
  <2>3. \A s \in Runs : InQueue(s)' = InQueue(s) /\ \A w \in Workers : InReply(w, s)' = InReply(w, s)
    BY <1>9 DEF InQueue, InReply
  <2>4. Held(r)' /\ \A s \in Runs : Held(s) => Held(s)'
    BY <2>2, <2>3 DEF Held
  <2> QED
    BY <1>9, <2>4 DEF Spares
<1>10. ASSUME NEW e \in Executors, NEW r \in Runs, JobStep(e, r)
       PROVE  Spares({})
  <2>1. CASE JobSelects(e, r)
    <3>1. run[r] = "queued"
      BY <2>1 DEF JobSelects, HoldersAgree
    <3> QED
      BY <1>9, <2>1, <3>1 DEF JobSelects
  <2>2. CASE JobClaims(e, r)
    BY <1>9, <2>2 DEF JobClaims, TypeOK, LifecycleTypeOK
  <2>3. CASE JobFinishes(e, r)
    <3>1. job[e][r] = "work" /\ run[r] = "running" /\ result[r] = "none"
      BY <2>3 DEF JobFinishes, HoldersAgree, ResultMatchesStatus, Terminal
    <3>2. PICK v \in {"verdict", "error"} : run' = [run EXCEPT ![r] = StatusFor(v)]
      BY <2>3, <3>1 DEF JobFinishes
    <3>3. run'[r] \in Terminal /\ \A s \in Runs : s # r => run'[s] = run[s]
      BY <3>2 DEF StatusFor, Terminal, TypeOK, LifecycleTypeOK
    <3>4. JobEnds(e, r) /\ UNCHANGED <<queue, reply, req>>
      BY <2>3 DEF JobFinishes
    <3>5. Spares({r})
      BY <3>3, <3>4, EndsSpare
    <3> QED
      BY <3>3, <3>5 DEF Spares
  <2> QED
    BY <1>10, <2>1, <2>2, <2>3 DEF JobStep
<1>11. CASE UNCHANGED vars
  BY <1>4, <1>11 DEF vars
<1> QED
  BY <1>3, <1>5, <1>6, <1>7, <1>8, <1>10, <1>11 DEF RequestStep
\* A fault drops no more runs than it costs.
LEMMA FaultSteps ==
  ASSUME TypeOK, HoldersAgree, SlotInv, QueuedOnly, Accounted, Fault
  PROVE  Accounted'
<1> DEFINE k == WorkerConcurrency * crashes
<1>1. /\ WorkerConcurrency \in Nat /\ crashes \in Nat /\ dbErrors \in Nat
      /\ redisErrors \in Nat /\ lateReplies \in Nat /\ apiCrashes \in Nat /\ k \in Nat
  BY ServiceAssumption DEF TypeOK
<1>2. /\ IsFiniteSet({}) /\ Cardinality({}) = 0
      /\ \A r : IsFiniteSet({r}) /\ Cardinality({r}) = 1
  BY FS_EmptySet, FS_Singleton
<1>3. ASSUME NEW D, Spares(D), UNCHANGED flushed
      PROVE  Loss' \subseteq Loss \cup D /\ Lost' \ Queued \subseteq (Lost \ Queued) \cup (D \ Queued)
  BY <1>3, OnlyDropped DEF Loss
<1>4. ASSUME NEW D, Spares(D), IsFiniteSet(D), Cardinality(D) <= 1, D \subseteq Queued,
             UNCHANGED <<flushed, crashes, apiCrashes>>,
             \/ dbErrors' = dbErrors + 1 /\ UNCHANGED <<redisErrors, lateReplies>>
             \/ redisErrors' = redisErrors + 1 /\ UNCHANGED <<dbErrors, lateReplies>>
             \/ lateReplies' = lateReplies + 1 /\ UNCHANGED <<dbErrors, redisErrors>>
      PROVE  Accounted'
  <2>1. Cost' = Cost + 1
    <3> HIDE DEF k
    <3>1. Cost = k + dbErrors + redisErrors + lateReplies
      BY DEF Cost, k
    <3>2. Cost' = k + dbErrors' + redisErrors' + lateReplies'
      BY <1>4 DEF Cost, k
    <3> QED
      BY <1>1, <1>4, <3>1, <3>2
  <2>2. Lost' \ Queued # {} => Lost \ Queued # {}
    BY <1>3, <1>4
  <2>3. apiCrashes' \in {apiCrashes, apiCrashes + 1} /\ dbErrors' \in {dbErrors, dbErrors + 1}
    BY <1>4
  <2>4. Loss' \subseteq Loss \cup D
    BY <1>3, <1>4
  <2> QED
    BY <1>4, <2>1, <2>2, <2>3, <2>4, AccountGrows
<1>5. ASSUME NEW r \in Runs, CommitFails(r)
      PROVE  Accounted'
  <2>1. /\ \A s \in Runs : req'[s] = "accepted" => s # r /\ req[s] = "accepted"
        /\ \A s \in Runs : s # r => run'[s] = run[s]
    BY <1>5 DEF CommitFails, Submit, TypeOK, LifecycleTypeOK, lifecycleVars
  <2>2. Spares({})
    BY <1>5, <2>1, HeldFrame DEF CommitFails, Spares
  <2> QED
    BY <1>2, <1>4, <1>5, <2>2 DEF CommitFails
<1>6. ASSUME NEW r \in Runs, EnqueueFails(r)
      PROVE  Accounted'
  <2>1. \A s \in Runs : (req'[s] = "accepted" => req[s] = "accepted") /\ run'[s] = run[s]
    BY <1>6 DEF EnqueueFails, TypeOK
  <2>2. \A s \in Runs : Held(s) => Held(s)'
    BY <1>6, HeldPush, HeldFrame DEF EnqueueFails
  <2>3. Spares({})
    BY <2>1, <2>2 DEF Spares
  <2> QED
    BY <1>2, <1>4, <1>6, <2>3 DEF EnqueueFails
<1>7. ASSUME NEW w \in Workers, LateReply(w) \/ DequeueFails(w)
      PROVE  Accounted'
  <2> DEFINE D == Runs \cap {reply[w]}
  <2>1. /\ UNCHANGED <<queue, job, req, run>> /\ reply' = [reply EXCEPT ![w] = NoRun]
    BY <1>7 DEF LateReply, DequeueFails
  <2>2. \A s \in Runs \ D : Held(s) => Held(s)'
    BY <2>1 DEF Held, InQueue, InReply, Active, TypeOK
  <2>3. Spares(D)
    BY <2>1, <2>2 DEF Spares
  <2>4. IsFiniteSet(D) /\ Cardinality(D) <= 1 /\ D \subseteq Queued
    <3>1. IsFiniteSet(D) /\ Cardinality(D) <= Cardinality({reply[w]})
      BY <1>2, FS_Intersection
    <3>2. D \subseteq Queued
      BY DEF QueuedOnly, InReply
    <3> QED
      BY <1>2, <3>1, <3>2
  <2> HIDE DEF D
  <2> QED
    BY <1>4, <1>7, <2>3, <2>4 DEF LateReply, DequeueFails
<1>8. ASSUME NEW w \in Workers, WorkerCrash(w)
      PROVE  Accounted'
  <2> DEFINE coming == {r \in Runs : InReply(w, r)}
             D == Active(w) \cup coming
  <2>1. /\ UNCHANGED <<queue, req, run>> /\ reply' = [reply EXCEPT ![w] = NoRun]
        /\ job' = [job EXCEPT ![w] = [r \in Runs |-> "idle"]]
    BY <1>8 DEF WorkerCrash
  <2>2. ASSUME NEW s \in Runs \ D, Held(s)
        PROVE  Held(s)'
    <3>1. InQueue(s)' = InQueue(s)
      BY <2>1 DEF InQueue
    <3>2. \A v \in Workers : InReply(v, s) => v # w /\ InReply(v, s)'
      BY <2>1, <2>2 DEF InReply, TypeOK
    <3>3. \A e \in Executors : s \in Active(e) => e # w /\ s \in Active(e)'
      BY <2>1, <2>2 DEF Active, TypeOK
    <3> QED
      BY <2>2, <3>1, <3>2, <3>3 DEF Held
  <2>3. Spares(D)
    BY <2>1, <2>2 DEF Spares
  <2>4. IsFiniteSet(D)
    <3>1. IsFiniteSet(Active(w))
      BY DEF SlotInv, WorkerSlots
    <3>2. coming \in SUBSET {reply[w]}
      BY DEF InReply
    <3>3. IsFiniteSet(coming)
      BY <1>2, <3>2, FS_Subset
    <3> QED
      BY <3>1, <3>3, FS_Union
  <2>5. Cardinality(D) <= WorkerConcurrency
    BY SlotsBound DEF BoundedWork
  <2>6. D \subseteq Queued
    BY DEF QueuedOnly
  <2>7. Cost' = Cost + WorkerConcurrency
    <3>1. \A m, n \in Nat : m * (n + 1) = m * n + m
      OBVIOUS
    <3>2. crashes' = crashes + 1 /\ UNCHANGED <<dbErrors, redisErrors, lateReplies>>
      BY <1>8 DEF WorkerCrash
    <3>3. WorkerConcurrency * crashes' = k + WorkerConcurrency
      BY <1>1, <3>1, <3>2
    <3> HIDE DEF k
    <3>4. Cost = k + dbErrors + redisErrors + lateReplies
      BY DEF Cost, k
    <3>5. Cost' = (k + WorkerConcurrency) + dbErrors + redisErrors + lateReplies
      BY <3>2, <3>3 DEF Cost
    <3> QED
      BY <1>1, <3>4, <3>5
  <2> HIDE DEF D
  <2>8. UNCHANGED <<flushed, apiCrashes, dbErrors>>
    BY <1>8 DEF WorkerCrash
  <2>9. Loss' \subseteq Loss \cup D /\ (Lost' \ Queued # {} => Lost \ Queued # {})
    BY <1>3, <2>3, <2>6, <2>8
  <2>10. apiCrashes' \in {apiCrashes, apiCrashes + 1} /\ dbErrors' \in {dbErrors, dbErrors + 1}
    BY <2>8
  <2> QED
    BY <1>1, <2>4, <2>5, <2>7, <2>9, <2>10, AccountGrows
<1>9. ASSUME NEW e \in Executors, NEW r \in Runs, JobFails(e, r)
      PROVE  Accounted'
  <2>1. \A s \in Runs \ {r} : run'[s] = run[s]
    BY <1>9 DEF JobFails, TypeOK, LifecycleTypeOK, lifecycleVars
  <2>2. Spares({r})
    BY <1>9, <2>1, EndsSpare DEF JobFails
  <2>3. /\ UNCHANGED <<flushed, crashes, apiCrashes, redisErrors, lateReplies>>
        /\ dbErrors' = dbErrors + 1
    BY <1>9 DEF JobFails
  <2>4. Loss' \subseteq Loss \cup {r}
    BY <1>3, <2>2, <2>3
  <2>5. Cost' = Cost + 1
    <3> HIDE DEF k
    <3>1. Cost = k + dbErrors + redisErrors + lateReplies
      BY DEF Cost, k
    <3>2. Cost' = k + (dbErrors + 1) + redisErrors + lateReplies
      BY <2>3 DEF Cost, k
    <3> QED
      BY <1>1, <3>1, <3>2
  <2>6. apiCrashes' + dbErrors' > 0
    BY <1>1, <2>3
  <2>7. apiCrashes' \in {apiCrashes, apiCrashes + 1} /\ dbErrors' \in {dbErrors, dbErrors + 1}
    BY <2>3
  <2>8. IsFiniteSet({r}) /\ Cardinality({r}) <= 1 /\ 1 \in Nat
    <3>1. IsFiniteSet({r}) /\ Cardinality({r}) = 1
      BY FS_Singleton, Zenon
    <3> QED
      BY <3>1
  <2> QED
    BY <2>4, <2>5, <2>6, <2>7, <2>8, AccountGrows
<1>10. ASSUME Loss' \subseteq Loss, UNCHANGED <<crashes, dbErrors, redisErrors, lateReplies>>,
              apiCrashes' \in {apiCrashes, apiCrashes + 1},
              Lost' \ Queued # {} => Lost \ Queued # {} \/ apiCrashes' + dbErrors' > 0
       PROVE  Accounted'
  <2>1. Cost' = Cost /\ Cost \in Nat
    BY <1>10, CostTyped DEF Cost
  <2>2. Cost' = Cost + 0 /\ Loss' \subseteq Loss \cup {}
    BY <1>10, <2>1
  <2>3. dbErrors' \in {dbErrors, dbErrors + 1}
    BY <1>10
  <2> QED
    BY <1>2, <1>10, <2>2, <2>3, AccountGrows
<1>11. CASE ApiCrash
  <2>1. /\ UNCHANGED <<queue, reply, run, flushed, crashes, dbErrors, redisErrors, lateReplies>>
        /\ apiCrashes' = apiCrashes + 1
        /\ \A s \in Runs : req'[s] = "accepted" => req[s] = "accepted"
        /\ job' = [job EXCEPT ![Api] = [r \in Runs |-> "idle"]]
    BY <1>11 DEF ApiCrash
  <2>2. ASSUME NEW s \in Runs \ Active(Api), Held(s)
        PROVE  Held(s)'
    <3>1. InQueue(s)' = InQueue(s) /\ \A w \in Workers : InReply(w, s)' = InReply(w, s)
      BY <2>1 DEF InQueue, InReply
    <3>2. \A e \in Executors : s \in Active(e) => s \in Active(e)'
      BY <2>1, <2>2 DEF Active, TypeOK
    <3> QED
      BY <2>2, <3>1, <3>2 DEF Held
  <2>3. Spares(Active(Api))
    BY <2>1, <2>2 DEF Spares
  <2>4. Loss' \subseteq Loss
    <3>1. Lost' \subseteq Lost \cup Active(Api)
      BY <2>3, OnlyDropped
    <3>2. Active(Api) \cap Queued = {}
      BY DEF SlotInv, ApiIdle
    <3> QED
      BY <2>1, <3>1, <3>2 DEF Loss
  <2>5. apiCrashes' + dbErrors' > 0
    BY <1>1, <2>1
  <2> QED
    BY <1>10, <2>1, <2>4, <2>5
<1>12. CASE RedisRecreated
  <2> DEFINE listed == {queue[i] : i \in 1 .. Len(queue)}
  <2>1. /\ UNCHANGED <<reply, job, req, run, crashes, dbErrors, redisErrors, lateReplies, apiCrashes>>
        /\ flushed' = flushed \cup listed
    BY <1>12 DEF RedisRecreated
  <2>2. ASSUME NEW s \in Runs \ listed, Held(s)
        PROVE  Held(s)'
    <3>1. ~InQueue(s)
      BY <2>2 DEF InQueue
    <3>2. /\ \A w \in Workers : InReply(w, s)' = InReply(w, s)
          /\ \A e \in Executors : Active(e)' = Active(e)
      BY <2>1 DEF InReply, Active
    <3> QED
      BY <2>2, <3>1, <3>2 DEF Held
  <2>3. Spares(listed)
    BY <2>1, <2>2 DEF Spares
  <2>4. Lost' \subseteq Lost \cup listed
    BY <2>3, OnlyDropped
  <2>5. listed \cap Runs \subseteq Queued
    BY DEF QueuedOnly, InQueue
  <2>6. Lost' \subseteq Runs
    BY DEF Lost
  <2>7. Loss' \subseteq Loss /\ (Lost' \ Queued # {} => Lost \ Queued # {})
    BY <2>1, <2>4, <2>5, <2>6 DEF Loss
  <2>8. apiCrashes' \in {apiCrashes, apiCrashes + 1}
    BY <2>1
  <2> QED
    BY <1>10, <2>1, <2>7, <2>8
<1> QED
  BY <1>5, <1>6, <1>7, <1>8, <1>9, <1>11, <1>12 DEF Fault

-----------------------------------------------------------------------------
(* Theorems.                                                                  *)

\* The account is balanced after every step.
LEMMA LossInvStep ==
  ASSUME TokenInv, SlotInv, LossInv, [Next]_vars
  PROVE  LossInv'
<1>1. TypeOK /\ HoldersAgree /\ ResultMatchesStatus
  BY DEF TokenInv
<1>2. QueuedOnly'
  BY <1>1, QueuedStep DEF LossInv
<1>3. Accounted'
  <2>1. CASE Fault
    BY <1>1, <2>1, FaultSteps DEF LossInv
  <2>2. CASE ~Fault
    BY <1>1, <2>2, FreeSteps DEF LossInv, Next
  <2> QED
    BY <2>1, <2>2
<1> QED
  BY <1>2, <1>3 DEF LossInv

\* Nothing is in hand initially, and nothing lost.
LEMMA InitLoss ==
  ASSUME Init
  PROVE  LossInv
<1>1. 1 .. Len(queue) = {}
  <2>1. Len(queue) = 0
    BY EmptySeq DEF Init
  <2> QED
    BY <2>1
<1>2. QueuedOnly
  BY <1>1, ServiceAssumption DEF QueuedOnly, Init, InQueue, InReply, Active, Executors
<1>3. Lost = {}
  BY DEF Lost, Init
<1>4. TypeOK
  BY InitToken DEF TokenInv
<1>5. Cost \in Nat /\ Cardinality({}) = 0 /\ IsFiniteSet({}) /\ Loss = {}
  BY <1>3, <1>4, CostTyped, FS_EmptySet DEF Loss
<1> QED
  BY <1>2, <1>3, <1>5 DEF LossInv, Accounted

\* What faults cost: a crash of a worker loses at most its slots, any other fault at
\* most one queued run; the backlog is never lost (worker.py:35-36).  A run that is not
\* queued is lost only to a crash of the API or a failing database.
THEOREM LossesAccounted == Spec => []LossAccounted
<1>1. Init => TokenInv /\ SlotInv /\ LossInv
  BY InitToken, InitSlots, InitLoss
<1>2. TokenInv /\ SlotInv /\ LossInv /\ [Next]_vars => (TokenInv /\ SlotInv /\ LossInv)'
  BY TokenStep, SlotInvStep, LossInvStep
<1>3. LossInv => LossAccounted
  BY DEF LossInv, Accounted, Loss, Cost, LossAccounted
<1> QED
  BY <1>1, <1>2, <1>3, PTL DEF Spec
=============================================================================

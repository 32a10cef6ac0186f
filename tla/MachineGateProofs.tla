------------------------- MODULE MachineGateProofs -------------------------
(***************************************************************************)
(* What the boot gate promises, for any images, workers and runs: a run    *)
(* records the hash of a verified machine; and, when the API executes its  *)
(* runs itself, the machine it records is the one that executed it.        *)
(***************************************************************************)
EXTENDS MachineGate, TLAPS

\* An API that serves runs an image that passed, and holds its hash.
ServesVerified ==
  serving => image[Api] \in Verified /\ verified = image[Api]

\* In the API's own process a run that waits is executed by the image that accepted
\* it, since the run goes when the process does; and what was executed was so.
SameProcess ==
  ~UseRedisQueue =>
    \A r \in Runs :
      /\ run[r].status = "queued" /\ place[r] = Api => serving /\ run[r].hash = image[Api]
      /\ run[r].status \in {"running", "done"} => run[r].ranOn = run[r].hash

GateInv == ServesVerified /\ HashIsVerified /\ SameProcess

-----------------------------------------------------------------------------
(* Types.                                                                    *)

\* What TypeOK says of the row of a run.
Rows == {NoRow} \cup [status : {"queued"}, hash : Hashes, ranOn : {None}]
                \cup [status : {"running", "done"}, hash : Hashes, ranOn : Images]

\* A row, field by field.
LEMMA RowFields ==
  ASSUME NEW x \in Rows
  PROVE  /\ x = [status |-> x.status, hash |-> x.hash, ranOn |-> x.ranOn]
         /\ x.status \in {"none", "queued", "running", "done"}
         /\ x.status # "none" => x.hash \in Hashes
         /\ x.status = "queued" => x.ranOn = None
         /\ x.status \in {"running", "done"} => x.ranOn \in Images
         /\ x.ranOn # None => x.status \in {"running", "done"}
BY DEF Rows, NoRow

\* What Execute makes of a row, ...
LEMMA Executed ==
  ASSUME TypeOK, NEW r \in Runs, NEW i,
         run' = [run EXCEPT ![r].status = "running", ![r].ranOn = i]
  PROVE  /\ run'[r] = [status |-> "running", hash |-> run[r].hash, ranOn |-> i]
         /\ run' = [run EXCEPT ![r] = run'[r]]
<1>1. run[r] \in Rows
  BY DEF TypeOK, Rows
<1>2. PICK a, b, d : run[r] = [status |-> a, hash |-> b, ranOn |-> d]
  BY <1>1, RowFields
<1> DEFINE x == [run[r] EXCEPT !.status = "running"]
<1>3. x = [status |-> "running", hash |-> b, ranOn |-> d]
  BY <1>2
<1>4. run'[r] = [x EXCEPT !.ranOn = i]
  BY DEF TypeOK
<1> HIDE DEF x
<1>5. [x EXCEPT !.ranOn = i] = [status |-> "running", hash |-> b, ranOn |-> i]
  BY <1>3
<1>6. run[r].hash = b
  BY <1>2
<1>7. run' = [run EXCEPT ![r] = run'[r]]
  BY DEF TypeOK
<1> QED  BY <1>4, <1>5, <1>6, <1>7

\* ... and Finish.
LEMMA Finished ==
  ASSUME TypeOK, NEW r \in Runs, run' = [run EXCEPT ![r].status = "done"]
  PROVE  /\ run'[r] = [status |-> "done", hash |-> run[r].hash, ranOn |-> run[r].ranOn]
         /\ run' = [run EXCEPT ![r] = run'[r]]
<1>1. run[r] \in Rows
  BY DEF TypeOK, Rows
<1>2. PICK a, b, d : run[r] = [status |-> a, hash |-> b, ranOn |-> d]
  BY <1>1, RowFields
<1>3. [run[r] EXCEPT !.status = "done"] = [status |-> "done", hash |-> b, ranOn |-> d]
  BY <1>2
<1>4. run'[r] = [run[r] EXCEPT !.status = "done"]
  BY DEF TypeOK
<1>5. run[r].hash = b /\ run[r].ranOn = d
  BY <1>2
<1>6. run' = [run EXCEPT ![r] = run'[r]]
  BY DEF TypeOK
<1> QED  BY <1>3, <1>4, <1>5, <1>6

\* A start gives one process an image, and leaves images images.
LEMMA StartTyped ==
  ASSUME TypeOK, NEW p \in Processes, NEW i \in Images \cup {None},
         image' = [image EXCEPT ![p] = i]
  PROVE  image' \in [Processes -> Images \cup {None}]
BY DEF TypeOK

\* Every step of a process or a run keeps the types.
LEMMA TypeStep ==
  ASSUME TypeOK, [Next]_vars
  PROVE  TypeOK'
<1>0. Api \in Processes
  BY DEF Processes
<1>1. ASSUME NEW p \in Processes, Start(p)  PROVE TypeOK'
  <2>1. starts' \in 0 .. MaxStarts
    BY <1>1, GateAssumption DEF Start, TypeOK
  <2>2. image' \in [Processes -> Images \cup {None}]
    BY <1>1, StartTyped DEF Start
  <2> QED  BY <1>1, <2>1, <2>2 DEF Start, TypeOK
<1>2. ASSUME NEW p \in Processes, Down(p)  PROVE TypeOK'
  <2>1. image' \in [Processes -> Images \cup {None}]
    BY <1>2, StartTyped DEF Down
  <2>2. place' \in [Runs -> Processes \cup {"redis", None}]
    BY <1>2 DEF Down, TypeOK
  <2>3. serving' \in BOOLEAN /\ verified' \in Images \cup {None}
    BY <1>2 DEF Down, TypeOK
  <2> QED  BY <1>2, <2>1, <2>2, <2>3 DEF Down, TypeOK
<1>3. CASE Gate
  BY <1>3, GateAssumption DEF Gate, TypeOK
<1>4. CASE GateRefuses
  BY <1>0, <1>2, <1>4 DEF GateRefuses
<1>5. ASSUME NEW r \in Runs, Submit(r)  PROVE TypeOK'
  <2> DEFINE hash == IF verified = None THEN "unknown" ELSE verified
  <2>1. hash \in Hashes
    BY DEF TypeOK, Hashes
  <2>2. run' = [run EXCEPT ![r] = [status |-> "queued", ranOn |-> None, hash |-> hash]]
    BY <1>5 DEF Submit
  <2> HIDE DEF hash
  <2>3. run' \in [Runs -> Rows]
    BY <2>1, <2>2 DEF TypeOK, Rows
  <2>4. place' \in [Runs -> Processes \cup {"redis", None}]
    BY <1>0, <1>5 DEF Submit, TypeOK
  <2> QED  BY <1>5, <2>3, <2>4 DEF Submit, TypeOK, Rows
<1>6. ASSUME NEW p \in Executors, NEW r \in Runs, Execute(p, r)  PROVE TypeOK'
  <2>1. p \in Processes
    BY DEF Executors, Processes
  <2>2. image[p] \in Images
    BY <1>6, <2>1 DEF Execute, TypeOK
  <2>3. run[r].hash \in Hashes
    BY <1>6, RowFields DEF Execute, TypeOK, Rows
  <2> DEFINE x == [status |-> "running", hash |-> run[r].hash, ranOn |-> image[p]]
  <2>4. x \in Rows
    BY <2>2, <2>3 DEF Rows
  <2>5. run' = [run EXCEPT ![r] = x]
    BY <1>6, Executed DEF Execute
  <2> HIDE DEF x
  <2>6. run' \in [Runs -> Rows]
    BY <2>4, <2>5 DEF TypeOK, Rows
  <2>7. place' \in [Runs -> Processes \cup {"redis", None}]
    BY <1>6, <2>1 DEF Execute, TypeOK
  <2> QED  BY <1>6, <2>6, <2>7 DEF Execute, TypeOK, Rows
<1>7. ASSUME NEW p \in Executors, NEW r \in Runs, Finish(p, r)  PROVE TypeOK'
  <2>1. run[r] \in Rows
    BY DEF TypeOK, Rows
  <2>2. run[r].hash \in Hashes /\ run[r].ranOn \in Images
    BY <1>7, <2>1, RowFields DEF Finish
  <2> DEFINE x == [status |-> "done", hash |-> run[r].hash, ranOn |-> run[r].ranOn]
  <2>3. x \in Rows
    BY <2>2 DEF Rows
  <2>4. run' = [run EXCEPT ![r] = x]
    BY <1>7, Finished DEF Finish
  <2> HIDE DEF x
  <2>5. run' \in [Runs -> Rows]
    BY <2>3, <2>4 DEF TypeOK, Rows
  <2>6. place' \in [Runs -> Processes \cup {"redis", None}]
    BY <1>7 DEF Finish, TypeOK
  <2> QED  BY <1>7, <2>5, <2>6 DEF Finish, TypeOK, Rows
<1>8. CASE UNCHANGED vars
  BY <1>8 DEF vars, TypeOK
<1>9. ASSUME NEW p \in Processes, Stop(p)  PROVE TypeOK'
  BY <1>2, <1>9 DEF Stop
<1> QED  BY <1>1, <1>3, <1>4, <1>5, <1>6, <1>7, <1>8, <1>9 DEF Next

\* Every variable of the gate stays in its type, whatever is deployed and stopped.
THEOREM GateTypeCorrect == Spec => []TypeOK
<1>1. Init => TypeOK
  <2> SUFFICES ASSUME Init  PROVE TypeOK
    OBVIOUS
  <2>1. run \in [Runs -> Rows]
    BY DEF Init, Rows
  <2>2. starts \in 0 .. MaxStarts
    BY GateAssumption DEF Init
  <2> QED  BY <2>1, <2>2 DEF Init, TypeOK, Rows
<1>2. TypeOK /\ [Next]_vars => TypeOK'
  BY TypeStep
<1> QED  BY <1>1, <1>2, PTL DEF Spec

-----------------------------------------------------------------------------
(* The gate.                                                                 *)

\* No boot, stop, submission or execution breaks the invariant: a boot that passes holds
\* the hash of the image it serves, and one that replaces the API takes its runs with it.
LEMMA GateStep ==
  ASSUME TypeOK, GateInv, [Next]_vars
  PROVE  GateInv'
<1>0. /\ Api \in Processes /\ Api \notin Workers
      /\ None \notin Verified /\ None \notin Images
  BY GateAssumption DEF Processes
<1>1. \A r \in Runs : run[r] \in Rows
  BY DEF TypeOK, Rows
<1>2. ASSUME NEW p \in Processes, Start(p)  PROVE GateInv'
  <2>1. serving => p # Api
    BY <1>0, <1>2 DEF Start, GateInv, ServesVerified
  <2>2. p # Api => image'[Api] = image[Api]
    BY <1>0, <1>2 DEF Start, TypeOK
  <2>3. ServesVerified'
    BY <1>2, <2>1, <2>2 DEF Start, GateInv, ServesVerified
  <2>4. SameProcess'
    BY <1>2, <2>1, <2>2 DEF Start, GateInv, SameProcess
  <2> QED  BY <1>2, <2>3, <2>4 DEF Start, GateInv, HashIsVerified
<1>3. ASSUME NEW p \in Processes, Down(p)  PROVE GateInv'
  <2>1. p # Api => image'[Api] = image[Api]
    BY <1>0, <1>3 DEF Down, TypeOK
  <2>2. ServesVerified'
    BY <1>3, <2>1 DEF Down, GateInv, ServesVerified
  <2>3. ASSUME NEW r \in Runs, place'[r] = Api  PROVE place[r] = Api /\ p # Api
    <3>1. place'[r] = IF place[r] = p THEN None ELSE place[r]
      BY <1>3 DEF Down
    <3>2. None # Api
      BY GateAssumption
    <3> QED  BY <2>3, <3>1, <3>2
  <2>4. SameProcess'
    BY <1>3, <2>1, <2>3 DEF Down, GateInv, SameProcess
  <2> QED  BY <1>3, <2>2, <2>4 DEF Down, GateInv, HashIsVerified
<1>4. CASE Gate
  BY <1>4 DEF Gate, GateInv, ServesVerified, HashIsVerified, SameProcess
<1>5. CASE GateRefuses
  BY <1>0, <1>3, <1>5 DEF GateRefuses
<1>6. ASSUME NEW r \in Runs, Submit(r)  PROVE GateInv'
  <2>1. verified = image[Api] /\ image[Api] \in Verified /\ verified # None /\ serving
    BY <1>0, <1>6 DEF Submit, GateInv, ServesVerified
  <2>2. run' = [run EXCEPT ![r] = [status |-> "queued", ranOn |-> None, hash |-> verified]]
    BY <1>6, <2>1 DEF Submit
  <2>3. /\ run'[r] = [status |-> "queued", ranOn |-> None, hash |-> verified]
        /\ \A q \in Runs : q # r => run'[q] = run[q]
    BY <2>2 DEF TypeOK
  <2>4. \A q \in Runs : q # r => place'[q] = place[q]
    BY <1>6 DEF Submit, TypeOK
  <2>5. HashIsVerified'
    BY <2>1, <2>3 DEF GateInv, HashIsVerified
  <2>6. SameProcess'
    BY <1>6, <2>1, <2>3, <2>4 DEF Submit, GateInv, SameProcess
  <2> QED  BY <1>6, <2>5, <2>6 DEF Submit, GateInv, ServesVerified
<1>7. ASSUME NEW p \in Executors, NEW r \in Runs, Execute(p, r)  PROVE GateInv'
  <2>1. /\ run'[r] = [status |-> "running", hash |-> run[r].hash, ranOn |-> image[p]]
        /\ run' = [run EXCEPT ![r] = run'[r]]
    BY <1>7, Executed DEF Execute
  <2>2. /\ run'[r].status = "running" /\ run'[r].hash = run[r].hash /\ run'[r].ranOn = image[p]
        /\ \A q \in Runs : q # r => run'[q] = run[q]
    BY <2>1 DEF TypeOK
  <2>3. \A q \in Runs : q # r => place'[q] = place[q]
    BY <1>7 DEF Execute, TypeOK
  <2>4. HashIsVerified'
    BY <1>7, <2>2 DEF Execute, GateInv, HashIsVerified
  <2>5. ~UseRedisQueue => p = Api /\ place[r] = Api
    BY <1>7 DEF Execute, Executors
  <2>6. ~UseRedisQueue => run[r].hash = image[p]
    BY <1>7, <2>5 DEF Execute, GateInv, SameProcess
  <2>7. SameProcess'
    BY <1>7, <2>2, <2>3, <2>6 DEF Execute, GateInv, SameProcess
  <2> QED  BY <1>7, <2>4, <2>7 DEF Execute, GateInv, ServesVerified
<1>8. ASSUME NEW p \in Executors, NEW r \in Runs, Finish(p, r)  PROVE GateInv'
  <2>1. /\ run'[r] = [status |-> "done", hash |-> run[r].hash, ranOn |-> run[r].ranOn]
        /\ run' = [run EXCEPT ![r] = run'[r]]
    BY <1>8, Finished DEF Finish
  <2>2. /\ run'[r].status = "done" /\ run'[r].hash = run[r].hash /\ run'[r].ranOn = run[r].ranOn
        /\ \A q \in Runs : q # r => run'[q] = run[q]
    BY <2>1 DEF TypeOK
  <2>3. \A q \in Runs : q # r => place'[q] = place[q]
    BY <1>8 DEF Finish, TypeOK
  <2>4. HashIsVerified'
    BY <1>8, <2>2 DEF Finish, GateInv, HashIsVerified
  <2>5. SameProcess'
    BY <1>8, <2>2, <2>3 DEF Finish, GateInv, SameProcess
  <2> QED  BY <1>8, <2>4, <2>5 DEF Finish, GateInv, ServesVerified
<1>9. CASE UNCHANGED vars
  BY <1>9 DEF vars, GateInv, ServesVerified, HashIsVerified, SameProcess
<1>10. ASSUME NEW p \in Processes, Stop(p)  PROVE GateInv'
  BY <1>3, <1>10 DEF Stop
<1> QED  BY <1>2, <1>4, <1>5, <1>6, <1>7, <1>8, <1>9, <1>10 DEF Next

\* The invariant of the gate, which the properties are read off.
LEMMA GateInvariant == Spec => []GateInv
<1>1. Init => GateInv
  <2> SUFFICES ASSUME Init  PROVE GateInv
    OBVIOUS
  <2>1. \A r \in Runs : run[r].status = "none"
    BY DEF Init, NoRow
  <2> QED  BY <2>1 DEF Init, GateInv, ServesVerified, HashIsVerified, SameProcess
<1>2. TypeOK /\ GateInv /\ [Next]_vars => GateInv'
  BY GateStep
<1> QED  BY <1>1, <1>2, GateTypeCorrect, PTL DEF Spec

\* "a run can be attributed to an exact verified spec": no order of boots, refusals,
\* submissions and stops has submit_document() record the hash of a machine that did
\* not pass, or its fallback "unknown", whoever executes the run.
THEOREM HashesAreVerified == Spec => []HashIsVerified
BY GateInvariant, PTL DEF GateInv

\* When the API executes its runs itself (no USE_REDIS_QUEUE), the hash of a run with
\* a result is that of the machine that executed it.
THEOREM AttributedInProcess == ASSUME ~UseRedisQueue PROVE Spec => []Attributed
<1>1. GateInv => Attributed
  BY DEF GateInv, SameProcess, Attributed
<1> QED  BY <1>1, GateInvariant, PTL

\* ... and no document is validated by a machine that did not pass the verifier
\* ("Unverified machines cannot run").
THEOREM OnlyVerifiedInProcess == ASSUME ~UseRedisQueue PROVE Spec => []OnlyVerifiedRun
<1>1. TypeOK /\ GateInv => OnlyVerifiedRun
  <2> SUFFICES ASSUME TypeOK, GateInv, NEW r \in Runs, run[r].ranOn # None
               PROVE  run[r].ranOn \in Verified
    BY DEF OnlyVerifiedRun
  <2>1. run[r].status \in {"running", "done"}
    BY RowFields DEF TypeOK, Rows
  <2> QED  BY <2>1 DEF GateInv, SameProcess, HashIsVerified
<1> QED  BY <1>1, GateInvariant, GateTypeCorrect, PTL
=============================================================================

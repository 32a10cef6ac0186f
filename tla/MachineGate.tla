---------------------------- MODULE MachineGate ----------------------------
(***************************************************************************)
(* Which machine validates a document, and which one the run is attributed *)
(* to: the boot gate (backend/app/main.py, backend/orca/verification.py),  *)
(* the hash a submission records (backend/api/documents.py) and the        *)
(* process that executes the run with the machine it loaded when it was    *)
(* imported (machines/__init__.py).  An image is one build of the service; *)
(* it stands for the machine files it contains, and for their hash.        *)
(* Deploying, stopping and crashing are the environment's.                 *)
(***************************************************************************)
EXTENDS Naturals

CONSTANTS Images,
          Verified,        \* images whose machine files all pass the verifier
          Workers, Api,
          Runs,
          None,            \* no image, no place, no hash yet
          UseRedisQueue,   \* a worker executes the runs; otherwise the API does
          MaxStarts        \* bound: times a process is started

ASSUME GateAssumption ==
  /\ Verified \subseteq Images
  /\ Api \notin Workers
  /\ None \notin Images \cup Workers \cup {Api}
  /\ UseRedisQueue \in BOOLEAN
  /\ MaxStarts \in Nat

VARIABLES image,      \* the image each process runs; None: it is down
          serving,    \* the API accepts requests
          verified,   \* VERIFIED_MACHINES: the hash it holds; None: it is empty
          run,        \* the row of a run, and the machine that executed it
          place,      \* where the run is: "redis", a process, or None
          starts

vars == <<image, serving, verified, run, place, starts>>

Processes == Workers \cup {Api}

Executors == IF UseRedisQueue THEN Workers ELSE {Api}

Hashes == Images \cup {"unknown"}

NoRow == [status |-> "none", hash |-> None, ranOn |-> None]

TypeOK ==
  /\ image \in [Processes -> Images \cup {None}]
  /\ serving \in BOOLEAN
  /\ verified \in Images \cup {None}
  /\ run \in [Runs -> {NoRow} \cup
                [status : {"queued"}, hash : Hashes, ranOn : {None}] \cup
                [status : {"running", "done"}, hash : Hashes, ranOn : Images]]
  /\ place \in [Runs -> Processes \cup {"redis", None}]
  /\ starts \in 0 .. MaxStarts

Init ==
  /\ image = [p \in Processes |-> None]
  /\ serving = FALSE
  /\ verified = None
  /\ run = [r \in Runs |-> NoRow]
  /\ place = [r \in Runs |-> None]
  /\ starts = 0

\* Mutant: requests are served while the gate is still at work.
Start_Serves(p) ==
  /\ image[p] = None
  /\ starts < MaxStarts
  /\ starts' = starts + 1
  /\ \E i \in Images : image' = [image EXCEPT ![p] = i]
  /\ serving' = (serving \/ p = Api)
  /\ UNCHANGED <<verified, run, place>>

\* A process is started from some image: it parses its machine files as it is
\* imported, and the API's VERIFIED_MACHINES is empty until the gate has run.
Start(p) ==
  /\ image[p] = None
  /\ starts < MaxStarts
  /\ starts' = starts + 1
  /\ \E i \in Images : image' = [image EXCEPT ![p] = i]
  /\ UNCHANGED <<serving, verified, run, place>>

\* Mutant: a failed verification is logged, and the API serves all the same.
Gate_Warns ==
  /\ image[Api] # None
  /\ ~serving
  /\ serving' = TRUE
  /\ verified' = image[Api]
  /\ UNCHANGED <<image, run, place, starts>>

\* lifespan(): every file passes, so its hash is recorded and the API serves.
Gate ==
  /\ image[Api] \in Verified
  /\ ~serving
  /\ serving' = TRUE
  /\ verified' = image[Api]
  /\ UNCHANGED <<image, run, place, starts>>

\* MachineVerificationError: a file that fails, or a verifier that is missing or
\* takes over 120 s.  A process that goes down takes the runs it holds with it.
Down(p) ==
  /\ image' = [image EXCEPT ![p] = None]
  /\ serving' = (serving /\ p # Api)
  /\ verified' = IF p = Api THEN None ELSE verified
  /\ place' = [r \in Runs |-> IF place[r] = p THEN None ELSE place[r]]
  /\ UNCHANGED <<run, starts>>

GateRefuses ==
  /\ image[Api] # None
  /\ ~serving
  /\ Down(Api)

Stop(p) ==
  /\ image[p] # None
  /\ p = Api => serving
  /\ Down(p)

\* submit_document(): the hash is the one the API verified at its boot, and the
\* run goes to Redis (which may fail after the commit) or to a task of the API.
Submit(r) ==
  /\ serving
  /\ run[r].status = "none"
  /\ run' = [run EXCEPT ![r] =
               [status |-> "queued", ranOn |-> None,
                hash |-> IF verified = None THEN "unknown" ELSE verified]]
  /\ \E where \in IF UseRedisQueue THEN {"redis", None} ELSE {Api} :
       place' = [place EXCEPT ![r] = where]
  /\ UNCHANGED <<image, serving, verified, starts>>

\* run_validation() claims the run and drives MACHINE_DEFS of its own process,
\* which in a worker no gate has looked at.
Execute(p, r) ==
  /\ image[p] # None
  /\ run[r].status = "queued"
  /\ place[r] = IF UseRedisQueue THEN "redis" ELSE p
  /\ place' = [place EXCEPT ![r] = p]
  /\ run' = [run EXCEPT ![r].status = "running", ![r].ranOn = image[p]]
  /\ UNCHANGED <<image, serving, verified, starts>>

\* The result is stored with the run's verdict.
Finish(p, r) ==
  /\ image[p] # None
  /\ place[r] = p
  /\ run[r].status = "running"
  /\ run' = [run EXCEPT ![r].status = "done"]
  /\ place' = [place EXCEPT ![r] = None]
  /\ UNCHANGED <<image, serving, verified, starts>>

Next ==
  \/ \E p \in Processes : Start(p) \/ Stop(p)
  \/ Gate \/ GateRefuses
  \/ \E r \in Runs : Submit(r)
  \/ \E p \in Executors, r \in Runs : Execute(p, r) \/ Finish(p, r)

Spec == Init /\ [][Next]_vars

-----------------------------------------------------------------------------

(* "a run can be attributed to an exact verified spec": whatever the order of *)
(* boots, refusals, submissions and stops, the hash a run records is that of a *)
(* machine that passed the gate, never the "unknown" of the fallback.         *)
HashIsVerified == \A r \in Runs : run[r].status # "none" => run[r].hash \in Verified

(* "its result records the machine id, version, and content hash that produced *)
(* it": a run that has a result was executed by the machine of its hash.       *)
Attributed == \A r \in Runs : run[r].status = "done" => run[r].ranOn = run[r].hash

(* "Unverified machines cannot run": no document is validated by a machine that *)
(* did not pass the verifier.                                                   *)
OnlyVerifiedRun == \A r \in Runs : run[r].ranOn # None => run[r].ranOn \in Verified

=============================================================================

------------------------- MODULE RunValidationProofs -------------------------
(***************************************************************************)
(* What RunValidation promises, for any fields, chunks, processes and      *)
(* bounds on failures, and for any number of invocations of                *)
(* run_validation() for the run, in any processes: types, what is durable, *)
(* and that nothing durable is replaced.  What a single invocation adds is *)
(* in OneInvocationProofs.                                                 *)
(***************************************************************************)
EXTENDS RunValidation, OrcaBridgeProofs

-----------------------------------------------------------------------------
(* What a step does to the bridge.                                           *)

\* The invocation t enters the bridge with an event and its payload.
Sends(t) ==
  /\ \E event \in Events \cup {"none"}, missing \in SUBSET Names : Send(t, event, missing)
  /\ StillInBridge

\* A database call outside the bridge fails.
FailsOutside ==
  /\ dbErrors < MaxDbErrors
  /\ dbErrors' = dbErrors + 1
  /\ UNCHANGED <<registry, obj, snapshot, call, crashes>>

\* The fields of the text are fields a document may be checked for.
LEMMA CoreFieldsTyped ==
  ASSUME text \in SUBSET Core
  PROVE  CoreFields \in FieldSets /\ DOMAIN CoreFields = Core
<1>1. Core \in SUBSET Names
  BY PipelineAssumption
<1>2. CoreFields \in [Core -> BOOLEAN]
  BY DEF CoreFields
<1> QED
  BY <1>1, <1>2 DEF FieldSets

\* Fields have names, and say of each whether it is there.
LEMMA FieldsTyped ==
  ASSUME NEW fields
  PROVE  fields \in FieldSets <=>
           /\ DOMAIN fields \in SUBSET Names
           /\ fields \in [DOMAIN fields -> BOOLEAN]
BY DEF FieldSets

\* What the model found and what the text has of the core fields.
LEMMA MergedTyped ==
  ASSUME text \in SUBSET Core, NEW fields \in FieldSets
  PROVE  /\ Merged(fields) \in FieldSets
         /\ DOMAIN Merged(fields) = DOMAIN fields \cup Core
         /\ \A n \in DOMAIN fields : Merged(fields)[n] = fields[n]
         /\ \A n \in Core \ DOMAIN fields : Merged(fields)[n] = (n \in text)
<1> DEFINE all == DOMAIN fields \cup Core
<1>1. DOMAIN fields \in SUBSET Names /\ fields \in [DOMAIN fields -> BOOLEAN]
  BY FieldsTyped
<1>2. all \in SUBSET Names
  BY <1>1, PipelineAssumption
<1>3. Merged(fields) = [n \in all |-> IF n \in DOMAIN fields THEN fields[n] ELSE n \in text]
  BY DEF Merged, CoreFields
<1>4. Merged(fields) \in [all -> BOOLEAN]
  <2>1. ASSUME NEW n \in DOMAIN fields
        PROVE  Merged(fields)[n] = fields[n] /\ fields[n] \in BOOLEAN
    BY <1>1, <1>3
  <2>2. ASSUME NEW n \in Core \ DOMAIN fields
        PROVE  Merged(fields)[n] = (n \in text)
    BY <1>3
  <2>3. ASSUME NEW n \in all
        PROVE  Merged(fields)[n] \in BOOLEAN
    <3>1. CASE n \in DOMAIN fields
      BY <2>1, <3>1
    <3>2. CASE n \in Core \ DOMAIN fields
      <4>1. Merged(fields)[n] = (n \in text)
        BY <2>2, <3>2
      <4>2. (n \in text) \in BOOLEAN
        OBVIOUS
      <4> QED
        BY <4>1, <4>2, Zenon
    <3> QED
      BY <3>1, <3>2
  <2>4. Merged(fields) = [n \in all |-> Merged(fields)[n]]
    BY <1>3
  <2> QED
    BY <2>3, <2>4
<1>5. Merged(fields) \in FieldSets
  BY <1>2, <1>4 DEF FieldSets
<1> QED
  BY <1>3, <1>5

\* The missing fields are names.
LEMMA MissingTyped ==
  ASSUME NEW fields \in FieldSets
  PROVE  Missing(fields) \in SUBSET Names
BY FieldsTyped DEF Missing

\* Of the bridge, a step of the pipeline enters it, lets it go on or fail, or
\* leaves it alone.
LEMMA StepsOfBridge ==
  ASSUME text \in SUBSET Core, task \in [Callers -> Tasks], Next
  PROVE  \/ \E t \in Callers : Sends(t) \/ BridgeStep(t) \/ BridgeDbError(t)
         \/ \E p \in Procs : BridgeCrash(p)
         \/ FailsOutside
         \/ UNCHANGED bridgeVars
<1>1. CASE \E p \in Procs : Crash(p)
  BY <1>1 DEF Crash
<1>2. CASE \E t \in Callers : TxnFails(t)
  BY <1>2 DEF TxnFails, FailsOutside
<1>3. CASE \E t \in Callers : BridgeFails(t)
  BY <1>3 DEF BridgeFails
<1>4. ASSUME NEW t \in Callers, Step(t)
      PROVE  Sends(t) \/ BridgeStep(t) \/ UNCHANGED bridgeVars
  <2>1. CASE \/ SelectRun(t) \/ BridgeRaised(t) \/ Created(t) \/ ParseRaises(t)
             \/ ClassifyFails(t) \/ ReadVerdict(t) \/ Analyze(t) \/ ReviseChunk(t)
             \/ DraftAdditions(t) \/ AiFails(t) \/ ExtractFsm(t) \/ Persist(t)
    BY <2>1 DEF SelectRun, BridgeRaised, Created, ParseRaises, ClassifyFails, ReadVerdict,
                Analyze, ReviseChunk, DraftAdditions, AiFails, ExtractFsm, Persist
  <2>2. CASE InBridge(t)
    BY <2>2 DEF InBridge
  <2>3. CASE ClaimRun(t) \/ ParseFails(t) \/ Evaluate(t)
    BY <2>3 DEF ClaimRun, ParseFails, Evaluate, Sends, Events
  <2>4. ASSUME NEW fields \in FieldSets, NEW picked, NEW contract,
               Extracted(t, fields, picked, contract)
        PROVE  Sends(t)
    BY <2>4, MissingTyped DEF Extracted, Sends, Events
  <2>5. CASE ParseOk(t)
    BY <2>4, <2>5, CoreFieldsTyped DEF ParseOk
  <2>6. CASE Classify(t)
    <3>1. PICK fields \in FieldSets, contract \in BOOLEAN :
            Extracted(t, IF contract THEN Merged(fields) ELSE fields, DOMAIN fields, contract)
      BY <2>6 DEF Classify
    <3>2. (IF contract THEN Merged(fields) ELSE fields) \in FieldSets
      BY MergedTyped
    <3> QED
      BY <2>4, <3>1, <3>2
  <2> QED
    BY <1>4, <2>1, <2>2, <2>3, <2>5, <2>6 DEF Step
<1> QED
  BY <1>1, <1>2, <1>3, <1>4 DEF Next

-----------------------------------------------------------------------------
(* The bridge under any number of callers.                                   *)

\* The call is get_or_create()'s own, on the machine it has constructed.
Constructs(k) == k.pc = "load" \/ (k.pc \in {"saveSelect", "saveCommit"} /\ k.initial)

\* Whatever is referred to is there, in the process that refers to it.
RefsKnown ==
  /\ \A p \in Procs :
       registry[p] # None => ProcOf[registry[p]] = p /\ obj[registry[p]] # None
  /\ \A c \in Callers :
       call[c].pc \in {"load", "fire", "saveSelect", "saveCommit", "returned"} =>
         /\ call[c].ref # None
         /\ ProcOf[call[c].ref] = ProcOf[c]
         /\ obj[call[c].ref] # None
  /\ \A c \in Callers :
       call[c].pc \in {"saveSelect", "saveCommit"} => call[c].snap # None
  /\ \A c \in Callers : Constructs(call[c]) => call[c].ref = c

\* Every machine there is, in memory, being saved or durable, is coherent.
AllCoherent ==
  /\ snapshot # None => Coherent(snapshot)
  /\ \A c \in Callers : obj[c] # None => Coherent(obj[c])
  /\ \A c \in Callers : call[c].snap # None => Coherent(call[c].snap)

BridgeSafe == BridgeTypeOK /\ RefsKnown /\ AllCoherent

\* What a step may do to the bridge for one caller, and keep it safe.
LEMMA CallMoves ==
  ASSUME BridgeSafe, NEW c \in Callers,
         NEW x \in Calls,
         call' = [call EXCEPT ![c] = x],
         x.pc \in {"load", "fire", "saveSelect", "saveCommit", "returned"} =>
           x.ref # None /\ ProcOf[x.ref] = ProcOf[c] /\ obj'[x.ref] # None,
         x.pc \in {"saveSelect", "saveCommit"} => x.snap # None,
         Constructs(x) => x.ref = c,
         x.snap # None => Coherent(x.snap),
         registry' \in [Procs -> Callers \cup {None}],
         \A p \in Procs : registry'[p] # registry[p] =>
           registry'[p] # None /\ ProcOf[registry'[p]] = p /\ obj'[registry'[p]] # None,
         obj' \in [Callers -> Machines \cup {None}],
         \A d \in Callers : obj'[d] # obj[d] => obj'[d] # None /\ Coherent(obj'[d]),
         snapshot' \in Machines \cup {None},
         snapshot' # None => Coherent(snapshot'),
         dbErrors' \in 0 .. MaxDbErrors,
         UNCHANGED crashes
  PROVE  BridgeSafe'
<1>1. call' \in [Callers -> Calls] /\ call'[c] = x
      /\ \A d \in Callers : d # c => call'[d] = call[d]
  BY DEF BridgeSafe, BridgeTypeOK
<1>2. BridgeTypeOK'
  BY <1>1 DEF BridgeSafe, BridgeTypeOK
<1>3. \A d \in Callers : obj[d] # None => obj'[d] # None
  OBVIOUS
<1>4. \A p \in Procs : registry[p] \in Callers \cup {None}
  BY DEF BridgeSafe, BridgeTypeOK
<1>5. \A d \in Callers : call[d].ref \in Callers \cup {None}
  BY DEF BridgeSafe, BridgeTypeOK, Calls
<1>6. RefsKnown'
  <2>1. ASSUME NEW p \in Procs, registry'[p] # None
        PROVE  ProcOf[registry'[p]] = p /\ obj'[registry'[p]] # None
    BY <1>3, <1>4, <2>1 DEF BridgeSafe, RefsKnown
  <2>2. ASSUME NEW d \in Callers,
               call'[d].pc \in {"load", "fire", "saveSelect", "saveCommit", "returned"}
        PROVE  /\ call'[d].ref # None
               /\ ProcOf[call'[d].ref] = ProcOf[d]
               /\ obj'[call'[d].ref] # None
    <3>1. CASE d = c
      BY <1>1, <2>2, <3>1
    <3>2. CASE d # c
      BY <1>1, <1>3, <1>5, <2>2, <3>2 DEF BridgeSafe, RefsKnown
    <3> QED
      BY <3>1, <3>2
  <2>3. ASSUME NEW d \in Callers, call'[d].pc \in {"saveSelect", "saveCommit"}
        PROVE  call'[d].snap # None
    BY <1>1, <2>3 DEF BridgeSafe, RefsKnown
  <2>4. ASSUME NEW d \in Callers, Constructs(call'[d])
        PROVE  call'[d].ref = d
    BY <1>1, <2>4 DEF BridgeSafe, RefsKnown
  <2> QED
    BY <2>1, <2>2, <2>3, <2>4 DEF RefsKnown
<1>7. AllCoherent'
  BY <1>1 DEF BridgeSafe, AllCoherent
<1> QED
  BY <1>2, <1>6, <1>7 DEF BridgeSafe

\* What BridgeSafe says of one caller.
LEMMA CallerParts ==
  ASSUME BridgeSafe, NEW c \in Callers
  PROVE  /\ ProcOf[c] \in Procs
         /\ None \notin Callers /\ None \notin Machines
         /\ registry \in [Procs -> Callers \cup {None}]
         /\ obj \in [Callers -> Machines \cup {None}]
         /\ snapshot \in Machines \cup {None}
         /\ snapshot # None => Coherent(snapshot)
         /\ dbErrors \in 0 .. MaxDbErrors
         /\ call \in [Callers -> Calls]
         /\ call[c] \in Calls
         /\ call[c].snap # None => Coherent(call[c].snap)
         /\ call[c].pc \in {"load", "fire", "saveSelect", "saveCommit", "returned"} =>
              /\ call[c].ref # None
              /\ ProcOf[call[c].ref] = ProcOf[c]
              /\ obj[call[c].ref] # None
         /\ call[c].pc \in {"saveSelect", "saveCommit"} => call[c].snap # None
         /\ Constructs(call[c]) => call[c].ref = c
BY BridgeAssumption DEF BridgeSafe, BridgeTypeOK, RefsKnown, AllCoherent

\* What an invocation enters the bridge with is a call, to the machine registered
\* in its process if there is one.
LEMMA EnteredTyped ==
  ASSUME NEW c \in Callers, registry \in [Procs -> Callers \cup {None}],
         NEW event \in Events \cup {"none"}, NEW missing \in SUBSET Names,
         NEW x, x = Entered(c, event, missing)
  PROVE  /\ x \in Calls /\ x.snap = None
         /\ x.event = event /\ x.missing = missing
         /\ \/ registry[ProcOf[c]] = None /\ x.pc = "exists" /\ x.ref = None
            \/ /\ registry[ProcOf[c]] # None
               /\ x.ref = registry[ProcOf[c]]
               /\ x.pc = AfterGet(event)
<1> DEFINE p == ProcOf[c]
<1>1. p \in Procs /\ registry[p] \in Callers \cup {None}
  BY BridgeAssumption
<1>2. Idle \in Calls
  BY DEF Idle, Calls
<1>3. AfterGet(event) \in {"returned", "fire"}
  BY DEF AfterGet
<1>4. CASE registry[p] = None
  BY <1>1, <1>2, <1>4 DEF Entered, Idle, Calls, Suspended
<1>5. CASE registry[p] # None
  BY <1>1, <1>2, <1>3, <1>5 DEF Entered, Idle, Calls, Suspended, Ended
<1> QED
  BY <1>4, <1>5

\* An invocation enters the bridge.
LEMMA SendsSafe ==
  ASSUME BridgeSafe, NEW c \in Callers, Sends(c)
  PROVE  BridgeSafe'
<1>1. PICK event \in Events \cup {"none"}, missing \in SUBSET Names :
        call' = [call EXCEPT ![c] = Entered(c, event, missing)]
  BY DEF Sends, Send
<1>2. UNCHANGED <<registry, obj, snapshot, dbErrors, crashes>>
  BY DEF Sends, StillInBridge
<1> DEFINE x == Entered(c, event, missing)
<1>3. /\ x \in Calls /\ x.snap = None
      /\ x.pc \in {"exists", "returned", "fire"}
      /\ \/ registry[ProcOf[c]] = None /\ x.pc = "exists" /\ x.ref = None
         \/ registry[ProcOf[c]] # None /\ x.ref = registry[ProcOf[c]]
  <2>1. registry \in [Procs -> Callers \cup {None}]
    BY CallerParts
  <2>2. /\ x \in Calls /\ x.snap = None
        /\ \/ registry[ProcOf[c]] = None /\ x.pc = "exists" /\ x.ref = None
           \/ /\ registry[ProcOf[c]] # None
              /\ x.ref = registry[ProcOf[c]]
              /\ x.pc = AfterGet(event)
    BY <2>1, EnteredTyped
  <2>3. AfterGet(event) \in {"returned", "fire"}
    BY DEF AfterGet
  <2> HIDE DEF x
  <2> QED
    BY <2>2, <2>3
<1>4. registry[ProcOf[c]] # None =>
        /\ ProcOf[registry[ProcOf[c]]] = ProcOf[c]
        /\ obj[registry[ProcOf[c]]] # None
  BY CallerParts DEF BridgeSafe, RefsKnown
<1>5. call' = [call EXCEPT ![c] = x]
  BY <1>1
<1> HIDE DEF x
<1>6. x.pc \in {"load", "fire", "saveSelect", "saveCommit", "returned"} =>
        x.ref # None /\ ProcOf[x.ref] = ProcOf[c] /\ obj'[x.ref] # None
  BY <1>2, <1>3, <1>4
<1>7. x.pc \notin {"saveSelect", "saveCommit"}
  BY <1>3
<1> QED
  BY <1>2, <1>3, <1>5, <1>6, <1>7, CallerParts, CallMoves DEF Constructs

\* The machine is looked for, and constructed.
LEMMA CheckExistsSafe ==
  ASSUME BridgeSafe, NEW c \in Callers, CheckExists(c)
  PROVE  BridgeSafe'
<1>1. UNCHANGED <<registry, snapshot, dbErrors, crashes>>
  BY DEF CheckExists
<1>2. CASE snapshot = None /\ call[c].event # "none"
  <2> DEFINE x == [call[c] EXCEPT !.pc = "raised"]
  <2>1. x \in Calls /\ x.pc = "raised" /\ x.snap = call[c].snap
    BY CallerParts DEF Calls, Ended
  <2>2. call' = [call EXCEPT ![c] = x] /\ UNCHANGED obj
    BY <1>2 DEF CheckExists
  <2> HIDE DEF x
  <2> QED
    BY <1>1, <2>1, <2>2, CallerParts, CallMoves DEF Constructs
<1>3. CASE ~ (snapshot = None /\ call[c].event # "none")
  <2> DEFINE there == snapshot # None
             x == [call[c] EXCEPT !.pc = "load", !.existed = there, !.ref = c]
  <2>1. there \in BOOLEAN
    OBVIOUS
  <2>2. x \in Calls /\ x.pc = "load" /\ x.ref = c /\ x.snap = call[c].snap
    <3> HIDE DEF there
    <3> QED
      BY <2>1, CallerParts DEF Calls, Suspended
  <2>3. call' = [call EXCEPT ![c] = x]
    BY <1>3 DEF CheckExists
  <2>4. obj' = [obj EXCEPT ![c] = InitialMachine]
    BY <1>3 DEF CheckExists
  <2>5. /\ obj' \in [Callers -> Machines \cup {None}]
        /\ obj'[c] # None
        /\ \A d \in Callers : obj'[d] # obj[d] => obj'[d] # None /\ Coherent(obj'[d])
    BY <2>4, CallerParts, InitialCoherent
  <2> HIDE DEF x
  <2> QED
    BY <1>1, <2>2, <2>3, <2>5, CallerParts, CallMoves DEF Constructs
<1> QED
  BY <1>2, <1>3

\* The machine is restored or started afresh.
LEMMA LoadOrStartSafe ==
  ASSUME BridgeSafe, NEW c \in Callers, LoadOrStart(c)
  PROVE  BridgeSafe'
<1> DEFINE m == IF snapshot # None THEN snapshot ELSE InitialMachine
<1>1. call[c].pc = "load" /\ UNCHANGED <<snapshot, dbErrors, crashes>>
  BY DEF LoadOrStart
<1>2. m \in Machines /\ m # None /\ Coherent(m)
  BY CallerParts, InitialCoherent
<1>3. obj' = [obj EXCEPT ![c] = m]
  BY DEF LoadOrStart
<1>4. /\ obj' \in [Callers -> Machines \cup {None}]
      /\ obj'[c] # None
      /\ \A d \in Callers : obj'[d] # obj[d] => obj'[d] # None /\ Coherent(obj'[d])
  <2> HIDE DEF m
  <2> QED
    BY <1>2, <1>3, CallerParts
<1>5. /\ call[c].ref # None /\ ProcOf[call[c].ref] = ProcOf[c]
      /\ call[c].ref \in Callers /\ obj'[call[c].ref] # None
  BY <1>1, <1>4, CallerParts DEF Calls
<1>6. CASE call[c].existed
  <2> DEFINE x == [call[c] EXCEPT !.pc = AfterGet(call[c].event)]
  <2>1. AfterGet(call[c].event) \in {"returned", "fire"}
    BY DEF AfterGet
  <2>2. /\ x \in Calls /\ x.pc \in {"returned", "fire"}
        /\ x.ref = call[c].ref /\ x.snap = call[c].snap
    BY <2>1, CallerParts DEF Calls, Suspended, Ended
  <2>3. call' = [call EXCEPT ![c] = x] /\ registry' = [registry EXCEPT ![ProcOf[c]] = c]
    BY <1>6 DEF LoadOrStart
  <2>4. /\ registry' \in [Procs -> Callers \cup {None}]
        /\ \A p \in Procs : registry'[p] # registry[p] =>
             registry'[p] # None /\ ProcOf[registry'[p]] = p /\ obj'[registry'[p]] # None
    BY <1>4, <2>3, CallerParts
  <2> HIDE DEF x
  <2> QED
    BY <1>1, <1>4, <1>5, <2>2, <2>3, <2>4, CallerParts, CallMoves DEF Constructs
<1>7. CASE ~ call[c].existed
  <2> DEFINE x == [call[c] EXCEPT !.pc = "saveSelect", !.snap = m, !.initial = TRUE]
  <2>1. x \in Calls /\ x.pc = "saveSelect" /\ x.ref = call[c].ref /\ x.snap = m
    <3>1. call[c] \in Calls /\ TRUE \in BOOLEAN
      BY CallerParts
    <3> HIDE DEF m
    <3> QED
      BY <1>2, <3>1, SavingTyped, Zenon
  <2>2. call' = [call EXCEPT ![c] = x] /\ UNCHANGED registry
    BY <1>7 DEF LoadOrStart
  <2> HIDE DEF x, m
  <2> QED
    BY <1>1, <1>2, <1>4, <1>5, <2>1, <2>2, CallerParts, CallMoves DEF Constructs
<1> QED
  BY <1>6, <1>7

\* An event is sent to the machine.
LEMMA FireSafe ==
  ASSUME BridgeSafe, NEW c \in Callers, Fire(c)
  PROVE  BridgeSafe'
<1> DEFINE r == call[c].ref
           m == obj[r]
<1>1. call[c].pc = "fire" /\ UNCHANGED <<registry, snapshot, dbErrors, crashes>>
  BY DEF Fire
<1>2. r \in Callers /\ ProcOf[r] = ProcOf[c] /\ m \in Machines /\ m # None
  BY <1>1, CallerParts DEF Calls
<1>3. Coherent(m) /\ call[c].missing \in SUBSET Names
  BY <1>2, CallerParts DEF BridgeSafe, AllCoherent, Calls
<1>4. CASE call' = [call EXCEPT ![c].pc = "returned"] /\ UNCHANGED obj
  <2> DEFINE x == [call[c] EXCEPT !.pc = "returned"]
  <2>1. x \in Calls /\ x.pc = "returned" /\ x.snap = call[c].snap /\ x.ref = r
    BY CallerParts DEF Calls, Ended
  <2>2. call' = [call EXCEPT ![c] = x] /\ UNCHANGED obj
    BY <1>4
  <2>3. x.ref # None /\ ProcOf[x.ref] = ProcOf[c] /\ obj'[x.ref] # None
    BY <1>2, <1>4, <2>1, CallerParts
  <2> HIDE DEF x, m, r
  <2> QED
    BY <1>1, <2>1, <2>2, <2>3, CallerParts, CallMoves DEF Constructs
<1>5. ASSUME NEW tr \in Enabled(m, call[c].event),
             obj' = [obj EXCEPT ![r] = Fired(m, tr, call[c].missing)],
             call' = [call EXCEPT ![c].pc = "saveSelect",
                                  ![c].snap = Fired(m, tr, call[c].missing),
                                  ![c].initial = FALSE]
      PROVE  BridgeSafe'
  <2> DEFINE n == Fired(m, tr, call[c].missing)
             x == [call[c] EXCEPT !.pc = "saveSelect", !.snap = n, !.initial = FALSE]
  <2>1. tr \in Transitions /\ tr.event = call[c].event
    BY DEF Enabled
  <2>2. call[c].event \in Events
    BY <2>1, TableRows DEF HasRow, Events
  <2>3. n \in Machines /\ n # None /\ Coherent(n)
    BY <1>2, <1>3, <2>1, <2>2, FiredTyped, FiredCoherent, CallerParts
  <2>4. /\ x \in Calls /\ x.pc = "saveSelect" /\ x.ref = r /\ x.snap = n
        /\ (x.initial <=> FALSE)
    <3>1. call[c] \in Calls /\ FALSE \in BOOLEAN
      BY CallerParts
    <3> HIDE DEF n
    <3> QED
      BY <2>3, <3>1, SavingTyped, Zenon
  <2>5. call' = [call EXCEPT ![c] = x]
    BY <1>5
  <2>6. /\ obj' \in [Callers -> Machines \cup {None}]
        /\ obj'[r] # None
        /\ \A d \in Callers : obj'[d] # obj[d] => obj'[d] # None /\ Coherent(obj'[d])
    <3>1. obj' = [obj EXCEPT ![r] = n]
      BY <1>5
    <3> HIDE DEF n
    <3> QED
      BY <1>2, <2>3, <3>1, CallerParts
  <2> HIDE DEF x, n
  <2> QED
    BY <1>1, <1>2, <2>3, <2>4, <2>5, <2>6, CallerParts, CallMoves DEF Constructs
<1> QED
  BY <1>4, <1>5 DEF Fire

\* The row is looked for before the machine is saved.
LEMMA SaveSelectSafe ==
  ASSUME BridgeSafe, NEW c \in Callers, SaveSelect(c)
  PROVE  BridgeSafe'
<1> DEFINE there == snapshot # None
           x == [call[c] EXCEPT !.pc = "saveCommit", !.sawRow = there]
<1>1. call[c].pc = "saveSelect" /\ UNCHANGED <<registry, obj, snapshot, dbErrors, crashes>>
  BY DEF SaveSelect
<1>2. call' = [call EXCEPT ![c] = x]
  BY DEF SaveSelect
<1>3. /\ x \in Calls /\ x.pc = "saveCommit" /\ x.ref = call[c].ref
      /\ x.snap = call[c].snap /\ x.initial = call[c].initial
  <2>1. there \in BOOLEAN /\ call[c] \in Calls
    BY CallerParts
  <2> HIDE DEF there
  <2> QED
    BY <2>1 DEF Calls, Suspended
<1>4. /\ x.ref # None /\ ProcOf[x.ref] = ProcOf[c] /\ obj'[x.ref] # None
      /\ x.snap # None
  BY <1>1, <1>3, CallerParts
<1> HIDE DEF x
<1> QED
  BY <1>1, <1>2, <1>3, <1>4, CallerParts, CallMoves DEF Constructs

\* The save commits, or finds the row of another.
LEMMA SaveCommitSafe ==
  ASSUME BridgeSafe, NEW c \in Callers, SaveCommit(c)
  PROVE  BridgeSafe'
<1>1. call[c].pc = "saveCommit" /\ UNCHANGED <<obj, dbErrors, crashes>>
  BY DEF SaveCommit
<1>2. /\ call[c].ref # None /\ ProcOf[call[c].ref] = ProcOf[c] /\ obj[call[c].ref] # None
      /\ call[c].snap \in Machines /\ Coherent(call[c].snap)
  BY <1>1, CallerParts DEF Calls
<1>3. CASE ~ call[c].sawRow /\ snapshot # None
  <2> DEFINE x == [call[c] EXCEPT !.pc = "raised"]
  <2>1. x \in Calls /\ x.pc = "raised" /\ x.snap = call[c].snap
    BY CallerParts DEF Calls, Ended
  <2>2. call' = [call EXCEPT ![c] = x] /\ UNCHANGED <<registry, snapshot>>
    BY <1>3 DEF SaveCommit
  <2> HIDE DEF x
  <2> QED
    BY <1>1, <2>1, <2>2, CallerParts, CallMoves DEF Constructs
<1>4. CASE ~ (~ call[c].sawRow /\ snapshot # None) /\ ~ call[c].initial
  <2> DEFINE x == [call[c] EXCEPT !.pc = "returned"]
  <2>1. x \in Calls /\ x.pc = "returned" /\ x.snap = call[c].snap /\ x.ref = call[c].ref
    BY CallerParts DEF Calls, Ended
  <2>2. call' = [call EXCEPT ![c] = x] /\ UNCHANGED registry /\ snapshot' = call[c].snap
    BY <1>4 DEF SaveCommit
  <2>3. x.ref # None /\ ProcOf[x.ref] = ProcOf[c] /\ obj'[x.ref] # None
    BY <1>1, <1>2, <2>1
  <2> HIDE DEF x
  <2> QED
    BY <1>1, <1>2, <2>1, <2>2, <2>3, CallerParts, CallMoves DEF Constructs
<1>5. CASE ~ (~ call[c].sawRow /\ snapshot # None) /\ call[c].initial
  <2> DEFINE x == [call[c] EXCEPT !.pc = AfterGet(call[c].event)]
  <2>1. AfterGet(call[c].event) \in {"returned", "fire"}
    BY DEF AfterGet
  <2>2. /\ x \in Calls /\ x.pc \in {"returned", "fire"}
        /\ x.snap = call[c].snap /\ x.ref = call[c].ref
    BY <2>1, CallerParts DEF Calls, Suspended, Ended
  <2>3. /\ call' = [call EXCEPT ![c] = x] /\ snapshot' = call[c].snap
        /\ registry' = [registry EXCEPT ![ProcOf[c]] = c]
    BY <1>5 DEF SaveCommit
  <2>4. x.ref # None /\ ProcOf[x.ref] = ProcOf[c] /\ obj'[x.ref] # None
    BY <1>1, <1>2, <2>2
  <2>5. call[c].ref = c
    BY <1>1, <1>5, CallerParts DEF Constructs
  <2>6. /\ registry' \in [Procs -> Callers \cup {None}]
        /\ \A p \in Procs : registry'[p] # registry[p] =>
             registry'[p] # None /\ ProcOf[registry'[p]] = p /\ obj'[registry'[p]] # None
    BY <1>1, <1>2, <2>3, <2>5, CallerParts
  <2> HIDE DEF x
  <2> QED
    BY <1>1, <1>2, <2>2, <2>3, <2>4, <2>6, CallerParts, CallMoves DEF Constructs
<1> QED
  BY <1>3, <1>4, <1>5

\* A database call of the bridge fails, a commit perhaps after it was applied.
LEMMA BridgeDbErrorSafe ==
  ASSUME BridgeSafe, NEW c \in Callers, BridgeDbError(c)
  PROVE  BridgeSafe'
<1> DEFINE x == [call[c] EXCEPT !.pc = "raised"]
<1>1. x \in Calls /\ x.pc = "raised" /\ x.snap = call[c].snap
  BY CallerParts DEF Calls, Ended
<1>2. call' = [call EXCEPT ![c] = x] /\ UNCHANGED <<registry, obj, crashes>>
  BY DEF BridgeDbError
<1>3. dbErrors' \in 0 .. MaxDbErrors
  BY CallerParts, BridgeAssumption DEF BridgeDbError
<1>4. snapshot' \in Machines \cup {None} /\ (snapshot' # None => Coherent(snapshot'))
  <2>1. CASE UNCHANGED snapshot
    BY <2>1, CallerParts
  <2>2. CASE call[c].pc = "saveCommit" /\ snapshot' = call[c].snap
    BY <2>2, CallerParts DEF Calls
  <2> QED
    BY <2>1, <2>2 DEF BridgeDbError
<1> HIDE DEF x
<1> QED
  BY <1>1, <1>2, <1>3, <1>4, CallerParts, CallMoves DEF Constructs

\* A process dies.
LEMMA BridgeCrashSafe ==
  ASSUME BridgeSafe, NEW q \in Procs, BridgeCrash(q)
  PROVE  BridgeSafe'
<1> DEFINE gone == [Idle EXCEPT !.pc = "gone"]
<1>1. gone \in Calls /\ gone.pc = "gone" /\ gone.snap = None
  BY DEF Idle, Calls, Ended
<1>2. UNCHANGED <<snapshot, dbErrors>> /\ crashes' \in 0 .. MaxCrashes
  BY BridgeAssumption DEF BridgeCrash, BridgeSafe, BridgeTypeOK
<1>3. registry' = [registry EXCEPT ![q] = None]
  BY DEF BridgeCrash
<1>4. \A c \in Callers : obj'[c] = IF ProcOf[c] = q THEN None ELSE obj[c]
  BY DEF BridgeCrash
<1>5. \A c \in Callers : call'[c] = IF ProcOf[c] = q THEN gone ELSE call[c]
  BY DEF BridgeCrash
<1>6. /\ obj' = [c \in Callers |-> obj'[c]]
      /\ call' = [c \in Callers |-> call'[c]]
  BY DEF BridgeCrash
<1> HIDE DEF gone
<1>7. BridgeTypeOK'
  <2>1. obj' \in [Callers -> Machines \cup {None}]
    BY <1>4, <1>6 DEF BridgeSafe, BridgeTypeOK
  <2>2. call' \in [Callers -> Calls]
    BY <1>1, <1>5, <1>6 DEF BridgeSafe, BridgeTypeOK
  <2> QED
    BY <1>2, <1>3, <2>1, <2>2 DEF BridgeSafe, BridgeTypeOK
<1>8. RefsKnown'
  <2>1. ASSUME NEW p \in Procs, registry'[p] # None
        PROVE  ProcOf[registry'[p]] = p /\ obj'[registry'[p]] # None
    <3>1. p # q /\ registry'[p] = registry[p] /\ registry[p] \in Callers
      BY <1>3, <2>1 DEF BridgeSafe, BridgeTypeOK
    <3> QED
      BY <1>4, <2>1, <3>1 DEF BridgeSafe, RefsKnown
  <2>2. ASSUME NEW c \in Callers, ProcOf[c] # q
        PROVE  /\ call'[c] = call[c]
               /\ \A d \in Callers : ProcOf[d] = ProcOf[c] => obj'[d] = obj[d]
    BY <1>4, <1>5, <2>2
  <2>3. ASSUME NEW c \in Callers,
               call'[c].pc \in {"load", "fire", "saveSelect", "saveCommit", "returned"}
        PROVE  /\ call'[c].ref # None
               /\ ProcOf[call'[c].ref] = ProcOf[c]
               /\ obj'[call'[c].ref] # None
    <3>1. ProcOf[c] # q
      BY <1>1, <1>5, <2>3
    <3>2. call[c].ref \in Callers \cup {None}
      BY CallerParts DEF Calls
    <3> QED
      BY <2>2, <2>3, <3>1, <3>2, CallerParts
  <2>4. ASSUME NEW c \in Callers, call'[c].pc \in {"saveSelect", "saveCommit"}
        PROVE  call'[c].snap # None
    <3>1. ProcOf[c] # q
      BY <1>1, <1>5, <2>4
    <3> QED
      BY <2>2, <2>4, <3>1, CallerParts
  <2>5. ASSUME NEW c \in Callers, Constructs(call'[c])
        PROVE  call'[c].ref = c
    <3>1. ProcOf[c] # q
      BY <1>1, <1>5, <2>5 DEF Constructs
    <3> QED
      BY <2>2, <2>5, <3>1, CallerParts
  <2> QED
    BY <2>1, <2>3, <2>4, <2>5 DEF RefsKnown
<1>9. AllCoherent'
  BY <1>1, <1>2, <1>4, <1>5 DEF BridgeSafe, AllCoherent
<1> QED
  BY <1>7, <1>8, <1>9 DEF BridgeSafe

\* It holds when nobody has entered the bridge.
LEMMA BridgeSafeInit == BridgeInit => BridgeSafe
<1> SUFFICES ASSUME BridgeInit PROVE BridgeSafe
  OBVIOUS
<1>1. Idle \in Calls /\ Idle.pc = "idle" /\ Idle.snap = None
  BY DEF Idle, Calls
<1>2. BridgeTypeOK
  BY <1>1, BridgeAssumption DEF BridgeInit, BridgeTypeOK
<1>3. RefsKnown
  BY <1>1 DEF BridgeInit, RefsKnown, Constructs
<1>4. AllCoherent
  BY <1>1 DEF BridgeInit, AllCoherent
<1> QED
  BY <1>2, <1>3, <1>4 DEF BridgeSafe

\* Nothing happens to the bridge but, perhaps, a failure elsewhere.
LEMMA BridgeLeftAlone ==
  ASSUME BridgeSafe, FailsOutside \/ UNCHANGED bridgeVars
  PROVE  BridgeSafe'
<1>1. UNCHANGED <<registry, obj, snapshot, call, crashes>>
  BY DEF FailsOutside, bridgeVars
<1>2. dbErrors' \in 0 .. MaxDbErrors
  BY BridgeAssumption DEF FailsOutside, bridgeVars, BridgeSafe, BridgeTypeOK
<1>3. BridgeTypeOK'
  BY <1>1, <1>2 DEF BridgeSafe, BridgeTypeOK
<1>4. RefsKnown'
  BY <1>1 DEF BridgeSafe, RefsKnown
<1>5. AllCoherent'
  BY <1>1 DEF BridgeSafe, AllCoherent
<1> QED
  BY <1>3, <1>4, <1>5 DEF BridgeSafe

\* Every step of the pipeline keeps the bridge safe.
LEMMA BridgeSafeStep ==
  ASSUME BridgeSafe, text \in SUBSET Core, task \in [Callers -> Tasks], [Next]_vars
  PROVE  BridgeSafe'
<1>1. CASE UNCHANGED vars
  BY <1>1, BridgeLeftAlone DEF vars
<1>2. ASSUME NEW t \in Callers, BridgeStep(t)
      PROVE  BridgeSafe'
  BY <1>2, CheckExistsSafe, LoadOrStartSafe, FireSafe, SaveSelectSafe, SaveCommitSafe
  DEF BridgeStep
<1>3. ASSUME Next
      PROVE  BridgeSafe'
  BY <1>2, <1>3, StepsOfBridge, SendsSafe, BridgeDbErrorSafe, BridgeCrashSafe,
     BridgeLeftAlone
<1> QED
  BY <1>1, <1>3

-----------------------------------------------------------------------------
(* What a step does to its task.                                             *)

Rest(t) == task[t].read = task'[t].read /\ task[t].out = task'[t].out

\* A task that goes somewhere is otherwise as it was.
LEMMA GotoSays ==
  ASSUME task \in [Callers -> Tasks], NEW t \in Callers,
         NEW pc \in {"start", "claim", "persist"} \cup InTry \cup InAi \cup Stopped,
         Goto(t, pc)
  PROVE  task' \in [Callers -> Tasks] /\ task'[t].pc = pc /\ Rest(t)
BY DEF Goto, Tasks, Rest

\* The task t has its verdict, and where it goes with it.
Decided(t, verdict, final, reasons) ==
  /\ task' \in [Callers -> Tasks]
  /\ task'[t].pc = IF task[t].read /\ verdict # "error" /\ LlmEnabled
                   THEN "analyze" ELSE "persist"
  /\ task'[t].read = task[t].read
  /\ task'[t].out = [task[t].out EXCEPT !.verdict = verdict, !.final = final,
                                        !.reasons = reasons]

\* A decided task has its verdict, and goes to the assessment or to its end.
LEMMA DecideSays ==
  ASSUME task \in [Callers -> Tasks], NEW t \in Callers,
         NEW verdict \in {"pass", "fail", "error"}, NEW final \in States,
         NEW reasons \in SUBSET (Names \cup {"check failed", "extraction failed",
                                             "unknown", "exception", "budget"}),
         Decide(t, verdict, final, reasons)
  PROVE  Decided(t, verdict, final, reasons)
<1> DEFINE next == IF task[t].read /\ verdict # "error" /\ LlmEnabled
                   THEN "analyze" ELSE "persist"
           o == [task[t].out EXCEPT !.verdict = verdict, !.final = final,
                                    !.reasons = reasons]
           x == [task[t] EXCEPT !.pc = next, !.out = o]
<1>1. task[t] \in Tasks /\ task[t].out \in Outcomes
  BY DEF Tasks
<1>2. o \in Outcomes
  BY <1>1 DEF Outcomes
<1>3. next \in {"analyze", "persist"}
  OBVIOUS
<1>4. task' = [task EXCEPT ![t] = x]
  BY <1>1 DEF Decide, Tasks
<1> HIDE DEF next, o
<1>5. x \in Tasks /\ x.pc = next /\ x.read = task[t].read /\ x.out = o
  BY <1>1, <1>2, <1>3 DEF Tasks, InAi
<1> HIDE DEF x
<1>6. task' \in [Callers -> Tasks] /\ task'[t] = x
  BY <1>4, <1>5
<1> QED
  BY <1>5, <1>6 DEF next, o, Decided

\* A task of which only the place and the outcome change.
LEMMA TaskMoves ==
  ASSUME task \in [Callers -> Tasks], NEW t \in Callers,
         NEW x \in Tasks, task' = [task EXCEPT ![t] = x]
  PROVE  task' \in [Callers -> Tasks] /\ task'[t] = x
OBVIOUS

\* The task t has its fields, and tells the bridge which of them are missing.
HasFields(t, fields, picked, contract) ==
  /\ task' \in [Callers -> Tasks]
  /\ task'[t].pc = "extracted"
  /\ task'[t].read
  /\ task'[t].out = [task[t].out EXCEPT !.fields = fields, !.picked = picked,
                                        !.contract = contract]
  /\ Send(t, "EXTRACTED", Missing(fields)) /\ StillInBridge

\* Once its fields are known, a task tells the bridge which of them are missing.
LEMMA ExtractedSays ==
  ASSUME task \in [Callers -> Tasks], NEW t \in Callers,
         NEW fields \in FieldSets, NEW picked \in SUBSET Names, NEW contract \in BOOLEAN,
         Extracted(t, fields, picked, contract)
  PROVE  HasFields(t, fields, picked, contract)
<1> DEFINE o == [task[t].out EXCEPT !.fields = fields, !.picked = picked,
                                    !.contract = contract]
           x == [task[t] EXCEPT !.pc = "extracted", !.read = TRUE, !.out = o]
<1>1. task[t] \in Tasks /\ task[t].out \in Outcomes
  BY DEF Tasks
<1>2. o \in Outcomes
  BY <1>1 DEF Outcomes
<1>3. task' = [task EXCEPT ![t] = x]
  BY <1>1 DEF Extracted, Tasks
<1> HIDE DEF o
<1>4. x \in Tasks /\ x.pc = "extracted" /\ x.read = TRUE /\ x.out = o
  BY <1>1, <1>2 DEF Tasks, InTry
<1> HIDE DEF x
<1>5. task' \in [Callers -> Tasks] /\ task'[t] = x
  BY <1>3, <1>4, TaskMoves
<1>6. Send(t, "EXTRACTED", Missing(fields)) /\ StillInBridge
  BY DEF Extracted
<1> QED
  BY <1>4, <1>5, <1>6 DEF o, HasFields

\* The document is read: it is classified, or what the text has is extracted.
LEMMA ParseOkSays ==
  ASSUME text \in SUBSET Core, task \in [Callers -> Tasks], NEW t \in Callers, ParseOk(t)
  PROVE  \/ /\ LlmEnabled /\ UNCHANGED bridgeVars
            /\ task' \in [Callers -> Tasks]
            /\ task'[t].pc = "classify" /\ task'[t].read /\ task'[t].out = task[t].out
         \/ ~ LlmEnabled /\ HasFields(t, CoreFields, {}, TRUE)
<1>1. CASE LlmEnabled
  BY <1>1 DEF ParseOk, Tasks, InTry
<1>2. CASE ~ LlmEnabled
  <2>1. Extracted(t, CoreFields, {}, TRUE)
    BY <1>2 DEF ParseOk
  <2>2. CoreFields \in FieldSets /\ {} \in SUBSET Names /\ TRUE \in BOOLEAN
    BY CoreFieldsTyped
  <2> QED
    BY <1>2, <2>1, <2>2, ExtractedSays, Zenon
<1> QED
  BY <1>1, <1>2

\* The model has picked fields, and said whether the document is a contract.
LEMMA ClassifySays ==
  ASSUME text \in SUBSET Core, task \in [Callers -> Tasks], NEW t \in Callers, Classify(t)
  PROVE  \E picked \in FieldSets, contract \in BOOLEAN :
           /\ (IF contract THEN Merged(picked) ELSE picked) \in FieldSets
           /\ HasFields(t, IF contract THEN Merged(picked) ELSE picked,
                        DOMAIN picked, contract)
<1>1. PICK picked \in FieldSets, contract \in BOOLEAN :
        Extracted(t, IF contract THEN Merged(picked) ELSE picked, DOMAIN picked, contract)
  BY DEF Classify
<1> DEFINE fields == IF contract THEN Merged(picked) ELSE picked
           names == DOMAIN picked
<1>2. fields \in FieldSets /\ names \in SUBSET Names
  BY MergedTyped, FieldsTyped
<1>3. Extracted(t, fields, names, contract)
  BY <1>1
<1>4. HasFields(t, fields, names, contract)
  <2> HIDE DEF fields, names
  <2> QED
    BY <1>2, <1>3, ExtractedSays, Zenon
<1> QED
  BY <1>2, <1>4

\* How the outcome of the assessment goes on: the verdict stays as it is.
LEMMA AssessmentSays ==
  ASSUME task \in [Callers -> Tasks], NEW t \in Callers,
         Analyze(t) \/ ReviseChunk(t) \/ DraftAdditions(t) \/ AiFails(t) \/ ExtractFsm(t)
  PROVE  /\ task' \in [Callers -> Tasks]
         /\ task'[t].read = task[t].read
         /\ \/ /\ task[t].pc = "analyze" /\ task'[t].pc = "revise"
               /\ task'[t].out = [task[t].out EXCEPT !.analysis = "full"]
            \/ /\ task[t].pc = "revise" /\ task'[t].pc \in {"revise", "additions"}
               /\ task'[t].out = task[t].out
            \/ /\ task[t].pc \in {"revise", "additions"} /\ task'[t].pc = "fsm"
               /\ task'[t].out = [task[t].out EXCEPT !.status = "done", !.revised = TRUE]
            \/ /\ task[t].pc \in {"analyze", "revise", "additions"}
               /\ task'[t].pc = "persist"
               /\ \/ task'[t].out = [task[t].out EXCEPT !.status = "budget_exceeded"]
                  \/ task'[t].out = [task[t].out EXCEPT !.status = "error",
                                                        !.analysis = "failure"]
            \/ /\ task[t].pc = "fsm" /\ task'[t].pc = "persist"
               /\ task'[t].out = [task[t].out EXCEPT !.fsm = TRUE]
<1> DEFINE k == task[t]
           o == k.out
<1>1. k \in Tasks /\ o \in Outcomes /\ k.chunks \in 0 .. MaxChunks
  BY DEF Tasks
<1>2. MaxChunks \in Nat \ {0}
  BY PipelineAssumption
<1>3. ASSUME NEW q \in Outcomes,
             NEW pc \in {"start", "claim", "persist"} \cup InTry \cup InAi \cup Stopped,
             NEW n \in 0 .. MaxChunks, NEW clauses \in BOOLEAN,
             task' = [task EXCEPT ![t] = [k EXCEPT !.pc = pc, !.chunks = n,
                                                   !.clauses = clauses, !.out = q]]
      PROVE  /\ task' \in [Callers -> Tasks] /\ task'[t].read = task[t].read
             /\ task'[t].pc = pc /\ task'[t].out = q
  <2> DEFINE x == [k EXCEPT !.pc = pc, !.chunks = n, !.clauses = clauses, !.out = q]
  <2>1. x \in Tasks /\ x.pc = pc /\ x.out = q /\ x.read = k.read
    BY <1>1 DEF Tasks
  <2>2. task' = [task EXCEPT ![t] = x]
    BY <1>3
  <2> HIDE DEF x
  <2> QED
    BY <2>1, <2>2, TaskMoves
<1>4. CASE Analyze(t)
  <2>1. PICK n \in 1 .. MaxChunks, clauses \in BOOLEAN :
          task' = [task EXCEPT ![t].pc = "revise", ![t].chunks = n, ![t].clauses = clauses,
                               ![t].out.analysis = "full"]
    BY <1>4 DEF Analyze
  <2> DEFINE q == [o EXCEPT !.analysis = "full"]
  <2>2. q \in Outcomes /\ "revise" \in InAi
    BY <1>1 DEF Outcomes, InAi
  <2>5. n \in 0 .. MaxChunks
    BY <1>2
  <2>3. task' = [task EXCEPT ![t] = [k EXCEPT !.pc = "revise", !.chunks = n,
                                              !.clauses = clauses, !.out = q]]
    BY <1>1, <2>1 DEF Tasks
  <2>4. task[t].pc = "analyze"
    BY <1>4 DEF Analyze
  <2> HIDE DEF q
  <2> QED
    BY <1>3, <2>2, <2>3, <2>4, <2>5 DEF q
<1>5. CASE task[t].pc = "revise" /\ task[t].chunks > 1
           /\ task' = [task EXCEPT ![t].chunks = task[t].chunks - 1]
  <2>1. k.chunks - 1 \in 0 .. MaxChunks
    BY <1>1, <1>2, <1>5
  <2>2. task' = [task EXCEPT ![t] = [k EXCEPT !.pc = k.pc, !.chunks = k.chunks - 1,
                                              !.clauses = k.clauses, !.out = o]]
    BY <1>1, <1>5 DEF Tasks
  <2>3. k.pc = "revise" /\ "revise" \in InAi /\ k.clauses \in BOOLEAN
    BY <1>1, <1>5 DEF Tasks, InAi
  <2> QED
    BY <1>1, <1>3, <2>1, <2>2, <2>3
<1>6. CASE task[t].pc = "revise" /\ task' = [task EXCEPT ![t].pc = "additions", ![t].chunks = 0]
  <2>1. 0 \in 0 .. MaxChunks
    BY <1>2
  <2>2. task' = [task EXCEPT ![t] = [k EXCEPT !.pc = "additions", !.chunks = 0,
                                              !.clauses = k.clauses, !.out = o]]
    BY <1>1, <1>6 DEF Tasks
  <2>3. k.pc = "revise" /\ "additions" \in InAi /\ k.clauses \in BOOLEAN
    BY <1>1, <1>6 DEF Tasks, InAi
  <2> QED
    BY <1>1, <1>3, <2>1, <2>2, <2>3
<1>7. CASE task[t].pc \in {"revise", "additions"} /\ Assessed(t)
  <2> DEFINE q == [o EXCEPT !.status = "done", !.revised = TRUE]
  <2>1. 0 \in 0 .. MaxChunks
    BY <1>2
  <2>2. q \in Outcomes /\ "fsm" \in InAi /\ k.clauses \in BOOLEAN
    BY <1>1 DEF Outcomes, Tasks, InAi
  <2>3. task' = [task EXCEPT ![t] = [k EXCEPT !.pc = "fsm", !.chunks = 0,
                                              !.clauses = k.clauses, !.out = q]]
    BY <1>1, <1>7 DEF Assessed, Tasks
  <2> HIDE DEF q
  <2> QED
    BY <1>3, <1>7, <2>1, <2>2, <2>3 DEF q
<1>8. CASE ReviseChunk(t) \/ DraftAdditions(t)
  BY <1>5, <1>6, <1>7, <1>8 DEF ReviseChunk, DraftAdditions
<1>9. CASE AiFails(t)
  <2>1. task[t].pc \in {"analyze", "revise", "additions"}
    BY <1>9 DEF AiFails
  <2>2. 0 \in 0 .. MaxChunks
    BY <1>2
  <2>3. k.clauses \in BOOLEAN
    BY <1>1 DEF Tasks
  <2>4. CASE task' = [task EXCEPT ![t].pc = "persist", ![t].chunks = 0,
                                  ![t].out.status = "budget_exceeded"]
    <3> DEFINE q == [o EXCEPT !.status = "budget_exceeded"]
    <3>1. q \in Outcomes
      BY <1>1 DEF Outcomes
    <3>2. task' = [task EXCEPT ![t] = [k EXCEPT !.pc = "persist", !.chunks = 0,
                                                !.clauses = k.clauses, !.out = q]]
      BY <1>1, <2>4 DEF Tasks
    <3> HIDE DEF q
    <3> QED
      BY <1>3, <2>1, <2>2, <2>3, <3>1, <3>2 DEF q
  <2>5. CASE task' = [task EXCEPT ![t].pc = "persist", ![t].chunks = 0,
                                  ![t].out.status = "error", ![t].out.analysis = "failure"]
    <3> DEFINE q == [o EXCEPT !.status = "error", !.analysis = "failure"]
    <3>1. q \in Outcomes
      BY <1>1 DEF Outcomes
    <3>2. task' = [task EXCEPT ![t] = [k EXCEPT !.pc = "persist", !.chunks = 0,
                                                !.clauses = k.clauses, !.out = q]]
      BY <1>1, <2>5 DEF Tasks
    <3> HIDE DEF q
    <3> QED
      BY <1>3, <2>1, <2>2, <2>3, <3>1, <3>2 DEF q
  <2> QED
    BY <1>9, <2>4, <2>5 DEF AiFails
<1>10. CASE ExtractFsm(t)
  <2> DEFINE q == [o EXCEPT !.fsm = TRUE]
  <2>1. q \in Outcomes /\ k.clauses \in BOOLEAN
    BY <1>1 DEF Outcomes, Tasks
  <2>2. task' = [task EXCEPT ![t] = [k EXCEPT !.pc = "persist", !.chunks = k.chunks,
                                              !.clauses = k.clauses, !.out = q]]
    BY <1>1, <1>10 DEF ExtractFsm, Tasks
  <2>3. task[t].pc = "fsm"
    BY <1>10 DEF ExtractFsm
  <2> HIDE DEF q
  <2> QED
    BY <1>1, <1>3, <2>1, <2>2, <2>3 DEF q
<1> QED
  BY <1>4, <1>8, <1>9, <1>10

\* What a machine says is a verdict, once no verdict counts as one.
LEMMA MachineRead ==
  ASSUME BridgeSafe, NEW t \in Callers, call[t].pc = "returned"
  PROVE  LET m == obj[call[t].ref]
         IN  /\ m \in Machines
             /\ Coherent(m)
             /\ (IF m.ctx.verdict # "none" THEN m.ctx.verdict
                 ELSE IF m.state = "error" THEN "error" ELSE "fail")
                   \in {"pass", "fail", "error"}
             /\ m.state \in States
             /\ m.ctx.reasons \in SUBSET (Names \cup {"check failed", "extraction failed",
                                                     "unknown", "exception", "budget"})
<1> DEFINE m == obj[call[t].ref]
<1>1. call[t].ref \in Callers /\ m # None
  BY CallerParts DEF Calls
<1>2. m \in Machines /\ Coherent(m)
  BY <1>1, CallerParts DEF BridgeSafe, AllCoherent
<1> HIDE DEF m
<1>3. /\ m.state \in States /\ m.ctx.verdict \in Verdicts
      /\ m.ctx.reasons \in SUBSET (Names \cup {"check failed", "extraction failed"})
  BY <1>2 DEF Machines, Contexts, Reasons
<1>4. (IF m.ctx.verdict # "none" THEN m.ctx.verdict
       ELSE IF m.state = "error" THEN "error" ELSE "fail") \in {"pass", "fail", "error"}
  BY <1>3 DEF Verdicts
<1> QED
  BY <1>2, <1>3, <1>4 DEF m

-----------------------------------------------------------------------------
(* Any number of invocations.                                                *)

RunSafe == TypeOK /\ RefsKnown /\ AllCoherent

TasksTyped ==
  /\ text \in SUBSET Core
  /\ run \in {"queued", "running", "done", "failed"}
  /\ doc \in {"queued", "running", "done", "failed"}
  /\ result \in Outcomes \cup {None}
  /\ task \in [Callers -> Tasks]

\* A result is stored with its statuses.
LEMMA StoredTyped ==
  ASSUME TasksTyped, NEW t \in Callers, Stored(t)
  PROVE  /\ run' \in {"done", "failed"} /\ doc' = run'
         /\ result' = task[t].out /\ result' \in Outcomes
BY DEF TasksTyped, Tasks, Stored

\* The text does not change, and a step of a task, whatever it is, keeps types.
LEMMA TasksTypedStep ==
  ASSUME TasksTyped, BridgeSafe, [Next]_vars
  PROVE  TasksTyped'
<1> USE DEF TasksTyped
<1>1. CASE UNCHANGED vars
  BY <1>1 DEF vars, rowVars
<1>2. ASSUME NEW p \in Procs, Crash(p)
      PROVE  TasksTyped'
  <2>1. UNCHANGED <<text, run, doc, result>>
    BY <1>2 DEF Crash, rowVars
  <2>2. ASSUME NEW t \in Callers
        PROVE  [task[t] EXCEPT !.pc = "gone"] \in Tasks
    BY DEF Tasks, Stopped
  <2>3. task' \in [Callers -> Tasks]
    BY <1>2, <2>2 DEF Crash
  <2> QED
    BY <2>1, <2>3
<1>3. ASSUME NEW t \in Callers, BridgeFails(t) \/ InBridge(t)
      PROVE  TasksTyped'
  BY <1>3 DEF BridgeFails, InBridge, rowVars
<1>4. ASSUME NEW t \in Callers, TxnFails(t)
      PROVE  TasksTyped'
  <2>1. task' \in [Callers -> Tasks] /\ UNCHANGED text
    BY <1>4, GotoSays DEF TxnFails, Stopped
  <2>2. CASE UNCHANGED rowVars
    BY <2>1, <2>2 DEF rowVars
  <2>3. CASE run' = "running" /\ doc' = "running" /\ UNCHANGED result
    BY <2>1, <2>3
  <2>4. CASE Stored(t)
    BY <2>1, <2>4, StoredTyped
  <2> QED
    BY <1>4, <2>2, <2>3, <2>4 DEF TxnFails
<1>5. ASSUME NEW t \in Callers, UNCHANGED <<text, rowVars>>, task' \in [Callers -> Tasks]
      PROVE  TasksTyped'
  BY <1>5 DEF rowVars
<1>6. ASSUME NEW t \in Callers,
             \/ SelectRun(t) \/ Created(t) \/ ParseFails(t) \/ Evaluate(t)
      PROVE  TasksTyped'
  <2>1. UNCHANGED <<text, rowVars>>
    BY <1>6 DEF SelectRun, Created, ParseFails, Evaluate
  <2>2. task' \in [Callers -> Tasks]
    BY <1>6, GotoSays DEF SelectRun, Created, ParseFails, Evaluate, InTry, Stopped
  <2> QED
    BY <1>5, <2>1, <2>2
<1>7. ASSUME NEW t \in Callers, BridgeRaised(t) \/ ParseRaises(t) \/ ClassifyFails(t)
      PROVE  TasksTyped'
  <2>1. UNCHANGED <<text, rowVars>>
    BY <1>7 DEF BridgeRaised, ParseRaises, ClassifyFails
  <2>2. PICK why \in {"exception", "budget"} : Decide(t, "error", "error", {why})
    BY <1>7 DEF BridgeRaised, ParseRaises, ClassifyFails, Except
  <2>3. Decided(t, "error", "error", {why})
    BY <2>2, DecideSays DEF States
  <2> QED
    BY <1>5, <2>1, <2>3 DEF Decided
<1>8. ASSUME NEW t \in Callers, ReadVerdict(t)
      PROVE  TasksTyped'
  <2>1. UNCHANGED <<text, rowVars>> /\ call[t].pc = "returned"
    BY <1>8 DEF ReadVerdict
  <2>2. task' \in [Callers -> Tasks]
    BY <1>8, <2>1, MachineRead, DecideSays DEF ReadVerdict, Decided
  <2> QED
    BY <1>5, <2>1, <2>2
<1>9. ASSUME NEW t \in Callers, ParseOk(t) \/ Classify(t)
      PROVE  TasksTyped'
  <2>1. UNCHANGED <<text, rowVars>>
    BY <1>9 DEF ParseOk, Classify
  <2>2. task' \in [Callers -> Tasks]
    BY <1>9, ParseOkSays, ClassifySays DEF HasFields
  <2> QED
    BY <1>5, <2>1, <2>2
<1>10. ASSUME NEW t \in Callers,
              \/ Analyze(t) \/ ReviseChunk(t) \/ DraftAdditions(t) \/ AiFails(t)
              \/ ExtractFsm(t)
       PROVE  TasksTyped'
  <2>1. UNCHANGED <<text, rowVars>>
    BY <1>10 DEF Analyze, ReviseChunk, DraftAdditions, AiFails, ExtractFsm
  <2>2. task' \in [Callers -> Tasks]
    BY <1>10, AssessmentSays
  <2> QED
    BY <1>5, <2>1, <2>2
<1>11. ASSUME NEW t \in Callers, ClaimRun(t)
       PROVE  TasksTyped'
  BY <1>11, GotoSays DEF ClaimRun, InTry
<1>12. ASSUME NEW t \in Callers, Persist(t)
       PROVE  TasksTyped'
  <2>1. UNCHANGED text /\ task' \in [Callers -> Tasks]
    BY <1>12, GotoSays DEF Persist, Stopped
  <2>2. CASE Stored(t)
    BY <2>1, <2>2, StoredTyped
  <2>3. CASE UNCHANGED rowVars
    BY <2>1, <2>3 DEF rowVars
  <2> QED
    BY <1>12, <2>2, <2>3 DEF Persist
<1>13. ASSUME NEW t \in Callers, Step(t)
       PROVE  TasksTyped'
  BY <1>13, <1>3, <1>6, <1>7, <1>8, <1>9, <1>10, <1>11, <1>12 DEF Step
<1> QED
  BY <1>1, <1>2, <1>3, <1>4, <1>13 DEF Next

\* What a step of any invocation keeps.
LEMMA RunSafeStep ==
  ASSUME RunSafe, [Next]_vars
  PROVE  RunSafe'
<1>1. BridgeSafe /\ TasksTyped
  BY DEF RunSafe, TypeOK, BridgeSafe, TasksTyped
<1>2. BridgeSafe'
  BY <1>1, BridgeSafeStep DEF TasksTyped
<1>3. TasksTyped'
  BY <1>1, TasksTypedStep
<1> QED
  BY <1>2, <1>3 DEF RunSafe, TypeOK, BridgeSafe, TasksTyped

\* The rows, the tasks, the machines and their snapshot are well-formed and
\* coherent at every await of any number of invocations of run_validation().
THEOREM RunInvariant == Spec => []RunSafe
<1>1. Init => RunSafe
  <2> SUFFICES ASSUME Init PROVE RunSafe
    OBVIOUS
  <2>1. BridgeSafe
    BY BridgeSafeInit DEF Init
  <2>2. Empty \in FieldSets
    BY DEF Empty, FieldSets
  <2>3. NewTask \in Tasks
    <3>1. 0 \in 0 .. MaxChunks
      BY PipelineAssumption
    <3>2. NewTask.out \in Outcomes
      BY <2>2 DEF NewTask, Outcomes, States
    <3> QED
      BY <3>1, <3>2 DEF NewTask, Tasks
  <2>4. TasksTyped
    BY <2>3 DEF Init, TasksTyped
  <2> QED
    BY <2>1, <2>4 DEF RunSafe, TypeOK, BridgeSafe, TasksTyped
<1>2. RunSafe /\ [Next]_vars => RunSafe'
  BY RunSafeStep
<1> QED
  BY <1>1, <1>2, PTL DEF Spec

\* Every variable of the pipeline keeps its type, for any number of invocations.
THEOREM RunTypeCorrect == Spec => []TypeOK
<1>1. RunSafe => TypeOK
  BY DEF RunSafe
<1> QED
  BY <1>1, RunInvariant, PTL

\* However many invocations share a run, a durable snapshot couples state, verdict
\* and reasons as one machine would (contract_actions.py:27-43, bridge.py:53).
THEOREM SharedSnapshotCoheres == Spec => []SnapshotCoherent
<1>1. RunSafe => SnapshotCoherent
  BY DEF RunSafe, AllCoherent, SnapshotCoherent
<1> QED
  BY <1>1, RunInvariant, PTL

\* However often run_validation() is called for a run, its result is written once
\* and never replaced, and the machine's snapshot is never lost (models:62).
THEOREM WrittenOnce == Spec => ResultWrittenOnce
<1>1. ASSUME RunSafe, [Next]_vars
      PROVE  result # None => result' = result
  <2>1. CASE UNCHANGED rowVars
    BY <2>1 DEF rowVars
  <2>2. ASSUME NEW t \in Callers, Step(t) PROVE result # None => result' = result
    BY <2>2 DEF Step, SelectRun, ClaimRun, InBridge, BridgeRaised, Created, ParseFails,
                ParseRaises, ParseOk, Classify, ClassifyFails, Evaluate, ReadVerdict,
                Analyze, ReviseChunk, DraftAdditions, AiFails, ExtractFsm, Persist, rowVars
  <2>3. ASSUME NEW t \in Callers, TxnFails(t) PROVE result # None => result' = result
    BY <2>3 DEF TxnFails, rowVars
  <2>4. CASE Next
    BY <2>2, <2>3, <2>4 DEF Next, BridgeFails, Crash, rowVars
  <2> QED
    BY <1>1, <2>1, <2>4 DEF vars
<1>2. ASSUME RunSafe, [Next]_vars
      PROVE  snapshot # None => snapshot' # None
  <2>1. BridgeSafe /\ text \in SUBSET Core /\ task \in [Callers -> Tasks]
    BY <1>2 DEF RunSafe, TypeOK, BridgeSafe
  <2>2. ASSUME NEW t \in Callers, call[t].pc = "saveCommit", snapshot' = call[t].snap
        PROVE  snapshot' # None
    BY <2>1, <2>2, CallerParts
  <2>3. ASSUME NEW t \in Callers, BridgeStep(t) \/ BridgeDbError(t)
        PROVE  snapshot # None => snapshot' # None
    BY <2>2, <2>3 DEF BridgeStep, CheckExists, LoadOrStart, Fire, SaveSelect, SaveCommit,
                      BridgeDbError
  <2>4. CASE Next
    BY <2>1, <2>3, <2>4, StepsOfBridge
    DEF Sends, StillInBridge, FailsOutside, BridgeCrash, bridgeVars
  <2> QED
    BY <1>2, <2>4 DEF vars, bridgeVars
<1>3. RunSafe /\ [Next]_vars
        => [/\ result # None => result' = result
            /\ snapshot # None => snapshot' # None]_vars
  BY <1>1, <1>2
<1> QED
  BY <1>3, RunInvariant, PTL DEF Spec, ResultWrittenOnce
=============================================================================

------------------------- MODULE OneInvocationProofs -------------------------
(***************************************************************************)
(* What run_validation() promises when it is invoked once for its run, for *)
(* any document, fields, answers of the models, and bounds on failures and *)
(* crashes.  (What several invocations keep is in RunValidationProofs; the *)
(* queue and the in-process executor give a run to one holder at a time,   *)
(* see ValidationServiceProofs.)                                           *)
(*                                                                         *)
(* PipeInv says, at each await of the one invocation t, which machine the  *)
(* bridge works on and what is durable of it, what the rows hold, and what *)
(* is known of the outcome.  Its parts are operators of the values they    *)
(* relate, so that a step is a matter of the values it leaves.             *)
(***************************************************************************)
EXTENDS RunValidationProofs

-----------------------------------------------------------------------------
(* The machine the invocation works on.                                      *)

InBridgeCall == {"create", "extracted", "evaluate", "failed"}
Reading      == {"start", "claim"} \cup InTry
Deciding     == InAi \cup {"persist"}

\* The machine once the fields are known, once they are judged, and when the
\* document could not be read.
Validating(fields) ==
  [state |-> "validating",
   ctx   |-> [missing |-> Missing(fields), verdict |-> "none", reasons |-> {}]]

Judged(fields) ==
  IF Missing(fields) = {}
  THEN [state |-> "valid", ctx |-> [missing |-> {}, verdict |-> "pass", reasons |-> {}]]
  ELSE [state |-> "invalid",
        ctx   |-> [missing |-> Missing(fields), verdict |-> "fail",
                   reasons |-> Missing(fields)]]

Unreadable ==
  [state |-> "error",
   ctx   |-> [missing |-> {}, verdict |-> "error", reasons |-> {"extraction failed"}]]

\* The snapshot a call of the bridge finds, what it sends, and what it leaves.
Before(pc, fields) ==
  CASE pc = "create"   -> None
    [] pc = "evaluate" -> Validating(fields)
    [] OTHER           -> InitialMachine

Sent(pc) ==
  CASE pc = "create"    -> "none"
    [] pc = "extracted" -> "EXTRACTED"
    [] pc = "evaluate"  -> "EVALUATE"
    [] OTHER            -> "EXTRACTION_FAILED"

Payload(pc, fields) == IF pc = "extracted" THEN Missing(fields) ELSE {}

Leaves(pc, fields) ==
  CASE pc = "create"    -> InitialMachine
    [] pc = "extracted" -> Validating(fields)
    [] pc = "evaluate"  -> Judged(fields)
    [] OTHER            -> Unreadable

\* What a transition makes of the machine a call finds.
LEMMA FireLeaves ==
  ASSUME NEW pc \in {"extracted", "evaluate", "failed"}, NEW fields \in FieldSets
  PROVE  /\ Enabled(Before(pc, fields), Sent(pc)) # {}
         /\ \A tr \in Enabled(Before(pc, fields), Sent(pc)) :
              Fired(Before(pc, fields), tr, Payload(pc, fields)) = Leaves(pc, fields)
<1> DEFINE m == Before(pc, fields)
           e == Sent(pc)
           miss == Missing(fields)
<1>1. CASE pc = "extracted"
  <2>1. m = InitialMachine /\ e = "EXTRACTED" /\ Payload(pc, fields) = miss
        /\ Leaves(pc, fields) = Validating(fields)
    BY <1>1 DEF Before, Sent, Payload, Leaves
  <2>2. Row("received", "EXTRACTED", "", "validating", "record_extracted")
          \in Enabled(InitialMachine, "EXTRACTED")
    BY DEF Enabled, Transitions, Row, InitialMachine, GuardHolds
  <2>3. ASSUME NEW tr \in Enabled(InitialMachine, "EXTRACTED")
        PROVE  tr.to = "validating" /\ tr.action = "record_extracted"
    BY TableRows DEF Enabled, HasRow, InitialMachine
  <2>4. ASSUME NEW tr \in Enabled(InitialMachine, "EXTRACTED")
        PROVE  Fired(InitialMachine, tr, miss) = Validating(fields)
    BY <2>3 DEF Fired, Computed, InitialMachine, Validating
  <2> QED
    BY <2>1, <2>2, <2>4
<1>2. CASE pc = "failed"
  <2>1. m = InitialMachine /\ e = "EXTRACTION_FAILED" /\ Payload(pc, fields) = {}
        /\ Leaves(pc, fields) = Unreadable
    BY <1>2 DEF Before, Sent, Payload, Leaves
  <2>2. Row("received", "EXTRACTION_FAILED", "", "error", "record_error")
          \in Enabled(InitialMachine, "EXTRACTION_FAILED")
    BY DEF Enabled, Transitions, Row, InitialMachine, GuardHolds
  <2>3. ASSUME NEW tr \in Enabled(InitialMachine, "EXTRACTION_FAILED")
        PROVE  tr.to = "error" /\ tr.action = "record_error"
    BY TableRows DEF Enabled, HasRow, InitialMachine
  <2>4. ASSUME NEW tr \in Enabled(InitialMachine, "EXTRACTION_FAILED")
        PROVE  Fired(InitialMachine, tr, {}) = Unreadable
    BY <2>3 DEF Fired, Computed, InitialMachine, Unreadable
  <2> QED
    BY <2>1, <2>2, <2>4
<1>3. CASE pc = "evaluate"
  <2> DEFINE v == Validating(fields)
  <2>1. m = v /\ e = "EVALUATE" /\ Payload(pc, fields) = {}
        /\ Leaves(pc, fields) = Judged(fields)
    BY <1>3 DEF Before, Sent, Payload, Leaves
  <2>2. v.state = "validating" /\ v.ctx = [missing |-> miss, verdict |-> "none", reasons |-> {}]
    BY DEF Validating
  <2> HIDE DEF v
  <2>5. v.ctx.missing = miss
    BY <2>2
  <2>3. CASE miss = {}
    <3>1. Row("validating", "EVALUATE", "all_required_present", "valid", "record_valid")
            \in Enabled(v, "EVALUATE")
      BY <2>2, <2>3 DEF Enabled, Transitions, Row, GuardHolds
    <3>2. ASSUME NEW tr \in Enabled(v, "EVALUATE")
          PROVE  tr.to = "valid" /\ tr.action = "record_valid"
      BY <2>2, <2>3, <2>5, TableRows DEF Enabled, HasRow, GuardHolds
    <3>3. ASSUME NEW tr \in Enabled(v, "EVALUATE")
          PROVE  Fired(v, tr, {}) = Judged(fields)
      <4>1. Computed(tr.action, v.ctx, {}) =
              [missing |-> {}, verdict |-> "pass", reasons |-> {}]
        <5>1. Computed("record_valid", [missing |-> {}, verdict |-> "none", reasons |-> {}], {}) =
                [missing |-> {}, verdict |-> "pass", reasons |-> {}]
          BY <2>3 DEF Computed
        <5> QED
          BY <2>2, <2>3, <3>2, <5>1
      <4>2. Judged(fields) =
              [state |-> "valid",
               ctx |-> [missing |-> {}, verdict |-> "pass", reasons |-> {}]]
        BY <2>3 DEF Judged
      <4> QED
        BY <3>2, <4>1, <4>2 DEF Fired
    <3> QED
      BY <2>1, <3>1, <3>3
  <2>4. CASE miss # {}
    <3>1. Row("validating", "EVALUATE", "missing_required", "invalid", "record_invalid")
            \in Enabled(v, "EVALUATE")
      BY <2>2, <2>4 DEF Enabled, Transitions, Row, GuardHolds
    <3>2. ASSUME NEW tr \in Enabled(v, "EVALUATE")
          PROVE  tr.to = "invalid" /\ tr.action = "record_invalid"
      BY <2>2, <2>4, <2>5, TableRows DEF Enabled, HasRow, GuardHolds
    <3>3. ASSUME NEW tr \in Enabled(v, "EVALUATE")
          PROVE  Fired(v, tr, {}) = Judged(fields)
      <4>1. Computed(tr.action, v.ctx, {}) =
              [missing |-> miss, verdict |-> "fail", reasons |-> miss]
        <5>1. Computed("record_invalid", [missing |-> miss, verdict |-> "none", reasons |-> {}], {}) =
                [missing |-> miss, verdict |-> "fail", reasons |-> miss]
          BY <2>4 DEF Computed
        <5> QED
          BY <2>2, <2>4, <3>2, <5>1
      <4>2. Judged(fields) =
              [state |-> "invalid",
               ctx |-> [missing |-> miss, verdict |-> "fail", reasons |-> miss]]
        BY <2>4 DEF Judged
      <4> QED
        BY <3>2, <4>1, <4>2 DEF Fired
    <3> QED
      BY <2>1, <3>1, <3>3
  <2> QED
    BY <2>3, <2>4
<1> QED
  BY <1>1, <1>2, <1>3

-----------------------------------------------------------------------------
(* The invariant.                                                            *)

\* Between two calls the machine in memory is the one registered and the one saved.
AtRest(t, k, reg, m, s, machine) ==
  /\ k.pc = "returned" /\ k.ref = t
  /\ reg = t
  /\ m = machine /\ s = machine

\* In a call of the bridge that the task makes at pc.
InCall(t, pc, fields, k, reg, m, s) ==
  LET owned == IF pc = "create" THEN None ELSE t
  IN  \/ k.pc = "exists" /\ pc = "create" /\ reg = owned /\ s = None
      \/ /\ k.pc = "load" /\ pc = "create" /\ reg = owned /\ s = None
         /\ k.ref = t /\ ~k.existed
      \/ /\ k.pc = "fire" /\ pc # "create" /\ reg = owned
         /\ k.ref = t /\ k.missing = Payload(pc, fields)
         /\ s = Before(pc, fields) /\ m = s
      \/ /\ k.pc \in {"saveSelect", "saveCommit"} /\ reg = owned
         /\ k.ref = t /\ (k.initial <=> pc = "create")
         /\ s = Before(pc, fields)
         /\ m = Leaves(pc, fields) /\ k.snap = Leaves(pc, fields)
         /\ k.pc = "saveCommit" => (k.sawRow <=> s # None)
      \/ AtRest(t, k, reg, m, s, Leaves(pc, fields))
      \/ k.pc = "raised"

\* The bridge, when the task t is at pc: its call k, what is registered in its
\* process, its machine m and the snapshot s.
BridgeAt(t, pc, fields, k, reg, m, s) ==
  /\ pc \in {"start", "claim"} => k.pc = "idle" /\ reg = None /\ s = None
  /\ pc \in {"parse", "classify"} => AtRest(t, k, reg, m, s, InitialMachine)
  /\ pc \in InBridgeCall => k.event = Sent(pc) /\ InCall(t, pc, fields, k, reg, m, s)
  /\ pc \in Deciding \cup Stopped => k.pc \notin Suspended

\* The rows: of a run that is under way, no result.
RowsAt(pc, r, d, res) ==
  /\ d = r
  /\ (res # None) <=> (r \in {"done", "failed"})
  /\ res # None => (r = "failed" <=> res.verdict = "error")
  /\ pc \in {"start", "claim"} => r = "queued"
  /\ pc \in InTry \cup Deciding => r = "running"
  /\ pc = "end" => res # None

\* A verdict is that of the durable machine, over the fields it was given.
VerdictAt(o, s) ==
  /\ o.verdict = "pass" =>
       /\ s # None /\ s.state = "valid"
       /\ o.final = "valid" /\ o.reasons = {}
       /\ Missing(o.fields) = {}
  /\ o.verdict = "fail" =>
       /\ s # None /\ s.state = "invalid"
       /\ o.final = "invalid"
       /\ o.reasons = s.ctx.missing /\ o.reasons # {}

\* The fields of a contract are the core fields at least; of those, the text has
\* the ones that are there and that the model did not pick.
FieldsAt(o, found) ==
  o.contract =>
    /\ Core \subseteq DOMAIN o.fields
    /\ \A n \in Core \ o.picked : o.fields[n] => n \in found

\* How far the assessment has come.
AssessedAt(pc, read, o) ==
  /\ pc \in Reading \cup {"analyze", "revise", "additions"} =>
       o.status = "skipped" /\ ~o.revised /\ ~o.fsm
  /\ pc \in {"extracted", "evaluate"} => read
  /\ pc \in InAi => o.verdict # "error" /\ LlmEnabled
  /\ pc \in {"revise", "additions"} => o.analysis = "full"
  /\ pc = "fsm" => o.status = "done" /\ o.revised /\ ~o.fsm /\ o.analysis = "full"

Complete(o) ==
  /\ o.revised <=> o.status = "done"
  /\ o.fsm <=> o.status = "done"
  /\ o.status = "done" => o.analysis = "full"
  /\ (o.status = "skipped") <=> (o.verdict = "error" \/ ~LlmEnabled)

\* The outcome o of a task at pc, over the text it is about and the snapshot s, and
\* what is stored of it.
OutcomeAt(pc, read, o, res, s, found) ==
  /\ AssessedAt(pc, read, o)
  /\ pc \in {"extracted", "evaluate"} => FieldsAt(o, found)
  /\ pc \in Deciding => VerdictAt(o, s) /\ (o.verdict = "pass" => FieldsAt(o, found))
  /\ pc = "persist" => Complete(o)
  /\ res # None =>
       /\ pc \in Stopped
       /\ VerdictAt(res, s) /\ Complete(res)
       /\ res.verdict = "pass" => FieldsAt(res, found)

BridgeKnown(t) ==
  BridgeAt(t, task[t].pc, task[t].out.fields, call[t], registry[ProcOf[t]], obj[t], snapshot)
RowsKnown(t) == RowsAt(task[t].pc, run, doc, result)
OutcomeKnown(t) ==
  OutcomeAt(task[t].pc, task[t].read, task[t].out, result, snapshot, text)

PipeInv(t) == BridgeKnown(t) /\ RowsKnown(t) /\ OutcomeKnown(t)

-----------------------------------------------------------------------------
(* The bridge goes on while the task waits for it.                           *)

\* The one call of the bridge goes on, or fails.
LEMMA BridgeGoesOn ==
  ASSUME RunSafe, NEW t \in Callers, PipeInv(t),
         BridgeStep(t) \/ BridgeDbError(t), UNCHANGED <<text, rowVars, task>>
  PROVE  PipeInv(t)'
<1> DEFINE pc == task[t].pc
           fields == task[t].out.fields
           k == call[t]
           reg == registry[ProcOf[t]]
           m == obj[t]
<1>1. /\ BridgeSafe /\ k \in Calls /\ task[t] \in Tasks /\ fields \in FieldSets
      /\ ProcOf[t] \in Procs /\ t # None
      /\ call \in [Callers -> Calls] /\ registry \in [Procs -> Callers \cup {None}]
      /\ obj \in [Callers -> Machines \cup {None}]
  BY BridgeAssumption DEF RunSafe, TypeOK, BridgeSafe, BridgeTypeOK, Tasks, Outcomes
<1>2. k.pc \in {"exists", "load", "fire", "saveSelect", "saveCommit"}
  BY DEF BridgeStep, CheckExists, LoadOrStart, Fire, SaveSelect, SaveCommit, BridgeDbError
<1>3. pc \in InBridgeCall /\ k.event = Sent(pc) /\ InCall(t, pc, fields, k, reg, m, snapshot)
  <2>1. pc \in Reading \cup Deciding \cup Stopped
    BY <1>1 DEF Tasks, Reading, Deciding
  <2>2. pc \notin Deciding \cup Stopped
    BY <1>2 DEF PipeInv, BridgeKnown, BridgeAt, Suspended
  <2>3. pc \notin {"start", "claim", "parse", "classify"}
    BY <1>2 DEF PipeInv, BridgeKnown, BridgeAt, AtRest
  <2>4. pc \in InBridgeCall
    BY <2>1, <2>2, <2>3 DEF Reading, InTry, InBridgeCall
  <2> QED
    BY <2>4 DEF PipeInv, BridgeKnown, BridgeAt
<1>4. task'[t].pc = pc /\ task'[t].out.fields = fields
  OBVIOUS
<1>5. SUFFICES InCall(t, pc, fields, call'[t], registry'[ProcOf[t]], obj'[t], snapshot')
               /\ call'[t].event = k.event
  <2>1. BridgeAt(t, pc, fields, call'[t], registry'[ProcOf[t]], obj'[t], snapshot')
    BY <1>3, <1>5 DEF BridgeAt, InBridgeCall, Deciding, InAi, Stopped
  <2>2. BridgeKnown(t)'
    BY <1>4, <2>1 DEF BridgeKnown
  <2>3. RowsKnown(t)'
    BY DEF PipeInv, RowsKnown, rowVars
  <2>4. result = None
    BY <1>3 DEF PipeInv, OutcomeKnown, OutcomeAt, InBridgeCall, Stopped
  <2>5. OutcomeAt(pc, task[t].read, task[t].out, result, snapshot', text)
    BY <1>3, <2>4 DEF PipeInv, OutcomeKnown, OutcomeAt, InBridgeCall, Deciding, InAi
  <2>6. OutcomeKnown(t)'
    BY <2>5 DEF OutcomeKnown, rowVars
  <2> QED
    BY <2>2, <2>3, <2>6 DEF PipeInv
<1>6. CASE BridgeDbError(t)
  BY <1>1, <1>6 DEF BridgeDbError, InCall, Calls
<1>7. CASE CheckExists(t)
  <2>1. pc = "create" /\ reg = None /\ snapshot = None /\ k.event = "none"
    BY <1>3, <1>7 DEF CheckExists, InCall, AtRest, Sent
  <2>2. /\ call' = [call EXCEPT ![t].pc = "load", ![t].existed = snapshot # None, ![t].ref = t]
        /\ UNCHANGED <<registry, snapshot>>
    BY <1>7, <2>1 DEF CheckExists
  <2>3. /\ call'[t].pc = "load" /\ call'[t].ref = t /\ call'[t].event = k.event
        /\ ~ call'[t].existed
    BY <1>1, <2>1, <2>2 DEF Calls
  <2> QED
    BY <2>1, <2>2, <2>3 DEF InCall
<1>8. CASE LoadOrStart(t)
  <2>1. pc = "create" /\ reg = None /\ snapshot = None /\ k.ref = t /\ ~ k.existed
    BY <1>3, <1>8 DEF LoadOrStart, InCall, AtRest
  <2>2. /\ obj' = [obj EXCEPT ![t] = InitialMachine]
        /\ call' = [call EXCEPT ![t].pc = "saveSelect", ![t].snap = InitialMachine,
                                ![t].initial = TRUE]
        /\ UNCHANGED <<registry, snapshot>>
    BY <1>8, <2>1 DEF LoadOrStart
  <2>3. /\ call'[t].pc = "saveSelect" /\ call'[t].ref = t /\ call'[t].event = k.event
        /\ call'[t].snap = InitialMachine /\ call'[t].initial
    BY <1>1, <2>1, <2>2 DEF Calls
  <2>4. obj'[t] = InitialMachine
    BY <1>1, <2>2
  <2> QED
    BY <2>1, <2>2, <2>3, <2>4 DEF InCall, Before, Leaves
<1>9. CASE Fire(t)
  <2>1. /\ pc # "create" /\ reg = t /\ k.ref = t /\ k.missing = Payload(pc, fields)
        /\ snapshot = Before(pc, fields) /\ m = snapshot
    BY <1>3, <1>9 DEF Fire, InCall, AtRest
  <2>2. pc \in {"extracted", "evaluate", "failed"}
    BY <1>3, <2>1 DEF InBridgeCall
  <2>3. Enabled(m, k.event) # {}
    BY <1>1, <1>3, <2>1, <2>2, FireLeaves
  <2>4. PICK tr \in Enabled(m, k.event) :
          /\ obj' = [obj EXCEPT ![t] = Fired(m, tr, k.missing)]
          /\ call' = [call EXCEPT ![t].pc = "saveSelect",
                                  ![t].snap = Fired(m, tr, k.missing), ![t].initial = FALSE]
    BY <1>9, <2>1, <2>3 DEF Fire
  <2>5. Fired(m, tr, k.missing) = Leaves(pc, fields)
    BY <1>1, <1>3, <2>1, <2>2, FireLeaves
  <2>6. /\ call'[t].pc = "saveSelect" /\ call'[t].ref = t /\ call'[t].event = k.event
        /\ call'[t].snap = Leaves(pc, fields) /\ ~ call'[t].initial
    BY <1>1, <2>1, <2>4, <2>5 DEF Calls
  <2>7. obj'[t] = Leaves(pc, fields)
    BY <1>1, <2>4, <2>5
  <2>8. UNCHANGED <<registry, snapshot>>
    BY <1>9 DEF Fire
  <2> QED
    BY <2>1, <2>6, <2>7, <2>8 DEF InCall
<1>10. CASE SaveSelect(t)
  <2> DEFINE there == snapshot # None
  <2>1. /\ reg = (IF pc = "create" THEN None ELSE t)
        /\ k.ref = t /\ (k.initial <=> pc = "create")
        /\ snapshot = Before(pc, fields)
        /\ m = Leaves(pc, fields) /\ k.snap = Leaves(pc, fields)
    BY <1>3, <1>10 DEF SaveSelect, InCall, AtRest
  <2>2. /\ call' = [call EXCEPT ![t].pc = "saveCommit", ![t].sawRow = there]
        /\ UNCHANGED <<registry, obj, snapshot>>
    BY <1>10 DEF SaveSelect
  <2>3. /\ call'[t].pc = "saveCommit" /\ call'[t].ref = t /\ call'[t].event = k.event
        /\ call'[t].snap = k.snap /\ call'[t].initial = k.initial
        /\ call'[t].sawRow = there
    <3> HIDE DEF there
    <3> QED
      BY <1>1, <2>1, <2>2 DEF Calls
  <2> QED
    BY <2>1, <2>2, <2>3 DEF InCall
<1>11. CASE SaveCommit(t)
  <2>1. /\ k.ref = t /\ (k.initial <=> pc = "create")
        /\ (k.sawRow <=> snapshot # None)
        /\ reg = (IF pc = "create" THEN None ELSE t)
        /\ m = Leaves(pc, fields) /\ k.snap = Leaves(pc, fields)
    BY <1>3, <1>11 DEF SaveCommit, InCall, AtRest
  <2>2. snapshot' = k.snap /\ UNCHANGED obj
    BY <1>11, <2>1 DEF SaveCommit
  <2>3. CASE pc = "create"
    <3>1. k.event = "none" /\ AfterGet(k.event) = "returned"
      BY <1>3, <2>3 DEF Sent, AfterGet
    <3>2. /\ registry' = [registry EXCEPT ![ProcOf[t]] = t]
          /\ call' = [call EXCEPT ![t].pc = "returned"]
      BY <1>11, <2>1, <2>3, <3>1 DEF SaveCommit
    <3>3. call'[t].pc = "returned" /\ call'[t].ref = t /\ call'[t].event = k.event
      BY <1>1, <2>1, <3>2 DEF Calls
    <3>4. registry'[ProcOf[t]] = t
      BY <1>1, <3>2
    <3> QED
      BY <2>1, <2>2, <3>3, <3>4 DEF InCall, AtRest
  <2>4. CASE pc # "create"
    <3>1. UNCHANGED registry /\ call' = [call EXCEPT ![t].pc = "returned"]
      BY <1>11, <2>1, <2>4 DEF SaveCommit
    <3>2. call'[t].pc = "returned" /\ call'[t].ref = t /\ call'[t].event = k.event
      BY <1>1, <2>1, <3>1 DEF Calls
    <3> QED
      BY <2>1, <2>2, <2>4, <3>1, <3>2 DEF InCall, AtRest
  <2> QED
    BY <2>3, <2>4
<1> QED
  BY <1>6, <1>7, <1>8, <1>9, <1>10, <1>11 DEF BridgeStep

-----------------------------------------------------------------------------
(* The task goes on.                                                         *)

\* The invariant is about what a step leaves.
LEMMA PutTogether ==
  ASSUME NEW t \in Callers, UNCHANGED text,
         BridgeAt(t, task'[t].pc, task'[t].out.fields, call'[t], registry'[ProcOf[t]],
                  obj'[t], snapshot'),
         RowsAt(task'[t].pc, run', doc', result'),
         OutcomeAt(task'[t].pc, task'[t].read, task'[t].out, result', snapshot', text)
  PROVE  PipeInv(t)'
BY DEF PipeInv, BridgeKnown, RowsKnown, OutcomeKnown

\* Types of what a task and its call are.
LEMMA TaskTyped ==
  ASSUME RunSafe, NEW t \in Callers
  PROVE  /\ TasksTyped /\ BridgeSafe
         /\ text \in SUBSET Core
         /\ task \in [Callers -> Tasks] /\ task[t] \in Tasks
         /\ task[t].out \in Outcomes /\ task[t].out.fields \in FieldSets
         /\ call \in [Callers -> Calls] /\ call[t] \in Calls
         /\ registry \in [Procs -> Callers \cup {None}]
         /\ ProcOf[t] \in Procs /\ t # None
BY BridgeAssumption DEF RunSafe, TypeOK, TasksTyped, BridgeSafe, BridgeTypeOK, Tasks, Outcomes

\* Where an invocation can be, by the part of the invariant that speaks of it.
LEMMA Places ==
  ASSUME NEW pc \in InTry
  PROVE  pc \in Reading /\ pc \notin Deciding \cup Stopped \cup InAi \cup {"start", "claim"}
BY DEF InTry, Reading, Deciding, Stopped, InAi

\* The invocation decides: its verdict is an error, or the machine's over the fields
\* of a document that was read.
LEMMA DecideInv ==
  ASSUME RunSafe, NEW t \in Callers, PipeInv(t), task[t].pc \in InTry,
         call[t].pc \notin Suspended,
         NEW verdict \in {"pass", "fail", "error"}, NEW final \in States,
         NEW reasons \in SUBSET (Names \cup {"check failed", "extraction failed",
                                             "unknown", "exception", "budget"}),
         Decide(t, verdict, final, reasons), UNCHANGED <<text, rowVars, bridgeVars>>,
         verdict # "error" =>
           /\ task[t].read /\ FieldsAt(task[t].out, text)
           /\ snapshot # None /\ reasons = snapshot.ctx.missing
           /\ final = snapshot.state,
         verdict = "pass" =>
           final = "valid" /\ reasons = {} /\ Missing(task[t].out.fields) = {},
         verdict = "fail" => final = "invalid" /\ reasons # {}
  PROVE  PipeInv(t)'
<1> DEFINE o == task[t].out
           o2 == task'[t].out
           pc2 == task'[t].pc
<1>1. /\ pc2 = (IF task[t].read /\ verdict # "error" /\ LlmEnabled
                 THEN "analyze" ELSE "persist")
      /\ o2 = [o EXCEPT !.verdict = verdict, !.final = final, !.reasons = reasons]
  <2>1. task \in [Callers -> Tasks]
    BY TaskTyped
  <2> QED
    <3>1. Decided(t, verdict, final, reasons)
      BY <2>1, DecideSays, Zenon
    <3> QED
      BY <3>1 DEF Decided
<1>2. o \in Outcomes /\ task[t].pc \in Reading /\ task[t].pc \notin Stopped
  BY TaskTyped, Places
<1>3. /\ o2.verdict = verdict /\ o2.final = final /\ o2.reasons = reasons
      /\ o2.fields = o.fields /\ o2.picked = o.picked /\ o2.contract = o.contract
      /\ o2.status = o.status /\ o2.analysis = o.analysis
      /\ o2.revised = o.revised /\ o2.fsm = o.fsm
  <2> HIDE DEF o, o2
  <2> QED
    BY <1>1, <1>2 DEF Outcomes
<1>4. UNCHANGED <<registry, obj, snapshot, call, text, run, doc, result>>
  BY DEF rowVars, bridgeVars
<1>5. pc2 \in {"analyze", "persist"} /\ (pc2 = "analyze" => verdict # "error" /\ LlmEnabled)
      /\ (pc2 = "persist" => verdict = "error" \/ ~ LlmEnabled)
  BY <1>1
<1> HIDE DEF o2, pc2
<1>6. result = None /\ run = "running" /\ doc = "running"
  BY <1>2 DEF PipeInv, OutcomeKnown, OutcomeAt, RowsKnown, RowsAt
<1>7. o.status = "skipped" /\ ~ o.revised /\ ~ o.fsm
  BY <1>2 DEF PipeInv, OutcomeKnown, OutcomeAt, AssessedAt
<1>8. BridgeAt(t, pc2, o2.fields, call'[t], registry'[ProcOf[t]], obj'[t], snapshot')
  BY <1>4, <1>5 DEF BridgeAt, InBridgeCall, Suspended
<1>9. RowsAt(pc2, run', doc', result')
  BY <1>4, <1>5, <1>6 DEF RowsAt
<1>10. OutcomeAt(pc2, task'[t].read, o2, result', snapshot', text)
  <2>1. AssessedAt(pc2, task'[t].read, o2)
    BY <1>3, <1>5, <1>7 DEF AssessedAt, Reading, InTry, InAi
  <2>2. VerdictAt(o2, snapshot)
    BY <1>3 DEF VerdictAt
  <2>3. o2.verdict = "pass" => FieldsAt(o2, text)
    BY <1>3 DEF FieldsAt
  <2>4. pc2 = "persist" => Complete(o2)
    BY <1>3, <1>5, <1>7 DEF Complete
  <2> QED
    BY <1>4, <1>5, <1>6, <2>1, <2>2, <2>3, <2>4 DEF OutcomeAt
<1> QED
  BY <1>4, <1>8, <1>9, <1>10, PutTogether DEF o2, pc2

\* Whatever is raised in the try block is an error verdict.
LEMMA ExceptInv ==
  ASSUME RunSafe, NEW t \in Callers, PipeInv(t),
         BridgeRaised(t) \/ ParseRaises(t) \/ ClassifyFails(t)
  PROVE  PipeInv(t)'
<1>1. PICK why \in {"exception", "budget"} : Decide(t, "error", "error", {why})
  BY DEF BridgeRaised, ParseRaises, ClassifyFails, Except
<1>2. UNCHANGED <<text, rowVars, bridgeVars>>
  BY DEF BridgeRaised, ParseRaises, ClassifyFails
<1>3. task[t].pc \in InTry
  BY DEF BridgeRaised, ParseRaises, ClassifyFails, InTry
<1>4. call[t].pc \notin Suspended
  BY DEF BridgeRaised, ParseRaises, ClassifyFails, PipeInv, BridgeKnown, BridgeAt, AtRest,
         Suspended
<1>5. {why} \in SUBSET (Names \cup {"check failed", "extraction failed",
                                    "unknown", "exception", "budget"})
      /\ "error" \in States
  BY DEF States
<1> QED
  BY <1>1, <1>2, <1>3, <1>4, <1>5, DecideInv

\* The last send() returned: the verdict is the machine's.
LEMMA ReadVerdictInv ==
  ASSUME RunSafe, NEW t \in Callers, PipeInv(t), ReadVerdict(t)
  PROVE  PipeInv(t)'
<1> DEFINE pc == task[t].pc
           fields == task[t].out.fields
           m == obj[t]
           verdict == IF m.ctx.verdict # "none" THEN m.ctx.verdict
                      ELSE IF m.state = "error" THEN "error" ELSE "fail"
<1>1. /\ pc \in {"evaluate", "failed"} /\ call[t].pc = "returned"
      /\ UNCHANGED <<text, rowVars, bridgeVars>>
  BY DEF ReadVerdict
<1>2. call[t].ref = t /\ m = Leaves(pc, fields) /\ snapshot = m
  <2>1. InCall(t, pc, fields, call[t], registry[ProcOf[t]], m, snapshot)
    BY <1>1 DEF PipeInv, BridgeKnown, BridgeAt, InBridgeCall
  <2> QED
    BY <1>1, <2>1 DEF InCall, AtRest
<1>3. Decide(t, verdict, m.state, m.ctx.reasons)
  BY <1>2 DEF ReadVerdict
<1>4. /\ m \in Machines /\ m.state \in States /\ verdict \in {"pass", "fail", "error"}
      /\ m.ctx.reasons \in SUBSET (Names \cup {"check failed", "extraction failed",
                                              "unknown", "exception", "budget"})
  BY <1>1, <1>2, TaskTyped, MachineRead
<1>5. CASE pc = "failed"
  <2>1. verdict = "error"
    <3>1. m = Unreadable
      BY <1>2, <1>5 DEF Leaves
    <3>2. Unreadable.ctx.verdict = "error"
      BY DEF Unreadable
    <3> QED
      BY <3>1, <3>2
  <2> HIDE DEF verdict, m
  <2> QED
    BY <1>1, <1>3, <1>4, <2>1, DecideInv DEF InTry, Suspended
<1>6. CASE pc = "evaluate"
  <2>1. m = Judged(fields)
    BY <1>2, <1>6 DEF Leaves
  <2>2. task[t].read /\ FieldsAt(task[t].out, text)
    BY <1>6 DEF PipeInv, OutcomeKnown, OutcomeAt, AssessedAt
  <2>3. CASE Missing(fields) = {}
    <3>1. /\ verdict = "pass" /\ m.state = "valid"
          /\ m.ctx.reasons = {} /\ m.ctx.missing = {}
      BY <2>1, <2>3 DEF Judged
    <3>2. snapshot # None
      BY <1>2, <1>4, BridgeAssumption
    <3> HIDE DEF verdict, m
    <3> QED
      BY <1>1, <1>2, <1>3, <1>4, <1>6, <2>2, <2>3, <3>1, <3>2, DecideInv
      DEF InTry, Suspended
  <2>4. CASE Missing(fields) # {}
    <3>1. /\ verdict = "fail" /\ m.state = "invalid"
          /\ m.ctx.reasons = Missing(fields) /\ m.ctx.missing = Missing(fields)
      BY <2>1, <2>4 DEF Judged
    <3>2. snapshot # None
      BY <1>2, <1>4, BridgeAssumption
    <3> HIDE DEF verdict, m
    <3> QED
      BY <1>1, <1>2, <1>3, <1>4, <1>6, <2>2, <2>4, <3>1, <3>2, DecideInv
      DEF InTry, Suspended
  <2> QED
    BY <2>3, <2>4
<1> QED
  BY <1>1, <1>5, <1>6

\* The run is looked up; a machine is there.
LEMMA GotoInv ==
  ASSUME RunSafe, NEW t \in Callers, PipeInv(t), SelectRun(t) \/ Created(t)
  PROVE  PipeInv(t)'
<1> DEFINE pc == task[t].pc
           pc2 == task'[t].pc
<1>1. /\ \/ pc = "start" /\ pc2 = "claim"
         \/ pc = "create" /\ pc2 = "parse" /\ call[t].pc = "returned"
      /\ Rest(t)
  <2>1. pc = "start" => run = "queued"
    BY DEF PipeInv, RowsKnown, RowsAt
  <2>2. task \in [Callers -> Tasks]
    BY TaskTyped
  <2> QED
    BY <2>1, <2>2, GotoSays DEF SelectRun, Created, InTry
<1>2. UNCHANGED <<registry, obj, snapshot, call, text, run, doc, result>>
  BY DEF SelectRun, Created, rowVars, bridgeVars
<1> HIDE DEF pc2
<1>3. BridgeAt(t, pc2, task[t].out.fields, call[t], registry[ProcOf[t]], obj[t], snapshot)
  BY <1>1 DEF PipeInv, BridgeKnown, BridgeAt, InBridgeCall, InCall, AtRest, Leaves,
              Deciding, InAi, Stopped
<1>4. RowsAt(pc2, run, doc, result)
  BY <1>1 DEF PipeInv, RowsKnown, RowsAt, InTry, Deciding, InAi
<1>5. OutcomeAt(pc2, task[t].read, task[t].out, result, snapshot, text)
  BY <1>1 DEF PipeInv, OutcomeKnown, OutcomeAt, AssessedAt, Reading, InTry, Deciding, InAi,
              Stopped
<1> QED
  BY <1>1, <1>2, <1>3, <1>4, <1>5, PutTogether DEF Rest, pc2

\* An invocation enters the bridge with an event, for the machine it has.
LEMMA SendFromRest ==
  ASSUME RunSafe, NEW t \in Callers, NEW event \in Events, NEW missing \in SUBSET Names,
         registry[ProcOf[t]] = t, obj[t] = snapshot,
         Send(t, event, missing), StillInBridge
  PROVE  /\ call'[t].pc = "fire" /\ call'[t].event = event
         /\ call'[t].missing = missing /\ call'[t].ref = t
         /\ UNCHANGED <<registry, obj, snapshot>>
<1> DEFINE x == Entered(t, event, missing)
<1>1. /\ x.event = event /\ x.missing = missing
      /\ x.ref = t /\ x.pc = AfterGet(event)
  BY TaskTyped, EnteredTyped
<1>2. AfterGet(event) = "fire"
  BY DEF AfterGet, Events
<1>3. call'[t] = x
  BY TaskTyped DEF Send
<1> QED
  BY <1>1, <1>2, <1>3 DEF StillInBridge

\* What was sent is on its way.
LEMMA FiresNext ==
  ASSUME RunSafe, NEW t \in Callers, NEW pc \in {"extracted", "evaluate", "failed"},
         NEW fields \in FieldSets,
         registry[ProcOf[t]] = t, obj[t] = snapshot, snapshot = Before(pc, fields),
         Send(t, Sent(pc), Payload(pc, fields)), StillInBridge
  PROVE  BridgeAt(t, pc, fields, call'[t], registry'[ProcOf[t]], obj'[t], snapshot')
<1>1. Sent(pc) \in Events /\ Payload(pc, fields) \in SUBSET Names
  BY MissingTyped DEF Sent, Payload, Events
<1>2. /\ call'[t].pc = "fire" /\ call'[t].event = Sent(pc)
      /\ call'[t].missing = Payload(pc, fields) /\ call'[t].ref = t
      /\ UNCHANGED <<registry, obj, snapshot>>
  BY <1>1, SendFromRest
<1> QED
  BY <1>2 DEF BridgeAt, InCall, InBridgeCall, Deciding, InAi, Stopped

\* The run is claimed, and its machine asked for.
LEMMA ClaimRunInv ==
  ASSUME RunSafe, NEW t \in Callers, PipeInv(t), ClaimRun(t)
  PROVE  PipeInv(t)'
<1>1. task'[t].pc = "create" /\ Rest(t) /\ task[t].pc = "claim"
  BY TaskTyped, GotoSays DEF ClaimRun, InTry
<1>2. registry[ProcOf[t]] = None /\ snapshot = None /\ result = None
  BY <1>1 DEF PipeInv, BridgeKnown, BridgeAt, OutcomeKnown, OutcomeAt, Stopped
<1>3. /\ UNCHANGED <<registry, obj, snapshot, text, result>>
      /\ run' = "running" /\ doc' = "running"
  BY DEF ClaimRun, StillInBridge
<1>4. call'[t].pc = "exists" /\ call'[t].event = "none"
  <2> DEFINE x == Entered(t, "none", {})
  <2>1. x.event = "none" /\ x.pc = "exists"
    BY <1>2 DEF Entered, Idle
  <2>2. call'[t] = x
    BY TaskTyped DEF ClaimRun, Send
  <2> QED
    BY <2>1, <2>2
<1>5. BridgeAt(t, "create", task[t].out.fields, call'[t], registry[ProcOf[t]], obj[t], snapshot)
  BY <1>2, <1>4 DEF BridgeAt, InCall, InBridgeCall, Sent, Deciding, InAi, Stopped
<1>6. RowsAt("create", run', doc', result)
  BY <1>2, <1>3 DEF RowsAt
<1>7. OutcomeAt("create", task[t].read, task[t].out, result, snapshot, text)
  BY <1>1, <1>2 DEF PipeInv, OutcomeKnown, OutcomeAt, AssessedAt, Reading, InTry, Deciding,
                    InAi
<1> QED
  BY <1>1, <1>3, <1>5, <1>6, <1>7, PutTogether DEF Rest

\* The document cannot be read; or its fields are judged.
LEMMA SendsInv ==
  ASSUME RunSafe, NEW t \in Callers, PipeInv(t), ParseFails(t) \/ Evaluate(t)
  PROVE  PipeInv(t)'
<1> DEFINE pc2 == task'[t].pc
           fields == task[t].out.fields
<1>1. /\ \/ task[t].pc = "parse" /\ pc2 = "failed"
         \/ task[t].pc = "extracted" /\ pc2 = "evaluate" /\ call[t].pc = "returned"
      /\ Rest(t)
  BY TaskTyped, GotoSays DEF ParseFails, Evaluate, InTry
<1>2. UNCHANGED <<text, run, doc, result>> /\ StillInBridge
  BY DEF ParseFails, Evaluate, rowVars
<1>3. Send(t, Sent(pc2), Payload(pc2, fields))
  BY <1>1 DEF ParseFails, Evaluate, Sent, Payload
<1> HIDE DEF pc2
<1>4. registry[ProcOf[t]] = t /\ obj[t] = snapshot /\ snapshot = Before(pc2, fields)
  BY <1>1 DEF PipeInv, BridgeKnown, BridgeAt, InBridgeCall, InCall, AtRest, Before, Leaves
<1>5. BridgeAt(t, pc2, fields, call'[t], registry'[ProcOf[t]], obj'[t], snapshot')
  BY <1>1, <1>2, <1>3, <1>4, TaskTyped, FiresNext
<1>6. RowsAt(pc2, run, doc, result)
  BY <1>1 DEF PipeInv, RowsKnown, RowsAt, InTry, Deciding, InAi
<1>7. OutcomeAt(pc2, task[t].read, task[t].out, result, snapshot', text)
  BY <1>1 DEF PipeInv, OutcomeKnown, OutcomeAt, AssessedAt, Reading, InTry, Deciding, InAi,
              Stopped
<1> QED
  BY <1>1, <1>2, <1>5, <1>6, <1>7, PutTogether DEF Rest, pc2

\* The fields are known, from the text alone or from the model as well.
LEMMA HasFieldsInv ==
  ASSUME RunSafe, NEW t \in Callers, PipeInv(t), task[t].pc \in {"parse", "classify"},
         NEW fields \in FieldSets, NEW picked, NEW contract \in BOOLEAN,
         HasFields(t, fields, picked, contract), UNCHANGED <<text, rowVars>>,
         contract => /\ Core \subseteq DOMAIN fields
                     /\ \A n \in Core \ picked : fields[n] => n \in text
  PROVE  PipeInv(t)'
<1> DEFINE o2 == task'[t].out
           o == task[t].out
<1>1. task'[t].pc = "extracted" /\ task'[t].read
  BY DEF HasFields
<1>2. o2 = [o EXCEPT !.fields = fields, !.picked = picked, !.contract = contract]
  BY DEF HasFields
<1>3. /\ o2.fields = fields /\ o2.picked = picked /\ o2.contract = contract
      /\ o2.status = o.status /\ o2.revised = o.revised /\ o2.fsm = o.fsm
  <2>1. o \in Outcomes
    BY TaskTyped
  <2> HIDE DEF o, o2
  <2> QED
    BY <1>2, <2>1 DEF Outcomes
<1> HIDE DEF o2
<1>4. /\ registry[ProcOf[t]] = t /\ obj[t] = snapshot
      /\ snapshot = Before("extracted", fields)
  BY DEF PipeInv, BridgeKnown, BridgeAt, AtRest, Before
<1>5. BridgeAt(t, "extracted", fields, call'[t], registry'[ProcOf[t]], obj'[t], snapshot')
  <2>1. Send(t, Sent("extracted"), Payload("extracted", fields)) /\ StillInBridge
    BY DEF HasFields, Sent, Payload
  <2> QED
    BY <1>4, <2>1, FiresNext
<1>6. RowsAt("extracted", run, doc, result)
  BY DEF PipeInv, RowsKnown, RowsAt, InTry, Deciding, InAi
<1>7. OutcomeAt("extracted", TRUE, o2, result, snapshot', text)
  <2>1. FieldsAt(o2, text)
    BY <1>3 DEF FieldsAt
  <2> QED
    BY <1>3, <2>1 DEF PipeInv, OutcomeKnown, OutcomeAt, AssessedAt, Reading, InTry, Deciding,
                      InAi, Stopped
<1> QED
  BY <1>1, <1>3, <1>5, <1>6, <1>7, PutTogether DEF o2, rowVars

\* The document is read.
LEMMA ParseOkInv ==
  ASSUME RunSafe, NEW t \in Callers, PipeInv(t), ParseOk(t)
  PROVE  PipeInv(t)'
<1>1. task[t].pc = "parse" /\ UNCHANGED <<text, rowVars>>
  BY DEF ParseOk
<1>2. CASE LlmEnabled /\ UNCHANGED bridgeVars /\ task'[t].pc = "classify"
           /\ task'[t].out = task[t].out
  <2>1. UNCHANGED <<registry, obj, snapshot, call, text, run, doc, result>>
    BY <1>1, <1>2 DEF rowVars, bridgeVars
  <2>2. BridgeAt(t, "classify", task[t].out.fields, call[t], registry[ProcOf[t]], obj[t],
                 snapshot)
    BY <1>1 DEF PipeInv, BridgeKnown, BridgeAt, InBridgeCall, Deciding, InAi, Stopped
  <2>3. RowsAt("classify", run, doc, result)
    BY <1>1 DEF PipeInv, RowsKnown, RowsAt, InTry, Deciding, InAi
  <2>4. OutcomeAt("classify", task'[t].read, task[t].out, result, snapshot, text)
    BY <1>1 DEF PipeInv, OutcomeKnown, OutcomeAt, AssessedAt, Reading, InTry, Deciding,
                InAi, Stopped
  <2> QED
    BY <1>2, <2>1, <2>2, <2>3, <2>4, PutTogether
<1>3. CASE HasFields(t, CoreFields, {}, TRUE)
  <2>1. CoreFields \in FieldSets /\ DOMAIN CoreFields = Core
    BY TaskTyped, CoreFieldsTyped
  <2>2. \A n \in Core : CoreFields[n] = (n \in text)
    BY DEF CoreFields
  <2> QED
    BY <1>1, <1>3, <2>1, <2>2, HasFieldsInv
<1> QED
  BY <1>2, <1>3, TaskTyped, ParseOkSays

\* The fields of a contract are the model's, and the text's where it has none.
LEMMA ClassifyInv ==
  ASSUME RunSafe, NEW t \in Callers, PipeInv(t), Classify(t)
  PROVE  PipeInv(t)'
<1>1. task[t].pc = "classify" /\ UNCHANGED <<text, rowVars>>
  BY DEF Classify
<1>2. PICK picked \in FieldSets, contract \in BOOLEAN :
        /\ (IF contract THEN Merged(picked) ELSE picked) \in FieldSets
        /\ HasFields(t, IF contract THEN Merged(picked) ELSE picked, DOMAIN picked, contract)
  BY TaskTyped, ClassifySays
<1> DEFINE fields == IF contract THEN Merged(picked) ELSE picked
           names == DOMAIN picked
<1>3. ASSUME contract
      PROVE  /\ Core \subseteq DOMAIN fields
             /\ \A n \in Core \ names : fields[n] => n \in text
  <2>1. fields = Merged(picked)
    BY <1>3
  <2>2. text \in SUBSET Core
    BY TaskTyped
  <2> HIDE DEF fields
  <2> QED
    BY <2>1, <2>2, MergedTyped
<1>4. fields \in FieldSets /\ HasFields(t, fields, names, contract)
  BY <1>2
<1> HIDE DEF fields, names
<1> QED
  BY <1>1, <1>3, <1>4, HasFieldsInv

\* The assessment goes on, or comes to nothing.
LEMMA AssessmentInv ==
  ASSUME RunSafe, NEW t \in Callers, PipeInv(t),
         Analyze(t) \/ ReviseChunk(t) \/ DraftAdditions(t) \/ AiFails(t) \/ ExtractFsm(t)
  PROVE  PipeInv(t)'
<1> DEFINE pc == task[t].pc
           pc2 == task'[t].pc
           o == task[t].out
           o2 == task'[t].out
<1>1. /\ task'[t].read = task[t].read
      /\ \/ /\ pc = "analyze" /\ pc2 = "revise"
            /\ o2 = [o EXCEPT !.analysis = "full"]
         \/ /\ pc = "revise" /\ pc2 \in {"revise", "additions"}
            /\ o2 = o
         \/ /\ pc \in {"revise", "additions"} /\ pc2 = "fsm"
            /\ o2 = [o EXCEPT !.status = "done", !.revised = TRUE]
         \/ /\ pc \in {"analyze", "revise", "additions"} /\ pc2 = "persist"
            /\ \/ o2 = [o EXCEPT !.status = "budget_exceeded"]
               \/ o2 = [o EXCEPT !.status = "error", !.analysis = "failure"]
         \/ /\ pc = "fsm" /\ pc2 = "persist"
            /\ o2 = [o EXCEPT !.fsm = TRUE]
  BY TaskTyped, AssessmentSays
<1>2. UNCHANGED <<registry, obj, snapshot, call, text, run, doc, result>>
  BY DEF Analyze, ReviseChunk, DraftAdditions, AiFails, ExtractFsm, rowVars, bridgeVars
<1>3. o \in Outcomes
  BY TaskTyped
<1> HIDE DEF pc2, o, o2
<1>4. /\ o2.verdict = o.verdict /\ o2.final = o.final /\ o2.reasons = o.reasons
      /\ o2.fields = o.fields /\ o2.picked = o.picked /\ o2.contract = o.contract
  BY <1>1, <1>3 DEF Outcomes
<1>5. pc \in InAi /\ pc2 \in Deciding
  BY <1>1 DEF InAi, Deciding
<1>6. result = None
  BY <1>5 DEF PipeInv, OutcomeKnown, OutcomeAt, InAi, Stopped
<1>7. BridgeAt(t, pc2, o2.fields, call[t], registry[ProcOf[t]], obj[t], snapshot)
  BY <1>5 DEF PipeInv, BridgeKnown, BridgeAt, InBridgeCall, Deciding, InAi
<1>8. RowsAt(pc2, run, doc, result)
  BY <1>5 DEF PipeInv, RowsKnown, RowsAt, InTry, Deciding, InAi
<1>9. /\ AssessedAt(pc, task[t].read, o) /\ VerdictAt(o, snapshot)
      /\ (o.verdict = "pass" => FieldsAt(o, text))
  BY <1>5 DEF PipeInv, OutcomeKnown, OutcomeAt, Deciding, o
<1>10. AssessedAt(pc2, task[t].read, o2)
  BY <1>1, <1>3, <1>9 DEF AssessedAt, Reading, InTry, InAi, Outcomes
<1>11. pc2 = "persist" => Complete(o2)
  BY <1>1, <1>3, <1>9 DEF AssessedAt, Complete, Reading, InTry, InAi, Outcomes
<1>12. VerdictAt(o2, snapshot) /\ (o2.verdict = "pass" => FieldsAt(o2, text))
  BY <1>4, <1>9 DEF VerdictAt, FieldsAt
<1>13. OutcomeAt(pc2, task[t].read, o2, result, snapshot, text)
  BY <1>5, <1>6, <1>10, <1>11, <1>12 DEF OutcomeAt, Deciding, InAi
<1> QED
  BY <1>1, <1>2, <1>7, <1>8, <1>13, PutTogether DEF pc2, o2

\* The result is stored with its statuses, and the invocation is over.
LEMMA StoredInv ==
  ASSUME RunSafe, NEW t \in Callers, PipeInv(t), task[t].pc = "persist",
         Stored(t), NEW pc2 \in {"end", "aborted"}, task'[t].pc = pc2, Rest(t),
         UNCHANGED <<text, registry, obj, snapshot, call>>
  PROVE  PipeInv(t)'
<1> DEFINE o == task[t].out
<1>1. o \in Outcomes /\ o # None
  BY TaskTyped, NoneIsNoOutcome
<1>2. result' = o /\ doc' = run'
      /\ run' = IF o.verdict \in {"pass", "fail"} THEN "done" ELSE "failed"
  BY DEF Stored
<1>3. /\ VerdictAt(o, snapshot) /\ Complete(o)
      /\ (o.verdict = "pass" => FieldsAt(o, text))
  BY DEF PipeInv, OutcomeKnown, OutcomeAt, Deciding
<1>4. o.verdict \in {"pass", "fail", "error"}
  BY <1>1 DEF Outcomes
<1> HIDE DEF o
<1>5. BridgeAt(t, pc2, o.fields, call[t], registry[ProcOf[t]], obj[t], snapshot)
  BY DEF PipeInv, BridgeKnown, BridgeAt, InBridgeCall, Deciding, InAi, Stopped
<1>6. RowsAt(pc2, run', doc', result')
  BY <1>1, <1>2, <1>4 DEF RowsAt, InTry, Deciding, InAi
<1>7. OutcomeAt(pc2, task[t].read, o, result', snapshot, text)
  BY <1>2, <1>3 DEF OutcomeAt, AssessedAt, Reading, InTry, Deciding, InAi, Stopped
<1> QED
  BY <1>5, <1>6, <1>7, PutTogether DEF Rest, o

\* The last transaction commits; a result that is there is impossible.
LEMMA PersistInv ==
  ASSUME RunSafe, NEW t \in Callers, PipeInv(t), Persist(t)
  PROVE  PipeInv(t)'
<1>1. task[t].pc = "persist"
  BY DEF Persist
<1>2. result = None
  BY <1>1 DEF PipeInv, OutcomeKnown, OutcomeAt, Stopped
<1>3. Stored(t) /\ Goto(t, "end")
  BY <1>2 DEF Persist
<1>4. task'[t].pc = "end" /\ Rest(t)
  BY <1>3, TaskTyped, GotoSays DEF Stopped
<1>5. UNCHANGED <<text, registry, obj, snapshot, call>>
  BY DEF Persist, bridgeVars
<1> QED
  BY <1>1, <1>3, <1>4, <1>5, StoredInv

\* A transaction fails, perhaps after its commit.
LEMMA TxnFailsInv ==
  ASSUME RunSafe, NEW t \in Callers, PipeInv(t), TxnFails(t)
  PROVE  PipeInv(t)'
<1> DEFINE pc == task[t].pc
<1>1. /\ pc \in {"start", "claim", "persist"}
      /\ UNCHANGED <<text, registry, obj, snapshot, call>>
  BY DEF TxnFails
<1>2. task'[t].pc = "aborted" /\ Rest(t)
  BY TaskTyped, GotoSays DEF TxnFails, Stopped
<1>3. BridgeAt(t, "aborted", task[t].out.fields, call[t], registry[ProcOf[t]], obj[t],
               snapshot)
  BY <1>1 DEF PipeInv, BridgeKnown, BridgeAt, InBridgeCall, Deciding, InAi, Stopped, Suspended
<1>4. result = None
  BY <1>1 DEF PipeInv, OutcomeKnown, OutcomeAt, Stopped
<1>5. CASE \/ UNCHANGED rowVars
           \/ pc = "claim" /\ run' = "running" /\ doc' = "running" /\ UNCHANGED result
  <2>1. UNCHANGED result
    BY <1>5 DEF rowVars
  <2>2. RowsAt("aborted", run', doc', result)
    BY <1>4, <1>5 DEF PipeInv, RowsKnown, RowsAt, InTry, Deciding, InAi, rowVars
  <2>3. OutcomeAt("aborted", task[t].read, task[t].out, result, snapshot, text)
    BY <1>4 DEF OutcomeAt, AssessedAt, Reading, InTry, Deciding, InAi
  <2> QED
    BY <1>1, <1>2, <1>3, <2>1, <2>2, <2>3, PutTogether DEF Rest
<1>6. CASE pc = "persist" /\ Stored(t)
  BY <1>1, <1>2, <1>6, StoredInv
<1> QED
  BY <1>5, <1>6 DEF TxnFails

\* A process dies, the invocation's or another.
LEMMA CrashInv ==
  ASSUME RunSafe, NEW t \in Callers, PipeInv(t), NEW q \in Procs, Crash(q)
  PROVE  PipeInv(t)'
<1> DEFINE pc == task[t].pc
           pc2 == task'[t].pc
<1>1. /\ UNCHANGED <<text, run, doc, result, snapshot>>
      /\ task[t] \in Tasks /\ ProcOf[t] \in Procs
      /\ registry \in [Procs -> Callers \cup {None}]
  BY TaskTyped DEF Crash, BridgeCrash, rowVars
<1>2. CASE ProcOf[t] # q
  <2>1. task'[t] = task[t]
    BY <1>2 DEF Crash
  <2>2. call'[t] = call[t] /\ obj'[t] = obj[t]
    BY <1>2 DEF Crash, BridgeCrash
  <2>3. registry'[ProcOf[t]] = registry[ProcOf[t]]
    BY <1>1, <1>2 DEF Crash, BridgeCrash
  <2> QED
    BY <1>1, <2>1, <2>2, <2>3 DEF PipeInv, BridgeKnown, RowsKnown, OutcomeKnown
<1>3. CASE ProcOf[t] = q
  <2>1. task'[t] = IF pc \notin Stopped THEN [task[t] EXCEPT !.pc = "gone"] ELSE task[t]
    BY <1>3 DEF Crash
  <2>2. /\ pc2 \in Stopped /\ Rest(t)
        /\ pc2 = "end" => pc = "end"
        /\ pc \in Stopped => pc2 = pc
    BY <1>1, <2>1 DEF Tasks, Stopped, Rest
  <2>3. call'[t].pc = "gone"
    BY <1>3 DEF Crash, BridgeCrash, Idle
  <2> HIDE DEF pc2
  <2>4. BridgeAt(t, pc2, task[t].out.fields, call'[t], registry'[ProcOf[t]], obj'[t], snapshot)
    BY <2>2, <2>3 DEF BridgeAt, InBridgeCall, Suspended, Stopped
  <2>5. RowsAt(pc2, run, doc, result)
    BY <2>2 DEF PipeInv, RowsKnown, RowsAt, Stopped, InTry, Deciding, InAi
  <2>6. OutcomeAt(pc2, task[t].read, task[t].out, result, snapshot, text)
    BY <2>2 DEF PipeInv, OutcomeKnown, OutcomeAt, AssessedAt, Reading, Stopped, InTry, Deciding,
                InAi
  <2> QED
    BY <1>1, <2>2, <2>4, <2>5, <2>6, PutTogether DEF Rest, pc2
<1> QED
  BY <1>2, <1>3

-----------------------------------------------------------------------------
(* The invocation is the only one.                                           *)

\* A step of the one invocation, or a crash, keeps what is known.
LEMMA PipeInvStep ==
  ASSUME NEW t \in Callers, Callers = {t}, RunSafe, PipeInv(t), [Next]_vars
  PROVE  PipeInv(t)'
<1>1. CASE UNCHANGED vars
  BY <1>1 DEF vars, rowVars, bridgeVars, PipeInv, BridgeKnown, RowsKnown, OutcomeKnown
<1>2. CASE \E q \in Procs : Crash(q)
  BY <1>2, CrashInv
<1>3. CASE BridgeFails(t) \/ InBridge(t)
  BY <1>3, BridgeGoesOn DEF BridgeFails, InBridge
<1>4. CASE TxnFails(t)
  BY <1>4, TxnFailsInv
<1>5. CASE Step(t) /\ ~ InBridge(t)
  BY <1>5, GotoInv, ClaimRunInv, ExceptInv, SendsInv, ParseOkInv, ClassifyInv, ReadVerdictInv,
     AssessmentInv, PersistInv
  DEF Step
<1> QED
  BY <1>1, <1>2, <1>3, <1>4, <1>5 DEF Next

\* A run that is queued, and nothing else.
LEMMA PipeInvInit ==
  ASSUME NEW t \in Callers, Init
  PROVE  PipeInv(t)
<1>1. task[t] = NewTask /\ call[t] = Idle /\ registry[ProcOf[t]] = None
  BY BridgeAssumption DEF Init, BridgeInit
<1>2. /\ task[t].pc = "start" /\ task[t].out.status = "skipped"
      /\ ~ task[t].out.revised /\ ~ task[t].out.fsm
  BY <1>1 DEF NewTask
<1>3. call[t].pc = "idle"
  BY <1>1 DEF Idle
<1>4. snapshot = None /\ result = None /\ run = "queued" /\ doc = "queued"
  BY DEF Init, BridgeInit
<1>5. BridgeKnown(t)
  BY <1>1, <1>2, <1>3, <1>4
  DEF BridgeKnown, BridgeAt, InBridgeCall, Deciding, InAi, Stopped
<1>6. RowsKnown(t)
  BY <1>2, <1>4 DEF RowsKnown, RowsAt, InTry, Deciding, InAi
<1>7. OutcomeKnown(t)
  BY <1>2, <1>4 DEF OutcomeKnown, OutcomeAt, AssessedAt, Deciding, InAi
<1> QED
  BY <1>5, <1>6, <1>7 DEF PipeInv

\* What is known at each await of the one invocation is so in every behaviour of it,
\* through failing models, failing commits and crashes.
THEOREM PipeInvariant ==
  ASSUME NEW t \in Callers, Callers = {t}
  PROVE  Spec => [](RunSafe /\ PipeInv(t))
<1>1. Init => PipeInv(t)
  BY PipeInvInit
<1>2. RunSafe /\ PipeInv(t) /\ [Next]_vars => PipeInv(t)'
  BY PipeInvStep
<1> QED
  BY <1>1, <1>2, RunInvariant, PTL DEF Spec

\* The rows of a run agree at every commit, whatever failed before it: the document
\* follows its run, a result is there exactly when the run is over, and a failed run
\* is one without a verdict (validate.py:122-136).
THEOREM RowsOfRunAgree ==
  ASSUME NEW t \in Callers, Callers = {t}
  PROVE  Spec => []RowsAgree
<1>1. PipeInv(t) => RowsAgree
  BY DEF PipeInv, RowsKnown, RowsAt, RowsAgree
<1>2. Spec => [](RunSafe /\ PipeInv(t))
  BY PipeInvariant
<1> QED
  BY <1>1, <1>2, PTL

\* A pass or fail is the durable machine's: the snapshot is final, in the state the
\* result names, and a failing run gives the machine's reasons (validate.py:3).
THEOREM VerdictsAreMachines ==
  ASSUME NEW t \in Callers, Callers = {t}
  PROVE  Spec => []VerdictIsMachines
<1>1. PipeInv(t) => VerdictIsMachines
  BY DEF PipeInv, OutcomeKnown, OutcomeAt, VerdictAt, VerdictIsMachines
<1>2. Spec => [](RunSafe /\ PipeInv(t))
  BY PipeInvariant
<1> QED
  BY <1>1, <1>2, PTL

\* A contract that passes has every core field: those the model did not pick were
\* found in the text, and none it picked was absent (extract.py:66-70).
THEOREM CoreFieldsAreChecked ==
  ASSUME NEW t \in Callers, Callers = {t}
  PROVE  Spec => []CoreFieldsChecked
<1>1. PipeInv(t) => CoreFieldsChecked
  BY DEF PipeInv, OutcomeKnown, OutcomeAt, VerdictAt, FieldsAt, CoreFieldsChecked, Missing
<1>2. Spec => [](RunSafe /\ PipeInv(t))
  BY PipeInvariant
<1> QED
  BY <1>1, <1>2, PTL

\* The assessment is all or nothing in the result, an error verdict is never assessed,
\* and nothing is assessed without a key (validate.py:93-120).
THEOREM AssessmentIsWhole ==
  ASSUME NEW t \in Callers, Callers = {t}
  PROVE  Spec => []AiLayerConsistent
<1>1. PipeInv(t) => AiLayerConsistent
  BY DEF PipeInv, OutcomeKnown, OutcomeAt, Complete, AiLayerConsistent
<1>2. Spec => [](RunSafe /\ PipeInv(t))
  BY PipeInvariant
<1> QED
  BY <1>1, <1>2, PTL

-----------------------------------------------------------------------------
(* The steps of the invocation, for what they may never do.                  *)

\* No call of the bridge is under way once the invocation decides.
LEMMA BridgeIsQuiet ==
  ASSUME NEW t \in Callers, Callers = {t}, RunSafe, PipeInv(t), [Next]_vars,
         task[t].pc \in Deciding \cup Stopped
  PROVE  snapshot' = snapshot
<1>1. call[t].pc \notin Suspended
  BY DEF PipeInv, BridgeKnown, BridgeAt
<1>2. ~ BridgeStep(t) /\ ~ BridgeDbError(t)
  BY <1>1 DEF BridgeStep, CheckExists, LoadOrStart, Fire, SaveSelect, SaveCommit,
              BridgeDbError, Suspended
<1>3. CASE UNCHANGED vars
  BY <1>3 DEF vars, bridgeVars
<1>4. CASE Next
  BY <1>2, <1>4, TaskTyped, StepsOfBridge
  DEF Sends, StillInBridge, FailsOutside, BridgeCrash, bridgeVars
<1> QED
  BY <1>3, <1>4

\* An error is decided by whatever raised; another verdict only by the machine.
LEMMA Decides ==
  ASSUME RunSafe, NEW t \in Callers, PipeInv(t), PipeInv(t)',
         BridgeRaised(t) \/ ParseRaises(t) \/ ClassifyFails(t) \/ ReadVerdict(t)
  PROVE  /\ task[t].pc \in InTry
         /\ task'[t].out.status = task[t].out.status
         /\ UNCHANGED result
         /\ \/ task'[t].pc = "persist" /\ task'[t].out.verdict = "error"
            \/ task[t].pc = "evaluate" /\ task'[t].pc \in {"analyze", "persist"}
               /\ task'[t].out.verdict # "error"
<1>1. task[t].pc \in InTry /\ UNCHANGED result /\ UNCHANGED snapshot
  BY DEF BridgeRaised, ParseRaises, ClassifyFails, ReadVerdict, InTry, rowVars, bridgeVars
<1>2. PICK verdict \in {"pass", "fail", "error"}, final \in States,
           reasons \in SUBSET (Names \cup {"check failed", "extraction failed",
                                          "unknown", "exception", "budget"}) :
        /\ Decide(t, verdict, final, reasons)
        /\ verdict = "error" \/ ReadVerdict(t)
  <2>1. CASE BridgeRaised(t) \/ ParseRaises(t) \/ ClassifyFails(t)
    <3>1. PICK why \in {"exception", "budget"} : Decide(t, "error", "error", {why})
      BY <2>1 DEF BridgeRaised, ParseRaises, ClassifyFails, Except
    <3>2. {why} \in SUBSET (Names \cup {"check failed", "extraction failed",
                                        "unknown", "exception", "budget"})
          /\ "error" \in States
      BY DEF States
    <3> QED
      BY <3>1, <3>2
  <2>2. CASE ReadVerdict(t)
    <3>1. call[t].pc = "returned"
      BY <2>2 DEF ReadVerdict
    <3> QED
      BY <2>2, <3>1, TaskTyped, MachineRead DEF ReadVerdict
  <2> QED
    BY <2>1, <2>2
<1>3. Decided(t, verdict, final, reasons)
  BY <1>2, TaskTyped, DecideSays, Zenon
<1>4. /\ task'[t].out.verdict = verdict /\ task'[t].out.status = task[t].out.status
      /\ task'[t].pc \in {"analyze", "persist"}
      /\ verdict = "error" => task'[t].pc = "persist"
  <2>1. task[t].out \in Outcomes
    BY TaskTyped
  <2> QED
    BY <1>3, <2>1 DEF Decided, Outcomes
<1>5. CASE verdict # "error"
  <2>1. ReadVerdict(t)
    BY <1>2, <1>5
  <2>2. task[t].pc \in {"evaluate", "failed"} /\ call[t].pc = "returned"
    BY <2>1 DEF ReadVerdict
  <2>3. task[t].pc # "failed"
    <3>1. SUFFICES ASSUME task[t].pc = "failed" PROVE FALSE
      OBVIOUS
    <3>2. snapshot = Unreadable
      BY <2>2, <3>1 DEF PipeInv, BridgeKnown, BridgeAt, InBridgeCall, InCall, AtRest, Leaves
    <3>3. Unreadable.state = "error"
      BY DEF Unreadable
    <3>4. VerdictAt(task'[t].out, snapshot')
      BY <1>4 DEF PipeInv, OutcomeKnown, OutcomeAt, Deciding, InAi
    <3> QED
      BY <1>1, <1>4, <1>5, <3>2, <3>3, <3>4 DEF VerdictAt
  <2> QED
    BY <1>1, <1>4, <1>5, <2>2, <2>3
<1> QED
  BY <1>1, <1>4, <1>5

\* Where the invocation goes without deciding anything.
Onwards ==
  {<<"start", "claim">>, <<"claim", "create">>, <<"create", "parse">>,
   <<"parse", "classify">>, <<"parse", "extracted">>, <<"parse", "failed">>,
   <<"classify", "extracted">>, <<"extracted", "evaluate">>,
   <<"analyze", "revise">>, <<"revise", "additions">>, <<"fsm", "persist">>}

\* What a step does that the invocation survives: the places it goes to, and what
\* happens there to its verdict, its assessment and the result.
MovesOn(t) ==
  LET pc   == task[t].pc
      pc2  == task'[t].pc
      same == task'[t].out.verdict = task[t].out.verdict
      kept == task'[t].out.status = task[t].out.status
  IN  \/ (pc2 = pc \/ <<pc, pc2>> \in Onwards) /\ same /\ kept /\ UNCHANGED result
      \/ /\ pc \in InTry /\ kept /\ UNCHANGED result
         /\ \/ pc2 = "persist" /\ task'[t].out.verdict = "error"
            \/ pc = "evaluate" /\ pc2 \in {"analyze", "persist"}
               /\ task'[t].out.verdict # "error"
      \/ pc \in {"revise", "additions"} /\ pc2 = "fsm"
         /\ task'[t].out.status = "done" /\ same /\ UNCHANGED result
      \/ pc \in {"analyze", "revise", "additions"} /\ pc2 = "persist"
         /\ task'[t].out.status \in {"budget_exceeded", "error"} /\ same /\ UNCHANGED result
      \/ pc = "persist" /\ pc2 = "end" /\ same /\ kept /\ result' # None

\* The steps of the invocation, as the abstractions of it see them.
LEMMA StepsMoveOn ==
  ASSUME NEW t \in Callers, Callers = {t}, RunSafe, PipeInv(t), [Next]_vars,
         task'[t].pc \notin {"aborted", "gone"}
  PROVE  MovesOn(t)
<1> DEFINE pc == task[t].pc
           o == task[t].out
<1>1. PipeInv(t)'
  BY PipeInvStep
<1>2. o \in Outcomes /\ task[t] \in Tasks /\ task \in [Callers -> Tasks]
  BY TaskTyped
<1>3. CASE UNCHANGED vars
  BY <1>3 DEF vars, rowVars, MovesOn
<1>4. CASE \E q \in Procs : Crash(q)
  <2>1. PICK q \in Procs : Crash(q)
    BY <1>4
  <2>2. task'[t] = task[t] \/ task'[t] = [task[t] EXCEPT !.pc = "gone"]
    BY <2>1 DEF Crash
  <2>3. task'[t] = task[t]
    BY <1>2, <2>2 DEF Tasks
  <2> QED
    BY <2>1, <2>3 DEF Crash, rowVars, MovesOn
<1>5. CASE TxnFails(t)
  <2>1. task'[t].pc = "aborted"
    BY <1>2, <1>5, GotoSays DEF TxnFails, Stopped
  <2> QED
    BY <2>1
<1>6. CASE InBridge(t) \/ BridgeFails(t)
  BY <1>6 DEF InBridge, BridgeFails, rowVars, MovesOn
<1>7. CASE SelectRun(t) \/ ClaimRun(t) \/ Created(t) \/ ParseFails(t) \/ Evaluate(t)
  <2>1. Rest(t) /\ <<pc, task'[t].pc>> \in Onwards
    <3>1. SelectRun(t) => run = "queued"
      BY DEF SelectRun, PipeInv, RowsKnown, RowsAt
    <3> QED
      BY <1>2, <1>7, <3>1, GotoSays
      DEF SelectRun, ClaimRun, Created, ParseFails, Evaluate, InTry, Onwards
  <2>2. UNCHANGED result
    BY <1>7 DEF SelectRun, ClaimRun, Created, ParseFails, Evaluate, rowVars
  <2> QED
    BY <2>1, <2>2 DEF Rest, MovesOn
<1>8. CASE BridgeRaised(t) \/ ParseRaises(t) \/ ClassifyFails(t) \/ ReadVerdict(t)
  BY <1>1, <1>8, Decides DEF MovesOn
<1>9. CASE ParseOk(t) \/ Classify(t)
  <2>1. \/ task'[t].pc = "classify" /\ pc = "parse" /\ task'[t].out = o
        \/ /\ pc \in {"parse", "classify"}
           /\ \E fields, picked, contract : HasFields(t, fields, picked, contract)
    <3>1. CASE ParseOk(t)
      BY <3>1, TaskTyped, ParseOkSays DEF ParseOk
    <3>2. CASE Classify(t)
      BY <3>2, TaskTyped, ClassifySays DEF Classify
    <3> QED
      BY <1>9, <3>1, <3>2
  <2>2. UNCHANGED result
    BY <1>9 DEF ParseOk, Classify, rowVars
  <2>3. CASE task'[t].pc = "classify" /\ pc = "parse" /\ task'[t].out = o
    BY <2>2, <2>3 DEF MovesOn, Onwards
  <2>4. ASSUME NEW fields, NEW picked, NEW contract, pc \in {"parse", "classify"},
               HasFields(t, fields, picked, contract)
        PROVE  MovesOn(t)
    <3>1. /\ task'[t].pc = "extracted" /\ task'[t].out.verdict = o.verdict
          /\ task'[t].out.status = o.status
      BY <1>2, <2>4 DEF HasFields, Outcomes
    <3> QED
      BY <2>2, <2>4, <3>1 DEF MovesOn, Onwards
  <2> QED
    BY <2>1, <2>3, <2>4
<1>10. CASE Analyze(t) \/ ReviseChunk(t) \/ DraftAdditions(t) \/ AiFails(t) \/ ExtractFsm(t)
  <2>1. UNCHANGED result
    BY <1>10 DEF Analyze, ReviseChunk, DraftAdditions, AiFails, ExtractFsm, rowVars
  <2>2. \/ /\ <<pc, task'[t].pc>> \in Onwards \/ task'[t].pc = pc
           /\ task'[t].out.verdict = o.verdict /\ task'[t].out.status = o.status
        \/ /\ pc \in {"revise", "additions"} /\ task'[t].pc = "fsm"
           /\ task'[t].out.verdict = o.verdict /\ task'[t].out.status = "done"
        \/ /\ pc \in {"analyze", "revise", "additions"} /\ task'[t].pc = "persist"
           /\ task'[t].out.verdict = o.verdict
           /\ task'[t].out.status \in {"budget_exceeded", "error"}
    BY <1>2, <1>10, AssessmentSays DEF Outcomes, Onwards
  <2> QED
    BY <2>1, <2>2 DEF MovesOn
<1>11. CASE Persist(t)
  <2>1. pc = "persist" /\ result = None
    BY <1>11 DEF Persist, PipeInv, OutcomeKnown, OutcomeAt, Stopped
  <2>2. Goto(t, "end") /\ result' = o
    BY <1>11, <2>1 DEF Persist, Stored
  <2>3. task'[t].pc = "end" /\ Rest(t)
    BY <1>2, <2>2, GotoSays DEF Stopped
  <2> QED
    BY <1>2, <2>1, <2>2, <2>3, NoneIsNoOutcome DEF Rest, MovesOn
<1>12. CASE Step(t)
  BY <1>6, <1>7, <1>8, <1>9, <1>10, <1>11, <1>12 DEF Step
<1> QED
  BY <1>3, <1>4, <1>5, <1>6, <1>12 DEF Next

\* Whatever the models answer or fail to, the verdict they come after is final: neither
\* it nor the machine's snapshot changes again (validate.py:90-92).
THEOREM VerdictStays ==
  ASSUME NEW solo \in Callers, Callers = {solo}
  PROVE  Spec => VerdictSettled
<1>1. ASSUME RunSafe, PipeInv(solo), [Next]_vars, NEW c \in Callers,
             task[c].pc \in InAi \cup {"persist"}, task'[c].pc # "gone"
      PROVE  /\ task'[c].out.verdict = task[c].out.verdict
             /\ task'[c].out.final = task[c].out.final
             /\ task'[c].out.reasons = task[c].out.reasons
             /\ task[c].out.verdict # "error" => snapshot' = snapshot
  <2>1. c = solo
    OBVIOUS
  <2>2. snapshot' = snapshot
    BY <1>1, <2>1, BridgeIsQuiet DEF Deciding
  <2> DEFINE o == task[c].out
             o2 == task'[c].out
  <2>3. SUFFICES o2.verdict = o.verdict /\ o2.final = o.final /\ o2.reasons = o.reasons
    BY <2>2
  <2>4. o \in Outcomes /\ task \in [Callers -> Tasks]
    BY <1>1, TaskTyped
  <2>5. CASE UNCHANGED vars
    BY <2>5 DEF vars
  <2>6. CASE \E q \in Procs : Crash(q)
    <3>1. task'[c] = task[c] \/ task'[c] = [task[c] EXCEPT !.pc = "gone"]
      BY <2>6 DEF Crash
    <3> QED
      BY <2>4, <3>1 DEF Tasks
  <2>7. CASE TxnFails(c) \/ Persist(c)
    <3>1. Rest(c)
      BY <2>4, <2>7, GotoSays DEF TxnFails, Persist, Stopped
    <3> QED
      BY <3>1 DEF Rest
  <2>8. CASE BridgeFails(c) \/ InBridge(c)
    BY <2>8 DEF BridgeFails, InBridge
  <2>9. CASE Analyze(c) \/ ReviseChunk(c) \/ DraftAdditions(c) \/ AiFails(c) \/ ExtractFsm(c)
    <3>1. \/ o2 = o \/ o2 = [o EXCEPT !.analysis = "full"] \/ o2 = [o EXCEPT !.fsm = TRUE]
          \/ o2 = [o EXCEPT !.status = "done", !.revised = TRUE]
          \/ o2 = [o EXCEPT !.status = "budget_exceeded"]
          \/ o2 = [o EXCEPT !.status = "error", !.analysis = "failure"]
      BY <2>4, <2>9, AssessmentSays
    <3> HIDE DEF o, o2
    <3> QED
      BY <2>4, <3>1 DEF Outcomes
  <2>10. CASE Step(c)
    BY <1>1, <2>7, <2>8, <2>9, <2>10
    DEF Step, SelectRun, ClaimRun, BridgeRaised, Created, ParseFails, ParseRaises, ParseOk,
        Classify, ClassifyFails, Evaluate, ReadVerdict, InAi
  <2> QED
    BY <1>1, <2>1, <2>5, <2>6, <2>7, <2>8, <2>10 DEF Next
<1>2. RunSafe /\ PipeInv(solo) /\ [Next]_vars
        => [\A t \in Callers :
              task[t].pc \in InAi \cup {"persist"} /\ task'[t].pc # "gone" =>
                /\ task'[t].out.verdict = task[t].out.verdict
                /\ task'[t].out.final = task[t].out.final
                /\ task'[t].out.reasons = task[t].out.reasons
                /\ task[t].out.verdict # "error" => snapshot' = snapshot]_vars
  BY <1>1
<1>3. Spec => [](RunSafe /\ PipeInv(solo))
  BY PipeInvariant
<1> QED
  BY <1>2, <1>3, PTL DEF Spec, VerdictSettled

-----------------------------------------------------------------------------
(* The machines of machines/ as abstractions of the invocation.              *)

\* The state of machines/document_pipeline.orca.md, and of its AI layer.
PipelineAt(pc, verdict, res) ==
  CASE pc \in {"start", "claim"}                            -> "received"
    [] pc \in {"create", "parse", "failed"}                 -> "ingesting"
    [] pc \in {"classify", "extracted", "evaluate"}         -> "validating"
    [] OTHER -> IF verdict = "error" THEN "failed"
                ELSE IF res = None THEN "assessing" ELSE "complete"

AssessmentAt(pc, status) ==
  CASE status = "done"                         -> "complete"
    [] status \in {"budget_exceeded", "error"} -> "failed"
    [] pc = "analyze"                          -> "analyzing"
    [] pc \in {"revise", "additions"}          -> "revising"
    [] OTHER                                   -> "pending"

\* One invocation goes through the two machines along their edges: no verdict before
\* the text, no delivery before the verdict, no redline unanalyzed.
THEOREM FollowsMachines ==
  ASSUME NEW t \in Callers, Callers = {t}
  PROVE  Spec => PipelineFollowsMachine
<1>1. Solo = t
  BY DEF Solo
<1>2. /\ PipelineState = PipelineAt(task[t].pc, task[t].out.verdict, result)
      /\ AssessmentState = AssessmentAt(task[t].pc, task[t].out.status)
  BY <1>1 DEF PipelineState, PipelineAt, AssessmentState, AssessmentAt
<1>3. /\ PipelineState' = PipelineAt(task'[t].pc, task'[t].out.verdict, result')
      /\ AssessmentState' = AssessmentAt(task'[t].pc, task'[t].out.status)
  BY <1>1 DEF PipelineState, PipelineAt, AssessmentState, AssessmentAt
<1>4. Init => PipelineState = "received" /\ AssessmentState = "pending"
  BY <1>2 DEF Init, NewTask, PipelineAt, AssessmentAt
<1>5. ASSUME RunSafe, PipeInv(t), [Next]_vars, Survives
      PROVE  /\ Follows(DocumentPipeline, PipelineState, PipelineState')
             /\ Follows(AiAssessment, AssessmentState, AssessmentState')
  <2>1. MovesOn(t)
    BY <1>1, <1>5, StepsMoveOn DEF Survives
  <2> DEFINE pc == task[t].pc
             pc2 == task'[t].pc
             v == task[t].out.verdict
             v2 == task'[t].out.verdict
             st == task[t].out.status
             st2 == task'[t].out.status
  <2>2. /\ pc \in Reading \cup {"analyze", "revise", "additions"} => st = "skipped"
        /\ pc = "fsm" => st = "done"
        /\ pc \in InAi => v # "error"
        /\ pc2 \in InAi => v2 # "error"
        /\ pc \notin Stopped => result = None
    <3>1. PipeInv(t)'
      BY <1>5, PipeInvStep
    <3> QED
      BY <1>5, <3>1 DEF PipeInv, OutcomeKnown, OutcomeAt, AssessedAt
  <2> HIDE DEF pc, pc2, v, v2, st, st2
  <2>3. Follows(DocumentPipeline, PipelineAt(pc, v, result), PipelineAt(pc2, v2, result'))
    <3>1. CASE (pc2 = pc \/ <<pc, pc2>> \in Onwards) /\ v2 = v /\ result' = result
      BY <2>2, <3>1 DEF Onwards, Follows, DocumentPipeline, PipelineAt, InTry, InAi, Stopped
    <3>2. CASE pc \in InTry /\ pc2 = "persist" /\ v2 = "error" /\ result' = result
      BY <3>2 DEF Follows, DocumentPipeline, PipelineAt, InTry
    <3>3. CASE /\ pc = "evaluate" /\ pc2 \in {"analyze", "persist"}
               /\ v2 # "error" /\ result' = result
      BY <2>2, <3>3 DEF Follows, DocumentPipeline, PipelineAt, Stopped
    <3>4. CASE /\ pc \in {"analyze", "revise", "additions"} /\ pc2 \in {"fsm", "persist"}
               /\ v2 = v /\ result' = result
      BY <2>2, <3>4 DEF Follows, DocumentPipeline, PipelineAt, InAi, Stopped
    <3>5. CASE pc = "persist" /\ pc2 = "end" /\ v2 = v /\ result' # None
      <4>1. CASE v = "error"
        BY <3>5, <4>1 DEF Follows, PipelineAt
      <4>2. CASE v # "error"
        BY <3>5, <4>2 DEF Follows, DocumentPipeline, PipelineAt
      <4> QED
        BY <4>1, <4>2
    <3> QED
      BY <2>1, <3>1, <3>2, <3>3, <3>4, <3>5 DEF MovesOn, pc, pc2, v, v2
  <2>4. Follows(AiAssessment, AssessmentAt(pc, st), AssessmentAt(pc2, st2))
    <3>1. CASE (pc2 = pc \/ <<pc, pc2>> \in Onwards) /\ st2 = st
      BY <2>2, <3>1 DEF Onwards, Follows, AiAssessment, AssessmentAt, InTry, Reading
    <3>2. CASE pc \in InTry /\ pc2 \in {"analyze", "persist"} /\ st2 = st
      BY <2>2, <3>2 DEF Follows, AiAssessment, AssessmentAt, InTry, Reading
    <3>3. CASE pc \in {"revise", "additions"} /\ pc2 = "fsm" /\ st2 = "done"
      BY <2>2, <3>3 DEF Follows, AiAssessment, AssessmentAt
    <3>4. CASE /\ pc \in {"analyze", "revise", "additions"} /\ pc2 = "persist"
               /\ st2 \in {"budget_exceeded", "error"}
      BY <2>2, <3>4 DEF Follows, AiAssessment, AssessmentAt
    <3>5. CASE pc = "persist" /\ pc2 = "end" /\ st2 = st
      BY <3>5 DEF Follows, AssessmentAt
    <3> QED
      BY <2>1, <3>1, <3>2, <3>3, <3>4, <3>5 DEF MovesOn, pc, pc2, st, st2
  <2> QED
    BY <1>2, <1>3, <2>3, <2>4 DEF pc, pc2, v, v2, st, st2
<1>6. RunSafe /\ PipeInv(t) /\ [Next]_vars
        => [Survives => /\ Follows(DocumentPipeline, PipelineState, PipelineState')
                        /\ Follows(AiAssessment, AssessmentState, AssessmentState')]_vars
  BY <1>5
<1>7. Spec => [](RunSafe /\ PipeInv(t))
  BY PipeInvariant
<1> QED
  BY <1>4, <1>6, <1>7, PTL DEF Spec, PipelineFollowsMachine

-----------------------------------------------------------------------------
(* The lifecycle of a run, as the pipeline implements it.                    *)

\* The rows of a run move as its lifecycle says.
RowsMove ==
  \/ UNCHANGED <<run, result>>
  \/ run = "queued" /\ run' = "running" /\ UNCHANGED result
  \/ /\ run = "running" /\ result = None /\ result' # None
     /\ run' = IF result'.verdict = "error" THEN "failed" ELSE "done"

\* Each step of the invocation moves the rows of its run that way, or leaves them.
LEMMA RowsMoveOn ==
  ASSUME NEW t \in Callers, Callers = {t}, RunSafe, PipeInv(t), [Next]_vars
  PROVE  RowsMove
<1> DEFINE pc == task[t].pc
<1>1. /\ task[t].out \in Outcomes
      /\ RowsAt(pc, run, doc, result)
      /\ pc = "persist" => result = None
  BY TaskTyped DEF PipeInv, RowsKnown, OutcomeKnown, OutcomeAt, Stopped
<1>2. CASE UNCHANGED rowVars
  BY <1>2 DEF rowVars, RowsMove
<1>3. CASE pc = "claim" /\ run' = "running" /\ UNCHANGED result
  BY <1>1, <1>3 DEF RowsAt, RowsMove
<1>4. CASE pc = "persist" /\ Stored(t)
  <2>1. run = "running" /\ result = None
    BY <1>1, <1>4 DEF RowsAt, Deciding
  <2>2. /\ result' = task[t].out
        /\ run' = IF task[t].out.verdict \in {"pass", "fail"} THEN "done" ELSE "failed"
    BY <1>4 DEF Stored
  <2>3. task[t].out # None /\ task[t].out.verdict \in {"pass", "fail", "error"}
    BY <1>1, NoneIsNoOutcome DEF Outcomes
  <2> QED
    BY <2>1, <2>2, <2>3 DEF RowsMove
<1>5. CASE Step(t) \/ TxnFails(t) \/ BridgeFails(t)
  <2>1. UNCHANGED rowVars \/ ClaimRun(t) \/ Persist(t) \/ TxnFails(t)
    BY <1>5 DEF Step, InBridge, BridgeFails, SelectRun, BridgeRaised, Created, ParseFails,
                ParseRaises, ParseOk, Classify, ClassifyFails, Evaluate, ReadVerdict,
                Analyze, ReviseChunk, DraftAdditions, AiFails, ExtractFsm
  <2>2. ClaimRun(t) => pc = "claim" /\ run' = "running" /\ UNCHANGED result
    BY DEF ClaimRun
  <2>3. Persist(t) => pc = "persist" /\ Stored(t)
    BY <1>1 DEF Persist
  <2>4. TxnFails(t) => \/ UNCHANGED rowVars
                       \/ pc = "claim" /\ run' = "running" /\ UNCHANGED result
                       \/ pc = "persist" /\ Stored(t)
    BY DEF TxnFails
  <2> QED
    BY <1>2, <1>3, <1>4, <2>1, <2>2, <2>3, <2>4
<1>6. CASE (\E q \in Procs : Crash(q)) \/ UNCHANGED vars
  BY <1>2, <1>6 DEF Crash, vars
<1> QED
  BY <1>5, <1>6 DEF Next

\* The pipeline implements the lifecycle the service promises of a run, from the
\* moment it is queued: one claim, then its result and its terminal status in one
\* step, whatever raised, failed to commit or died in between (validate.py:35-138).
THEOREM ImplementsLifecycle ==
  ASSUME NEW t \in Callers, Callers = {t}
  PROVE  Spec => PipelineIsLifecycle
<1> DEFINE status == [r \in {Solo} |-> run]
           stored == [r \in {Solo} |-> IF result = None THEN "none"
                                       ELSE IF result.verdict = "error" THEN "error"
                                            ELSE "verdict"]
<1>1. ASSUME RowsMove
      PROVE  [Lifecycle!LifecycleNext]_(Lifecycle!lifecycleVars)
  <2>1. CASE UNCHANGED <<run, result>>
    BY <2>1 DEF Lifecycle!lifecycleVars
  <2>2. CASE run = "queued" /\ run' = "running" /\ UNCHANGED result
    <3>1. status[Solo] = "queued" /\ status' = [status EXCEPT ![Solo] = "running"]
          /\ stored' = stored
      BY <2>2
    <3>2. Lifecycle!Claim(Solo)
      BY <3>1 DEF Lifecycle!Claim
    <3> QED
      BY <3>2 DEF Lifecycle!LifecycleNext
  <2>3. CASE /\ run = "running" /\ result = None /\ result' # None
             /\ run' = IF result'.verdict = "error" THEN "failed" ELSE "done"
    <3> DEFINE v == IF result'.verdict = "error" THEN "error" ELSE "verdict"
    <3>1. /\ status[Solo] = "running"
          /\ status' = [status EXCEPT ![Solo] = Lifecycle!StatusFor(v)]
          /\ stored' = [stored EXCEPT ![Solo] = v]
      BY <2>3 DEF Lifecycle!StatusFor
    <3>2. v \in {"verdict", "error"}
      OBVIOUS
    <3>3. Lifecycle!Finish(Solo, v)
      BY <3>1 DEF Lifecycle!Finish
    <3> QED
      BY <3>2, <3>3 DEF Lifecycle!LifecycleNext
  <2> QED
    BY <1>1, <2>1, <2>2, <2>3 DEF RowsMove
<1>2. RunSafe /\ PipeInv(t) /\ [Next]_vars
        => [Lifecycle!LifecycleNext]_(Lifecycle!lifecycleVars)
  BY <1>1, RowsMoveOn
<1>3. Spec => [](RunSafe /\ PipeInv(t))
  BY PipeInvariant
<1> QED
  BY <1>2, <1>3, PTL DEF Spec, PipelineIsLifecycle
-----------------------------------------------------------------------------
(* The snapshot of the invocation, as the durable machine.                   *)

\* What a call of the bridge leaves, the durable machine it finds may become.
LEMMA LeavesLater ==
  ASSUME NEW pc \in {"extracted", "evaluate", "failed"}, NEW fields \in FieldSets
  PROVE  Leaves(pc, fields) \in Later(Before(pc, fields))
<1> DEFINE m == Before(pc, fields)
           e == Sent(pc)
           miss == Payload(pc, fields)
<1>1. PICK tr \in Enabled(m, e) : Fired(m, tr, miss) = Leaves(pc, fields)
  BY FireLeaves
<1>2. e \in Events /\ miss \in SUBSET Names
  <2>1. Missing(fields) \in SUBSET Names
    BY DEF Missing, FieldSets
  <2> QED
    BY <2>1 DEF Sent, Payload, Events
<1> HIDE DEF m, e, miss
<1>3. Fired(m, tr, miss) \in After(m)
  BY <1>1, <1>2 DEF After
<1> QED
  BY <1>1, <1>3 DEF Later, m

\* Only a commit of the bridge changes the row, and what it writes is that machine.
LEMMA SavesAdvance ==
  ASSUME NEW t \in Callers, Callers = {t}, RunSafe, PipeInv(t), [Next]_vars
  PROVE  [Durable!Next]_snapshot
<1> DEFINE pc == task[t].pc
           fields == task[t].out.fields
<1>1. UNCHANGED snapshot \/ (call[t].pc = "saveCommit" /\ snapshot' = call[t].snap)
  <2>1. BridgeSafe /\ text \in SUBSET Core /\ task \in [Callers -> Tasks]
    BY DEF RunSafe, TypeOK, BridgeSafe
  <2>2. BridgeStep(t) \/ BridgeDbError(t) =>
          UNCHANGED snapshot \/ (call[t].pc = "saveCommit" /\ snapshot' = call[t].snap)
    BY DEF BridgeStep, CheckExists, LoadOrStart, Fire, SaveSelect, SaveCommit, BridgeDbError
  <2>3. CASE Next
    BY <2>1, <2>2, <2>3, StepsOfBridge
    DEF Sends, StillInBridge, FailsOutside, BridgeCrash, bridgeVars
  <2> QED
    BY <2>3 DEF vars, bridgeVars
<1>2. ASSUME call[t].pc = "saveCommit", snapshot' = call[t].snap
      PROVE  Durable!Next
  <2>1. pc \in InBridgeCall /\ pc \in InTry
    BY <1>2, TaskTyped DEF PipeInv, BridgeKnown, BridgeAt, AtRest, InBridgeCall, Deciding,
                           InTry, InAi, Stopped, Suspended, Tasks
  <2>2. snapshot = Before(pc, fields) /\ snapshot' = Leaves(pc, fields)
    BY <1>2, <2>1 DEF PipeInv, BridgeKnown, BridgeAt, InCall, AtRest
  <2>3. CASE pc = "create"
    BY <2>2, <2>3 DEF Before, Leaves, Durable!Next, Durable!Start, Durable!InitialMachine,
                      InitialMachine
  <2>4. CASE pc \in {"extracted", "evaluate", "failed"}
    <3>1. fields \in FieldSets
      BY TaskTyped DEF Outcomes
    <3>2. snapshot' \in Later(snapshot) /\ snapshot # None
      <4>1. Before(pc, fields) # None
        <5>1. InitialMachine \in Machines /\ Validating(fields) \in Machines
          BY <3>1 DEF InitialMachine, Validating, Machines, Contexts, States, Verdicts, Reasons, Missing,
                         FieldSets
        <5> QED
          BY <2>4, <5>1, BridgeAssumption DEF Before
      <4> QED
        BY <2>2, <2>4, <3>1, <4>1, LeavesLater
    <3> QED
      BY <3>2, DurableLater DEF Durable!Next, Durable!Advance
  <2> QED
    BY <2>1, <2>3, <2>4 DEF InBridgeCall
<1> QED
  BY <1>1, <1>2

\* The snapshot of a run is one durable machine: inserted by the claim, then taken
\* further by the transition table alone, through failing commits and a crash
\* (persistence.py, bridge.py:53).
THEOREM SnapshotIsDurable ==
  ASSUME NEW t \in Callers, Callers = {t}
  PROVE  Spec => DurableSpec
<1>1. Init => Durable!Init
  BY DEF Init, BridgeInit, Durable!Init
<1>2. RunSafe /\ PipeInv(t) /\ [Next]_vars => [Durable!Next]_snapshot
  BY SavesAdvance
<1>3. Spec => [](RunSafe /\ PipeInv(t))
  BY PipeInvariant
<1> QED
  BY <1>1, <1>2, <1>3, PTL DEF Spec, DurableSpec, Durable!Spec
=============================================================================

---------------------------- MODULE RunValidation ----------------------------
(***************************************************************************)
(* backend/pipeline/validate.py: run_validation() for ONE run, composed    *)
(* with the bridge it drives (OrcaBridge), the rows it writes and the LLM  *)
(* calls of backend/llm/together.py.  A task is an invocation of           *)
(* run_validation(); it is a caller of the bridge and lives in a process.  *)
(*                                                                         *)
(* A step ends where the source awaits.  Every LLM call answers, hits the  *)
(* daily budget or fails; every database call may fail; every process may  *)
(* die.  Of the document only the set of core fields found by the regular  *)
(* expressions of DeterministicContractExtractor is kept (text).           *)
(***************************************************************************)
EXTENDS OrcaBridge, MachineTopology

CONSTANTS Core,         \* CONTRACT_REQUIRED, a subset of Names
          LlmEnabled,   \* settings.llm_enabled
          MaxChunks     \* _MAX_CHUNKS

ASSUME PipelineAssumption ==
  /\ Core \subseteq Names
  /\ LlmEnabled \in BOOLEAN
  /\ MaxChunks \in Nat \ {0}

VARIABLES text,     \* core fields the regular expressions find in the document
          run,      \* validation_runs.status
          doc,      \* documents.status
          result,   \* the row of validation_results, or None
          task      \* the local state of each invocation

rowVars == <<run, doc, result>>
vars    == <<text, rowVars, task, bridgeVars>>

FieldSets == UNION {[S -> BOOLEAN] : S \in SUBSET Names}

InTry   == {"create", "parse", "classify", "extracted", "evaluate", "failed"}
InAi    == {"analyze", "revise", "additions", "fsm"}
Stopped == {"end", "aborted", "gone"}

Outcomes == [verdict  : {"pass", "fail", "error"},
             final    : States,
             reasons  : SUBSET (Names \cup {"check failed", "extraction failed",
                                            "unknown", "exception", "budget"}),
             fields   : FieldSets,
             picked   : SUBSET Names,    \* the fields the LLM itself assessed
             contract : BOOLEAN,         \* is_contract_like(document_type)
             status   : {"skipped", "done", "budget_exceeded", "error"},
             analysis : {"none", "full", "failure"},
             revised  : BOOLEAN,         \* revised_markdown is not None
             fsm      : BOOLEAN]         \* document_fsm is not empty

ASSUME NoneIsNoOutcome == None \notin Outcomes

Tasks == [pc      : {"start", "claim", "persist"} \cup InTry \cup InAi \cup Stopped,
          read    : BOOLEAN,             \* doc_text is not empty
          chunks  : 0 .. MaxChunks,      \* chunks still to revise
          clauses : BOOLEAN,             \* missing_or_weak_clauses is not empty
          out     : Outcomes]

Empty == [n \in {} |-> TRUE]

NewTask ==
  [pc |-> "start", read |-> FALSE, chunks |-> 0, clauses |-> FALSE,
   out |-> [verdict |-> "error", final |-> "error", reasons |-> {"unknown"},
            fields |-> Empty, picked |-> {}, contract |-> TRUE, status |-> "skipped",
            analysis |-> "none", revised |-> FALSE, fsm |-> FALSE]]

TypeOK ==
  /\ BridgeTypeOK
  /\ text \in SUBSET Core
  /\ run \in {"queued", "running", "done", "failed"}
  /\ doc \in {"queued", "running", "done", "failed"}
  /\ result \in Outcomes \cup {None}
  /\ task \in [Callers -> Tasks]

Init ==
  /\ BridgeInit
  /\ text \in SUBSET Core
  /\ run = "queued"
  /\ doc = "queued"
  /\ result = None
  /\ task = [t \in Callers |-> NewTask]

-----------------------------------------------------------------------------
Goto(t, pc) == task' = [task EXCEPT ![t].pc = pc]

\* Mutant: a document with an error verdict is assessed as well.
Decide_AssessesErrors(t, verdict, final, reasons) ==
  task' = [task EXCEPT
             ![t].out.verdict = verdict, ![t].out.final = final, ![t].out.reasons = reasons,
             ![t].pc = IF task[t].read /\ LlmEnabled THEN "analyze" ELSE "persist"]

\* The machine-verified part is over with this outcome: the AI-assisted layer
\* runs only for a document that was read and a verdict that is not an error.
Decide(t, verdict, final, reasons) ==
  task' = [task EXCEPT
             ![t].out.verdict = verdict, ![t].out.final = final, ![t].out.reasons = reasons,
             ![t].pc = IF task[t].read /\ verdict # "error" /\ LlmEnabled
                       THEN "analyze" ELSE "persist"]

\* "except Exception": the run fails loudly, with the reason.
Except(t, why) == Decide(t, "error", "error", {why})

Send(t, event, missing) == call' = [call EXCEPT ![t] = Entered(t, event, missing)]

StillInBridge == UNCHANGED <<registry, obj, snapshot, dbErrors, crashes>>

\* The first transaction: SELECT the run; claimed and finished runs return ...
SelectRun(t) ==
  /\ task[t].pc = "start"
  /\ Goto(t, IF run = "queued" THEN "claim" ELSE "end")
  /\ UNCHANGED <<text, rowVars, bridgeVars>>

\* Mutant: the document is claimed, the run is not.
ClaimRun_KeepsQueued(t) ==
  /\ task[t].pc = "claim"
  /\ doc' = "running"
  /\ Goto(t, "create")
  /\ Send(t, "none", {})
  /\ StillInBridge
  /\ UNCHANGED <<text, run, result>>

\* ... others are claimed by the commit, and get_or_create() is entered.
ClaimRun(t) ==
  /\ task[t].pc = "claim"
  /\ run' = "running"
  /\ doc' = "running"
  /\ Goto(t, "create")
  /\ Send(t, "none", {})
  /\ StillInBridge
  /\ UNCHANGED <<text, result>>

\* Mutant: a send() that failed to save is taken for one that returned.
BridgeRaised_ReadsMachine(t) ==
  /\ task[t].pc \in {"create", "extracted", "evaluate", "failed"}
  /\ call[t].pc = "raised"
  /\ IF task[t].pc = "evaluate"
     THEN LET m == obj[call[t].ref] IN Decide(t, m.ctx.verdict, m.state, m.ctx.reasons)
     ELSE Except(t, "exception")
  /\ UNCHANGED <<text, rowVars, bridgeVars>>

\* The bridge raised where the task awaits it.
BridgeRaised(t) ==
  /\ task[t].pc \in {"create", "extracted", "evaluate", "failed"}
  /\ call[t].pc = "raised"
  /\ Except(t, "exception")
  /\ UNCHANGED <<text, rowVars, bridgeVars>>

Created(t) ==
  /\ task[t].pc = "create"
  /\ call[t].pc = "returned"
  /\ Goto(t, "parse")
  /\ UNCHANGED <<text, rowVars, bridgeVars>>

\* Mutant: an unreadable document simply fails.
ParseFails_AsFail(t) ==
  /\ task[t].pc = "parse"
  /\ Decide(t, "fail", "invalid", {"check failed"})
  /\ UNCHANGED <<text, rowVars, bridgeVars>>

\* parse_document() could not read the document (or the blob is not there).
ParseFails(t) ==
  /\ task[t].pc = "parse"
  /\ Goto(t, "failed")
  /\ Send(t, "EXTRACTION_FAILED", {})
  /\ StillInBridge
  /\ UNCHANGED <<text, rowVars>>

\* parse_document() raised: no usable answer of the parser service, no blob store.
ParseRaises(t) ==
  /\ task[t].pc = "parse"
  /\ Except(t, "exception")
  /\ UNCHANGED <<text, rowVars, bridgeVars>>

Missing(fields) == {n \in DOMAIN fields : ~fields[n]}

\* Mutant: the LLM's fields are enough.
Merged_LlmOnly(fields) == fields

\* DeterministicContractExtractor.extract() and merge_core_contract_fields().
CoreFields      == [n \in Core |-> n \in text]
Merged(fields)  == [n \in DOMAIN fields \cup Core |->
                      IF n \in DOMAIN fields THEN fields[n] ELSE CoreFields[n]]

Extracted(t, fields, picked, contract) ==
  /\ task' = [task EXCEPT ![t].pc = "extracted", ![t].read = TRUE,
                          ![t].out.fields = fields, ![t].out.picked = picked,
                          ![t].out.contract = contract]
  /\ Send(t, "EXTRACTED", Missing(fields))
  /\ StillInBridge

ParseOk(t) ==
  /\ task[t].pc = "parse"
  /\ IF LlmEnabled
     THEN /\ task' = [task EXCEPT ![t].pc = "classify", ![t].read = TRUE]
          /\ UNCHANGED bridgeVars
     ELSE Extracted(t, CoreFields, {}, TRUE)
  /\ UNCHANGED <<text, rowVars>>

\* classify_and_check_fields(): any kind of document and any set of required
\* fields; an answer that is not JSON counts as no fields of no contract.
Classify(t) ==
  /\ task[t].pc = "classify"
  /\ \E fields \in FieldSets, contract \in BOOLEAN :
       Extracted(t, IF contract THEN Merged(fields) ELSE fields, DOMAIN fields, contract)
  /\ UNCHANGED <<text, rowVars>>

ClassifyFails(t) ==
  /\ task[t].pc = "classify"
  /\ \E why \in {"exception", "budget"} : Except(t, why)
  /\ UNCHANGED <<text, rowVars, bridgeVars>>

Evaluate(t) ==
  /\ task[t].pc = "extracted"
  /\ call[t].pc = "returned"
  /\ Goto(t, "evaluate")
  /\ Send(t, "EVALUATE", {})
  /\ StillInBridge
  /\ UNCHANGED <<text, rowVars>>

\* The last send() returned its machine: its state and context are the verdict.
ReadVerdict(t) ==
  /\ task[t].pc \in {"evaluate", "failed"}
  /\ call[t].pc = "returned"
  /\ LET m == obj[call[t].ref]
     IN  Decide(t,
                IF m.ctx.verdict # "none" THEN m.ctx.verdict
                ELSE IF m.state = "error" THEN "error" ELSE "fail",
                m.state, m.ctx.reasons)
  /\ UNCHANGED <<text, rowVars, bridgeVars>>

-----------------------------------------------------------------------------
\* analyze_contract(), then revise_contract() over at most MaxChunks chunks.
Analyze(t) ==
  /\ task[t].pc = "analyze"
  /\ \E n \in 1 .. MaxChunks, clauses \in BOOLEAN :
       task' = [task EXCEPT ![t].pc = "revise", ![t].chunks = n, ![t].clauses = clauses,
                            ![t].out.analysis = "full"]
  /\ UNCHANGED <<text, rowVars, bridgeVars>>

Assessed(t) ==
  task' = [task EXCEPT ![t].pc = "fsm", ![t].chunks = 0, ![t].out.status = "done",
                       ![t].out.revised = TRUE]

\* _revise_chunk(); the additions are drafted after the last chunk, if any.
ReviseChunk(t) ==
  /\ task[t].pc = "revise"
  /\ IF task[t].chunks > 1
     THEN task' = [task EXCEPT ![t].chunks = @ - 1]
     ELSE IF task[t].clauses
          THEN task' = [task EXCEPT ![t].pc = "additions", ![t].chunks = 0]
          ELSE Assessed(t)
  /\ UNCHANGED <<text, rowVars, bridgeVars>>

DraftAdditions(t) ==
  /\ task[t].pc = "additions"
  /\ Assessed(t)
  /\ UNCHANGED <<text, rowVars, bridgeVars>>

\* Mutant: a failing model fails the run.
AiFails_FailsRun(t) ==
  /\ task[t].pc \in {"analyze", "revise", "additions"}
  /\ task' = [task EXCEPT ![t].pc = "persist", ![t].chunks = 0,
                          ![t].out.verdict = "error", ![t].out.status = "error"]
  /\ UNCHANGED <<text, rowVars, bridgeVars>>

\* Mutant: a failing model is asked again, without a limit.
AiFails_Retries(t) ==
  /\ task[t].pc \in {"analyze", "revise", "additions"}
  /\ task' = [task EXCEPT ![t].pc = "revise", ![t].chunks = MaxChunks]
  /\ UNCHANGED <<text, rowVars, bridgeVars>>

\* BudgetExceeded keeps the analysis there is; another failure replaces it.
AiFails(t) ==
  /\ task[t].pc \in {"analyze", "revise", "additions"}
  /\ \/ task' = [task EXCEPT ![t].pc = "persist", ![t].chunks = 0,
                             ![t].out.status = "budget_exceeded"]
     \/ task' = [task EXCEPT ![t].pc = "persist", ![t].chunks = 0,
                             ![t].out.status = "error", ![t].out.analysis = "failure"]
  /\ UNCHANGED <<text, rowVars, bridgeVars>>

\* extract_state_machine() and verify_and_compile(), whatever comes of them.
ExtractFsm(t) ==
  /\ task[t].pc = "fsm"
  /\ task' = [task EXCEPT ![t].pc = "persist", ![t].out.fsm = TRUE]
  /\ UNCHANGED <<text, rowVars, bridgeVars>>

\* Mutant: the document keeps its status.
Stored_ForgetsDocument(t) ==
  /\ result' = task[t].out
  /\ run' = IF task[t].out.verdict \in {"pass", "fail"} THEN "done" ELSE "failed"
  /\ doc' = doc

\* The last transaction; validation_results.run_id is unique.
Stored(t) ==
  /\ result' = task[t].out
  /\ run' = IF task[t].out.verdict \in {"pass", "fail"} THEN "done" ELSE "failed"
  /\ doc' = run'

\* Mutant: run_id is not unique.
Persist_NotUnique(t) ==
  /\ task[t].pc = "persist"
  /\ Stored(t)
  /\ Goto(t, "end")
  /\ UNCHANGED <<text, bridgeVars>>

Persist(t) ==
  /\ task[t].pc = "persist"
  /\ IF result = None
     THEN Stored(t) /\ Goto(t, "end")
     ELSE UNCHANGED rowVars /\ Goto(t, "aborted")
  /\ UNCHANGED <<text, bridgeVars>>

-----------------------------------------------------------------------------
\* A failing transaction of the task itself leaves run_validation(); a failing
\* commit may have been applied all the same.
TxnFails(t) ==
  /\ task[t].pc \in {"start", "claim", "persist"}
  /\ dbErrors < MaxDbErrors
  /\ dbErrors' = dbErrors + 1
  /\ Goto(t, "aborted")
  /\ \/ UNCHANGED rowVars
     \/ task[t].pc = "claim" /\ run' = "running" /\ doc' = "running" /\ UNCHANGED result
     \/ task[t].pc = "persist" /\ result = None /\ Stored(t)
  /\ UNCHANGED <<text, registry, obj, snapshot, call, crashes>>

\* One of the bridge's database calls fails.
BridgeFails(t) ==
  /\ BridgeDbError(t)
  /\ UNCHANGED <<text, rowVars, task>>

Crash(p) ==
  /\ BridgeCrash(p)
  /\ task' = [t \in Callers |->
                IF ProcOf[t] = p /\ task[t].pc \notin Stopped
                THEN [task[t] EXCEPT !.pc = "gone"] ELSE task[t]]
  /\ UNCHANGED <<text, rowVars>>

InBridge(t) == BridgeStep(t) /\ UNCHANGED <<text, rowVars, task>>

Step(t) ==
  \/ SelectRun(t) \/ ClaimRun(t)
  \/ InBridge(t) \/ BridgeRaised(t) \/ Created(t)
  \/ ParseFails(t) \/ ParseRaises(t) \/ ParseOk(t)
  \/ Classify(t) \/ ClassifyFails(t)
  \/ Evaluate(t) \/ ReadVerdict(t)
  \/ Analyze(t) \/ ReviseChunk(t) \/ DraftAdditions(t) \/ AiFails(t)
  \/ ExtractFsm(t) \/ Persist(t)

Next ==
  \/ \E t \in Callers : Step(t) \/ TxnFails(t) \/ BridgeFails(t)
  \/ \E p \in Procs : Crash(p)

Spec == Init /\ [][Next]_vars

\* The event loop runs every task that can go on, and every awaited call answers.
FairSpec == Spec /\ \A t \in Callers : WF_vars(Step(t))
-----------------------------------------------------------------------------
\* The rows of a run agree at every commit, whatever failed before it: the
\* document follows its run, a result is there exactly when the run is over,
\* and a failed run is one without a verdict (validate.py:122-136).
RowsAgree ==
  /\ doc = run
  /\ (result # None) <=> (run \in {"done", "failed"})
  /\ result # None => (run = "failed" <=> result.verdict = "error")

\* A pass or fail is the durable machine's: the snapshot is final, in the state
\* the result names, and a failing run gives the machine's reasons (validate.py:3).
VerdictIsMachines ==
  /\ result # None /\ result.verdict = "pass" =>
       /\ snapshot # None /\ snapshot.state = "valid"
       /\ result.final = "valid" /\ result.reasons = {}
  /\ result # None /\ result.verdict = "fail" =>
       /\ snapshot # None /\ snapshot.state = "invalid"
       /\ result.final = "invalid"
       /\ result.reasons = snapshot.ctx.missing /\ result.reasons # {}

\* A contract that passes has every core field: those the LLM did not pick were
\* found in the text, and none it picked was absent (extract.py:66-70).
CoreFieldsChecked ==
  result # None /\ result.verdict = "pass" /\ result.contract =>
    /\ Core \subseteq DOMAIN result.fields
    /\ Missing(result.fields) = {}
    /\ Core \ result.picked \subseteq text

\* The AI layer is all or nothing in the result: a redline and a state machine of
\* the document are there exactly when the assessment is done, an error verdict is
\* never assessed, and nothing is assessed without a key (validate.py:93-120).
AiLayerConsistent ==
  result # None =>
    /\ result.revised <=> result.status = "done"
    /\ result.fsm <=> result.status = "done"
    /\ result.status = "done" => result.analysis = "full"
    /\ (result.status = "skipped") <=> (result.verdict = "error" \/ ~LlmEnabled)

\* Whatever the models answer or fail to, the verdict they come after is final:
\* neither it nor the machine's snapshot changes again (validate.py:90-92).
VerdictSettled ==
  [][\A t \in Callers :
       task[t].pc \in InAi \cup {"persist"} /\ task'[t].pc # "gone" =>
         /\ task'[t].out.verdict = task[t].out.verdict
         /\ task'[t].out.final = task[t].out.final
         /\ task'[t].out.reasons = task[t].out.reasons
         /\ task[t].out.verdict # "error" => snapshot' = snapshot]_vars

\* A verdict is delivered: the AI layer and its failures delay it by finitely many
\* calls; only a failing database or a crash keeps it from the rows.
VerdictDelivered ==
  \A t \in Callers :
    task[t].pc \in InAi ~> result # None \/ task[t].pc \in {"aborted", "gone"}

-----------------------------------------------------------------------------
(* The machines of machines/ that describe this code, as abstractions of it.  *)
(* An invocation that dies stays where it is, so the properties bind the steps *)
(* it survives.                                                                *)
Solo     == CHOOSE t \in Callers : TRUE
Survives == task'[Solo].pc \notin {"aborted", "gone"}

Follows(edges, s, t) == s = t \/ <<s, t>> \in edges

\* "failed" is the pipeline's for an error verdict; "complete" delivers a verdict
\* with whatever the assessment came to.
PipelineState ==
  CASE task[Solo].pc \in {"start", "claim"}                    -> "received"
    [] task[Solo].pc \in {"create", "parse", "failed"}         -> "ingesting"
    [] task[Solo].pc \in {"classify", "extracted", "evaluate"} -> "validating"
    [] OTHER -> IF task[Solo].out.verdict = "error" THEN "failed"
                ELSE IF result = None THEN "assessing" ELSE "complete"

AssessmentState ==
  CASE task[Solo].out.status = "done"                          -> "complete"
    [] task[Solo].out.status \in {"budget_exceeded", "error"}  -> "failed"
    [] task[Solo].pc = "analyze"                               -> "analyzing"
    [] task[Solo].pc \in {"revise", "additions"}               -> "revising"
    [] OTHER                                                   -> "pending"

\* run_validation() goes through the states of machines/document_pipeline.orca.md
\* and, in its AI layer, of machines/ai_assessment.orca.md along their edges: no
\* verdict before the text, no delivery before the verdict, no redline unanalyzed.
PipelineFollowsMachine ==
  /\ PipelineState = "received" /\ AssessmentState = "pending"
  /\ [][Survives => /\ Follows(DocumentPipeline, PipelineState, PipelineState')
                    /\ Follows(AiAssessment, AssessmentState, AssessmentState')]_vars

Lifecycle == INSTANCE RunLifecycle WITH
  Runs   <- {Solo},
  run    <- [r \in {Solo} |-> run],
  result <- [r \in {Solo} |-> IF result = None THEN "none"
                             ELSE IF result.verdict = "error" THEN "error" ELSE "verdict"]

\* The pipeline implements the lifecycle the service promises of a run, from the
\* moment it is queued: one claim, then its result and its terminal status in one
\* step, whatever raised, failed to commit or died in between (validate.py:35-138).
PipelineIsLifecycle == [][Lifecycle!LifecycleNext]_(Lifecycle!lifecycleVars)

-----------------------------------------------------------------------------
\* However often run_validation() is called for a run, its result is written once
\* and never replaced, and the machine's snapshot is never lost (models:62).
ResultWrittenOnce ==
  [][/\ result # None => result' = result
     /\ snapshot # None => snapshot' # None]_vars

-----------------------------------------------------------------------------
(* A claim of the source that a run refutes.                                  *)

\* together.py:111: an answer without fields must not fabricate a verdict.
NoVerdictFromNothing ==
  result # None /\ result.verdict = "pass" => result.fields # Empty
=============================================================================

--------------------------- MODULE ContractMachine ---------------------------
(***************************************************************************)
(* The ContractValidation machine of machines/contract_validation.orca.md: *)
(* its states, events, guarded transitions, and the actions of             *)
(* backend/orca/actions/contract_actions.py that its transitions name.     *)
(*                                                                         *)
(* Context data is reduced to what guards and verdict read: the set of     *)
(* missing fields (missing_count is its cardinality), the verdict and the  *)
(* reasons.  The has_* flags and the identifiers are never read by a guard *)
(* or by the pipeline and are left out.                                    *)
(***************************************************************************)
CONSTANT Names     \* names of the fields a document may be checked for

States      == {"received", "validating", "valid", "invalid", "error"}
Events      == {"EXTRACTED", "EVALUATE", "EXTRACTION_FAILED", "TIMEOUT"}

Verdicts == {"none", "pass", "fail", "error"}
Reasons  == SUBSET (Names \cup {"check failed", "extraction failed"})
Contexts == [missing : SUBSET Names, verdict : Verdicts, reasons : Reasons]
Machines == [state : States, ctx : Contexts]

\* OrcaMachine(...) after start(): the initial state and the default context.
InitialMachine ==
  [state |-> "received",
   ctx   |-> [missing |-> {}, verdict |-> "none", reasons |-> {}]]

Row(from, event, guard, to, action) ==
  [from |-> from, event |-> event, guard |-> guard, to |-> to, action |-> action]

\* The "## transitions" table, a row a line.
Transitions ==
  { Row("received",   "EXTRACTED",         "",                     "validating", "record_extracted"),
    Row("received",   "EVALUATE",          "",                     "received",   ""),
    Row("received",   "EXTRACTION_FAILED", "",                     "error",      "record_error"),
    Row("received",   "TIMEOUT",           "",                     "error",      "record_error"),
    Row("validating", "EXTRACTED",         "",                     "validating", ""),
    Row("validating", "EVALUATE",          "all_required_present", "valid",      "record_valid"),
    Row("validating", "EVALUATE",          "missing_required",     "invalid",    "record_invalid"),
    Row("validating", "EXTRACTION_FAILED", "",                     "error",      "record_error"),
    Row("validating", "TIMEOUT",           "",                     "error",      "record_error") }

\* Mutant: the failing guard also lets a document with nothing missing fail.
GuardHolds_FailAlways(guard, ctx) ==
  guard = "all_required_present" => ctx.missing = {}

\* The "## guards" table over missing_count.
GuardHolds(guard, ctx) ==
  CASE guard = "all_required_present" -> ctx.missing = {}
    [] guard = "missing_required"     -> ctx.missing # {}
    [] OTHER                          -> TRUE

\* Mutant: record_valid stores the name of the state as the verdict.
Computed_StateAsVerdict(action, ctx, missing) ==
  CASE action = "record_extracted" -> [ctx EXCEPT !.missing = missing]
    [] action = "record_valid"     -> [ctx EXCEPT !.verdict = "valid"]
    [] OTHER                       -> ctx

\* The computation layer: the context an action returns.  The payload is the
\* set of missing fields of an EXTRACTED event, {} for the other events.
Computed(action, ctx, missing) ==
  CASE action = "record_extracted" ->
         [ctx EXCEPT !.missing = missing]
    [] action = "record_valid" ->
         [ctx EXCEPT !.verdict = "pass", !.reasons = {}]
    [] action = "record_invalid" ->
         [ctx EXCEPT !.verdict = "fail",
                     !.reasons = IF ctx.missing # {} THEN ctx.missing ELSE {"check failed"}]
    [] action = "record_error" ->
         [ctx EXCEPT !.verdict = "error", !.reasons = {"extraction failed"}]
    [] OTHER -> ctx

\* The transitions a machine may take on an event; none: the event is not taken.
Enabled(m, event) ==
  {tr \in Transitions : /\ tr.from = m.state
                        /\ tr.event = event
                        /\ GuardHolds(tr.guard, m.ctx)}

Fired(m, tr, missing) ==
  [state |-> tr.to, ctx |-> Computed(tr.action, m.ctx, missing)]

\* What m may be after one event: a payload has any set of missing fields.
After(m) ==
  {Fired(m, tr, missing) :
     tr \in UNION {Enabled(m, event) : event \in Events}, missing \in SUBSET Names}

\* What m may be later: two rounds, since an event either leaves a machine of this
\* table as it is or takes it to a state further on, of which there are three.
Later(m) == {m} \cup After(m) \cup UNION {After(n) : n \in After(m)}

\* State, verdict and reasons of a machine go together: valid passes with nothing
\* missing, invalid fails with a reason for every missing field, error has the
\* error verdict, and before that there is no verdict (contract_actions.py:27-43).
Coherent(m) ==
  CASE m.state = "valid"   -> /\ m.ctx.verdict = "pass"
                              /\ m.ctx.missing = {}
                              /\ m.ctx.reasons = {}
    [] m.state = "invalid" -> /\ m.ctx.verdict = "fail"
                              /\ m.ctx.missing # {}
                              /\ m.ctx.reasons = m.ctx.missing
    [] m.state = "error"   -> m.ctx.verdict = "error"
    [] OTHER               -> m.ctx.verdict = "none"
=============================================================================

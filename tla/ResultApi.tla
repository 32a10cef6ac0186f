------------------------------ MODULE ResultApi ------------------------------
(***************************************************************************)
(* GET /documents/{id}, /documents/{id}/result and /revised.(md|docx) of   *)
(* backend/api/documents.py, against runs that change while they are read. *)
(*                                                                         *)
(* The rows are those of RunLifecycle, and whoever executes the runs takes *)
(* its steps; ValidationPage composes the two with the page that asks.     *)
(* A handler is two SELECTs, each of which sees what is committed when it  *)
(* runs (READ COMMITTED); between them the run may be finished.            *)
(***************************************************************************)
EXTENDS RunLifecycle

CONSTANT Clients

VARIABLES redline,   \* runs whose result row has a non-empty revised_markdown
          handler,   \* the request each client has open
          answer     \* the last answer each client has, per run

vars == <<run, result, redline, handler, answer>>

Pages == {"status", "result", "revised"}

\* What a client may be told of a run that is there.
Told == Statuses \ {"none"}

Handlers == [page : Pages, run : Runs, status : Told]
          \cup {[page |-> "none"]}

Answers == [page : Pages, status : Told, ready : BOOLEAN, verdict : Results,
            revised : BOOLEAN]
         \cup {[page |-> "none"]}

TypeOK ==
  /\ LifecycleTypeOK
  /\ redline \in SUBSET Runs
  /\ handler \in [Clients -> Handlers]
  /\ answer \in [Clients -> [Runs -> Answers]]

Init ==
  /\ LifecycleInit
  /\ redline = {}
  /\ handler = [c \in Clients |-> [page |-> "none"]]
  /\ answer = [c \in Clients |-> [r \in Runs |-> [page |-> "none"]]]

\* run_validation() stores a result; only a verdict is assessed and revised.
Store(r, v, revised) ==
  /\ Finish(r, v)
  /\ revised => v = "verdict"
  /\ redline' = IF revised THEN redline \cup {r} ELSE redline
  /\ UNCHANGED <<handler, answer>>

Closed(c) == handler' = [handler EXCEPT ![c] = [page |-> "none"]]

Answered(c, r, page, status, ready, verdict, revised) ==
  answer' = [answer EXCEPT ![c][r] =
               [page |-> page, status |-> status, ready |-> ready, verdict |-> verdict,
                revised |-> revised]]

\* _latest_run(): the first SELECT.  A client knows a document once it is submitted.
ReadRun(c, page, r) ==
  /\ handler[c].page = "none"
  /\ run[r] # "none"
  /\ handler' = [handler EXCEPT ![c] = [page |-> page, run |-> r, status |-> run[r]]]
  /\ UNCHANGED <<run, result, redline, answer>>

\* get_document(): the status is all there is to say.
AnswerStatus(c) ==
  /\ handler[c].page = "status"
  /\ Answered(c, handler[c].run, "status", handler[c].status, FALSE, "none", FALSE)
  /\ Closed(c)
  /\ UNCHANGED <<run, result, redline>>

\* bool(res.revised_markdown)
HasRedline(r) == r \in redline

\* Mutant: the result is read first and the status after it.
AnswerResult_StatusLast(c) ==
  /\ handler[c].page = "result"
  /\ LET r == handler[c].run
     IN  \E seen \in {"none", result[r]} :
           Answered(c, r, "result", run[r], seen # "none", seen, seen # "none" /\ HasRedline(r))
  /\ Closed(c)
  /\ UNCHANGED <<run, result, redline>>

\* Mutant: the handler looks for a redline only when the run it read was over.
AnswerResult_HidesRedline(c) ==
  /\ handler[c].page = "result"
  /\ LET r == handler[c].run
     IN  Answered(c, r, "result", handler[c].status, result[r] # "none", result[r],
                  handler[c].status \in Terminal /\ HasRedline(r))
  /\ Closed(c)
  /\ UNCHANGED <<run, result, redline>>

\* get_result(): the second SELECT decides between "not ready" and the result.
AnswerResult(c) ==
  /\ handler[c].page = "result"
  /\ LET r == handler[c].run
     IN  Answered(c, r, "result", handler[c].status, result[r] # "none", result[r],
                  HasRedline(r))
  /\ Closed(c)
  /\ UNCHANGED <<run, result, redline>>

\* _revised_or_404(): the second SELECT decides between 404 and the download.
AnswerRevised(c) ==
  /\ handler[c].page = "revised"
  /\ LET r == handler[c].run
     IN  Answered(c, r, "revised", handler[c].status, HasRedline(r),
                  result[r], HasRedline(r))
  /\ Closed(c)
  /\ UNCHANGED <<run, result, redline>>

-----------------------------------------------------------------------------
OfResult(c, r) == answer[c][r].page = "result"

\* An answer is never made up: "not ready" comes with a status that is not over,
\* so no client waits for a run it was told is done; "ready" comes with the verdict
\* of a run that is over (documents.py:95-97).
AnswersAreHonest ==
  \A c \in Clients, r \in Runs :
    OfResult(c, r) =>
      /\ ~answer[c][r].ready => answer[c][r].status \notin Terminal
      /\ answer[c][r].ready =>
           /\ run[r] \in Terminal
           /\ answer[c][r].verdict = result[r]
           /\ answer[c][r].status \in Terminal => answer[c][r].status = run[r]

\* Whatever pages a client mixes, what it has been told is never taken back: once
\* it has seen a result it gets the same one again, once it was offered a redline
\* the download is there, once it saw a run over the run stays over.
NeverTakenBack ==
  [][\A c \in Clients, r \in Runs :
       LET old == answer[c][r]
           new == answer'[c][r]
       IN  old.page # "none" =>
             /\ old.page = "result" /\ old.ready /\ new.page = "result" =>
                  new.ready /\ new.verdict = old.verdict /\ new.revised = old.revised
             /\ old.page = "result" /\ old.revised /\ new.page = "revised" => new.ready
             /\ old.status \in Terminal => new.status = old.status
             /\ old.page = "result" /\ old.ready /\ old # new => new.status \in Terminal]_vars
=============================================================================

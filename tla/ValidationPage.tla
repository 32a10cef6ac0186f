--------------------------- MODULE ValidationPage ---------------------------
(***************************************************************************)
(* The page (WebClient) and the service it talks to (ResultApi), joined by *)
(* the routes of web/app/api/documents, which pass an answer of the API on *)
(* and make an error object of whatever is not JSON.  A poll of the page   *)
(* is a request to the API, whose handler reads twice, and whose answer    *)
(* travels back; meanwhile runs go on and files are dropped.  A document   *)
(* whose id the page knows can be read once its loop is over: by the links *)
(* to its revision, or by whoever was given the id.                        *)
(***************************************************************************)
EXTENDS WebClient, FiniteSets

CONSTANTS MaxErrors,    \* bound: polls answered with an error
          MaxExecuted   \* bound: runs that are executed

ASSUME JoinAssumption == MaxErrors \in Nat /\ MaxExecuted \in Nat

VARIABLES run, stored, redline, handler, answer,   \* the service's, stored its results
          replied,                                 \* polls whose answer is on its way
          errors

Api == INSTANCE ResultApi WITH Runs <- Calls, Clients <- Calls, result <- stored

apiVars == <<run, stored, redline, handler, answer>>
vars    == <<pageVars, apiVars, replied, errors>>

\* Every variable has its type; a document that is not there is never asked for.
TypeOK ==
  /\ PageTypeOK
  /\ Api!TypeOK
  /\ replied \in SUBSET Calls
  /\ errors \in 0 .. MaxErrors

Init ==
  /\ PageInit
  /\ Api!Init
  /\ replied = {}
  /\ errors = 0

\* A step of the page alone; whatever was on its way to call c is taken or let go.
OfPage(c) == replied' = replied \ {c} /\ UNCHANGED <<apiVars, errors>>

OfApi == UNCHANGED <<pageVars, replied, errors>>

Select(c) == Click(c) /\ OfPage(c)
DropFile(c) == Drop(c) /\ OfPage(c)
Supersede(c) == Superseded(c) /\ OfPage(c)
Identify(c) == Identified(c) /\ OfPage(c)
Sleep(c) == Slept(c) /\ OfPage(c)
Reject(c) == Throws(c) /\ OfPage(c)

-----------------------------------------------------------------------------
\* The rows of an upload are committed, maybe after the page stopped waiting for it.
Submit(c) ==
  /\ call[c].at # "new"
  /\ Api!Submit(c)
  /\ OfApi
  /\ UNCHANGED <<redline, handler, answer>>

\* POST is answered: with the id of a document, which is then there, or with an error.
Upload(c) ==
  /\ Uploaded(c)
  /\ call'[c].at = "json" => run[c] # "none"
  /\ OfPage(c)

Execute(c) ==
  /\ \/ /\ Cardinality({d \in Calls : run[d] \notin {"none", "queued"}}) < MaxExecuted
        /\ Api!Claim(c)
        /\ UNCHANGED <<redline, handler, answer>>
     \/ \E v \in {"verdict", "error"}, revised \in BOOLEAN : Api!Store(c, v, revised)
  /\ OfApi

\* A poll reaches the API ...
Poll(c) ==
  /\ call[c].at = "poll"
  /\ c \notin replied
  /\ Api!ReadRun(c, "result", c)
  /\ OfApi

\* ... which answers it ...
Reply(c) ==
  /\ Api!AnswerResult(c)
  /\ \/ call[c].at = "poll" /\ replied' = replied \cup {c}
     \/ call[c].at = "over" /\ docId = c /\ UNCHANGED replied
  /\ UNCHANGED <<pageVars, errors>>

\* ... or finds that nobody waits for the answer any more.
Abandon(c) ==
  /\ call[c].at = "over"
  /\ docId # c
  /\ handler[c].page # "none"
  /\ Api!Closed(c)
  /\ OfApi
  /\ UNCHANGED <<run, stored, redline, answer>>

\* Mutant: an answer is a result.
Receive_Anything(c) ==
  /\ c \in replied
  /\ Polled(c, TRUE)
  /\ OfPage(c)

\* if (r.ready)
Receive(c) ==
  /\ c \in replied
  /\ Polled(c, answer[c][c].ready)
  /\ OfPage(c)

\* The API fails, or its answer is not JSON: {error}, which has no "ready".
ReceiveError(c) ==
  /\ errors < MaxErrors
  /\ handler[c].page = "none"
  /\ c \notin replied
  /\ Polled(c, FALSE)
  /\ errors' = errors + 1
  /\ UNCHANGED <<apiVars, replied>>

\* After the loop: the links to the revision, and the other pages of the document.
Visit(c) ==
  /\ call[c].at = "over"
  /\ docId = c
  /\ \/ \E what \in Api!Pages : Api!ReadRun(c, what, c)
     \/ Api!AnswerStatus(c) \/ Api!AnswerRevised(c)
  /\ OfApi

\* What goes on once the page waits, when nothing fails.
Progress(c) ==
  \/ Supersede(c) \/ Upload(c) \/ Identify(c) \/ Sleep(c)
  \/ Poll(c) \/ Reply(c) \/ Abandon(c) \/ Receive(c)

Next ==
  \E c \in Calls :
    \/ Select(c) \/ DropFile(c) \/ Submit(c) \/ Execute(c)
    \/ Progress(c) \/ Reject(c) \/ ReceiveError(c) \/ Visit(c)

(* Every fetch is answered or rejected, in the end, and timers fire.  Nothing says *)
(* that a run is ever executed.                                                    *)
Spec == Init /\ [][Next]_vars /\ \A c \in Calls : WF_vars(Progress(c))

-----------------------------------------------------------------------------
\* What the API answers (documents.py:95-97) is true of the run, for the page and
\* the scripts alike, ...
AnswersAreHonest == Api!AnswersAreHonest

\* ... and is never taken back.
NeverTakenBack == Api!NeverTakenBack

\* The page shows a result only of a run that has one, and it is that run's: no
\* error, no answer of "not ready" and no answer to another call is shown as one.
ShownIsStored ==
  result # NoCall =>
    /\ stored[result] # "none"
    /\ answer[result][result].page = "result" =>
         answer[result][result].ready /\ answer[result][result].verdict = stored[result]
    /\ status = "done"

\* A result that is stored while the page has polls to spare is shown: one poll may
\* have read too early, and each error that is still to come may cost one.
StoredIsShown ==
  \A c \in Calls :
    (/\ call[c].at \in {"poll", "sleep"}
     /\ stored[c] # "none"
     /\ call[c].i + 1 + (MaxErrors - errors) < MaxPolls)
      ~> result = c \/ ~Newest(c) \/ thrown
=============================================================================

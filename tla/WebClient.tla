----------------------------- MODULE WebClient -----------------------------
(***************************************************************************)
(* The page of web/app/page.tsx: validate() uploads a file and polls for   *)
(* its result.  A call of it is interleaved with the others at its awaits; *)
(* the button is disabled while the page is busy, dropping a file is not,  *)
(* so a newer analysis can supersede one that is still waiting for an      *)
(* answer.  runToken tells them apart.  The document of call c is named c. *)
(* ValidationPage composes the page with the service that answers it.      *)
(***************************************************************************)
EXTENDS Naturals

CONSTANTS Calls,      \* calls of validate(), one a file
          NoCall,
          MaxPolls    \* the loop's bound, 240 in the code

ASSUME PageAssumption == NoCall \notin Calls /\ MaxPolls \in Nat \ {0}

VARIABLES runToken,   \* the ref that every call increments
          busy, status, docId, result,   \* the page's state
          call,       \* where each call waits, its token and its loop counter
          thrown      \* a fetch of the newest call was rejected

page == <<busy, status, docId, result>>

pageVars == <<runToken, page, call, thrown>>

Waits == {"upload", "json", "poll", "sleep"}

PageTypeOK ==
  /\ runToken \in Nat
  /\ busy \in BOOLEAN
  /\ status \in {"", "uploading", "upload failed", "analyzing", "done"}
  /\ docId \in Calls \cup {NoCall}
  /\ result \in Calls \cup {NoCall}
  /\ call \in [Calls -> [at : {"new", "over"} \cup Waits, token : Nat, i : 0 .. MaxPolls - 1]]
  /\ thrown \in BOOLEAN

PageInit ==
  /\ runToken = 0
  /\ busy = FALSE
  /\ status = ""
  /\ docId = NoCall
  /\ result = NoCall
  /\ call = [c \in Calls |-> [at |-> "new", token |-> 0, i |-> 0]]
  /\ thrown = FALSE

\* runToken.current === myToken
Newest(c) == call[c].token = runToken

Goto(c, at) == call' = [call EXCEPT ![c].at = at]

\* Mutant: the page keeps what the last analysis left.
Begin_KeepsOld(c) ==
  /\ call[c].at = "new"
  /\ runToken' = runToken + 1
  /\ busy' = TRUE
  /\ status' = "uploading"
  /\ call' = [call EXCEPT ![c] = [at |-> "upload", token |-> runToken + 1, i |-> 0]]
  /\ thrown' = FALSE
  /\ UNCHANGED <<docId, result>>

\* validate(), up to the upload
Begin(c) ==
  /\ call[c].at = "new"
  /\ runToken' = runToken + 1
  /\ busy' = TRUE
  /\ status' = "uploading"
  /\ docId' = NoCall
  /\ result' = NoCall
  /\ call' = [call EXCEPT ![c] = [at |-> "upload", token |-> runToken + 1, i |-> 0]]
  /\ thrown' = FALSE

Click(c) == ~busy /\ Begin(c)

Drop(c) == Begin(c)   \* onDrop() does not look at busy

\* Every await but the one of the sleep is followed by the test of the token.
Superseded(c) ==
  /\ call[c].at \in {"upload", "json", "poll"}
  /\ ~Newest(c)
  /\ Goto(c, "over")
  /\ UNCHANGED <<runToken, page, thrown>>

\* The upload is answered, with an error status or not.
Uploaded(c) ==
  /\ call[c].at = "upload"
  /\ Newest(c)
  /\ \/ Goto(c, "json") /\ UNCHANGED <<busy, status>>
     \/ Goto(c, "over") /\ status' = "upload failed" /\ busy' = FALSE
  /\ UNCHANGED <<runToken, docId, result, thrown>>

Identified(c) ==
  /\ call[c].at = "json"
  /\ Newest(c)
  /\ docId' = c
  /\ Goto(c, "poll")
  /\ UNCHANGED <<runToken, busy, status, result, thrown>>

\* Mutant: nobody tests the token once a poll is answered.
Polled_Unchecked(c, isReady) ==
  /\ call[c].at = "poll"
  /\ \/ /\ isReady
        /\ result' = c
        /\ status' = "done"
        /\ busy' = (busy /\ ~Newest(c))
        /\ Goto(c, "over")
     \/ /\ ~isReady
        /\ status' = "analyzing"
        /\ Goto(c, "sleep")
        /\ UNCHANGED <<busy, result>>
  /\ UNCHANGED <<runToken, docId, thrown>>

\* A poll is answered: with the result, and the call is over; or with a document
\* that is not ready, or an error's JSON, whose missing "ready" reads the same.
Polled(c, isReady) ==
  /\ call[c].at = "poll"
  /\ Newest(c)
  /\ \/ /\ isReady
        /\ result' = c
        /\ status' = "done"
        /\ busy' = FALSE
        /\ Goto(c, "over")
     \/ /\ ~isReady
        /\ status' = "analyzing"
        /\ Goto(c, "sleep")
        /\ UNCHANGED <<busy, result>>
  /\ UNCHANGED <<runToken, docId, thrown>>

\* Mutants: one poll too many; one too few; busy is cleared whoever the newest is;
\* it is left on by a call that gives up.
Slept_OneMore(c) ==
  /\ call[c].at = "sleep"
  /\ IF call[c].i < MaxPolls
     THEN call' = [call EXCEPT ![c].at = "poll", ![c].i = @ + 1] /\ UNCHANGED busy
     ELSE Goto(c, "over") /\ busy' = (busy /\ ~Newest(c))
  /\ UNCHANGED <<runToken, status, docId, result, thrown>>

Slept_OneFewer(c) ==
  /\ call[c].at = "sleep"
  /\ IF call[c].i + 2 < MaxPolls
     THEN call' = [call EXCEPT ![c].at = "poll", ![c].i = @ + 1] /\ UNCHANGED busy
     ELSE Goto(c, "over") /\ busy' = (busy /\ ~Newest(c))
  /\ UNCHANGED <<runToken, status, docId, result, thrown>>

Slept_AlwaysClears(c) ==
  /\ call[c].at = "sleep"
  /\ IF call[c].i + 1 < MaxPolls
     THEN call' = [call EXCEPT ![c].at = "poll", ![c].i = @ + 1] /\ UNCHANGED busy
     ELSE Goto(c, "over") /\ busy' = FALSE
  /\ UNCHANGED <<runToken, status, docId, result, thrown>>

Slept_StaysBusy(c) ==
  /\ call[c].at = "sleep"
  /\ IF call[c].i + 1 < MaxPolls
     THEN call' = [call EXCEPT ![c].at = "poll", ![c].i = @ + 1]
     ELSE Goto(c, "over")
  /\ UNCHANGED <<runToken, page, thrown>>

\* 1.5 s later the loop polls again or, after MaxPolls polls, gives up.
Slept(c) ==
  /\ call[c].at = "sleep"
  /\ IF call[c].i + 1 < MaxPolls
     THEN call' = [call EXCEPT ![c].at = "poll", ![c].i = @ + 1] /\ UNCHANGED busy
     ELSE Goto(c, "over") /\ busy' = (busy /\ ~Newest(c))
  /\ UNCHANGED <<runToken, status, docId, result, thrown>>

\* A fetch or the reading of its JSON is rejected: nothing catches it.
Throws(c) ==
  /\ call[c].at \in {"upload", "json", "poll"}
  /\ Goto(c, "over")
  /\ thrown' = (thrown \/ Newest(c))
  /\ UNCHANGED <<runToken, page>>

-----------------------------------------------------------------------------

(* Whatever the order of the answers, what the page shows is the newest *)
(* analysis': its document, and a result of no other document.          *)
ShowsTheNewest ==
  /\ docId # NoCall => Newest(docId)
  /\ result # NoCall => result = docId

(* The page is busy as long as the newest analysis waits for something, so that *)
(* the button cannot start another one meanwhile.                               *)
BusyWhileWaiting == \A c \in Calls : call[c].at \in Waits /\ Newest(c) => busy

(* A call that was superseded writes nothing to the page ("never write stale *)
(* data"): no step of it changes what the page shows.                        *)
StaleWritesNothing ==
  [][\A c \in Calls : call[c].at \in Waits /\ ~Newest(c) /\ call'[c] # call[c]
       => UNCHANGED page]_pageVars

(* The spinner stops, whether the analysis is answered, fails or never ends on *)
(* the service's side, unless a fetch was rejected, which leaves it on.        *)
SpinnerStops == []<>(~busy \/ thrown)

=============================================================================

----------------------- MODULE ValidationPageProofs -----------------------
(***************************************************************************)
(* What the page and the API that answers it promise, for any uploads and  *)
(* any number of polls.  PageInv is about the page: its newest analysis is *)
(* the one it shows, and no two analyses have one token.  ApiInv is about  *)
(* the API: what a handler read and what a client was told, against a run  *)
(* that goes on meanwhile.  ShownInv joins them.                           *)
(***************************************************************************)
EXTENDS ValidationPage, TLAPS

-----------------------------------------------------------------------------
(* The steps of the two parts.                                               *)

PageStep(c) ==
  \/ Begin(c) \/ Superseded(c) \/ Uploaded(c) \/ Identified(c) \/ Slept(c) \/ Throws(c)
  \/ \E isReady \in BOOLEAN : Polled(c, isReady)

RunStep(r) ==
  /\ \/ Api!Submit(r) /\ UNCHANGED redline
     \/ Api!Claim(r) /\ UNCHANGED redline
     \/ \E v \in {"verdict", "error"}, revised \in BOOLEAN : Api!Store(r, v, revised)
  /\ UNCHANGED <<handler, answer>>

AnswerStep(c) == Api!AnswerStatus(c) \/ Api!AnswerResult(c) \/ Api!AnswerRevised(c)

ApiStep ==
  \/ \E r \in Calls : RunStep(r)
  \/ \E c \in Calls :
       \/ \E what \in Api!Pages, r \in Calls : Api!ReadRun(c, what, r)
       \/ AnswerStep(c)
       \/ Api!Closed(c) /\ UNCHANGED <<run, stored, redline, answer>>

\* An answer that is ready, or is not, ...
LEMMA PolledEither ==
  ASSUME NEW c \in Calls, NEW b, Polled(c, b)
  PROVE  \E isReady \in BOOLEAN : Polled(c, isReady)
<1>1. CASE b
  <2>1. Polled(c, TRUE)
    BY <1>1 DEF Polled
  <2> QED  BY <2>1
<1>2. CASE ~b
  <2>1. Polled(c, FALSE)
    BY <1>2 DEF Polled
  <2> QED  BY <2>1
<1> QED  BY <1>1, <1>2

\* ... so that every step is one of the page, which the API does not see, or one of
\* the API, which the page does not see.
LEMMA StepsOfParts ==
  ASSUME [Next]_vars
  PROVE  \/ \E c \in Calls : PageStep(c) /\ UNCHANGED apiVars
         \/ ApiStep /\ UNCHANGED pageVars
         \/ UNCHANGED <<pageVars, apiVars>>
<1> DEFINE Goal == \/ \E c \in Calls : PageStep(c) /\ UNCHANGED apiVars
                   \/ ApiStep /\ UNCHANGED pageVars
                   \/ UNCHANGED <<pageVars, apiVars>>
<1>1. ASSUME NEW c \in Calls,
             \/ Select(c) \/ DropFile(c) \/ Supersede(c) \/ Upload(c) \/ Identify(c)
             \/ Sleep(c) \/ Reject(c)
      PROVE  Goal
  <2>1. PageStep(c) /\ UNCHANGED apiVars
    BY <1>1 DEF Select, DropFile, Supersede, Upload, Identify, Sleep, Reject, Click, Drop,
                OfPage, PageStep
  <2> QED  BY <2>1
<1>2. ASSUME NEW c \in Calls, Receive(c) \/ ReceiveError(c)
      PROVE  Goal
  <2>1. \E isReady \in BOOLEAN : Polled(c, isReady)
    BY <1>2, PolledEither DEF Receive, ReceiveError
  <2>2. PageStep(c) /\ UNCHANGED apiVars
    BY <1>2, <2>1 DEF Receive, ReceiveError, OfPage, PageStep
  <2> QED  BY <2>2
<1>3. ASSUME NEW c \in Calls, Submit(c) \/ Execute(c)
      PROVE  Goal
  <2>1. RunStep(c)
    BY <1>3 DEF Submit, Execute, RunStep, Api!Store
  <2>2. UNCHANGED pageVars
    BY <1>3 DEF Submit, Execute, OfApi
  <2> QED  BY <2>1, <2>2 DEF ApiStep
<1>4. ASSUME NEW c \in Calls, Poll(c) \/ Reply(c) \/ Abandon(c) \/ Visit(c)
      PROVE  Goal
  <2>1. ApiStep
    BY <1>4 DEF Poll, Reply, Abandon, Visit, ApiStep, AnswerStep, Api!Pages
  <2>2. UNCHANGED pageVars
    BY <1>4 DEF Poll, Reply, Abandon, Visit, OfApi
  <2> QED  BY <2>1, <2>2
<1>5. CASE UNCHANGED vars
  BY <1>5 DEF vars
<1> QED  BY <1>1, <1>2, <1>3, <1>4, <1>5 DEF Next, Progress

-----------------------------------------------------------------------------
(* The page: types.                                                          *)

CallRecords == [at : {"new", "over"} \cup Waits, token : Nat, i : 0 .. MaxPolls - 1]

\* Call c waits at another await, or is over; nothing else of it changes.
Moves(c, at) ==
  /\ call'[c].at = at
  /\ call'[c].token = call[c].token
  /\ \A d \in Calls : d # c => call'[d] = call[d]

\* Goto moves the one call it names.
LEMMA GotoMoves ==
  ASSUME PageTypeOK, NEW c \in Calls, NEW at \in {"over"} \cup Waits, Goto(c, at)
  PROVE  Moves(c, at) /\ call' \in [Calls -> CallRecords]
<1> DEFINE x == [call[c] EXCEPT !.at = at]
<1>1. call[c] \in CallRecords
  BY DEF PageTypeOK, CallRecords
<1>2. x \in CallRecords /\ x.at = at /\ x.token = call[c].token
  BY <1>1 DEF CallRecords
<1>3. call' = [call EXCEPT ![c] = x]
  BY DEF Goto, PageTypeOK
<1> HIDE DEF x
<1>4. call'[c] = x /\ \A d \in Calls : d # c => call'[d] = call[d]
  BY <1>3 DEF PageTypeOK
<1>5. call' \in [Calls -> CallRecords]
  BY <1>2, <1>3 DEF PageTypeOK, CallRecords
<1> QED  BY <1>2, <1>4, <1>5 DEF Moves

\* The loop polls again, or it gives up.
LEMMA SleptMoves ==
  ASSUME PageTypeOK, NEW c \in Calls, Slept(c)
  PROVE  /\ \/ Moves(c, "poll") /\ UNCHANGED page
            \/ /\ Moves(c, "over")
               /\ UNCHANGED <<status, docId, result>>
               /\ busy' = (busy /\ ~Newest(c))
         /\ call' \in [Calls -> CallRecords]
<1>0. call[c] \in CallRecords /\ MaxPolls \in Nat
  BY PageAssumption DEF PageTypeOK, CallRecords
<1>1. CASE call[c].i + 1 < MaxPolls
  <2> DEFINE x == [call[c] EXCEPT !.at = "poll"]
             y == [x EXCEPT !.i = @ + 1]
  <2>1. x \in CallRecords /\ x.at = "poll" /\ x.token = call[c].token /\ x.i = call[c].i
    BY <1>0 DEF CallRecords, Waits
  <2>2. /\ call'[c] = y
        /\ \A d \in Calls : d # c => call'[d] = call[d]
        /\ call' = [d \in Calls |-> call'[d]]
    BY <1>1 DEF Slept, PageTypeOK
  <2>3. y.at = "poll" /\ y.token = call[c].token /\ y \in CallRecords
    <3>1. x.i + 1 \in 0 .. MaxPolls - 1
      BY <1>0, <1>1, <2>1 DEF CallRecords
    <3> HIDE DEF x
    <3> QED  BY <2>1, <3>1 DEF CallRecords
  <2> HIDE DEF x, y
  <2>4. call' \in [Calls -> CallRecords]
    BY <2>2, <2>3 DEF PageTypeOK, CallRecords
  <2> QED  BY <1>1, <2>2, <2>3, <2>4 DEF Moves, Slept, page
<1>2. CASE ~(call[c].i + 1 < MaxPolls)
  <2>1. Goto(c, "over")
    BY <1>2 DEF Slept
  <2> QED  BY <1>2, <2>1, GotoMoves DEF Slept
<1> QED  BY <1>1, <1>2

\* A new analysis.
LEMMA BeginMoves ==
  ASSUME PageTypeOK, NEW c \in Calls, Begin(c)
  PROVE  /\ call'[c].at = "upload" /\ call'[c].token = runToken + 1
         /\ \A d \in Calls : d # c => call'[d] = call[d]
         /\ call' \in [Calls -> CallRecords]
<1> DEFINE x == [at |-> "upload", token |-> runToken + 1, i |-> 0]
<1>0. runToken + 1 \in Nat /\ 0 \in 0 .. MaxPolls - 1
  <2>1. MaxPolls \in Nat /\ MaxPolls # 0
    BY PageAssumption
  <2>2. 0 \in 0 .. MaxPolls - 1
    BY <2>1
  <2>3. runToken \in Nat
    BY DEF PageTypeOK
  <2> QED  BY <2>2, <2>3
<1>1. x \in CallRecords /\ x.at = "upload" /\ x.token = runToken + 1
  BY <1>0 DEF CallRecords, Waits
<1>2. call' = [call EXCEPT ![c] = x]
  BY DEF Begin
<1> HIDE DEF x
<1>3. call'[c] = x /\ \A d \in Calls : d # c => call'[d] = call[d]
  BY <1>2 DEF PageTypeOK
<1>4. call' \in [Calls -> CallRecords]
  BY <1>1, <1>2 DEF PageTypeOK, CallRecords
<1> QED  BY <1>1, <1>3, <1>4

\* Every step of the page keeps its types.
LEMMA PageTypeStep ==
  ASSUME PageTypeOK, NEW c \in Calls, PageStep(c)
  PROVE  PageTypeOK'
<1> USE DEF CallRecords
<1>1. CASE Begin(c)
  BY <1>1, BeginMoves DEF Begin, PageTypeOK
<1>2. CASE Superseded(c)
  BY <1>2, GotoMoves DEF Superseded, PageTypeOK, page
<1>3. CASE Uploaded(c)
  <2>1. call' \in [Calls -> CallRecords]
    BY <1>3, GotoMoves DEF Uploaded, Waits
  <2> QED  BY <1>3, <2>1 DEF Uploaded, PageTypeOK
<1>4. CASE Identified(c)
  <2>1. call' \in [Calls -> CallRecords]
    BY <1>4, GotoMoves DEF Identified, Waits
  <2> QED  BY <1>4, <2>1 DEF Identified, PageTypeOK
<1>5. CASE Slept(c)
  <2>1. busy' \in BOOLEAN /\ UNCHANGED <<runToken, status, docId, result, thrown>>
    BY <1>5 DEF Slept, PageTypeOK
  <2> QED  BY <1>5, <2>1, SleptMoves DEF PageTypeOK
<1>6. CASE Throws(c)
  <2>1. thrown' \in BOOLEAN
    BY <1>6 DEF Throws, PageTypeOK
  <2> QED  BY <1>6, <2>1, GotoMoves DEF Throws, PageTypeOK, page
<1>7. ASSUME NEW b \in BOOLEAN, Polled(c, b)  PROVE PageTypeOK'
  <2>1. call' \in [Calls -> CallRecords]
    BY <1>7, GotoMoves DEF Polled, Waits
  <2> QED  BY <1>7, <2>1 DEF Polled, PageTypeOK
<1> QED  BY <1>1, <1>2, <1>3, <1>4, <1>5, <1>6, <1>7 DEF PageStep

-----------------------------------------------------------------------------
(* The page: its newest analysis.                                            *)

\* A call has its token from its start, and no other has it.
TokensDiffer ==
  /\ \A c \in Calls : IF call[c].at = "new" THEN call[c].token = 0
                                            ELSE call[c].token \in 1 .. runToken
  /\ \A c, d \in Calls : call[c].at # "new" /\ call[c].token = call[d].token => c = d

\* The document on the page is that of the newest analysis, from the moment it has
\* an id, and its result is there once it is over.
ShowsNewest ==
  /\ docId # NoCall => Newest(docId) /\ call[docId].at \in {"poll", "sleep", "over"}
  /\ result # NoCall => result = docId /\ call[result].at = "over" /\ status = "done"
  /\ \A c \in Calls : call[c].at \in {"poll", "sleep"} /\ Newest(c) => docId = c

PageInv == TokensDiffer /\ ShowsNewest /\ BusyWhileWaiting

\* There is one newest call.
LEMMA NewestIsOne ==
  ASSUME PageTypeOK, TokensDiffer, NEW c \in Calls, NEW d \in Calls,
         call[c].at # "new", Newest(c), Newest(d)
  PROVE  c = d
BY DEF TokensDiffer, Newest

\* A move changes no token.
LEMMA MoveKeepsTokens ==
  ASSUME TokensDiffer, NEW c \in Calls, NEW at, at # "new", call[c].at # "new",
         Moves(c, at), runToken' = runToken
  PROVE  TokensDiffer' /\ \A d \in Calls : Newest(d)' <=> Newest(d)
<1>1. \A d \in Calls :
        /\ call'[d].token = call[d].token
        /\ call'[d].at = "new" <=> call[d].at = "new"
  BY DEF Moves
<1> QED  BY <1>1 DEF TokensDiffer, Newest

\* The end of a call that is not the newest, or that shows nothing.
LEMMA OverKeepsPage ==
  ASSUME PageTypeOK, PageInv, NEW c \in Calls, call[c].at \in Waits, Moves(c, "over"),
         UNCHANGED <<runToken, page>>
  PROVE  PageInv'
<1>1. TokensDiffer' /\ \A d \in Calls : Newest(d)' <=> Newest(d)
  BY MoveKeepsTokens DEF PageInv, Waits
<1>2. ShowsNewest'
  BY <1>1, PageAssumption DEF PageInv, ShowsNewest, Moves, page, PageTypeOK, Waits
<1>3. BusyWhileWaiting'
  BY <1>1 DEF PageInv, BusyWhileWaiting, Moves, page, Waits
<1> QED  BY <1>1, <1>2, <1>3 DEF PageInv

\* No step of the page breaks its invariant: only the newest call writes to the page, and a
\* new one makes itself the newest before it writes.
LEMMA PageInvStep ==
  ASSUME PageTypeOK, PageInv, NEW c \in Calls, PageStep(c)
  PROVE  PageInv'
<1>0. TokensDiffer /\ ShowsNewest /\ BusyWhileWaiting
  BY DEF PageInv
<1>1. CASE Begin(c)
  <2>0. ASSUME NEW d \in Calls  PROVE call[d].token \in 0 .. runToken
    <3>1. runToken \in Nat
      BY DEF PageTypeOK
    <3>2. call[d].token = 0 \/ call[d].token \in 1 .. runToken
      BY <1>0 DEF TokensDiffer
    <3> QED  BY <3>1, <3>2
  <2>1. \A d \in Calls : d # c => call'[d] = call[d] /\ call[d].token \in 0 .. runToken
    BY <1>1, <2>0, BeginMoves
  <2>2. /\ call'[c].at = "upload" /\ call'[c].token = runToken + 1
        /\ runToken' = runToken + 1 /\ runToken \in Nat
    BY <1>1, BeginMoves DEF Begin, PageTypeOK
  <2>3. TokensDiffer'
    <3>1. ASSUME NEW d \in Calls
          PROVE  IF call'[d].at = "new" THEN call'[d].token = 0
                                        ELSE call'[d].token \in 1 .. runToken'
      BY <1>0, <2>1, <2>2 DEF TokensDiffer
    <3>2. ASSUME NEW d \in Calls, NEW e \in Calls, call'[d].at # "new",
                 call'[d].token = call'[e].token
          PROVE  d = e
      BY <1>0, <2>1, <2>2, <3>2 DEF TokensDiffer
    <3> QED  BY <3>1, <3>2 DEF TokensDiffer
  <2>4. \A d \in Calls : d # c => ~Newest(d)'
    BY <2>1, <2>2 DEF Newest
  <2>5. ShowsNewest'
    BY <1>1, <2>2, <2>4 DEF ShowsNewest, Begin
  <2>6. BusyWhileWaiting'
    BY <1>1 DEF BusyWhileWaiting, Begin
  <2> QED  BY <2>3, <2>5, <2>6 DEF PageInv
<1>2. CASE Superseded(c)
  BY <1>2, GotoMoves, OverKeepsPage DEF Superseded, Waits
<1>3. CASE Throws(c)
  BY <1>3, GotoMoves, OverKeepsPage DEF Throws, Waits
\* A call that has its upload answered is on the page with nothing yet.
<1>4. ASSUME Newest(c), call[c].at \in {"upload", "json"}  PROVE docId = NoCall /\ result = NoCall
  <2>1. docId # NoCall => docId \in Calls /\ docId = c
    BY <1>0, <1>4, NewestIsOne DEF ShowsNewest, PageTypeOK
  <2>2. docId = NoCall
    BY <1>0, <1>4, <2>1 DEF ShowsNewest
  <2> QED  BY <1>0, <2>2 DEF ShowsNewest
<1>5. CASE Uploaded(c)
  <2>1. PICK at \in {"json", "over"} : Goto(c, at) /\ (at = "over" \/ UNCHANGED <<busy, status>>)
    BY <1>5 DEF Uploaded
  <2>2. Moves(c, at) /\ call[c].at = "upload" /\ Newest(c) /\ UNCHANGED <<runToken, docId, result>>
    BY <1>5, <2>1, GotoMoves DEF Uploaded, Waits
  <2>3. docId = NoCall /\ result = NoCall
    BY <1>4, <2>2
  <2>4. TokensDiffer' /\ \A d \in Calls : Newest(d)' <=> Newest(d)
    BY <1>0, <2>2, MoveKeepsTokens
  <2>5. ShowsNewest'
    BY <1>0, <2>2, <2>3, <2>4 DEF ShowsNewest, Moves
  <2>6. \A d \in Calls : d # c => ~Newest(d)
    BY <1>0, <2>2, NewestIsOne
  <2>7. BusyWhileWaiting'
    BY <1>0, <2>1, <2>2, <2>4, <2>6 DEF BusyWhileWaiting, Moves, Waits
  <2> QED  BY <2>4, <2>5, <2>7 DEF PageInv
<1>6. CASE Identified(c)
  <2>1. /\ Moves(c, "poll") /\ call[c].at = "json" /\ Newest(c) /\ docId' = c
        /\ UNCHANGED <<runToken, busy, status, result>>
    BY <1>6, GotoMoves DEF Identified, Waits
  <2>2. result = NoCall
    BY <1>4, <2>1
  <2>3. TokensDiffer' /\ \A d \in Calls : Newest(d)' <=> Newest(d)
    BY <1>0, <2>1, MoveKeepsTokens
  <2>4. \A d \in Calls : d # c => ~Newest(d)
    BY <1>0, <2>1, NewestIsOne
  <2>5. ShowsNewest'
    BY <1>0, <2>1, <2>2, <2>3, <2>4 DEF ShowsNewest, Moves
  <2>6. BusyWhileWaiting'
    BY <1>0, <2>1, <2>3 DEF BusyWhileWaiting, Moves, Waits
  <2> QED  BY <2>3, <2>5, <2>6 DEF PageInv
<1>7. CASE Slept(c)
  <2>1. call[c].at = "sleep" /\ runToken' = runToken
    BY <1>7 DEF Slept
  <2>2. CASE Moves(c, "poll") /\ UNCHANGED page
    <3>1. TokensDiffer' /\ \A d \in Calls : Newest(d)' <=> Newest(d)
      BY <1>0, <2>1, <2>2, MoveKeepsTokens
    <3>2. ShowsNewest'
      BY <1>0, <2>1, <2>2, <3>1, PageAssumption DEF ShowsNewest, Moves, page, PageTypeOK
    <3>3. BusyWhileWaiting'
      BY <1>0, <2>1, <2>2, <3>1 DEF BusyWhileWaiting, Moves, page, Waits
    <3> QED  BY <3>1, <3>2, <3>3 DEF PageInv
  <2>3. CASE /\ Moves(c, "over") /\ UNCHANGED <<status, docId, result>>
             /\ busy' = (busy /\ ~Newest(c))
    <3>1. TokensDiffer' /\ \A d \in Calls : Newest(d)' <=> Newest(d)
      BY <1>0, <2>1, <2>3, MoveKeepsTokens
    <3>2. ShowsNewest'
      BY <1>0, <2>1, <2>3, <3>1, PageAssumption DEF ShowsNewest, Moves, PageTypeOK
    <3>3. BusyWhileWaiting'
      <4>1. ASSUME NEW d \in Calls, call'[d].at \in Waits, Newest(d)  PROVE busy'
        <5>1. d # c
          BY <2>3, <4>1 DEF Moves, Waits
        <5>2. ~Newest(c)
          BY <1>0, <2>1, <4>1, <5>1, NewestIsOne
        <5>3. busy
          BY <1>0, <2>3, <4>1, <5>1 DEF BusyWhileWaiting, Moves
        <5> QED  BY <2>3, <5>2, <5>3
      <4> QED  BY <3>1, <4>1 DEF BusyWhileWaiting
    <3> QED  BY <3>1, <3>2, <3>3 DEF PageInv
  <2> QED  BY <1>7, <2>2, <2>3, SleptMoves
<1>8. ASSUME NEW b \in BOOLEAN, Polled(c, b)  PROVE PageInv'
  <2>1. call[c].at = "poll" /\ Newest(c) /\ UNCHANGED <<runToken, docId>>
    BY <1>8 DEF Polled
  <2>2. docId = c
    BY <1>0, <2>1 DEF ShowsNewest
  <2>3. result = NoCall
    BY <1>0, <2>1, <2>2 DEF ShowsNewest
  <2>4. \A d \in Calls : d # c => ~Newest(d)
    BY <1>0, <2>1, NewestIsOne
  <2>5. CASE b
    <3>1. Moves(c, "over") /\ result' = c /\ status' = "done" /\ busy' = FALSE
      BY <1>8, <2>5, GotoMoves DEF Polled
    <3>2. TokensDiffer' /\ \A d \in Calls : Newest(d)' <=> Newest(d)
      BY <1>0, <2>1, <3>1, MoveKeepsTokens
    <3>3. ShowsNewest'
      BY <2>1, <2>2, <2>4, <3>1, <3>2 DEF ShowsNewest, Moves
    <3>4. BusyWhileWaiting'
      BY <2>4, <3>1, <3>2 DEF BusyWhileWaiting, Moves, Waits
    <3> QED  BY <3>2, <3>3, <3>4 DEF PageInv
  <2>6. CASE ~b
    <3>1. Moves(c, "sleep") /\ UNCHANGED <<result, busy>>
      BY <1>8, <2>6, GotoMoves DEF Polled, Waits
    <3>2. TokensDiffer' /\ \A d \in Calls : Newest(d)' <=> Newest(d)
      BY <1>0, <2>1, <3>1, MoveKeepsTokens
    <3>3. ShowsNewest'
      BY <2>1, <2>2, <2>3, <2>4, <3>1, <3>2 DEF ShowsNewest, Moves
    <3>4. BusyWhileWaiting'
      BY <1>0, <2>1, <3>1, <3>2 DEF BusyWhileWaiting, Moves, Waits
    <3> QED  BY <3>2, <3>3, <3>4 DEF PageInv
  <2> QED  BY <2>5, <2>6
<1> QED  BY <1>1, <1>2, <1>3, <1>5, <1>6, <1>7, <1>8 DEF PageStep

\* The page starts empty.
LEMMA PageStarts ==
  ASSUME PageInit
  PROVE  PageTypeOK /\ PageInv
<1>1. 0 \in 0 .. MaxPolls - 1
  <2>1. MaxPolls \in Nat /\ MaxPolls # 0
    BY PageAssumption
  <2> QED  BY <2>1
<1>2. [at |-> "new", token |-> 0, i |-> 0] \in CallRecords
  BY <1>1 DEF CallRecords
<1>3. PageTypeOK
  BY <1>2 DEF PageInit, PageTypeOK, CallRecords
<1>4. PageInv
  BY <1>3 DEF PageInit, PageInv, TokensDiffer, ShowsNewest, BusyWhileWaiting, Waits
<1> QED  BY <1>3, <1>4

\* The invariant of the page, whatever the API does.
LEMMA PageInvariant == Spec => [](PageTypeOK /\ PageInv)
<1>1. Init => PageTypeOK /\ PageInv
  BY PageStarts DEF Init
<1>2. PageTypeOK /\ PageInv /\ [Next]_vars => (PageTypeOK /\ PageInv)'
  <2> SUFFICES ASSUME PageTypeOK, PageInv, [Next]_vars  PROVE (PageTypeOK /\ PageInv)'
    OBVIOUS
  <2>1. ASSUME UNCHANGED pageVars  PROVE (PageTypeOK /\ PageInv)'
    BY <2>1 DEF pageVars, page, PageTypeOK, PageInv, TokensDiffer, ShowsNewest, BusyWhileWaiting,
                Newest
  <2> QED  BY <2>1, StepsOfParts, PageTypeStep, PageInvStep
<1> QED  BY <1>1, <1>2, PTL DEF Spec

\* Whatever the order of the answers of any number of analyses, the page of page.tsx
\* shows the newest one's document, and no result but that document's.
THEOREM NewestIsShown == Spec => []ShowsTheNewest
<1>1. PageInv => ShowsTheNewest
  BY DEF PageInv, ShowsNewest, ShowsTheNewest
<1> QED  BY <1>1, PageInvariant, PTL

\* The button stays disabled as long as the newest analysis waits for an answer or for
\* its next poll: no older one that ends meanwhile clears busy.
THEOREM BusyWhileNewestWaits == Spec => []BusyWhileWaiting
<1>1. PageInv => BusyWhileWaiting
  BY DEF PageInv
<1> QED  BY <1>1, PageInvariant, PTL

\* "never write stale data": an analysis that was superseded ends, or goes on polling
\* nobody looks at, without a write to the page, at whichever await it was overtaken.
THEOREM StaleNeverWrites == Spec => StaleWritesNothing
<1>1. ASSUME PageTypeOK, [Next]_vars, NEW c \in Calls, call[c].at \in Waits, ~Newest(c),
             call'[c] # call[c]
      PROVE  UNCHANGED page
  <2>1. ASSUME NEW d \in Calls, PageStep(d), UNCHANGED apiVars  PROVE UNCHANGED page
    <3>1. d = c
      <4>1. CASE Begin(d)
        BY <1>1, <4>1, BeginMoves
      <4>2. CASE Slept(d)
        BY <1>1, <4>2, SleptMoves DEF Moves
      <4>3. CASE ~Begin(d) /\ ~Slept(d)
        <5>1. \E at : Goto(d, at)
          BY <2>1, <4>3 DEF PageStep, Superseded, Uploaded, Identified, Throws, Polled
        <5> QED  BY <1>1, <5>1 DEF Goto, PageTypeOK
      <4> QED  BY <4>1, <4>2, <4>3
    <3>2. ~Begin(c)
      BY <1>1 DEF Begin, Waits
    <3>3. CASE Slept(c)
      <4>1. busy \in BOOLEAN
        BY <1>1 DEF PageTypeOK
      <4> QED  BY <1>1, <3>3, <4>1, SleptMoves DEF page
    <3>4. CASE Superseded(c) \/ Throws(c)
      BY <3>4 DEF Superseded, Throws
    <3>5. ~Uploaded(c) /\ ~Identified(c) /\ \A b : ~Polled(c, b)
      BY <1>1 DEF Uploaded, Identified, Polled
    <3> QED  BY <2>1, <3>1, <3>2, <3>3, <3>4, <3>5 DEF PageStep
  <2> QED  BY <1>1, <2>1, StepsOfParts DEF pageVars
<1>2. PageTypeOK /\ [Next]_vars
        => [\A c \in Calls : call[c].at \in Waits /\ ~Newest(c) /\ call'[c] # call[c]
              => UNCHANGED page]_pageVars
  BY <1>1
<1> QED  BY <1>2, PageInvariant, PTL DEF Spec, StaleWritesNothing

-----------------------------------------------------------------------------
(* The API: types.                                                           *)

\* A handler that is open, and an answer that was given, are records of all their fields.
LEMMA OpenHandler ==
  ASSUME Api!TypeOK, NEW c \in Calls, handler[c].page # "none"
  PROVE  /\ handler[c].page \in Api!Pages
         /\ handler[c].run \in Calls
         /\ handler[c].status \in Api!Told
BY DEF Api!TypeOK, Api!Handlers, Api!Pages

\* The fields of an answer.
LEMMA AnswerFields ==
  ASSUME Api!TypeOK, NEW c \in Calls, NEW r \in Calls, answer[c][r].page # "none"
  PROVE  /\ answer[c][r].page \in Api!Pages
         /\ answer[c][r].ready \in BOOLEAN
         /\ answer[c][r].revised \in BOOLEAN
BY DEF Api!TypeOK, Api!Answers, Api!Pages

\* What an answer leaves alone, and its type.
LEMMA AnsweredOnce ==
  ASSUME Api!TypeOK, NEW c \in Calls, NEW r \in Calls, NEW what \in Api!Pages,
         NEW st \in Api!Told, NEW ready \in BOOLEAN, NEW verdict \in Api!Results,
         NEW revised \in BOOLEAN, Api!Answered(c, r, what, st, ready, verdict, revised)
  PROVE  /\ answer'[c][r] = [page |-> what, status |-> st, ready |-> ready,
                             verdict |-> verdict, revised |-> revised]
         /\ \A d, q \in Calls : d # c \/ q # r => answer'[d][q] = answer[d][q]
         /\ answer' \in [Calls -> [Calls -> Api!Answers]]
<1> DEFINE a == [page |-> what, status |-> st, ready |-> ready, verdict |-> verdict,
                 revised |-> revised]
<1>1. a \in Api!Answers
  BY DEF Api!Answers
<1>2. answer' = [answer EXCEPT ![c][r] = a]
  BY DEF Api!Answered
<1>3. answer \in [Calls -> [Calls -> Api!Answers]]
  BY DEF Api!TypeOK
<1> HIDE DEF a
<1>4. /\ answer'[c][r] = a
      /\ \A d, q \in Calls : d # c \/ q # r => answer'[d][q] = answer[d][q]
      /\ answer' \in [Calls -> [Calls -> Api!Answers]]
  BY <1>1, <1>2, <1>3
<1> QED  BY <1>4 DEF a

\* A handler closes.
LEMMA ClosedOnce ==
  ASSUME Api!TypeOK, NEW c \in Calls, Api!Closed(c)
  PROVE  /\ handler'[c].page = "none"
         /\ \A d \in Calls : d # c => handler'[d] = handler[d]
         /\ handler' \in [Calls -> Api!Handlers]
BY DEF Api!TypeOK, Api!Closed, Api!Handlers

\* What a handler says of the run it read: its second SELECT is of now.
Says(c, what, ready, verdict, revised) ==
  /\ handler[c].page = what
  /\ Api!Answered(c, handler[c].run, what, handler[c].status, ready, verdict, revised)
  /\ ready \in BOOLEAN
  /\ verdict \in Api!Results
  /\ revised \in BOOLEAN

\* Which answers there are: of a status, of a result, of a revision; each closes the handler.
LEMMA AnswerSays ==
  ASSUME Api!TypeOK, NEW c \in Calls, AnswerStep(c)
  PROVE  /\ LET r == handler[c].run
            IN  \/ Says(c, "status", FALSE, "none", FALSE)
                \/ Says(c, "result", stored[r] # "none", stored[r], r \in redline)
                \/ Says(c, "revised", r \in redline, stored[r], r \in redline)
         /\ Api!Closed(c)
         /\ UNCHANGED <<run, stored, redline>>
<1>1. handler[c].page # "none"
  BY DEF AnswerStep, Api!AnswerStatus, Api!AnswerResult, Api!AnswerRevised
<1>2. handler[c].run \in Calls
  BY <1>1, OpenHandler
<1>3. stored[handler[c].run] \in Api!Results
  BY <1>2 DEF Api!TypeOK, Api!LifecycleTypeOK
<1>4. "none" \in Api!Results
  BY DEF Api!Results
<1>5. CASE Api!AnswerStatus(c)
  BY <1>4, <1>5 DEF Says, Api!AnswerStatus
<1>6. CASE Api!AnswerResult(c)
  <2>1. Says(c, "result", stored[handler[c].run] # "none", stored[handler[c].run],
             handler[c].run \in redline)
    <3>1. CASE stored[handler[c].run] = "none"
      BY <1>3, <1>6, <3>1 DEF Says, Api!AnswerResult, Api!HasRedline, Api!Answered
    <3>2. CASE stored[handler[c].run] # "none"
      BY <1>3, <1>6, <3>2 DEF Says, Api!AnswerResult, Api!HasRedline, Api!Answered
    <3> QED  BY <3>1, <3>2
  <2> QED  BY <1>6, <2>1 DEF Api!AnswerResult
<1>7. CASE Api!AnswerRevised(c)
  BY <1>3, <1>7 DEF Says, Api!AnswerRevised, Api!HasRedline
<1> QED  BY <1>5, <1>6, <1>7 DEF AnswerStep

\* ... and so a page's answer is true of what it read second.
SecondRead(r, what, ready, verdict, revised) ==
  /\ what = "result" => (ready <=> stored[r] # "none") /\ verdict = stored[r]
                         /\ (revised <=> r \in redline)
  /\ what = "revised" => (ready <=> r \in redline)

\* An answer says what its second read saw.
LEMMA SaysTrue ==
  ASSUME Api!TypeOK, NEW c \in Calls, AnswerStep(c)
  PROVE  \E what \in Api!Pages, ready \in BOOLEAN, verdict \in Api!Results,
            revised \in BOOLEAN :
           /\ Says(c, what, ready, verdict, revised)
           /\ SecondRead(handler[c].run, what, ready, verdict, revised)
<1> DEFINE r == handler[c].run
<1>0. /\ "status" \in Api!Pages /\ "result" \in Api!Pages /\ "revised" \in Api!Pages
      /\ "none" \in Api!Results
  BY DEF Api!Pages, Api!Results
<1>1. CASE Says(c, "status", FALSE, "none", FALSE)
  <2>1. SecondRead(r, "status", FALSE, "none", FALSE)
    BY DEF SecondRead
  <2>2. FALSE \in BOOLEAN
    OBVIOUS
  <2> USE <1>0, <2>2
  <2> WITNESS "status" \in Api!Pages, FALSE \in BOOLEAN, "none" \in Api!Results, FALSE \in BOOLEAN
  <2> QED  BY <1>1, <2>1
<1>2. CASE Says(c, "result", stored[r] # "none", stored[r], r \in redline)
  <2>1. SecondRead(r, "result", stored[r] # "none", stored[r], r \in redline)
    BY DEF SecondRead
  <2>2. /\ (stored[r] # "none") \in BOOLEAN /\ stored[r] \in Api!Results
        /\ (r \in redline) \in BOOLEAN
    BY <1>2 DEF Says
  <2> USE <1>0, <2>2
  <2> WITNESS "result" \in Api!Pages, (stored[r] # "none") \in BOOLEAN,
              stored[r] \in Api!Results, (r \in redline) \in BOOLEAN
  <2> QED  BY <1>2, <2>1
<1>3. CASE Says(c, "revised", r \in redline, stored[r], r \in redline)
  <2>1. SecondRead(r, "revised", r \in redline, stored[r], r \in redline)
    BY DEF SecondRead
  <2>2. stored[r] \in Api!Results /\ (r \in redline) \in BOOLEAN
    BY <1>3 DEF Says
  <2> USE <1>0, <2>2
  <2> WITNESS "revised" \in Api!Pages, (r \in redline) \in BOOLEAN,
              stored[r] \in Api!Results, (r \in redline) \in BOOLEAN
  <2> QED  BY <1>3, <2>1
<1> QED  BY <1>1, <1>2, <1>3, AnswerSays

\* An answer changes what one client knows of one run.
LEMMA SaysTyped ==
  ASSUME Api!TypeOK, NEW c \in Calls, NEW what \in Api!Pages, NEW ready, NEW verdict,
         NEW revised, Says(c, what, ready, verdict, revised)
  PROVE  LET r == handler[c].run
         IN  /\ r \in Calls
             /\ answer'[c][r] = [page |-> what, status |-> handler[c].status, ready |-> ready,
                                 verdict |-> verdict, revised |-> revised]
             /\ \A d, q \in Calls : d # c \/ q # r => answer'[d][q] = answer[d][q]
             /\ answer' \in [Calls -> [Calls -> Api!Answers]]
<1>1. handler[c].page # "none"
  BY DEF Says, Api!Pages
<1>2. handler[c].run \in Calls /\ handler[c].status \in Api!Told
  BY <1>1, OpenHandler
<1> QED  BY <1>2, AnsweredOnce DEF Says

\* A run moves on, and no other.
LEMMA RunMoves ==
  ASSUME Api!TypeOK, NEW r \in Calls, RunStep(r)
  PROVE  /\ run[r] \notin Api!Terminal
         /\ \A q \in Calls : q # r =>
              run'[q] = run[q] /\ stored'[q] = stored[q] /\ (q \in redline' <=> q \in redline)
         /\ run' \in [Calls -> Api!Statuses] /\ stored' \in [Calls -> Api!Results]
         /\ redline' \in SUBSET Calls
         /\ UNCHANGED <<handler, answer>>
<1> USE DEF Api!TypeOK, Api!LifecycleTypeOK, Api!Statuses, Api!Terminal, Api!Results
<1>1. CASE Api!Submit(r) /\ UNCHANGED redline
  BY <1>1 DEF RunStep, Api!Submit
<1>2. CASE Api!Claim(r) /\ UNCHANGED redline
  BY <1>2 DEF RunStep, Api!Claim
<1>3. ASSUME NEW v \in {"verdict", "error"}, NEW revised \in BOOLEAN, Api!Store(r, v, revised)
      PROVE  /\ run[r] \notin Api!Terminal
             /\ \A q \in Calls : q # r => run'[q] = run[q] /\ stored'[q] = stored[q]
             /\ run' \in [Calls -> Api!Statuses] /\ stored' \in [Calls -> Api!Results]
             /\ redline' \in {redline, redline \cup {r}}
  BY <1>3 DEF Api!Store, Api!Finish, Api!StatusFor
<1>4. UNCHANGED <<handler, answer>>
  BY DEF RunStep
<1> QED  BY <1>1, <1>2, <1>3, <1>4 DEF RunStep

\* Every step of the API keeps its types.
LEMMA ApiTypeStep ==
  ASSUME Api!TypeOK, ApiStep
  PROVE  Api!TypeOK'
<1>1. ASSUME NEW r \in Calls, RunStep(r)  PROVE Api!TypeOK'
  BY <1>1, RunMoves DEF Api!TypeOK, Api!LifecycleTypeOK
<1>2. ASSUME NEW c \in Calls, NEW what \in Api!Pages, NEW r \in Calls, Api!ReadRun(c, what, r)
      PROVE  Api!TypeOK'
  <2>1. run[r] \in Api!Told
    BY <1>2 DEF Api!ReadRun, Api!TypeOK, Api!LifecycleTypeOK, Api!Told
  <2>2. [page |-> what, run |-> r, status |-> run[r]] \in Api!Handlers
    BY <2>1 DEF Api!Handlers
  <2>3. handler' \in [Calls -> Api!Handlers]
    BY <1>2, <2>2 DEF Api!ReadRun, Api!TypeOK
  <2> QED  BY <1>2, <2>3 DEF Api!ReadRun, Api!TypeOK, Api!LifecycleTypeOK
<1>3. ASSUME NEW c \in Calls, AnswerStep(c)  PROVE Api!TypeOK'
  <2>1. answer' \in [Calls -> [Calls -> Api!Answers]]
    BY <1>3, AnswerSays, SaysTyped DEF Api!Pages
  <2> QED  BY <1>3, <2>1, AnswerSays, ClosedOnce DEF Api!TypeOK, Api!LifecycleTypeOK
<1>4. ASSUME NEW c \in Calls, Api!Closed(c), UNCHANGED <<run, stored, redline, answer>>
      PROVE  Api!TypeOK'
  BY <1>4, ClosedOnce DEF Api!TypeOK, Api!LifecycleTypeOK
<1> QED  BY <1>1, <1>2, <1>3, <1>4 DEF ApiStep

-----------------------------------------------------------------------------
(* The API: what was read, what was said, and what is so.                    *)

\* An answer a about a run of status st, with the result res, redlined or not.
GoodAnswer(a, st, res, red) ==
  /\ a.page # "none" /\ a.status \in Api!Terminal => a.status = st
  /\ a.page = "result" =>
       /\ ~a.ready => a.status \notin Api!Terminal /\ ~a.revised
       /\ a.ready => st \in Api!Terminal /\ a.verdict = res /\ (a.revised <=> red)

\* An open handler, next to the last answer its client has about the run it read.
GoodHandler(h, a, st) ==
  /\ h.status \in Api!Terminal => h.status = st
  /\ a.page # "none" /\ a.status \in Api!Terminal => h.status = a.status
  /\ a.page = "result" /\ a.ready => h.status \in Api!Terminal

RunsAgree ==
  \A r \in Calls :
    /\ stored[r] = "none" <=> run[r] \notin Api!Terminal
    /\ r \in redline => run[r] \in Api!Terminal

ApiInv ==
  /\ RunsAgree
  /\ \A c, r \in Calls : GoodAnswer(answer[c][r], run[r], stored[r], r \in redline)
  /\ \A c \in Calls :
       handler[c].page # "none" =>
         GoodHandler(handler[c], answer[c][handler[c].run], run[handler[c].run])

\* As long as a run is not over, nothing that was said or read of it can turn false.
LEMMA NothingSaidYet ==
  ASSUME NEW a, NEW st, st \notin Api!Terminal, NEW res, NEW red, GoodAnswer(a, st, res, red)
  PROVE  /\ \A st2, res2, red2 : GoodAnswer(a, st2, res2, red2)
         /\ \A h, st2 : GoodHandler(h, a, st) => GoodHandler(h, a, st2)
BY DEF GoodAnswer, GoodHandler

\* A run that goes on makes no handler's read and no client's answer wrong: both are only
\* older than before.
LEMMA RunStepGood ==
  ASSUME Api!TypeOK, ApiInv, NEW r \in Calls, RunStep(r)
  PROVE  ApiInv'
<1>1. RunsAgree'
  <2>1. ASSUME NEW q \in Calls, q # r
        PROVE  /\ stored'[q] = "none" <=> run'[q] \notin Api!Terminal
               /\ q \in redline' => run'[q] \in Api!Terminal
    BY <2>1, RunMoves DEF ApiInv, RunsAgree
  <2>2. stored[r] = "none" /\ r \notin redline
    BY RunMoves DEF ApiInv, RunsAgree
  <2>3. /\ stored'[r] = "none" <=> run'[r] \notin Api!Terminal
        /\ r \in redline' => run'[r] \in Api!Terminal
    <3>1. CASE (Api!Submit(r) \/ Api!Claim(r)) /\ UNCHANGED redline
      BY <2>2, <3>1 DEF Api!Submit, Api!Claim, Api!Terminal, Api!TypeOK, Api!LifecycleTypeOK
    <3>2. ASSUME NEW v \in {"verdict", "error"}, NEW revised \in BOOLEAN,
                 Api!Store(r, v, revised)
          PROVE  stored'[r] # "none" /\ run'[r] \in Api!Terminal
      BY <3>2 DEF Api!Store, Api!Finish, Api!StatusFor, Api!Terminal, Api!TypeOK,
                  Api!LifecycleTypeOK
    <3> QED  BY <3>1, <3>2 DEF RunStep
  <2> QED  BY <2>1, <2>3 DEF RunsAgree
<1>2. ASSUME NEW c \in Calls, NEW q \in Calls
      PROVE  GoodAnswer(answer[c][q], run'[q], stored'[q], q \in redline')
  <2>1. GoodAnswer(answer[c][q], run[q], stored[q], q \in redline)
    BY DEF ApiInv
  <2>2. CASE q = r
    BY <2>1, <2>2, RunMoves, NothingSaidYet
  <2>3. CASE q # r
    <3>1. run'[q] = run[q] /\ stored'[q] = stored[q] /\ (q \in redline' <=> q \in redline)
      BY <2>3, RunMoves
    <3> QED  BY <2>1, <3>1 DEF GoodAnswer
  <2> QED  BY <2>2, <2>3
<1>3. ASSUME NEW c \in Calls, handler[c].page # "none"
      PROVE  GoodHandler(handler[c], answer[c][handler[c].run], run'[handler[c].run])
  <2> DEFINE q == handler[c].run
  <2>1. q \in Calls
    BY <1>3, OpenHandler
  <2>2. GoodHandler(handler[c], answer[c][q], run[q])
    BY <1>3 DEF ApiInv
  <2>3. GoodAnswer(answer[c][q], run[q], stored[q], q \in redline)
    BY <2>1 DEF ApiInv
  <2> HIDE DEF q
  <2>4. GoodHandler(handler[c], answer[c][q], run'[q])
    <3>1. CASE q = r
      BY <2>2, <2>3, <3>1, RunMoves, NothingSaidYet
    <3>2. CASE q # r
      BY <2>1, <2>2, <3>2, RunMoves
    <3> QED  BY <3>1, <3>2
  <2> QED  BY <2>4 DEF q
<1>4. UNCHANGED <<handler, answer>>
  BY RunMoves
<1> QED  BY <1>1, <1>2, <1>3, <1>4 DEF ApiInv

\* A handler that reads the run now reads what agrees with all that was said.
LEMMA ReadGood ==
  ASSUME Api!TypeOK, ApiInv, NEW c \in Calls, NEW what \in Api!Pages, NEW r \in Calls,
         Api!ReadRun(c, what, r)
  PROVE  ApiInv'
<1>1. UNCHANGED <<run, stored, redline, answer>>
  BY DEF Api!ReadRun
<1>2. /\ handler'[c] = [page |-> what, run |-> r, status |-> run[r]]
      /\ \A d \in Calls : d # c => handler'[d] = handler[d]
  BY DEF Api!ReadRun, Api!TypeOK
<1>3. GoodAnswer(answer[c][r], run[r], stored[r], r \in redline)
  BY DEF ApiInv
<1>4. handler'[c].status = run[r] /\ handler'[c].run = r
  BY <1>2
<1>5. GoodHandler(handler'[c], answer[c][r], run[r])
  BY <1>3, <1>4 DEF GoodAnswer, GoodHandler
<1>6. RunsAgree' /\ \A d, q \in Calls : GoodAnswer(answer'[d][q], run'[q], stored'[q], q \in redline')
  BY <1>1 DEF ApiInv, RunsAgree
<1>7. ASSUME NEW d \in Calls, handler'[d].page # "none"
      PROVE  GoodHandler(handler'[d], answer'[d][handler'[d].run], run'[handler'[d].run])
  <2>1. CASE d = c
    BY <1>1, <1>4, <1>5, <2>1
  <2>2. CASE d # c
    BY <1>1, <1>2, <1>7, <2>2 DEF ApiInv
  <2> QED  BY <2>1, <2>2
<1> QED  BY <1>6, <1>7 DEF ApiInv

\* What a handler says is good, ...
LEMMA SaysGood ==
  ASSUME Api!TypeOK, ApiInv, NEW c \in Calls, AnswerStep(c)
  PROVE  GoodAnswer(answer'[c][handler[c].run], run[handler[c].run], stored[handler[c].run],
                    handler[c].run \in redline)
<1> DEFINE r == handler[c].run
           h == handler[c].status
<1>1. handler[c].page # "none"
  BY AnswerSays DEF Says
<1>2. r \in Calls
  BY <1>1, OpenHandler
<1>3. GoodHandler(handler[c], answer[c][r], run[r])
  BY <1>1 DEF ApiInv
<1>4. h \in Api!Terminal => h = run[r]
  BY <1>3 DEF GoodHandler
<1>5. /\ stored[r] = "none" <=> run[r] \notin Api!Terminal
      /\ r \in redline => run[r] \in Api!Terminal
  BY <1>2 DEF ApiInv, RunsAgree
<1> DEFINE a == answer'[c][r]
<1>6. PICK what \in Api!Pages, ready \in BOOLEAN, verdict \in Api!Results, revised \in BOOLEAN :
        /\ Says(c, what, ready, verdict, revised)
        /\ SecondRead(r, what, ready, verdict, revised)
  BY SaysTrue
<1>7. a = [page |-> what, status |-> h, ready |-> ready, verdict |-> verdict,
           revised |-> revised]
  BY <1>6, SaysTyped
<1>8. /\ a.page = what /\ a.status = h /\ a.ready = ready /\ a.verdict = verdict
      /\ a.revised = revised
  BY <1>7
<1> HIDE DEF a, r, h
<1>9. GoodAnswer(a, run[r], stored[r], r \in redline)
  BY <1>4, <1>5, <1>6, <1>8 DEF GoodAnswer, SecondRead
<1> QED  BY <1>9 DEF a, r

\* ... and leaves what the others were told.
LEMMA AnswerGood ==
  ASSUME Api!TypeOK, ApiInv, NEW c \in Calls, AnswerStep(c)
  PROVE  ApiInv'
<1> DEFINE r == handler[c].run
<1>1. /\ UNCHANGED <<run, stored, redline>>
      /\ handler'[c].page = "none" /\ \A d \in Calls : d # c => handler'[d] = handler[d]
  BY AnswerSays, ClosedOnce
<1>2. /\ r \in Calls
      /\ \A d, q \in Calls : d # c \/ q # r => answer'[d][q] = answer[d][q]
  BY SaysTrue, SaysTyped
<1>3. GoodAnswer(answer'[c][r], run[r], stored[r], r \in redline)
  BY SaysGood
<1> HIDE DEF r
<1>4. RunsAgree'
  BY <1>1 DEF ApiInv, RunsAgree
<1>5. ASSUME NEW d \in Calls, NEW q \in Calls
      PROVE  GoodAnswer(answer'[d][q], run'[q], stored'[q], q \in redline')
  <2>1. CASE d = c /\ q = r
    BY <1>1, <1>3, <2>1
  <2>2. CASE d # c \/ q # r
    <3>1. answer'[d][q] = answer[d][q]
      BY <1>2, <2>2
    <3> QED  BY <1>1, <3>1 DEF ApiInv
  <2> QED  BY <2>1, <2>2
<1>6. ASSUME NEW d \in Calls, handler'[d].page # "none"
      PROVE  GoodHandler(handler'[d], answer'[d][handler'[d].run], run'[handler'[d].run])
  <2>1. d # c
    BY <1>1, <1>6
  <2>2. handler'[d] = handler[d] /\ handler[d].page # "none"
    BY <1>1, <1>6, <2>1
  <2>3. handler[d].run \in Calls
    BY <2>2, OpenHandler
  <2>4. answer'[d][handler[d].run] = answer[d][handler[d].run]
    BY <1>2, <2>1, <2>3
  <2> QED  BY <1>1, <2>2, <2>4 DEF ApiInv
<1> QED  BY <1>4, <1>5, <1>6 DEF ApiInv

\* No step of the API breaks its invariant.
LEMMA ApiInvStep ==
  ASSUME Api!TypeOK, ApiInv, ApiStep
  PROVE  ApiInv'
<1>1. ASSUME NEW c \in Calls, Api!Closed(c), UNCHANGED <<run, stored, redline, answer>>
      PROVE  ApiInv'
  <2>1. handler'[c].page = "none" /\ \A d \in Calls : d # c => handler'[d] = handler[d]
    BY <1>1, ClosedOnce
  <2>2. ASSUME NEW d \in Calls, handler'[d].page # "none"
        PROVE  GoodHandler(handler'[d], answer'[d][handler'[d].run], run'[handler'[d].run])
    BY <1>1, <2>1, <2>2 DEF ApiInv
  <2> QED  BY <1>1, <2>2 DEF ApiInv, RunsAgree
<1> QED  BY <1>1, RunStepGood, ReadGood, AnswerGood DEF ApiStep

\* Nothing was asked and nothing was answered.
LEMMA ApiStarts ==
  ASSUME Api!Init
  PROVE  Api!TypeOK /\ ApiInv
<1> USE DEF Api!Init, Api!LifecycleInit
<1>1. Api!TypeOK
  BY DEF Api!TypeOK, Api!LifecycleTypeOK, Api!Statuses, Api!Results, Api!Handlers, Api!Answers
<1>2. RunsAgree
  BY DEF RunsAgree, Api!Terminal
<1>3. \A c, r \in Calls : answer[c][r].page = "none" /\ handler[c].page = "none"
  OBVIOUS
<1>4. ApiInv
  BY <1>2, <1>3 DEF ApiInv, GoodAnswer
<1> QED  BY <1>1, <1>4

\* The invariant of the API, whatever the page does.
LEMMA ApiInvariant == Spec => [](Api!TypeOK /\ ApiInv)
<1>1. Init => Api!TypeOK /\ ApiInv
  BY ApiStarts DEF Init
<1>2. Api!TypeOK /\ ApiInv /\ [Next]_vars => (Api!TypeOK /\ ApiInv)'
  <2> SUFFICES ASSUME Api!TypeOK, ApiInv, [Next]_vars  PROVE (Api!TypeOK /\ ApiInv)'
    OBVIOUS
  <2>1. ASSUME UNCHANGED apiVars  PROVE (Api!TypeOK /\ ApiInv)'
    BY <2>1 DEF apiVars, Api!TypeOK, Api!LifecycleTypeOK, ApiInv, RunsAgree
  <2> QED  BY <2>1, StepsOfParts, ApiTypeStep, ApiInvStep
<1> QED  BY <1>1, <1>2, PTL DEF Spec

\* get_result() never makes an answer up, although it reads the run and the result in
\* two SELECTs with commits in between: "not ready" never comes with the status of a run
\* that is over, and "ready" comes with the result of one that is.
THEOREM AnswersHonest == Spec => []AnswersAreHonest
<1>1. Api!TypeOK /\ ApiInv => AnswersAreHonest
  <2> SUFFICES ASSUME Api!TypeOK, ApiInv, NEW c \in Calls, NEW r \in Calls, Api!OfResult(c, r)
               PROVE  /\ ~answer[c][r].ready => answer[c][r].status \notin Api!Terminal
                      /\ answer[c][r].ready =>
                           /\ run[r] \in Api!Terminal
                           /\ answer[c][r].verdict = stored[r]
                           /\ answer[c][r].status \in Api!Terminal => answer[c][r].status = run[r]
    BY DEF AnswersAreHonest, Api!AnswersAreHonest
  <2>1. GoodAnswer(answer[c][r], run[r], stored[r], r \in redline)
    BY DEF ApiInv
  <2> QED  BY <2>1 DEF GoodAnswer, Api!OfResult
<1> QED  BY <1>1, ApiInvariant, PTL

\* What NeverTakenBack says of one client and one run.
Kept(old, new) ==
  old.page # "none" =>
    /\ old.page = "result" /\ old.ready /\ new.page = "result" =>
         new.ready /\ new.verdict = old.verdict /\ new.revised = old.revised
    /\ old.page = "result" /\ old.revised /\ new.page = "revised" => new.ready
    /\ old.status \in Api!Terminal => new.status = old.status
    /\ old.page = "result" /\ old.ready /\ old # new => new.status \in Api!Terminal

\* What a client was told is not taken back by the next answer: the run was read first,
\* and the result after it.
LEMMA AnswerKept ==
  ASSUME Api!TypeOK, ApiInv, NEW c \in Calls, AnswerStep(c)
  PROVE  Kept(answer[c][handler[c].run], answer'[c][handler[c].run])
<1> DEFINE r == handler[c].run
           h == handler[c].status
           old == answer[c][r]
           new == answer'[c][r]
<1>0. handler[c].page # "none"
  BY AnswerSays DEF Says
<1>1. r \in Calls
  BY <1>0, OpenHandler
<1>2. PICK what \in Api!Pages, ready \in BOOLEAN, verdict \in Api!Results, revised \in BOOLEAN :
        /\ Says(c, what, ready, verdict, revised)
        /\ SecondRead(r, what, ready, verdict, revised)
  BY SaysTrue
<1>3. new = [page |-> what, status |-> h, ready |-> ready, verdict |-> verdict,
             revised |-> revised]
  BY <1>2, SaysTyped
<1>4. GoodHandler(handler[c], old, run[r])
  BY <1>0 DEF ApiInv
<1>5. GoodAnswer(old, run[r], stored[r], r \in redline)
  BY <1>1 DEF ApiInv
<1>6. /\ new.page = what /\ new.status = h /\ new.ready = ready /\ new.verdict = verdict
      /\ new.revised = revised
  BY <1>3
<1>7. /\ stored[r] = "none" <=> run[r] \notin Api!Terminal
      /\ r \in redline => run[r] \in Api!Terminal
  BY <1>1 DEF ApiInv, RunsAgree
<1>8. old.page # "none" => old.revised \in BOOLEAN /\ old.ready \in BOOLEAN
  BY <1>1, AnswerFields
<1>9. h \in Api!Terminal => h = run[r]
  BY <1>4 DEF GoodHandler
<1>10. /\ old.page # "none" /\ old.status \in Api!Terminal => h = old.status
       /\ old.page = "result" /\ old.ready => h \in Api!Terminal
  BY <1>4 DEF GoodHandler
<1> HIDE DEF r, h, old, new
<1>11. ASSUME old.page = "result", old.ready, new.page = "result"
       PROVE  new.ready /\ new.verdict = old.verdict /\ new.revised = old.revised
  <2>1. run[r] \in Api!Terminal /\ old.verdict = stored[r] /\ (old.revised <=> r \in redline)
    BY <1>5, <1>11 DEF GoodAnswer
  <2>2. (ready <=> stored[r] # "none") /\ verdict = stored[r] /\ (revised <=> r \in redline)
    BY <1>2, <1>6, <1>11 DEF SecondRead
  <2>3. old.revised = revised
    BY <1>2, <1>8, <1>11, <2>1, <2>2
  <2> QED  BY <1>6, <1>7, <2>1, <2>2, <2>3
<1>12. ASSUME old.page = "result", old.revised, new.page = "revised"  PROVE new.ready
  BY <1>2, <1>5, <1>6, <1>12 DEF GoodAnswer, SecondRead
<1>13. Kept(old, new)
  BY <1>6, <1>10, <1>11, <1>12 DEF Kept
<1> QED  BY <1>13 DEF r, old, new

\* What a client was told, it is told again, whatever pages of the document it asks for
\* and whatever is committed between the two SELECTs of an answer: a result does not
\* change, an offered redline can be downloaded, a run that is over stays over.
THEOREM NothingTakenBack == Spec => NeverTakenBack
<1>1. ASSUME Api!TypeOK, ApiInv, [Next]_vars, NEW c \in Calls, NEW r \in Calls
      PROVE  Kept(answer[c][r], answer'[c][r])
  <2>1. CASE answer'[c][r] = answer[c][r]
    BY <1>1, <2>1, AnswerFields DEF Kept, Api!Pages, ApiInv, GoodAnswer
  <2>2. CASE answer'[c][r] # answer[c][r]
    <3>1. ApiStep
      BY <1>1, <2>2, StepsOfParts DEF apiVars
    <3>2. PICK d \in Calls : AnswerStep(d)
      BY <1>1, <2>2, <3>1 DEF ApiStep, RunStep, Api!ReadRun
    <3>3. \A e, q \in Calls : e # d \/ q # handler[d].run => answer'[e][q] = answer[e][q]
      BY <1>1, <3>2, SaysTrue, SaysTyped
    <3>4. d = c /\ r = handler[c].run
      BY <2>2, <3>3
    <3> QED  BY <1>1, <3>2, <3>4, AnswerKept
  <2> QED  BY <2>1, <2>2
<1>2. Api!TypeOK /\ ApiInv /\ [Next]_vars
        => [\A c \in Calls, r \in Calls : Kept(answer[c][r], answer'[c][r])]_Api!vars
  BY <1>1
<1> QED  BY <1>2, ApiInvariant, PTL DEF Spec, NeverTakenBack, Api!NeverTakenBack, Kept

-----------------------------------------------------------------------------
(* The page and the API.                                                     *)

\* Each call asks about its own document; an answer on its way to it is one of the
\* result; and what is shown is there, and is what the API says when it is asked again.
ShownInv ==
  /\ \A c \in Calls : handler[c].page # "none" => handler[c].run = c
  /\ \A c \in replied : call[c].at = "poll" /\ answer[c][c].page = "result"
  /\ result # NoCall =>
       /\ stored[result] # "none"
       /\ answer[result][result].page = "result" => answer[result][result].ready

\* A step of the page that shows nothing new.
LEMMA PageKeepsShown ==
  ASSUME TypeOK, ShownInv, NEW c \in Calls, UNCHANGED apiVars, replied' \in SUBSET replied,
         c \notin replied', \A d \in Calls : d # c => call'[d] = call[d],
         result' \in {result, NoCall}
  PROVE  ShownInv'
<1>1. replied \in SUBSET Calls
  BY DEF TypeOK
<1>2. UNCHANGED <<run, stored, redline, handler, answer>>
  BY DEF apiVars
<1>3. ASSUME NEW d \in replied'  PROVE call'[d].at = "poll" /\ answer'[d][d].page = "result"
  BY <1>1, <1>2, <1>3 DEF ShownInv
<1> QED  BY <1>2, <1>3 DEF ShownInv

\* The fields of the page that a step of it writes.
LEMMA PageStepMoves ==
  ASSUME PageTypeOK, NEW c \in Calls, PageStep(c)
  PROVE  \A d \in Calls : d # c => call'[d] = call[d]
<1>1. CASE Begin(c)
  BY <1>1, BeginMoves
<1>2. CASE Slept(c)
  BY <1>2, SleptMoves DEF Moves
<1>3. CASE ~Begin(c) /\ ~Slept(c)
  <2>1. \E at : Goto(c, at)
    BY <1>3 DEF PageStep, Superseded, Uploaded, Identified, Throws, Polled
  <2> QED  BY <2>1 DEF Goto, PageTypeOK
<1> QED  BY <1>1, <1>2, <1>3

\* No step breaks what joins the page and the API: an answer that travels is still true when
\* it arrives, as a result stays.
LEMMA ShownStep ==
  ASSUME TypeOK, PageInv, ApiInv, ShownInv, [Next]_vars
  PROVE  ShownInv'
<1>0. PageTypeOK /\ Api!TypeOK /\ replied \in SUBSET Calls
  BY DEF TypeOK
<1>1. result # NoCall => /\ result \in Calls /\ result = docId /\ call[result].at = "over"
                         /\ result \notin replied
  BY <1>0 DEF PageTypeOK, PageInv, ShowsNewest, ShownInv
<1>2. ASSUME NEW c \in Calls,
             \/ Select(c) \/ DropFile(c) \/ Supersede(c) \/ Upload(c) \/ Identify(c)
             \/ Sleep(c) \/ Reject(c)
      PROVE  ShownInv'
  <2>1. PageStep(c) /\ UNCHANGED apiVars /\ replied' = replied \ {c}
    BY <1>2 DEF Select, DropFile, Supersede, Upload, Identify, Sleep, Reject, Click, Drop,
                OfPage, PageStep
  <2>2. result' \in {result, NoCall}
    BY <1>2 DEF Select, DropFile, Supersede, Upload, Identify, Sleep, Reject, Click, Drop,
                Begin, Superseded, Uploaded, Identified, Slept, Throws, page
  <2> QED  BY <1>0, <2>1, <2>2, PageStepMoves, PageKeepsShown
<1>3. ASSUME NEW c \in Calls, ReceiveError(c)  PROVE ShownInv'
  <2>1. Polled(c, FALSE) /\ UNCHANGED apiVars /\ replied' = replied /\ c \notin replied
    BY <1>3 DEF ReceiveError
  <2>2. PageStep(c) /\ result' = result
    BY <2>1 DEF PageStep, Polled
  <2> QED  BY <1>0, <2>1, <2>2, PageStepMoves, PageKeepsShown
<1>4. ASSUME NEW c \in Calls, Receive(c)  PROVE ShownInv'
  <2>1. /\ c \in replied /\ Polled(c, answer[c][c].ready) /\ UNCHANGED apiVars
        /\ replied' = replied \ {c}
    BY <1>4 DEF Receive, OfPage
  <2>2. PageStep(c)
    BY <2>1, PolledEither DEF PageStep
  <2>3. \A d \in Calls : d # c => call'[d] = call[d]
    BY <1>0, <2>2, PageStepMoves
  <2>4. CASE result' = result
    BY <2>1, <2>3, <2>4, PageKeepsShown
  <2>5. CASE result' # result
    <3>1. result' = c /\ answer[c][c].ready
      BY <2>1, <2>5 DEF Polled
    <3>2. answer[c][c].page = "result"
      BY <2>1 DEF ShownInv
    <3>3. GoodAnswer(answer[c][c], run[c], stored[c], c \in redline)
      BY DEF ApiInv
    <3>4. stored[c] # "none"
      BY <3>1, <3>2, <3>3 DEF GoodAnswer, ApiInv, RunsAgree
    <3>5. UNCHANGED <<run, stored, redline, handler, answer>>
      BY <2>1 DEF apiVars
    <3>6. \A d \in replied' : call'[d].at = "poll" /\ answer'[d][d].page = "result"
      BY <1>0, <2>1, <2>3, <3>5 DEF ShownInv
    <3> QED  BY <3>1, <3>4, <3>5, <3>6 DEF ShownInv
  <2> QED  BY <2>4, <2>5
<1>5. ASSUME NEW c \in Calls, Submit(c) \/ Execute(c)  PROVE ShownInv'
  <2>1. RunStep(c)
    BY <1>5 DEF Submit, Execute, RunStep, Api!Store
  <2>2. UNCHANGED <<pageVars, replied>>
    BY <1>5 DEF Submit, Execute, OfApi
  <2>3. result # NoCall => result # c
    <3>1. run[c] \notin Api!Terminal
      BY <1>0, <2>1, RunMoves
    <3>2. result # NoCall => run[result] \in Api!Terminal
      BY <1>1 DEF ShownInv, ApiInv, RunsAgree
    <3> QED  BY <3>1, <3>2
  <2>4. /\ result # NoCall => stored'[result] = stored[result]
        /\ UNCHANGED <<handler, answer>>
    BY <1>0, <1>1, <2>1, <2>3, RunMoves
  <2> QED  BY <2>2, <2>4 DEF ShownInv, pageVars, page
\* A handler that opens or closes.
<1>6. ASSUME NEW c \in Calls, UNCHANGED <<pageVars, replied, run, stored, redline, answer>>,
             handler'[c].page # "none" => handler'[c].run = c,
             \A d \in Calls : d # c => handler'[d] = handler[d]
      PROVE  ShownInv'
  <2>1. \A d \in Calls : handler'[d].page # "none" => handler'[d].run = d
    BY <1>6 DEF ShownInv
  <2> QED  BY <1>6, <2>1 DEF ShownInv, pageVars, page
<1>7. ASSUME NEW c \in Calls, NEW what \in Api!Pages, Api!ReadRun(c, what, c), OfApi
      PROVE  ShownInv'
  <2>1. /\ handler'[c] = [page |-> what, run |-> c, status |-> run[c]]
        /\ \A d \in Calls : d # c => handler'[d] = handler[d]
    BY <1>0, <1>7 DEF Api!ReadRun, Api!TypeOK
  <2>2. handler'[c].run = c
    BY <2>1
  <2> QED  BY <1>6, <1>7, <2>1, <2>2 DEF Api!ReadRun, OfApi
<1>8. ASSUME NEW c \in Calls, Poll(c)  PROVE ShownInv'
  BY <1>7, <1>8 DEF Poll, Api!Pages
<1>9. ASSUME NEW c \in Calls, Abandon(c)  PROVE ShownInv'
  <2>1. handler'[c].page = "none" /\ \A d \in Calls : d # c => handler'[d] = handler[d]
    BY <1>0, <1>9, ClosedOnce DEF Abandon
  <2> QED  BY <1>6, <1>9, <2>1 DEF Abandon, OfApi
\* An answer about a call's own document.
<1>10. ASSUME NEW c \in Calls, AnswerStep(c), UNCHANGED pageVars,
              replied' \in {replied, replied \cup {c}},
              c \in replied' => call[c].at = "poll" /\ answer'[c][c].page = "result"
       PROVE  ShownInv'
  <2>1. handler[c].page # "none" /\ handler[c].run = c
    BY <1>0, <1>10, AnswerSays DEF Says, ShownInv
  <2>2. \A d, q \in Calls : d # c \/ q # c => answer'[d][q] = answer[d][q]
    <3>1. \A d, q \in Calls : d # c \/ q # handler[c].run => answer'[d][q] = answer[d][q]
      BY <1>0, <1>10, SaysTrue, SaysTyped
    <3> QED  BY <2>1, <3>1
  <2>3. UNCHANGED <<run, stored, redline>>
    BY <1>0, <1>10, AnswerSays
  <2>4. GoodAnswer(answer'[c][c], run[c], stored[c], c \in redline)
    BY <1>0, <1>10, <2>1, SaysGood
  <2>5. \A d \in Calls : handler'[d].page # "none" => handler'[d].run = d
    <3>1. handler'[c].page = "none" /\ \A d \in Calls : d # c => handler'[d] = handler[d]
      BY <1>0, <1>10, AnswerSays, ClosedOnce
    <3> QED  BY <3>1 DEF ShownInv
  <2>6. \A d \in replied' : call'[d].at = "poll" /\ answer'[d][d].page = "result"
    BY <1>0, <1>10, <2>2 DEF ShownInv, pageVars
  <2>7. ASSUME result # NoCall, answer'[result][result].page = "result"
        PROVE  answer'[result][result].ready
    <3>1. CASE result = c
      <4>1. PICK what \in Api!Pages, ready \in BOOLEAN, verdict \in Api!Results,
                 revised \in BOOLEAN : /\ Says(c, what, ready, verdict, revised)
                                       /\ SecondRead(handler[c].run, what, ready, verdict, revised)
        BY <1>0, <1>10, SaysTrue
      <4>2. answer'[c][c] = [page |-> what, status |-> handler[c].status, ready |-> ready,
                             verdict |-> verdict, revised |-> revised]
        BY <1>0, <2>1, <4>1, SaysTyped
      <4>3. answer'[c][c].page = what /\ answer'[c][c].ready = ready
        BY <4>2
      <4>4. stored[c] # "none"
        BY <2>7, <3>1 DEF ShownInv
      <4> QED  BY <2>1, <2>7, <3>1, <4>1, <4>3, <4>4 DEF SecondRead
    <3>2. CASE result # c
      BY <1>1, <2>2, <2>7, <3>2 DEF ShownInv
    <3> QED  BY <3>1, <3>2
  <2> QED  BY <1>10, <2>3, <2>5, <2>6, <2>7 DEF ShownInv, pageVars, page
<1>11. ASSUME NEW c \in Calls, Reply(c)  PROVE ShownInv'
  <2>1. AnswerStep(c) /\ UNCHANGED pageVars /\ handler[c].page = "result"
    BY <1>11 DEF Reply, AnswerStep, Api!AnswerResult
  <2>2. handler[c].run = c
    BY <2>1 DEF ShownInv
  <2>3. answer'[c][c].page = "result"
    <3>1. Api!Answered(c, c, "result", handler[c].status, stored[c] # "none", stored[c],
                       c \in redline)
      BY <1>11, <2>2 DEF Reply, Api!AnswerResult, Api!HasRedline
    <3> QED  BY <1>0, <3>1 DEF Api!Answered, Api!TypeOK
  <2>4. /\ replied' \in {replied, replied \cup {c}}
        /\ c \in replied' => call[c].at = "poll"
    BY <1>11 DEF Reply, ShownInv
  <2> QED  BY <1>10, <2>1, <2>3, <2>4
<1>12. ASSUME NEW c \in Calls, Visit(c)  PROVE ShownInv'
  <2>1. c \notin replied
    BY <1>12 DEF Visit, ShownInv
  <2>2. CASE Api!AnswerStatus(c) \/ Api!AnswerRevised(c)
    BY <1>10, <1>12, <2>1, <2>2 DEF Visit, AnswerStep, OfApi
  <2>3. CASE \E what \in Api!Pages : Api!ReadRun(c, what, c)
    BY <1>7, <1>12, <2>3 DEF Visit
  <2> QED  BY <1>12, <2>2, <2>3 DEF Visit
<1>13. CASE UNCHANGED vars
  BY <1>13 DEF vars, pageVars, page, apiVars, ShownInv
<1> QED  BY <1>2, <1>3, <1>4, <1>5, <1>8, <1>9, <1>11, <1>12, <1>13 DEF Next, Progress

\* Every variable of the page, of the API and of the way between them stays in its type.
THEOREM PageTypeCorrect == Spec => []TypeOK
<1>1. Init => TypeOK
  BY PageStarts, ApiStarts, JoinAssumption DEF Init, TypeOK
<1>2. TypeOK /\ [Next]_vars => TypeOK'
  <2> SUFFICES ASSUME TypeOK, [Next]_vars  PROVE TypeOK'
    OBVIOUS
  <2>1. PageTypeOK'
    <3>1. ASSUME UNCHANGED pageVars  PROVE PageTypeOK'
      BY <3>1 DEF pageVars, page, PageTypeOK, TypeOK
    <3> QED  BY <3>1, StepsOfParts, PageTypeStep DEF TypeOK
  <2>2. Api!TypeOK'
    <3>1. ASSUME UNCHANGED apiVars  PROVE Api!TypeOK'
      BY <3>1 DEF apiVars, TypeOK, Api!TypeOK, Api!LifecycleTypeOK
    <3> QED  BY <3>1, StepsOfParts, ApiTypeStep DEF TypeOK
  <2>3. replied \in SUBSET Calls /\ errors \in 0 .. MaxErrors
    BY DEF TypeOK
  <2>4. replied' \in SUBSET Calls
    BY <2>3 DEF Next, Progress, Select, DropFile, Supersede, Upload, Identify, Sleep, Reject,
                OfPage, OfApi, Submit, Execute, Poll, Reply, Abandon, Receive, ReceiveError,
                Visit, vars
  <2>5. \/ errors' = errors
        \/ errors < MaxErrors /\ errors' = errors + 1
    BY DEF Next, Progress, Select, DropFile, Supersede, Upload, Identify, Sleep, Reject,
           OfPage, OfApi, Submit, Execute, Poll, Reply, Abandon, Receive, ReceiveError,
           Visit, vars
  <2>6. errors' \in 0 .. MaxErrors
    BY <2>3, <2>5, JoinAssumption
  <2> QED  BY <2>1, <2>2, <2>4, <2>6 DEF TypeOK
<1> QED  BY <1>1, <1>2, PTL DEF Spec

\* if (r.ready): the page shows a result only of a run that has one, and the one the run
\* has; no error, no "not ready" and no answer to another analysis is taken for it, and
\* what the links of the page load later does not contradict it.
THEOREM ShownResultsAreStored == Spec => []ShownIsStored
<1>1. Init => ShownInv
  <2> SUFFICES ASSUME Init  PROVE ShownInv
    OBVIOUS
  <2>1. \A c \in Calls : handler[c].page = "none"
    BY DEF Init, Api!Init
  <2> QED  BY <2>1 DEF Init, PageInit, ShownInv
<1>2. TypeOK /\ PageInv /\ ApiInv /\ ShownInv /\ [Next]_vars => ShownInv'
  BY ShownStep
<1>3. TypeOK /\ PageInv /\ ApiInv /\ ShownInv => ShownIsStored
  <2> SUFFICES ASSUME TypeOK, PageInv, ApiInv, ShownInv, result # NoCall
               PROVE  /\ stored[result] # "none"
                      /\ answer[result][result].page = "result" =>
                           /\ answer[result][result].ready
                           /\ answer[result][result].verdict = stored[result]
                      /\ status = "done"
    BY DEF ShownIsStored
  <2>1. result \in Calls
    BY DEF TypeOK, PageTypeOK
  <2>2. GoodAnswer(answer[result][result], run[result], stored[result], result \in redline)
    BY <2>1 DEF ApiInv
  <2> QED  BY <2>1, <2>2 DEF GoodAnswer, ShownInv, PageInv, ShowsNewest
<1> QED  BY <1>1, <1>2, <1>3, PageTypeCorrect, PageInvariant, ApiInvariant, PTL DEF Spec
=============================================================================

---------------------------- MODULE MCDocuments ----------------------------
(***************************************************************************)
(* The functions of the service that turn one document into another, each  *)
(* on every small input: an input is picked, or written, and the           *)
(* properties are about what the functions return for it.                  *)
(***************************************************************************)
EXTENDS DocumentFsm, TextChunks, Redline, DocumentReader, SequencesExt

CONSTANTS
  MaxRows,         \* the rows of a machine
  MaxText,         \* the characters of a text
  MaxRedline,      \* the pieces of a redline
  MaxFilePages     \* the pages of a file

VARIABLE input

Heading(id, level, initial) == [id |-> id, level |-> level, initial |-> initial]

\* A flat machine; a composite with two children and a state; two composites; a
\* composite in a composite.
Shapes ==
  {<<Heading("a", 2, TRUE), Heading("b", 2, FALSE), Heading("c", 2, FALSE)>>,
   <<Heading("a", 2, TRUE), Heading("a1", 3, TRUE), Heading("a2", 3, FALSE),
     Heading("b", 2, FALSE)>>,
   <<Heading("a", 2, TRUE), Heading("a1", 3, TRUE), Heading("b", 2, FALSE),
     Heading("b1", 3, FALSE)>>,
   <<Heading("a", 2, TRUE), Heading("b", 2, FALSE), Heading("b1", 3, TRUE),
     Heading("b2", 4, TRUE)>>}

Rows(headings) ==
  LET ids == {headings[i].id : i \in DOMAIN headings}
  IN  [from : ids, event : {"go"}, to : ids \cup {"nowhere"}]

RowSets(headings) == UNION {kSubset(n, Rows(headings)) : n \in 0 .. MaxRows}

\* "## transitions" is below all headings or above the last; and below all rows, if it
\* is there at all, or above them.
Documents ==
  UNION {UNION {[headings : {h}, rows : {rows}, cut : {Len(h) - 1, Len(h)}, early : {{}, rows}] :
                  rows \in RowSets(h)} : h \in Shapes}

SeqsUpTo(S, n) == UNION {[1 .. k -> S] : k \in 0 .. n}

\* Redlines are put together of markers and of what can become part of one.
Pieces == Markers \cup {<<ch>> : ch \in Letters \cup {"{", "}", "-", "+"}}

Files == [opens : BOOLEAN, pages : SeqsUpTo(Pages, MaxFilePages)]

Init == input = <<"nothing">>

Pick(inputs) == input = <<"nothing">> /\ input' \in inputs

PickMachine == Pick({<<"machine", d>> : d \in Documents})
PickText    == Pick({<<"text", t>> : t \in SeqsUpTo(Chars, MaxText)})
PickUpload  == Pick({<<"upload", ext, f>> : ext \in Extensions, f \in Files})

\* A redline is written piece by piece.
PickRedline == Pick({<<"redline", <<>>, 0>>})

WriteRedline ==
  /\ input[1] = "redline" /\ input[3] < MaxRedline
  /\ \E piece \in Pieces : input' = <<"redline", input[2] \o piece, input[3] + 1>>

Next == PickMachine \/ PickText \/ PickRedline \/ WriteRedline \/ PickUpload

Spec == Init /\ [][Next]_input

-----------------------------------------------------------------------------
\* What the page draws and what the verifier is given tell the same story.  A state the
\* verifier reaches can be entered in the diagram, unless a composite that can be
\* entered has a child that cannot (its rows are hoisted all the same).  And no state of
\* the diagram is falsely flagged "unreachable", if all headings are above the
\* transitions, as far as rows go that leave one composite at a time.
AgreesWithVerified(doc) ==
  LET m        == Machine(doc)
      verified == Reached(VerifiedCopy(doc))
      drawn(n) == Reachable(Pictured(Diagram(n)))
  IN  /\ NoDeadChild(m) => verified \subseteq drawn(m)
      /\ StatesFirst(doc) => drawn(Shallow(m)) \subseteq verified

DiagramAgreesWithVerified == input[1] = "machine" => AgreesWithVerified(input[2])

\* The chunks are pieces of the text, in its order and without overlap, and what is
\* outside of them is blank.
PiecesOf(text, chunks) ==
  \E at \in [DOMAIN chunks -> 1 .. Len(text) + 1] :
    /\ \A i \in DOMAIN chunks :
         /\ at[i] + Len(chunks[i]) <= Len(text) + 1
         /\ \A k \in DOMAIN chunks[i] : chunks[i][k] = text[at[i] + k - 1]
         /\ i + 1 \in DOMAIN chunks => at[i] + Len(chunks[i]) <= at[i + 1]
    /\ \A k \in DOMAIN text :
         IsBlank(text[k]) \/ \E i \in DOMAIN chunks : k \in at[i] .. at[i] + Len(chunks[i]) - 1

\* No chunk is empty or too long, none starts with a blank, and every one but the last
\* is at least half full.
WellFilled(chunks) ==
  \A i \in DOMAIN chunks :
    /\ Len(chunks[i]) \in 1 .. MaxChars
    /\ ~IsBlank(chunks[i][1])
    /\ i < Len(chunks) => 2 * Len(chunks[i]) >= MaxChars

\* Nothing of a document but blanks is lost between its chunks, and the number of calls
\* to the model is at most twice the least possible.
CoveredByChunks(text) ==
  /\ PiecesOf(text, Split(text))
  /\ Strip(text) # <<>> => WellFilled(Split(text))

ChunksCoverText == input[1] = "text" => CoveredByChunks(input[2])

\* As long as no brace of the text touches a marker: no marker is ever downloaded, and
\* what is downloaded is what the page showed without the struck-through text, unless
\* there is a marker in what it showed (one that the model put inside an insertion).
CleanIsShown(r) ==
  Apart(r) => /\ ~HasMarker(Clean(r))
              /\ ~HasMarker(Shown[r]) => Shown[r] = Clean(r)

DownloadIsShown == input[1] = "redline" => CleanIsShown(input[2])

\* A chunk of a document whose deletions are all closed does not touch what the others
\* say.  An insertion that is left open does not either, unless the text has braces
\* that touch a marker.
CleanInParts(r) ==
  \A n \in 0 .. Len(r) :
    LET first == SubSeq(r, 1, n)
        rest  == SubSeq(r, n + 1, Len(r))
    IN  /\ ClosesDeletions(first)
        /\ ClosesInsertions(first) \/ (Apart(first) /\ Apart(rest))
        => Clean(Joined(first, rest)) = Joined(Clean(first), Clean(rest))

ChunksIndependent == input[1] = "redline" => CleanInParts(input[2])

\* A document is read with its text or with an error, never with neither, and an
\* upload is read alike by the api and by the parser service, although each has a
\* default of its own for a file without an extension.
ReadAlike(ext, file) ==
  LET readBy(service) == ParseDocument(service, BlobExtension(ext), file)
  IN  /\ \A service \in {"none", "up", "down"} :
           Ok(readBy(service)) <=> readBy(service).error = "none"
      /\ readBy("up") = readBy("none")

UploadsReadAlike == input[1] = "upload" => ReadAlike(input[2], input[3])
=============================================================================

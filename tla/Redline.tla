------------------------------- MODULE Redline -------------------------------
(***************************************************************************)
(* A redline is text with changes marked in it: removed text between       *)
(* DelOpen and DelClose, added text between InsOpen and InsClose.  The     *)
(* model writes it chunk by chunk, the page renders it (renderRedline of   *)
(* web/app/page.tsx) and the download resolves it (clean_revision of       *)
(* backend/export/redline.py).  A redline is a sequence of characters:     *)
(* nothing makes the model balance its markers, the text has braces and    *)
(* dashes of its own, and what is removed can leave a new marker behind.   *)
(***************************************************************************)
EXTENDS Naturals, Sequences, FiniteSetsExt

CONSTANT Letters     \* the characters of a text that are in no marker

Characters == Letters \cup {"\n", "{", "}", "-", "+"}

DelOpen  == <<"{", "-", "-">>
DelClose == <<"-", "-", "}">>
InsOpen  == <<"{", "+", "+">>
InsClose == <<"+", "+", "}">>
Markers  == {DelOpen, DelClose, InsOpen, InsClose}

\* The text w is in r, from the i-th character on.
At(r, i, w) == \A k \in DOMAIN w : i + k - 1 \in DOMAIN r /\ r[i + k - 1] = w[k]

MarkerAt(r, i) == \E w \in Markers : At(r, i, w)

Rest(r, n) == SubSeq(r, n + 1, Len(r))

\* Mutant: the match is greedy.
EndOf_Greedy(r, open, close) ==
  LET ends == {j \in 4 .. Len(r) : At(r, j, close)}
  IN  IF At(r, 1, open) /\ ends # {} THEN Max(ends) + 2 ELSE 0

\* How much of r the pattern open .*? close matches at its start; 0: no match.
EndOf(r, open, close) ==
  LET ends == {j \in 4 .. Len(r) : At(r, j, close)}
  IN  IF At(r, 1, open) /\ ends # {} THEN Min(ends) + 2 ELSE 0

Deletion  == [r \in Seq(Characters) |-> EndOf(r, DelOpen, DelClose)]
Insertion == [r \in Seq(Characters) |-> EndOf(r, InsOpen, InsClose)]
Stray     == [r \in Seq(Characters) |-> IF MarkerAt(r, 1) THEN 3 ELSE 0]

\* The group of a match that ends at n.
Group(r, n) == SubSeq(r, 4, n - 3)

\* sub(): one pass, from the left.  match[r] is how much the pattern matches at the
\* start of r, and put[r] is what replaces it.
Sub(match, put) ==
  LET sub[r \in Seq(Characters)] ==
        IF r = <<>> THEN <<>>
        ELSE IF match[r] > 0 THEN put[r] \o sub[Rest(r, match[r])]
        ELSE <<Head(r)>> \o sub[Tail(r)]
  IN  sub

Nothing == [r \in Seq(Characters) |-> <<>>]

-----------------------------------------------------------------------------
\* Deletions go, insertions stay without their markers, and then "strip any
\* stray/unbalanced markers".
WithoutDeletions == Sub(Deletion, Nothing)
Unwrapped        == Sub(Insertion, [r \in Seq(Characters) |-> Group(r, Insertion[r])])
Stripped         == Sub(Stray, Nothing)

\* Mutant: the stray markers stay.
Clean_KeepsStray(redline) == Unwrapped[WithoutDeletions[redline]]

\* clean_revision().
Clean(redline) == Stripped[Unwrapped[WithoutDeletions[redline]]]

-----------------------------------------------------------------------------
\* renderRedline(): the text as it is shown but for what is struck through.  The
\* text of an insertion is shown as it is, also a marker in it, and what is left
\* between the changes is stripped piece by piece.
Change == [r \in Seq(Characters) |->
             IF Deletion[r] > 0 THEN Deletion[r]
             ELSE IF Insertion[r] > 0 THEN Insertion[r] ELSE Stray[r]]

Shown == Sub(Change, [r \in Seq(Characters) |->
                        IF Insertion[r] > 0 THEN Group(r, Insertion[r]) ELSE <<>>])

-----------------------------------------------------------------------------
\* revise_contract(): the redline of a document is those of its chunks, joined.
Joined(first, rest) == first \o <<"\n", "\n">> \o rest

\* What can be said of a redline.

HasMarker(r) == \E i \in DOMAIN r : MarkerAt(r, i)

\* No brace of the text is so near to a marker that it could be part of another one
\* when that marker, or a change, is gone.
Apart(r) ==
  \A i, j \in DOMAIN r :
    MarkerAt(r, j) => /\ r[i] = "{" => j \notin i + 1 .. i + 2
                      /\ r[i] = "}" => i \notin j + 3 .. j + 4

Has(r, w) == \E i \in DOMAIN r : At(r, i, w)

\* Every deletion (insertion) that is opened is closed.
ClosesDeletions(r)  == ~Has(WithoutDeletions[r], DelOpen)
ClosesInsertions(r) == ~Has(Unwrapped[WithoutDeletions[r]], InsOpen)
=============================================================================

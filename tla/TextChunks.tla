----------------------------- MODULE TextChunks -----------------------------
(***************************************************************************)
(* _split_into_chunks() of backend/llm/together.py: the text of a document *)
(* is cut into chunks of at most MaxChars characters, each of which is     *)
(* sent to the model on its own.  A text is a sequence of characters of    *)
(* three kinds: letters, spaces and newlines.                              *)
(***************************************************************************)
EXTENDS Naturals, Sequences, FiniteSetsExt

CONSTANT MaxChars     \* _CHUNK_CHARS

ASSUME ChunkAssumption == MaxChars \in Nat \ {0, 1}

Chars == {"x", " ", "\n"}

IsBlank(ch) == ch # "x"

LStrip(t) ==
  LET ink == {i \in DOMAIN t : ~IsBlank(t[i])}
  IN  IF ink = {} THEN <<>> ELSE SubSeq(t, Min(ink), Len(t))

Strip(t) ==
  LET ink == {i \in DOMAIN t : ~IsBlank(t[i])}
  IN  IF ink = {} THEN <<>> ELSE SubSeq(t, Min(ink), Max(ink))

\* A break (the length of what is before it) in the first half of the window would
\* make a short chunk, and is not taken.
Late(breaks) == {b \in breaks : 2 * b >= MaxChars}

ParagraphEnds(t) ==
  Late({b \in 0 .. MaxChars - 2 : t[b + 1] = "\n" /\ t[b + 2] = "\n"})
LineEnds(t) == Late({b \in 0 .. MaxChars - 1 : t[b + 1] = "\n"})
WordEnds(t) == Late({b \in 0 .. MaxChars - 1 : t[b + 1] = " "})

\* Mutant: the last break is taken wherever it is, also right at the start.
BreakAt_Anywhere(t) ==
  LET blanks == {b \in 0 .. MaxChars - 1 : IsBlank(t[b + 1])}
  IN  IF blanks # {} THEN Max(blanks) ELSE MaxChars

\* The last paragraph, else the last line, else the last word of the window.
BreakAt(t) ==
  CASE ParagraphEnds(t) # {} -> Max(ParagraphEnds(t))
    [] ParagraphEnds(t) = {} /\ LineEnds(t) # {} -> Max(LineEnds(t))
    [] ParagraphEnds(t) \cup LineEnds(t) = {} /\ WordEnds(t) # {} -> Max(WordEnds(t))
    [] OTHER -> MaxChars

\* The first chunk of a text that is too long for one, and what is split after it.
First(t) == SubSeq(t, 1, BreakAt(t))
After(t) == LStrip(SubSeq(t, BreakAt(t) + 1, Len(t)))

Chunks[t \in Seq(Chars)] ==
  IF Len(t) > MaxChars THEN <<First(t)>> \o Chunks[After(t)]
  ELSE IF t = <<>> THEN <<>> ELSE <<t>>

Split(text) == IF Strip(text) = <<>> THEN <<text>> ELSE Chunks[Strip(text)]
=============================================================================

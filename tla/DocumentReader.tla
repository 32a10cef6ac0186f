--------------------------- MODULE DocumentReader ---------------------------
(***************************************************************************)
(* From a file to its text: the extension under which an upload is kept    *)
(* (submit_document), read_document() of backend/ocr/reader.py, and        *)
(* parse_document() of backend/ocr/parser_client.py, which reads in the    *)
(* same process or sends the file to the parser service (backend/parser).  *)
(*                                                                         *)
(* A file is whether the library for its extension can open it, and its    *)
(* pages: how much text is embedded in each and what OCR makes of it.  A   *)
(* plain text or a .docx file counts as pages without OCR.                 *)
(***************************************************************************)
EXTENDS Naturals, Sequences

CONSTANT MaxPages     \* MAX_PAGES

ASSUME PagesAssumption == MaxPages \in Nat

Extensions == {"docx", "text", "fitz", "none", "unknown"}
Pages      == [embedded : {"none", "few", "enough"}, ocr : {"failed", "blank", "text"}]

Failure(error) == [error |-> error, text |-> FALSE, methods |-> <<>>]

\* OCRResult.ok
Ok(result) == result.error = "none" /\ result.text

-----------------------------------------------------------------------------
\* _read_text(), _read_docx()
ReadPlain(file) ==
  IF \A i \in DOMAIN file.pages : file.pages[i].embedded = "none" THEN Failure("empty")
  ELSE [error |-> "none", text |-> TRUE, methods |-> <<"whole">>]

\* A page with too little embedded text is replaced by what OCR reads, if it works.
Method(page) ==
  IF page.embedded # "enough" /\ page.ocr # "failed" THEN "tesseract" ELSE "embedded"

HasText(page) ==
  IF Method(page) = "tesseract" THEN page.ocr = "text" ELSE page.embedded # "none"

\* _read_fitz()
ReadPages(file) ==
  LET text == \E i \in DOMAIN file.pages : HasText(file.pages[i])
  IN  IF Len(file.pages) > MaxPages THEN Failure("too_long")
      ELSE [error   |-> IF text THEN "none" ELSE "empty",
            text    |-> text,
            methods |-> [i \in DOMAIN file.pages |-> Method(file.pages[i])]]

\* read_document()
Read(ext, file) ==
  CASE ext = "unknown"                                 -> Failure("unsupported")
    [] ext # "unknown" /\ ~file.opens                  -> Failure("unreadable")
    [] ext \in {"docx", "text"} /\ file.opens          -> ReadPlain(file)
    [] ext \in {"fitz", "none"} /\ file.opens          -> ReadPages(file)

-----------------------------------------------------------------------------
\* Mutant: an upload without an extension is kept without one.
BlobExtension_AsUploaded(ext) == ext

\* submit_document(): ".pdf" when the name of the upload has no extension.
BlobExtension(ext) == IF ext = "none" THEN "fitz" ELSE ext

\* parse() of the service: ".bin" when the name it is sent has no extension.
ServiceExtension(ext) == IF ext = "none" THEN "unknown" ELSE ext

\* parse_document(): "none" is no PARSER_URL, "down" a service that does not answer
\* or answers with an error.
ParseDocument(service, ext, file) ==
  CASE service = "none" -> Read(ext, file)
    [] service = "up"   -> Read(ServiceExtension(ext), file)
    [] service = "down" -> Failure("service")
=============================================================================

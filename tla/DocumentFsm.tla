----------------------------- MODULE DocumentFsm -----------------------------
(***************************************************************************)
(* backend/orca/document_fsm.py: the state machine the model extracted     *)
(* from a document, the copy of it that is given to the ORCA verifier, and *)
(* the diagram that is shown beside the verifier's answer.                 *)
(*                                                                         *)
(* A document has a heading for each state, whose level says what the      *)
(* state is nested in, and a row for each transition; "## transitions" is  *)
(* expected above the rows, but the model may put it anywhere: the first   *)
(* cut headings and the rows early are before it.  A machine is what       *)
(* _parse_machine() reads of that.  The lists of rows of the code are sets *)
(* here (nothing depends on their order), labels are left out, and the ids *)
(* of the headings are taken to differ.                                    *)
(***************************************************************************)
EXTENDS Naturals, Sequences, FiniteSets, FiniteSetsExt

CONSTANT NoState     \* no parent; no composite

\* The stack of _parse_machine() keeps, of the headings so far, those that are
\* above every later one; its top is the last heading of a higher rank.
ParentAt(headings, i) ==
  LET above == {j \in 1 .. i - 1 : headings[j].level < headings[i].level}
  IN  IF above = {} THEN NoState ELSE headings[Max(above)].id

Parsed(headings, rows) ==
  LET at(id) == CHOOSE i \in DOMAIN headings : headings[i].id = id
      ids    == {headings[i].id : i \in DOMAIN headings}
  IN  [states  |-> ids,
       parent  |-> [s \in ids |-> ParentAt(headings, at(s))],
       initial |-> {s \in ids : headings[at(s)].initial},
       rows    |-> rows]

\* parent_of; a row may name a state that has no heading.
ParentOf(m, s) == IF s \in m.states THEN m.parent[s] ELSE NoState

Flat(m) == \A s \in m.states : m.parent[s] = NoState

-----------------------------------------------------------------------------
(* _normalize_for_verification(): the copy that is verified.                 *)

\* A child that leaves its composite.
Leaves(m, row) ==
  LET p == ParentOf(m, row.from)
  IN  p # NoState /\ ParentOf(m, row.to) # p /\ row.to # p

Hoisted(m, row) ==
  IF Leaves(m, row) THEN [row EXCEPT !.from = ParentOf(m, row.from)] ELSE row

Machine(doc) == Parsed(doc.headings, doc.rows)

\* Mutant: the document is verified as it is written.
VerifiedCopy_AsWritten(doc) == Machine(doc)

\* What is before "## transitions" is kept, the rows in it included, and all rows follow,
\* hoisted; a state with a heading below it is in the diagram only.
VerifiedCopy(doc) ==
  LET m == Machine(doc)
  IN  IF Flat(m) THEN m
      ELSE Parsed(SubSeq(doc.headings, 1, doc.cut),
                  doc.early \cup {Hoisted(m, r) : r \in m.rows})

-----------------------------------------------------------------------------
(* _build_mermaid(): the diagram, box by box; NoState is the page itself.    *)

Composites(m) == {m.parent[s] : s \in m.states} \ {NoState}

\* A row is drawn inside a box when it joins two states of that box.
BoxOf(m, row) ==
  IF ParentOf(m, row.from) = ParentOf(m, row.to) THEN ParentOf(m, row.from) ELSE NoState

Diagram(m) ==
  [box \in Composites(m) \cup {NoState} |->
     [members |-> {s \in m.states : m.parent[s] = box},
      starts  |-> {s \in m.initial : m.parent[s] = box},
      edges   |-> {r \in m.rows : BoxOf(m, r) = box}]]

\* What a reader of the diagram takes the machine for.  An edge that is drawn in a
\* box is read as one between the members of the box.
Pictured(d) ==
  LET shown == UNION {d[b].members : b \in DOMAIN d}
  IN  [states  |-> shown,
       parent  |-> [s \in shown |-> CHOOSE b \in DOMAIN d : s \in d[b].members],
       initial |-> UNION {d[b].starts : b \in DOMAIN d},
       rows    |-> d[NoState].edges \cup
                   {r \in UNION {d[b].edges : b \in DOMAIN d \ {NoState}} :
                      \E b \in DOMAIN d : {r.from, r.to} \subseteq d[b].members}]

-----------------------------------------------------------------------------
(* What running a machine means to who reads its diagram, and in UML: whoever is *)
(* in a child is in its composite, whoever enters a composite enters its initial *)
(* child, and a row can be taken by whoever is in its source.                    *)

Inside(m, A) ==
  /\ \A s \in m.initial : ParentOf(m, s) \in A \cup {NoState} => s \in A
  /\ \A s \in A : ParentOf(m, s) # NoState => ParentOf(m, s) \in A
  /\ \A r \in m.rows : r.from \in A => r.to \in A

\* The states that can be entered: those in every set that has all it leads to.
Reachable(m) ==
  LET named == m.states \cup {r.from : r \in m.rows} \cup {r.to : r \in m.rows}
  IN  {s \in named : \A A \in SUBSET named : Inside(m, A) => s \in A}

\* The ORCA verifier (external) does not follow all rows: a child reaches its siblings
\* and its composite, but a row of a child to a state outside of its composite is "NOT
\* reaching the external state".
Followed(m) ==
  {r \in m.rows : LET p == ParentOf(m, r.from)
                  IN  p = NoState \/ r.to = p \/ ParentOf(m, r.to) = p}

Reached(m) == Reachable([m EXCEPT !.rows = Followed(m)])

-----------------------------------------------------------------------------
(* What can be said of a machine and of a document.                          *)

\* In a composite that can be entered every state can be: no dead child.
NoDeadChild(m) ==
  \A s \in m.states : m.parent[s] \in Reachable(m) => s \in Reachable(m)

\* A row out of a composite that is itself a child of one the row also leaves.
LeavesTwo(m, row) ==
  Leaves(m, row) /\ Leaves(m, [row EXCEPT !.from = ParentOf(m, row.from)])

\* The rows that leave one composite at most.
Shallow(m) == [m EXCEPT !.rows = {r \in m.rows : ~LeavesTwo(m, r)}]

\* All headings are above the transitions, as the model is asked to write them.
StatesFirst(doc) == doc.cut = Len(doc.headings)
=============================================================================

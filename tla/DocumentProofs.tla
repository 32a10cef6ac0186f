--------------------------- MODULE DocumentProofs ---------------------------
(***************************************************************************)
(* What holds of every machine a document may contain, of every file that  *)
(* is uploaded, of every text and of every redline: the diagram of a       *)
(* machine agrees with the copy of it that is verified, an upload is read  *)
(* alike wherever it is parsed, the chunks of a text cover it, what is     *)
(* downloaded of a redline is what the page shows, and its chunks do not   *)
(* touch each other.                                                       *)
(*                                                                         *)
(* None of it is proved by induction over data.  Reachable(m) is the least *)
(* set that is Inside m, so the proofs about machines compare what is      *)
(* Inside a machine with what is Inside its copy.  The functions on texts  *)
(* and redlines are recursive: that they are solutions of their            *)
(* definitions is RecursionHasSolution, and what holds of every sequence   *)
(* is proved of a shortest one of which it would not hold (ShortestOne).   *)
(***************************************************************************)
EXTENDS MCDocuments, WellFoundedInduction, SequenceTheorems, TLAPS

-----------------------------------------------------------------------------
(* Machines.                                                                 *)

\* What _parse_machine() may have read: any headings at all, in any order, and any
\* rows, also between states that have no heading.
IsHeadings(headings) ==
  \E ids : headings \in Seq([id : ids, level : Nat, initial : BOOLEAN])

IsRows(rows) ==
  \E ids, events : rows \subseteq [from : ids, event : events, to : ids]

\* A machine, as far as its fields go.
IsMachine(m) ==
  /\ m = [states |-> m.states, parent |-> m.parent, initial |-> m.initial, rows |-> m.rows]
  /\ m.parent \in [m.states -> m.states \cup {NoState}]
  /\ m.initial \subseteq m.states
  /\ \A r \in m.rows : r = [from |-> r.from, event |-> r.event, to |-> r.to]

\* A set of numbers below a bound has a greatest one, ...
LEMMA GreatestBelow ==
  ASSUME NEW n \in Nat, NEW S \in SUBSET (1 .. n), S # {}
  PROVE  \E x \in S : \A y \in S : x >= y
<1> DEFINE T == {k \in Nat : n - k \in S}
<1>1. T \subseteq Nat /\ T # {}
  <2>1. PICK x \in S : TRUE
    OBVIOUS
  <2>2. n - x \in Nat /\ n - (n - x) = x
    BY <2>1
  <2> QED  BY <2>1, <2>2
<1>2. PICK k \in T : \A j \in T : ~ (<<j, k>> \in OpToRel(<, Nat))
  BY <1>1, NatLessThanWellFounded, WFMin
<1>3. \A j \in T : ~ (j < k)
  BY <1>1, <1>2 DEF OpToRel
<1>4. \A y \in S : n - y \in T
  <2> SUFFICES ASSUME NEW y \in S  PROVE n - y \in T
    OBVIOUS
  <2>1. n - y \in Nat /\ n - (n - y) = y
    OBVIOUS
  <2> QED  BY <2>1
<1>5. n - k \in S /\ k \in Nat
  OBVIOUS
<1> HIDE DEF T
<1>6. ASSUME NEW y \in S  PROVE n - k >= y
  <2>1. ~ (n - y < k)
    BY <1>3, <1>4, <1>6
  <2>2. y \in Int
    BY <1>6
  <2> QED  BY <1>5, <2>1, <2>2
<1> QED  BY <1>5, <1>6

\* ... which is what Max finds.
LEMMA MaxIsIn ==
  ASSUME NEW n \in Nat, NEW S \in SUBSET (1 .. n), S # {}
  PROVE  Max(S) \in S
<1>1. \E x \in S : \A y \in S : x >= y
  BY GreatestBelow
<1> QED  BY <1>1 DEF Max

\* A heading is nested in one that precedes it, or in none.
LEMMA ParsedIsMachine ==
  ASSUME NEW headings, IsHeadings(headings), NEW rows, IsRows(rows)
  PROVE  IsMachine(Parsed(headings, rows))
<1>1. PICK Ids : headings \in Seq([id : Ids, level : Nat, initial : BOOLEAN])
  BY DEF IsHeadings
<1>2. PICK Ends, Events : rows \subseteq [from : Ends, event : Events, to : Ends]
  BY DEF IsRows
<1> DEFINE at(id) == CHOOSE i \in DOMAIN headings : headings[i].id = id
           ids == {headings[i].id : i \in DOMAIN headings}
           m == Parsed(headings, rows)
<1>3. /\ m.states = ids
      /\ m.parent = [s \in ids |-> ParentAt(headings, at(s))]
      /\ m.initial = {s \in ids : headings[at(s)].initial}
      /\ m.rows = rows
      /\ m = [states |-> m.states, parent |-> m.parent, initial |-> m.initial, rows |-> m.rows]
  BY DEF Parsed
<1>4. DOMAIN headings = 1 .. Len(headings) /\ Len(headings) \in Nat
  BY <1>1
<1>5. ASSUME NEW s \in ids  PROVE at(s) \in DOMAIN headings
  BY <1>5
<1>6. ASSUME NEW i \in DOMAIN headings  PROVE ParentAt(headings, i) \in ids \cup {NoState}
  <2> DEFINE above == {j \in 1 .. i - 1 : headings[j].level < headings[i].level}
  <2>1. CASE above = {}
    BY <2>1 DEF ParentAt
  <2>2. CASE above # {}
    <3>1. i - 1 \in Nat /\ 1 .. i - 1 \subseteq DOMAIN headings
      BY <1>4, <1>6
    <3>2. above \in SUBSET (1 .. i - 1)
      OBVIOUS
    <3>3. ParentAt(headings, i) = headings[Max(above)].id
      BY <2>2 DEF ParentAt
    <3> HIDE DEF above
    <3>4. Max(above) \in above
      BY <2>2, <3>1, <3>2, MaxIsIn
    <3> QED  BY <3>1, <3>2, <3>3, <3>4
  <2> QED  BY <2>1, <2>2
<1>7. \A r \in rows : r = [from |-> r.from, event |-> r.event, to |-> r.to]
  BY <1>2
<1> HIDE DEF m, ids, at
<1>8. m.parent \in [m.states -> m.states \cup {NoState}]
  BY <1>3, <1>5, <1>6
<1>9. m.initial \subseteq m.states
  BY <1>3
<1> QED  BY <1>3, <1>7, <1>8, <1>9 DEF IsMachine, m

-----------------------------------------------------------------------------
(* The diagram and the copy.                                                 *)

\* The parent of a state is a state, or there is none.
LEMMA ParentTyped ==
  ASSUME NEW m, IsMachine(m), NEW s
  PROVE  /\ ParentOf(m, s) \in m.states \cup {NoState}
         /\ ParentOf(m, s) # NoState => s \in m.states /\ m.parent[s] = ParentOf(m, s)
BY DEF IsMachine, ParentOf

\* The diagram shows the machine: every state in the box of its parent, and no row
\* is lost, nor drawn in a box its ends are not in.
LEMMA DiagramIsMachine ==
  ASSUME NEW m, IsMachine(m)
  PROVE  Pictured(Diagram(m)) = m
<1> DEFINE d     == Diagram(m)
           boxes == Composites(m) \cup {NoState}
           shown == UNION {d[b].members : b \in DOMAIN d}
           p     == Pictured(d)
<1>1. /\ DOMAIN d = boxes
      /\ \A b \in boxes : /\ d[b].members = {s \in m.states : m.parent[s] = b}
                          /\ d[b].starts  = {s \in m.initial : m.parent[s] = b}
                          /\ d[b].edges   = {r \in m.rows : BoxOf(m, r) = b}
  BY DEF Diagram
<1>2. \A s \in m.states : m.parent[s] \in boxes
  BY DEF Composites
<1>3. m.initial \subseteq m.states
  BY DEF IsMachine
<1>4. /\ p.states = shown
      /\ p.parent = [s \in shown |-> CHOOSE b \in DOMAIN d : s \in d[b].members]
      /\ p.initial = UNION {d[b].starts : b \in DOMAIN d}
      /\ p.rows = d[NoState].edges \cup
                   {r \in UNION {d[b].edges : b \in DOMAIN d \ {NoState}} :
                      \E b \in DOMAIN d : {r.from, r.to} \subseteq d[b].members}
      /\ p = [states |-> p.states, parent |-> p.parent, initial |-> p.initial,
              rows |-> p.rows]
  BY DEF Pictured
<1> HIDE DEF d, boxes, p
<1>5. shown = m.states
  BY <1>1, <1>2
<1>6. \A s \in m.states : \A b \in boxes : s \in d[b].members <=> m.parent[s] = b
  BY <1>1
<1>7. p.parent = m.parent
  <2> DEFINE box(s) == CHOOSE b \in DOMAIN d : s \in d[b].members
  <2>1. \A s \in m.states : box(s) = m.parent[s]
    BY <1>1, <1>2, <1>6
  <2>2. m.parent = [s \in m.states |-> m.parent[s]]
    BY DEF IsMachine
  <2>3. p.parent = [s \in m.states |-> box(s)]
    BY <1>4, <1>5, Zenon
  <2> HIDE DEF box
  <2>4. [s \in m.states |-> box(s)] = [s \in m.states |-> m.parent[s]]
    BY <2>1
  <2> QED  BY <2>2, <2>3, <2>4, Zenon
<1>8. p.initial = m.initial
  BY <1>1, <1>2, <1>3, <1>4
<1>9. p.rows = m.rows
  <2>1. p.rows \subseteq m.rows
    BY <1>1, <1>4 DEF boxes
  <2>2. ASSUME NEW r \in m.rows  PROVE r \in p.rows
    <3> DEFINE b == BoxOf(m, r)
    <3>1. CASE b = NoState
      <4>1. r \in d[NoState].edges
        BY <1>1, <3>1 DEF boxes
      <4> QED  BY <1>4, <4>1
    <3>2. CASE b # NoState
      <4>1. b = ParentOf(m, r.from) /\ b = ParentOf(m, r.to)
        BY <3>2 DEF BoxOf
      <4>2. /\ r.from \in m.states /\ m.parent[r.from] = b
            /\ r.to \in m.states /\ m.parent[r.to] = b
        BY <3>2, <4>1, ParentTyped
      <4>3. b \in boxes
        BY <1>2, <4>2
      <4>4. r \in d[b].edges /\ {r.from, r.to} \subseteq d[b].members
        BY <1>1, <1>6, <4>2, <4>3, <2>2
      <4> QED  BY <1>1, <1>4, <3>2, <4>3, <4>4
    <3> QED  BY <3>1, <3>2
  <2> QED  BY <2>1, <2>2
<1>10. m = [states |-> m.states, parent |-> m.parent, initial |-> m.initial, rows |-> m.rows]
  BY DEF IsMachine
<1> QED  BY <1>4, <1>5, <1>7, <1>8, <1>9, <1>10 DEF p, d

\* What can be named in a machine.
Named(m) == m.states \cup {r.from : r \in m.rows} \cup {r.to : r \in m.rows}

\* A row that leaves a composite leaves it from the composite in the copy, and the
\* other rows stay as they are.
LEMMA HoistedRow ==
  ASSUME NEW m, IsMachine(m), NEW r \in m.rows
  PROVE  /\ Hoisted(m, r).to = r.to
         /\ Hoisted(m, r) = [from |-> Hoisted(m, r).from, event |-> r.event, to |-> r.to]
         /\ Leaves(m, r) => /\ Hoisted(m, r) = [r EXCEPT !.from = ParentOf(m, r.from)]
                            /\ Hoisted(m, r).from = ParentOf(m, r.from)
                            /\ ParentOf(m, r.from) # NoState
         /\ ~Leaves(m, r) => Hoisted(m, r) = r
<1>1. PICK a, b, c : r = [from |-> a, event |-> b, to |-> c]
  BY DEF IsMachine
<1>2. ASSUME Leaves(m, r)
      PROVE  /\ Hoisted(m, r) = [r EXCEPT !.from = ParentOf(m, r.from)]
             /\ Hoisted(m, r) = [from |-> ParentOf(m, r.from), event |-> b, to |-> c]
  BY <1>1, <1>2 DEF Hoisted
<1>3. ~Leaves(m, r) => Hoisted(m, r) = r
  BY DEF Hoisted
<1>4. Leaves(m, r) => ParentOf(m, r.from) # NoState
  BY DEF Leaves
<1> QED  BY <1>1, <1>2, <1>3, <1>4

\* A document with different headings, whichever of its lines are above the transitions.
IsDocument(doc) ==
  /\ IsHeadings(doc.headings)
  /\ \A i, j \in DOMAIN doc.headings : doc.headings[i].id = doc.headings[j].id => i = j
  /\ IsRows(doc.rows)
  /\ doc.cut \in 0 .. Len(doc.headings)
  /\ doc.early \subseteq doc.rows

LEMMA MachineOf ==
  ASSUME NEW doc, IsDocument(doc)
  PROVE  IsMachine(Machine(doc)) /\ Machine(doc).rows = doc.rows
BY ParsedIsMachine DEF IsDocument, Machine, Parsed

\* The headings above the transitions tell of their states what all headings tell.
LEMMA CutHeadings ==
  ASSUME NEW doc, IsDocument(doc), NEW rows
  PROVE  LET m == Machine(doc)
             v == Parsed(SubSeq(doc.headings, 1, doc.cut), rows)
         IN  /\ v.rows = rows /\ v.states \subseteq m.states /\ v.initial \subseteq m.initial
             /\ \A s \in v.states : v.parent[s] = m.parent[s]
             /\ StatesFirst(doc) => /\ v.states = m.states /\ v.parent = m.parent
                                    /\ v.initial = m.initial
<1> DEFINE h == doc.headings
           c == doc.cut
           u == SubSeq(h, 1, c)
           atH(id) == CHOOSE i \in DOMAIN h : h[i].id = id
           atU(id) == CHOOSE i \in DOMAIN u : u[i].id = id
           m == Machine(doc)
           v == Parsed(u, rows)
<1>1. /\ Len(h) \in Nat /\ DOMAIN h = 1 .. Len(h) /\ c \in 0 .. Len(h)
      /\ \A i, j \in DOMAIN h : h[i].id = h[j].id => i = j
  BY DEF IsDocument, IsHeadings
<1>2. DOMAIN u = 1 .. c /\ \A i \in 1 .. c : u[i] = h[i] /\ i \in DOMAIN h
  <2>1. PICK T : h \in Seq(T)
    BY DEF IsDocument, IsHeadings
  <2>2. /\ u \in Seq(T) /\ Len(u) = IF 1 <= c THEN c - 1 + 1 ELSE 0
        /\ \A i \in 1 .. c - 1 + 1 : u[i] = h[1 + i - 1]
    BY <1>1, <2>1, SubSeqProperties
  <2>3. Len(u) = c /\ \A i \in 1 .. c : i \in 1 .. c - 1 + 1 /\ 1 + i - 1 = i
    BY <1>1, <2>2
  <2>4. DOMAIN u = 1 .. Len(u)
    BY <2>2
  <2> QED  BY <1>1, <2>2, <2>3, <2>4
<1>3. /\ m.states = {h[i].id : i \in DOMAIN h}
      /\ m.parent = [s \in m.states |-> ParentAt(h, atH(s))]
      /\ m.initial = {s \in m.states : h[atH(s)].initial}
  BY DEF Machine, Parsed
<1>4. /\ v.states = {u[i].id : i \in DOMAIN u}
      /\ v.parent = [s \in v.states |-> ParentAt(u, atU(s))]
      /\ v.initial = {s \in v.states : u[atU(s)].initial}
      /\ v.rows = rows
  BY DEF Parsed
<1>5. StatesFirst(doc) => u = h
  <2>1. PICK T : h \in Seq(T)
    BY DEF IsDocument, IsHeadings
  <2> QED  BY <2>1, SubSeqFull DEF StatesFirst
<1>6. StatesFirst(doc) => v.states = m.states /\ v.parent = m.parent /\ v.initial = m.initial
  <2>1. /\ Parsed(h, rows).states = m.states /\ Parsed(h, rows).parent = m.parent
        /\ Parsed(h, rows).initial = m.initial
    BY DEF Machine, Parsed
  <2>2. StatesFirst(doc) => v = Parsed(h, rows)
    BY <1>5
  <2> HIDE DEF u, m, v
  <2> QED  BY <2>1, <2>2
<1> HIDE DEF u, m, v
<1>7. \A i \in 1 .. c : ParentAt(u, i) = ParentAt(h, i)
  <2> SUFFICES ASSUME NEW i \in 1 .. c  PROVE ParentAt(u, i) = ParentAt(h, i)
    OBVIOUS
  <2>1. \A j \in 1 .. i - 1 : j \in 1 .. c
    BY <1>1
  <2>2. \A j \in 1 .. i - 1 : u[j] = h[j] /\ u[i] = h[i]
    BY <1>2, <2>1
  <2> DEFINE aboveU == {j \in 1 .. i - 1 : u[j].level < u[i].level}
             aboveH == {j \in 1 .. i - 1 : h[j].level < h[i].level}
  <2>3. aboveU = aboveH
    BY <2>2
  <2>4. aboveH # {} => Max(aboveH) \in 1 .. i - 1
    <3>1. i - 1 \in Nat /\ aboveH \in SUBSET (1 .. i - 1)
      BY <1>1
    <3> HIDE DEF aboveH
    <3>2. aboveH # {} => Max(aboveH) \in aboveH
      BY <3>1, MaxIsIn
    <3> QED  BY <3>1, <3>2
  <2>5. aboveH # {} => u[Max(aboveH)] = h[Max(aboveH)]
    BY <2>2, <2>4
  <2>6. ParentAt(u, i) = IF aboveU = {} THEN NoState ELSE u[Max(aboveU)].id
    BY DEF ParentAt
  <2>7. ParentAt(h, i) = IF aboveH = {} THEN NoState ELSE h[Max(aboveH)].id
    BY DEF ParentAt
  <2> HIDE DEF aboveU, aboveH
  <2> QED  BY <2>3, <2>5, <2>6, <2>7
<1>8. ASSUME NEW s \in v.states
      PROVE  s \in m.states /\ atU(s) \in 1 .. c /\ atU(s) = atH(s) /\ u[atU(s)] = h[atH(s)]
  <2>1. PICK i \in 1 .. c : u[i].id = s
    BY <1>2, <1>4, <1>8
  <2>2. atU(s) \in 1 .. c /\ u[atU(s)].id = s
    BY <1>2, <2>1
  <2>3. h[i].id = s /\ i \in DOMAIN h
    BY <1>2, <2>1
  <2>4. atH(s) \in DOMAIN h /\ h[atH(s)].id = s
    BY <2>3
  <2> HIDE DEF atU, atH
  <2>5. atU(s) = atH(s)
    BY <1>1, <1>2, <2>2, <2>4
  <2> QED  BY <1>2, <1>3, <2>2, <2>3, <2>5
<1> HIDE DEF atU, atH
<1>9. \A s \in v.states : v.parent[s] = m.parent[s]
  BY <1>3, <1>4, <1>7, <1>8
<1>10. v.states \subseteq m.states
  BY <1>8
<1>11. v.initial \subseteq m.initial
  BY <1>3, <1>4, <1>8
<1> QED  BY <1>4, <1>6, <1>9, <1>10, <1>11 DEF m, v, u, h, c

\* The copy: states of the machine, each where it is in the machine, and the rows of the
\* machine, hoisted, next to some that are as they were.
LEMMA CopyOfMachine ==
  ASSUME NEW doc, IsDocument(doc)
  PROVE  LET m == Machine(doc)
             v == VerifiedCopy(doc)
         IN  /\ IsMachine(v)
             /\ \A r \in m.rows : Hoisted(m, r) \in v.rows
             /\ \A h \in v.rows : h \in m.rows \/ \E r \in m.rows : h = Hoisted(m, r)
             /\ v.initial \subseteq m.initial
             /\ \A s \in v.states : s \in m.states /\ ParentOf(v, s) = ParentOf(m, s)
             /\ StatesFirst(doc) => /\ v.initial = m.initial
                                    /\ \A s : ParentOf(v, s) = ParentOf(m, s)
<1> DEFINE m == Machine(doc)
           v == VerifiedCopy(doc)
           rows == doc.early \cup {Hoisted(m, r) : r \in m.rows}
           u == SubSeq(doc.headings, 1, doc.cut)
<1>1. IsMachine(m) /\ m.rows = doc.rows
  BY MachineOf
<1>2. CASE Flat(m)
  <2>1. v = m
    BY <1>2 DEF VerifiedCopy
  <2>2. \A r \in m.rows : ~Leaves(m, r)
    BY <1>2 DEF Leaves, ParentOf, Flat
  <2> HIDE DEF m, v
  <2>3. \A r \in m.rows : Hoisted(m, r) = r
    BY <2>2 DEF Hoisted
  <2>4. \A s \in v.states : s \in m.states
    BY <2>1
  <2> QED  BY <1>1, <2>1, <2>3, <2>4 DEF m, v
<1>3. CASE ~Flat(m)
  <2>1. v = Parsed(u, rows)
    BY <1>3 DEF VerifiedCopy
  <2>2. IsHeadings(u)
    <3>1. PICK Ids : doc.headings \in Seq([id : Ids, level : Nat, initial : BOOLEAN])
      BY DEF IsDocument, IsHeadings
    <3>2. ASSUME NEW T, NEW s \in Seq(T), NEW c \in 0 .. Len(s)
          PROVE  SubSeq(s, 1, c) \in Seq(T)
      <4>1. Len(s) \in Nat /\ c \in Int
        OBVIOUS
      <4> QED  BY <4>1, SubSeqProperties
    <3>3. doc.cut \in 0 .. Len(doc.headings)
      BY DEF IsDocument
    <3>4. u \in Seq([id : Ids, level : Nat, initial : BOOLEAN])
      BY <3>1, <3>2, <3>3
    <3> QED  BY <3>4 DEF IsHeadings
  <2>3. IsRows(rows)
    <3>1. PICK Ends, Events : doc.rows \subseteq [from : Ends, event : Events, to : Ends]
      BY DEF IsDocument, IsRows
    <3> DEFINE All == Ends \cup m.states
    <3>2. doc.early \subseteq [from : All, event : Events, to : All]
      BY <3>1 DEF IsDocument
    <3>3. ASSUME NEW r \in m.rows  PROVE Hoisted(m, r) \in [from : All, event : Events, to : All]
      <4>1. r.from \in Ends /\ r.event \in Events /\ r.to \in Ends
        BY <1>1, <3>1
      <4>2. CASE Leaves(m, r)
        <5>1. ParentOf(m, r.from) \in m.states
          BY <1>1, <4>2, ParentTyped DEF Leaves
        <5> QED  BY <1>1, <4>1, <4>2, <5>1, HoistedRow
      <4>3. CASE ~Leaves(m, r)
        <5>1. Hoisted(m, r).from = r.from
          BY <1>1, <4>3, HoistedRow
        <5> QED  BY <1>1, <4>1, <5>1, HoistedRow
      <4> QED  BY <4>2, <4>3
    <3> HIDE DEF m, All
    <3>4. rows \subseteq [from : All, event : Events, to : All]
      BY <3>2, <3>3
    <3> HIDE DEF rows
    <3> QED  BY <3>4 DEF IsRows
  <2> HIDE DEF u, rows
  <2>4. IsMachine(v)
    BY <2>1, <2>2, <2>3, ParsedIsMachine
  <2>5. /\ v.rows = rows /\ v.states \subseteq m.states /\ v.initial \subseteq m.initial
        /\ \A s \in v.states : v.parent[s] = m.parent[s]
        /\ StatesFirst(doc) => /\ v.states = m.states /\ v.parent = m.parent
                               /\ v.initial = m.initial
    BY <2>1, CutHeadings DEF u
  <2> HIDE DEF m, v
  <2>6. \A r \in m.rows : Hoisted(m, r) \in v.rows
    BY <2>5 DEF rows
  <2>7. \A h \in v.rows : h \in m.rows \/ \E r \in m.rows : h = Hoisted(m, r)
    BY <1>1, <2>5 DEF rows, IsDocument
  <2>8. \A s \in v.states : s \in m.states /\ ParentOf(v, s) = ParentOf(m, s)
    BY <2>5 DEF ParentOf
  <2>9. StatesFirst(doc) => \A s : ParentOf(v, s) = ParentOf(m, s)
    BY <2>5 DEF ParentOf
  <2> QED  BY <2>4, <2>5, <2>6, <2>7, <2>8, <2>9 DEF m, v
<1> QED  BY <1>2, <1>3

\* A machine that has only some of its rows.
LEMMA FewerRows ==
  ASSUME NEW m, IsMachine(m), NEW S \in SUBSET m.rows
  PROVE  /\ IsMachine([m EXCEPT !.rows = S])
         /\ [m EXCEPT !.rows = S].rows = S
         /\ [m EXCEPT !.rows = S].initial = m.initial
         /\ \A s : ParentOf([m EXCEPT !.rows = S], s) = ParentOf(m, s)
<1> DEFINE n == [m EXCEPT !.rows = S]
<1>1. PICK a, b, c, d : m = [states |-> a, parent |-> b, initial |-> c, rows |-> d]
  BY DEF IsMachine
<1>2. n = [states |-> a, parent |-> b, initial |-> c, rows |-> S]
  BY <1>1
<1>3. n.states = m.states /\ n.parent = m.parent /\ n.initial = m.initial /\ n.rows = S
  BY <1>1, <1>2
<1>4. n = [states |-> n.states, parent |-> n.parent, initial |-> n.initial, rows |-> n.rows]
  BY <1>2
<1> HIDE DEF n
<1>5. IsMachine(n)
  BY <1>3, <1>4 DEF IsMachine
<1>6. \A s : ParentOf(n, s) = ParentOf(m, s)
  BY <1>3 DEF ParentOf
<1> QED  BY <1>3, <1>5, <1>6 DEF n

\* What can be entered has all it leads to.
LEMMA ReachableInside ==
  ASSUME NEW m, IsMachine(m)
  PROVE  Inside(m, Reachable(m)) /\ Reachable(m) \subseteq Named(m)
<1> DEFINE R == Reachable(m)
<1>1. R = {s \in Named(m) : \A A \in SUBSET Named(m) : Inside(m, A) => s \in A}
  BY DEF Reachable, Named
<1> HIDE DEF R
<1>2. ASSUME NEW s \in m.initial, ParentOf(m, s) \in R \cup {NoState}  PROVE s \in R
  <2>1. s \in Named(m)
    BY DEF IsMachine, Named
  <2> QED  BY <1>1, <1>2, <2>1 DEF Inside
<1>3. ASSUME NEW s \in R, ParentOf(m, s) # NoState  PROVE ParentOf(m, s) \in R
  <2>1. ParentOf(m, s) \in Named(m)
    BY <1>3, ParentTyped DEF Named
  <2> QED  BY <1>1, <1>3, <2>1 DEF Inside
<1>4. ASSUME NEW r \in m.rows, r.from \in R  PROVE r.to \in R
  <2>1. r.to \in Named(m)
    BY DEF Named
  <2> QED  BY <1>1, <1>4, <2>1 DEF Inside
<1> QED  BY <1>1, <1>2, <1>3, <1>4 DEF Inside, R

\* What has all it leads to has every state that can be entered.
LEMMA LeastInside ==
  ASSUME NEW m, IsMachine(m), NEW A, Inside(m, A)
  PROVE  Reachable(m) \subseteq A
<1> DEFINE B == A \cap Named(m)
<1>1. ASSUME NEW s \in m.initial, ParentOf(m, s) \in B \cup {NoState}  PROVE s \in B
  BY <1>1 DEF Inside, IsMachine, Named
<1>2. ASSUME NEW s \in B, ParentOf(m, s) # NoState  PROVE ParentOf(m, s) \in B
  BY <1>2, ParentTyped DEF Inside, Named
<1>3. ASSUME NEW r \in m.rows, r.from \in B  PROVE r.to \in B
  BY <1>3 DEF Inside, Named
<1>4. Inside(m, B)
  BY <1>1, <1>2, <1>3 DEF Inside
<1> QED  BY <1>4 DEF Reachable, Named

\* What the verifier reaches: the rows that leave no composite lead on from there.
LEMMA ReachedInside ==
  ASSUME NEW m, IsMachine(m), NEW A
  PROVE  LET Closed(S) == /\ \A s \in m.initial : ParentOf(m, s) \in S \cup {NoState} => s \in S
                          /\ \A s \in S : ParentOf(m, s) # NoState => ParentOf(m, s) \in S
                          /\ \A r \in m.rows : r.from \in S /\ ~Leaves(m, r) => r.to \in S
         IN  Closed(Reached(m)) /\ (Closed(A) => Reached(m) \subseteq A)
<1> DEFINE n == [m EXCEPT !.rows = Followed(m)]
           R == Reached(m)
<1>1. Followed(m) = {r \in m.rows : ~Leaves(m, r)}
  BY DEF Followed, Leaves
<1>2. /\ IsMachine(n) /\ n.rows = Followed(m) /\ n.initial = m.initial
      /\ \A s : ParentOf(n, s) = ParentOf(m, s)
  <2>1. Followed(m) \in SUBSET m.rows
    BY <1>1
  <2> QED  BY <2>1, FewerRows
<1>3. R = Reachable(n)
  BY DEF Reached
<1> HIDE DEF n, R
<1>4. Inside(n, R)
  BY <1>2, <1>3, ReachableInside
<1>5. Inside(n, A) => R \subseteq A
  BY <1>2, <1>3, LeastInside
<1> QED  BY <1>1, <1>2, <1>4, <1>5 DEF Inside, R

\* A row of the machine that leaves one composite at most is one the verifier follows,
\* once it is hoisted; so no state that such rows lead to is falsely flagged.
LEMMA DrawnIsVerified ==
  ASSUME NEW doc, IsDocument(doc), StatesFirst(doc)
  PROVE  Reachable(Shallow(Machine(doc))) \subseteq Reached(VerifiedCopy(doc))
<1> DEFINE m == Machine(doc)
           v == VerifiedCopy(doc)
           n == Shallow(m)
           R == Reached(v)
<1>1. IsMachine(m)
  BY MachineOf
<1>2. /\ IsMachine(v) /\ \A r \in m.rows : Hoisted(m, r) \in v.rows
      /\ v.initial = m.initial /\ \A s : ParentOf(v, s) = ParentOf(m, s)
  BY CopyOfMachine
<1> HIDE DEF m, v
<1>3. /\ IsMachine(n) /\ n.rows = {r \in m.rows : ~LeavesTwo(m, r)}
      /\ n.initial = m.initial /\ \A s : ParentOf(n, s) = ParentOf(m, s)
  <2>1. {r \in m.rows : ~LeavesTwo(m, r)} \in SUBSET m.rows
    OBVIOUS
  <2> QED  BY <1>1, <2>1, FewerRows DEF Shallow
<1> HIDE DEF n
<1>4. \A r : Leaves(v, r) <=> Leaves(m, r)
  BY <1>2 DEF Leaves
<1>5. /\ \A s \in m.initial : ParentOf(m, s) \in R \cup {NoState} => s \in R
      /\ \A s \in R : ParentOf(m, s) # NoState => ParentOf(m, s) \in R
      /\ \A r \in v.rows : r.from \in R /\ ~Leaves(m, r) => r.to \in R
  BY <1>2, <1>4, ReachedInside
<1> HIDE DEF R
<1>6. ASSUME NEW r \in n.rows, r.from \in R  PROVE r.to \in R
  <2>1. r \in m.rows /\ ~LeavesTwo(m, r) /\ Hoisted(m, r) \in v.rows /\ Hoisted(m, r).to = r.to
    BY <1>1, <1>2, <1>3, HoistedRow
  <2>2. CASE Leaves(m, r)
    <3>1. /\ Hoisted(m, r) = [r EXCEPT !.from = ParentOf(m, r.from)]
          /\ Hoisted(m, r).from = ParentOf(m, r.from) /\ ParentOf(m, r.from) # NoState
      BY <1>1, <2>1, <2>2, HoistedRow
    <3>2. ~Leaves(m, Hoisted(m, r))
      BY <2>1, <2>2, <3>1 DEF LeavesTwo
    <3>3. Hoisted(m, r).from \in R
      BY <1>5, <1>6, <3>1
    <3> QED  BY <1>5, <2>1, <3>2, <3>3
  <2>3. CASE ~Leaves(m, r)
    <3>1. Hoisted(m, r) = r
      BY <1>1, <2>1, <2>3, HoistedRow
    <3> QED  BY <1>5, <1>6, <2>1, <2>3, <3>1
  <2> QED  BY <2>2, <2>3
<1>7. Inside(n, R)
  BY <1>3, <1>5, <1>6 DEF Inside
<1> QED  BY <1>3, <1>7, LeastInside DEF m, v, n, R

\* Where no child is dead, a composite that can be left can be left from the child.
LEMMA VerifiedIsDrawn ==
  ASSUME NEW doc, IsDocument(doc), NoDeadChild(Machine(doc))
  PROVE  Reached(VerifiedCopy(doc)) \subseteq Reachable(Machine(doc))
<1> DEFINE m == Machine(doc)
           v == VerifiedCopy(doc)
           R == Reachable(m)
<1>1. IsMachine(m)
  BY MachineOf
<1>2. /\ IsMachine(v)
      /\ \A h \in v.rows : h \in m.rows \/ \E r \in m.rows : h = Hoisted(m, r)
      /\ v.initial \subseteq m.initial
      /\ \A s \in v.states : s \in m.states /\ ParentOf(v, s) = ParentOf(m, s)
  BY CopyOfMachine
<1>3. Inside(m, R) /\ R \subseteq Named(m)
  BY <1>1, ReachableInside
<1>4. \A s \in m.states : m.parent[s] \in R => s \in R
  BY DEF NoDeadChild
<1> HIDE DEF m, v, R
<1>5. ASSUME NEW h \in v.rows, h.from \in R  PROVE h.to \in R
  <2>1. CASE h \in m.rows
    BY <1>3, <1>5, <2>1 DEF Inside
  <2>2. CASE h \notin m.rows
    <3>1. PICK r \in m.rows : h = Hoisted(m, r)
      BY <1>2, <2>2
    <3>2. Leaves(m, r)
      BY <1>1, <2>2, <3>1, HoistedRow
    <3>3. ParentOf(m, r.from) \in R /\ r.from \in m.states /\ m.parent[r.from] = ParentOf(m, r.from)
      BY <1>1, <1>5, <3>1, <3>2, HoistedRow, ParentTyped
    <3>4. r.from \in R /\ h.to = r.to
      BY <1>1, <1>4, <3>1, <3>3, HoistedRow
    <3> QED  BY <1>3, <3>4 DEF Inside
  <2> QED  BY <2>1, <2>2
<1>6. ASSUME NEW s \in v.initial, ParentOf(v, s) \in R \cup {NoState}  PROVE s \in R
  <2>1. s \in v.states /\ s \in m.initial
    BY <1>2 DEF IsMachine
  <2> QED  BY <1>2, <1>3, <1>6, <2>1 DEF Inside
<1>7. ASSUME NEW s \in R, ParentOf(v, s) # NoState  PROVE ParentOf(v, s) \in R
  <2>1. s \in v.states
    BY <1>7 DEF ParentOf
  <2> QED  BY <1>2, <1>3, <1>7, <2>1 DEF Inside
<1>8. Reached(v) \subseteq R
  BY <1>2, <1>5, <1>6, <1>7, ReachedInside
<1> QED  BY <1>8 DEF m, v, R

\* Whatever machine the model writes into a document (document_fsm.py, any nesting, any
\* rows, wherever the transitions begin): the verifier, which does not follow a child out
\* of its composite, reaches no state of the rewritten copy that the diagram does not show
\* as one that can be entered, dead children apart; and it reaches all of them, if the
\* headings are above the transitions, but for rows that leave two composites at once.
THEOREM EveryDiagramAgrees ==
  ASSUME NEW doc, IsDocument(doc)
  PROVE  AgreesWithVerified(doc)
<1> DEFINE m == Machine(doc)
<1>1. IsMachine(m)
  BY MachineOf
<1>2. IsMachine(Shallow(m))
  <2> HIDE DEF m
  <2>1. {r \in m.rows : ~LeavesTwo(m, r)} \in SUBSET m.rows
    OBVIOUS
  <2> QED  BY <1>1, <2>1, FewerRows DEF Shallow
<1>3. Pictured(Diagram(m)) = m /\ Pictured(Diagram(Shallow(m))) = Shallow(m)
  BY <1>1, <1>2, DiagramIsMachine
<1>4. StatesFirst(doc) => Reachable(Shallow(m)) \subseteq Reached(VerifiedCopy(doc))
  BY DrawnIsVerified
<1>5. NoDeadChild(m) => Reached(VerifiedCopy(doc)) \subseteq Reachable(m)
  BY VerifiedIsDrawn
<1> QED  BY <1>3, <1>4, <1>5 DEF AgreesWithVerified, m

\* The documents of the runs are such documents, so the property the runs check holds of
\* all of them, whatever their number of rows.
THEOREM DiagramsAgree == Spec => []DiagramAgreesWithVerified
<1>1. ASSUME NEW doc \in Documents  PROVE AgreesWithVerified(doc)
  <2>0. PICK headings \in Shapes : \E rows \in RowSets(headings) :
               doc \in [headings : {headings}, rows : {rows},
                        cut : {Len(headings) - 1, Len(headings)}, early : {{}, rows}]
    BY <1>1 DEF Documents
  <2>1. PICK rows \in RowSets(headings) :
               doc \in [headings : {headings}, rows : {rows},
                        cut : {Len(headings) - 1, Len(headings)}, early : {{}, rows}]
    BY <2>0
  <2> DEFINE Ids == {"a", "a1", "a2", "b", "b1", "b2", "c"}
             H == [id : Ids, level : Nat, initial : BOOLEAN]
             Distinct(h) == \A i, j \in DOMAIN h : h[i].id = h[j].id => i = j
  <2>2. headings \in Seq(H) /\ Len(headings) \in {3, 4}
    <3>1. \A id \in Ids, level \in Nat, initial \in BOOLEAN : Heading(id, level, initial) \in H
      BY DEF Heading
    <3> HIDE DEF H
    <3>2. /\ Heading("a", 2, TRUE) \in H /\ Heading("a1", 3, TRUE) \in H
          /\ Heading("a2", 3, FALSE) \in H /\ Heading("b", 2, FALSE) \in H
          /\ Heading("b1", 3, TRUE) \in H /\ Heading("b1", 3, FALSE) \in H
          /\ Heading("b2", 4, TRUE) \in H /\ Heading("c", 2, FALSE) \in H
      BY <3>1
    <3>3. /\ \A w, x, y \in H : <<w, x, y>> \in Seq(H) /\ Len(<<w, x, y>>) = 3
          /\ \A w, x, y, z \in H : <<w, x, y, z>> \in Seq(H) /\ Len(<<w, x, y, z>>) = 4
      OBVIOUS
    <3> DEFINE Good(h) == h \in Seq(H) /\ Len(h) \in {3, 4}
    <3>4. /\ Good(<<Heading("a", 2, TRUE), Heading("b", 2, FALSE), Heading("c", 2, FALSE)>>)
          /\ Good(<<Heading("a", 2, TRUE), Heading("a1", 3, TRUE), Heading("a2", 3, FALSE),
                    Heading("b", 2, FALSE)>>)
          /\ Good(<<Heading("a", 2, TRUE), Heading("a1", 3, TRUE), Heading("b", 2, FALSE),
                    Heading("b1", 3, FALSE)>>)
          /\ Good(<<Heading("a", 2, TRUE), Heading("b", 2, FALSE), Heading("b1", 3, TRUE),
                    Heading("b2", 4, TRUE)>>)
      BY <3>2, <3>3
    <3> HIDE DEF Good
    <3>5. \A h \in Shapes : Good(h)
      BY <3>4, Zenon DEF Shapes
    <3> QED  BY <3>5 DEF Good
  <2>3. Distinct(headings)
    <3> DEFINE Named3(h, a, b, c) ==
                 DOMAIN h = 1 .. 3 /\ h[1].id = a /\ h[2].id = b /\ h[3].id = c
               Named4(h, a, b, c, d) ==
                 DOMAIN h = 1 .. 4 /\ h[1].id = a /\ h[2].id = b /\ h[3].id = c /\ h[4].id = d
    <3>1. \/ Named3(headings, "a", "b", "c") \/ Named4(headings, "a", "a1", "a2", "b")
          \/ Named4(headings, "a", "a1", "b", "b1") \/ Named4(headings, "a", "b", "b1", "b2")
      BY DEF Shapes, Heading
    <3>2. ASSUME NEW h, NEW a, NEW b, NEW c, Named3(h, a, b, c), a # b, a # c, b # c
          PROVE  Distinct(h)
      BY <3>2
    <3>3. ASSUME NEW h, NEW a, NEW b, NEW c, NEW d, Named4(h, a, b, c, d),
                 a # b, a # c, a # d, b # c, b # d, c # d
          PROVE  Distinct(h)
      BY <3>3
    <3> HIDE DEF Named3, Named4, Distinct
    <3> QED  BY <3>1, <3>2, <3>3
  <2>4. IsRows(rows)
    <3>1. rows \subseteq Rows(headings)
      BY DEF RowSets, kSubset
    <3> DEFINE ids == {headings[i].id : i \in DOMAIN headings} \cup {"nowhere"}
    <3>2. Rows(headings) \subseteq [from : ids, event : {"go"}, to : ids]
      BY DEF Rows
    <3> QED  BY <3>1, <3>2 DEF IsRows
  <2>5. /\ doc.headings = headings /\ doc.rows = rows
        /\ doc.cut \in {Len(headings) - 1, Len(headings)} /\ doc.early \in {{}, rows}
    BY <2>1
  <2>6. doc.cut \in 0 .. Len(headings) /\ doc.early \subseteq rows
    <3>1. \A n \in {3, 4} : n - 1 \in 0 .. n /\ n \in 0 .. n
      OBVIOUS
    <3>2. {} \subseteq rows /\ rows \subseteq rows
      OBVIOUS
    <3> HIDE DEF H
    <3>3. doc.cut \in 0 .. Len(headings)
      BY <2>2, <2>5, <3>1
    <3> QED  BY <2>5, <3>2, <3>3
  <2>7. IsHeadings(headings)
    BY <2>2 DEF IsHeadings
  <2>8. IsDocument(doc)
    BY <2>3, <2>4, <2>5, <2>6, <2>7 DEF IsDocument
  <2> QED  BY <2>8, EveryDiagramAgrees
<1>2. Init => DiagramAgreesWithVerified
  BY DEF Init, DiagramAgreesWithVerified
<1>3. DiagramAgreesWithVerified /\ [Next]_input => DiagramAgreesWithVerified'
  <2> SUFFICES ASSUME DiagramAgreesWithVerified, [Next]_input
               PROVE  DiagramAgreesWithVerified'
    OBVIOUS
  <2>1. CASE UNCHANGED input
    BY <2>1 DEF DiagramAgreesWithVerified
  <2>2. CASE PickMachine
    BY <1>1, <2>2 DEF PickMachine, Pick, DiagramAgreesWithVerified
  <2>3. CASE PickText \/ PickRedline \/ WriteRedline \/ PickUpload
    BY <2>3 DEF PickText, PickRedline, WriteRedline, PickUpload, Pick, DiagramAgreesWithVerified
  <2> QED  BY <2>1, <2>2, <2>3 DEF Next
<1> QED  BY <1>2, <1>3, PTL DEF Spec

-----------------------------------------------------------------------------
(* Uploads.                                                                  *)

\* A result has a text, or says why it has none.
LEMMA ReadTells ==
  ASSUME NEW ext \in Extensions, NEW file
  PROVE  Ok(Read(ext, file)) <=> Read(ext, file).error = "none"
<1>1. \A error \in {"unsupported", "unreadable", "empty", "too_long"} :
        ~Ok(Failure(error)) /\ Failure(error).error # "none"
  BY DEF Ok, Failure
<1>2. Ok(ReadPlain(file)) <=> ReadPlain(file).error = "none"
  BY <1>1 DEF ReadPlain, Ok
<1>3. Ok(ReadPages(file)) <=> ReadPages(file).error = "none"
  BY <1>1 DEF ReadPages, Ok
<1> QED  BY <1>1, <1>2, <1>3 DEF Read, Extensions

\* Whatever is uploaded (documents.py:43-49, parser_client.py, parser/app.py), for any
\* limit on the pages: the result is a text or an error, and the parser service, which
\* has a default of its own for a name without an extension, never sees such a name.
THEOREM EveryUploadReadAlike ==
  ASSUME NEW ext \in Extensions, NEW file
  PROVE  ReadAlike(ext, file)
<1> DEFINE kept == BlobExtension(ext)
<1>1. kept \in Extensions /\ kept # "none"
  BY DEF BlobExtension, Extensions
<1>2. ServiceExtension(kept) = kept
  BY <1>1 DEF ServiceExtension
<1>3. Ok(Read(kept, file)) <=> Read(kept, file).error = "none"
  BY <1>1, ReadTells
<1>4. ~Ok(Failure("service")) /\ Failure("service").error # "none"
  BY DEF Ok, Failure
<1> HIDE DEF kept
<1>5. /\ ParseDocument("none", kept, file) = Read(kept, file)
      /\ ParseDocument("up", kept, file) = Read(kept, file)
      /\ ParseDocument("down", kept, file) = Failure("service")
  BY <1>2 DEF ParseDocument
<1> QED  BY <1>3, <1>4, <1>5 DEF ReadAlike, kept

\* The same for the files of the runs, of any number of pages.
THEOREM UploadsAgree == Spec => []UploadsReadAlike
<1>1. Init => UploadsReadAlike
  BY DEF Init, UploadsReadAlike
<1>2. UploadsReadAlike /\ [Next]_input => UploadsReadAlike'
  <2> SUFFICES ASSUME UploadsReadAlike, [Next]_input  PROVE UploadsReadAlike'
    OBVIOUS
  <2>1. CASE UNCHANGED input
    BY <2>1 DEF UploadsReadAlike
  <2>2. CASE PickUpload
    BY <2>2, EveryUploadReadAlike DEF PickUpload, Pick, UploadsReadAlike
  <2>3. CASE PickText \/ PickRedline \/ WriteRedline \/ PickMachine
    BY <2>3 DEF PickText, PickRedline, WriteRedline, PickMachine, Pick, UploadsReadAlike
  <2> QED  BY <2>1, <2>2, <2>3 DEF Next
<1> QED  BY <1>1, <1>2, PTL DEF Spec

-----------------------------------------------------------------------------
(* Recursion over sequences.                                                *)

\* Of any sequences there is a shortest one.
LEMMA ShortestOne ==
  ASSUME NEW T, NEW S \in SUBSET Seq(T), S # {}
  PROVE  \E s \in S : \A r \in S : Len(s) <= Len(r)
<1> DEFINE Lens == {Len(s) : s \in S}
<1>1. Lens \subseteq Nat /\ Lens # {}
  <2>1. \A s \in S : s \in Seq(T)
    OBVIOUS
  <2>2. \A s \in S : Len(s) \in Nat
    BY <2>1
  <2> QED  BY <2>2
<1>2. PICK k \in Lens : \A j \in Lens : ~ (<<j, k>> \in OpToRel(<, Nat))
  BY <1>1, NatLessThanWellFounded, WFMin
<1>3. \A j \in Lens : ~ (j < k)
  BY <1>1, <1>2 DEF OpToRel
<1>4. \A j \in Lens : k <= j
  BY <1>1, <1>3
<1> QED  BY <1>4

\* What is looked at next is shorter, unless nothing is left.
Shortens(next, T) ==
  /\ next \in [Seq(T) -> Seq(T)]
  /\ \A s \in Seq(T) : s # <<>> => Len(next[s]) < Len(s)

\* f goes over a sequence from one rest to the next, and puts out something at each.
Unfolds(f, T, next, out) ==
  /\ f[<<>>] = <<>>
  /\ \A s \in Seq(T) : s # <<>> => f[s] = out[s] \o f[next[s]]

\* A recursive definition over sequences has a solution, which TLA+ does not promise and
\* nothing can be proved without: the values that follow from that of the empty sequence
\* are the least set of pairs closed under the definition, and in that set every sequence
\* has exactly one value, or a shortest one would not.
LEMMA RecursionHasSolution ==
  ASSUME NEW T, NEW U, NEW next, Shortens(next, T), NEW out \in [Seq(T) -> Seq(U)]
  PROVE  \E f \in [Seq(T) -> Seq(U)] : Unfolds(f, T, next, out)
<1> DEFINE Closed(G) == /\ <<<<>>, <<>>>> \in G
                        /\ \A s \in Seq(T) : \A v \in Seq(U) :
                             s # <<>> /\ <<next[s], v>> \in G => <<s, out[s] \o v>> \in G
           Pairs == Seq(T) \X Seq(U)
           Least == {p \in Pairs : \A G \in SUBSET Pairs : Closed(G) => p \in G}
<1>1. \A s \in Seq(T) : next[s] \in Seq(T) /\ out[s] \in Seq(U)
  BY DEF Shortens
<1>2. \A s \in Seq(T), v \in Seq(U) : out[s] \o v \in Seq(U)
  BY <1>1
<1>3. Closed(Least)
  <2>1. <<<<>>, <<>>>> \in Pairs
    BY EmptySeq
  <2>2. ASSUME NEW s \in Seq(T), NEW v \in Seq(U), s # <<>>, <<next[s], v>> \in Least
        PROVE  <<s, out[s] \o v>> \in Least
    <3>1. <<s, out[s] \o v>> \in Pairs
      BY <1>2
    <3>2. ASSUME NEW G \in SUBSET Pairs, Closed(G)  PROVE <<s, out[s] \o v>> \in G
      <4>1. <<next[s], v>> \in G
        BY <2>2, <3>2
      <4> QED  BY <2>2, <3>2, <4>1
    <3> HIDE DEF Closed
    <3> QED  BY <3>1, <3>2
  <2> QED  BY <2>1, <2>2
<1>4. \A G \in SUBSET Pairs : Closed(G) => Least \subseteq G
  OBVIOUS
<1>5. Least \in SUBSET Pairs
  OBVIOUS
<1> DEFINE One(s) == \E v \in Seq(U) : /\ <<s, v>> \in Least
                                       /\ \A w : <<s, w>> \in Least => w = v
<1>6. ASSUME NEW s \in Seq(T), NEW v \in Seq(U), <<s, v>> \in Least,
             IF s = <<>> THEN v = <<>>
             ELSE \E u \in Seq(U) : v = out[s] \o u /\ \A w : <<next[s], w>> \in Least => w = u
      PROVE  \A w : <<s, w>> \in Least => w = v
  <2> SUFFICES ASSUME NEW w, <<s, w>> \in Least, w # v  PROVE FALSE
    OBVIOUS
  <2> DEFINE G == Least \ {<<s, w>>}
  <2>1. G \in SUBSET Pairs
    BY <1>5
  <2>2. <<<<>>, <<>>>> \in G
    BY <1>3, <1>6
  <2>3. ASSUME NEW t \in Seq(T), NEW x \in Seq(U), t # <<>>, <<next[t], x>> \in G
        PROVE  <<t, out[t] \o x>> \in G
    <3>1. <<t, out[t] \o x>> \in Least
      BY <1>3, <2>3
    <3>2. CASE t # s
      BY <3>1, <3>2
    <3>3. CASE t = s
      <4>1. PICK u \in Seq(U) : v = out[s] \o u /\ \A y : <<next[s], y>> \in Least => y = u
        BY <1>6, <2>3, <3>3
      <4>2. x = u
        BY <2>3, <3>3, <4>1
      <4> QED  BY <3>1, <3>3, <4>1, <4>2
    <3> QED  BY <3>2, <3>3
  <2>4. Closed(G)
    BY <2>2, <2>3
  <2> HIDE DEF G, Closed, Least
  <2>5. Least \subseteq G
    BY <1>4, <2>1, <2>4
  <2> QED  BY <2>5 DEF G
<1> HIDE DEF Least, Pairs
<1>7. \A s \in Seq(T) : One(s)
  <2> DEFINE Bad == {s \in Seq(T) : ~One(s)}
  <2> SUFFICES ASSUME Bad # {}  PROVE FALSE
    OBVIOUS
  <2>1. PICK s \in Bad : \A r \in Bad : Len(s) <= Len(r)
    BY ShortestOne
  <2>2. s \in Seq(T) /\ ~One(s)
    OBVIOUS
  <2>3. \A r \in Seq(T) : r \notin Bad => One(r)
    OBVIOUS
  <2> HIDE DEF Bad, One
  <2>4. CASE s = <<>>
    <3>1. <<>> \in Seq(U) /\ <<s, <<>>>> \in Least
      BY <1>3, <2>4, EmptySeq
    <3>2. \A w : <<s, w>> \in Least => w = <<>>
      BY <1>6, <2>2, <2>4, <3>1
    <3> QED  BY <2>2, <3>1, <3>2 DEF One
  <2>5. CASE s # <<>>
    <3>1. next[s] \in Seq(T) /\ Len(next[s]) < Len(s)
      BY <2>2, <2>5 DEF Shortens
    <3>2. One(next[s])
      <4>1. Len(s) \in Nat /\ Len(next[s]) \in Nat
        BY <2>2, <3>1
      <4>2. next[s] \notin Bad
        BY <2>1, <3>1, <4>1
      <4> QED  BY <2>3, <3>1, <4>2
    <3>3. PICK u \in Seq(U) : /\ <<next[s], u>> \in Least
                              /\ \A w : <<next[s], w>> \in Least => w = u
      BY <3>2 DEF One
    <3>4. <<s, out[s] \o u>> \in Least /\ out[s] \o u \in Seq(U)
      BY <1>2, <1>3, <2>2, <2>5, <3>3
    <3>5. \A w : <<s, w>> \in Least => w = out[s] \o u
      BY <1>6, <2>2, <2>5, <3>3, <3>4
    <3> QED  BY <2>2, <3>4, <3>5 DEF One
  <2> QED  BY <2>4, <2>5
<1> DEFINE value(s) == CHOOSE v \in Seq(U) : <<s, v>> \in Least
           f == [s \in Seq(T) |-> value(s)]
<1>8. ASSUME NEW s \in Seq(T)
      PROVE  /\ value(s) \in Seq(U)
             /\ <<s, value(s)>> \in Least
             /\ \A w : <<s, w>> \in Least => w = value(s)
  <2>1. \E v \in Seq(U) : <<s, v>> \in Least
    BY <1>7
  <2>2. value(s) \in Seq(U) /\ <<s, value(s)>> \in Least
    BY <2>1
  <2> QED  BY <1>7, <2>2
<1> HIDE DEF value
<1>9. /\ f \in [Seq(T) -> Seq(U)]
      /\ \A s \in Seq(T) : f[s] = value(s)
  BY <1>8
<1> HIDE DEF f
<1>10. ASSUME NEW s \in Seq(T)
       PROVE  f[s] = IF s = <<>> THEN <<>> ELSE out[s] \o f[next[s]]
  <2>1. CASE s = <<>>
    BY <1>3, <1>8, <1>9, <2>1
  <2>2. CASE s # <<>>
    <3>1. next[s] \in Seq(T)
      BY <1>1
    <3>2. <<next[s], f[next[s]]>> \in Least /\ f[next[s]] \in Seq(U)
      BY <1>8, <1>9, <3>1
    <3>3. <<s, out[s] \o f[next[s]]>> \in Least
      BY <1>3, <2>2, <3>2
    <3> QED  BY <1>8, <1>9, <2>2, <3>3
  <2> QED  BY <2>1, <2>2
<1> QED  BY <1>9, <1>10, EmptySeq DEF Unfolds

\* Any solution has its values where the parts it is put together of are.
LEMMA RecursionTyped ==
  ASSUME NEW T, NEW U, NEW next, Shortens(next, T), NEW out \in [Seq(T) -> Seq(U)],
         NEW g, g[<<>>] = <<>>,
         \A s \in Seq(T) : s # <<>> /\ g[next[s]] \in Seq(U) => g[s] = out[s] \o g[next[s]]
  PROVE  \A s \in Seq(T) : g[s] \in Seq(U)
<1> DEFINE Bad == {s \in Seq(T) : g[s] \notin Seq(U)}
<1>1. ASSUME Bad # {}  PROVE FALSE
  <2>1. PICK s \in Bad : \A r \in Bad : Len(s) <= Len(r)
    BY <1>1, ShortestOne
  <2>2. s \in Seq(T) /\ g[s] \notin Seq(U)
    OBVIOUS
  <2>3. s # <<>>
    BY <2>2, EmptySeq
  <2>4. next[s] \in Seq(T) /\ Len(next[s]) < Len(s) /\ out[s] \in Seq(U)
    BY <2>2, <2>3 DEF Shortens
  <2>5. Len(s) \in Nat /\ Len(next[s]) \in Nat
    BY <2>2, <2>4
  <2>6. g[next[s]] \in Seq(U)
    BY <2>1, <2>4, <2>5
  <2>7. g[s] = out[s] \o g[next[s]]
    BY <2>2, <2>3, <2>6
  <2> QED  BY <2>2, <2>4, <2>6, <2>7, ConcatProperties
<1> QED  BY <1>1

\* Of any numbers there is a least, which is what Min finds.
LEMMA MinIsLeast ==
  ASSUME NEW S \in SUBSET Nat, S # {}
  PROVE  Min(S) \in S /\ \A j \in S : Min(S) <= j
<1>1. PICK k \in S : \A j \in S : ~ (<<j, k>> \in OpToRel(<, Nat))
  BY NatLessThanWellFounded, WFMin
<1>2. \A j \in S : ~ (j < k)
  BY <1>1 DEF OpToRel
<1>3. \A j \in S : k <= j
  BY <1>2
<1> QED  BY <1>3 DEF Min


\* What is after the first n of a sequence, ...
LEMMA RestLeaves ==
  ASSUME NEW T, NEW r \in Seq(T), NEW n \in 0 .. Len(r)
  PROVE  /\ Rest(r, n) \in Seq(T)
         /\ Len(Rest(r, n)) = Len(r) - n
         /\ \A j \in 1 .. Len(r) - n : Rest(r, n)[j] = r[n + j]
BY SubSeqProperties DEF Rest

\* ... and after some more of it.
LEMMA RestOfRest ==
  ASSUME NEW T, NEW r \in Seq(T), NEW n \in 0 .. Len(r), NEW k \in 0 .. Len(r) - n
  PROVE  Rest(Rest(r, n), k) = Rest(r, n + k)
<1> DEFINE u == Rest(Rest(r, n), k)
           v == Rest(r, n + k)
<1>1. Len(r) \in Nat /\ n + k \in 0 .. Len(r)
  OBVIOUS
<1>2. /\ Rest(r, n) \in Seq(T)
      /\ Len(Rest(r, n)) = Len(r) - n
      /\ \A j \in 1 .. Len(r) - n : Rest(r, n)[j] = r[n + j]
  BY RestLeaves
<1>3. /\ u \in Seq(T)
      /\ Len(u) = Len(r) - n - k
      /\ \A j \in 1 .. Len(r) - n - k : u[j] = Rest(r, n)[k + j]
  <2>1. k \in 0 .. Len(Rest(r, n))
    BY <1>2
  <2> QED  BY <1>2, <2>1, RestLeaves
<1>4. /\ v \in Seq(T)
      /\ Len(v) = Len(r) - (n + k)
      /\ \A j \in 1 .. Len(r) - (n + k) : v[j] = r[n + k + j]
  BY <1>1, RestLeaves
<1> HIDE DEF u, v
<1>5. Len(u) = Len(v)
  BY <1>1, <1>3, <1>4
<1>6. ASSUME NEW j \in 1 .. Len(u)  PROVE u[j] = v[j]
  <2>1. k + j \in 1 .. Len(r) - n /\ n + (k + j) = n + k + j /\ j \in 1 .. Len(r) - (n + k)
    BY <1>1, <1>3
  <2> QED  BY <1>2, <1>3, <1>4, <2>1
<1>7. u = v
  BY <1>3, <1>4, <1>5, <1>6, SeqEqual
<1> QED  BY <1>7 DEF u, v

\* The texts of the runs are texts.
LEMMA BoundedIsSeq ==
  ASSUME NEW S, NEW n, NEW s \in SeqsUpTo(S, n)
  PROVE  s \in Seq(S)
<1>1. PICK k \in 0 .. n : s \in [1 .. k -> S]
  BY DEF SeqsUpTo
<1>2. k \in Nat
  OBVIOUS
<1> QED  BY <1>1, <1>2, SeqDef

-----------------------------------------------------------------------------
(* Chunks.                                                                  *)

\* Where a window is cut (together.py:_split_into_chunks), whatever is in it: the chunk
\* is not empty, not longer than the window, and at least half as long.
THEOREM CutIsLate ==
  ASSUME NEW t \in Seq(Chars), Len(t) > MaxChars
  PROVE  BreakAt(t) \in 1 .. MaxChars /\ 2 * BreakAt(t) >= MaxChars
<1>1. MaxChars \in Nat /\ MaxChars >= 2
  BY ChunkAssumption
<1>2. ASSUME NEW S \in SUBSET (0 .. MaxChars), Late(S) # {}
      PROVE  Max(Late(S)) \in 1 .. MaxChars /\ 2 * Max(Late(S)) >= MaxChars
  <2>1. Late(S) \in SUBSET (1 .. MaxChars)
    <3> SUFFICES ASSUME NEW b \in Late(S)  PROVE b \in 1 .. MaxChars
      OBVIOUS
    <3>1. b \in 0 .. MaxChars /\ 2 * b >= MaxChars
      BY DEF Late
    <3> QED  BY <1>1, <3>1
  <2>2. Max(Late(S)) \in Late(S)
    BY <1>1, <1>2, <2>1, MaxIsIn
  <2> QED  BY <2>1, <2>2 DEF Late
<1> DEFINE paragraphs == {b \in 0 .. MaxChars - 2 : t[b + 1] = "\n" /\ t[b + 2] = "\n"}
           lines      == {b \in 0 .. MaxChars - 1 : t[b + 1] = "\n"}
           words      == {b \in 0 .. MaxChars - 1 : t[b + 1] = " "}
<1>3. /\ paragraphs \in SUBSET (0 .. MaxChars)
      /\ lines \in SUBSET (0 .. MaxChars)
      /\ words \in SUBSET (0 .. MaxChars)
  <2>1. 0 .. MaxChars - 2 \subseteq 0 .. MaxChars /\ 0 .. MaxChars - 1 \subseteq 0 .. MaxChars
    BY <1>1
  <2> QED  BY <2>1
<1>4. /\ ParagraphEnds(t) = Late(paragraphs)
      /\ LineEnds(t) = Late(lines)
      /\ WordEnds(t) = Late(words)
  BY DEF ParagraphEnds, LineEnds, WordEnds
<1> HIDE DEF paragraphs, lines, words
<1>5. CASE ParagraphEnds(t) # {}
  <2>1. BreakAt(t) = Max(ParagraphEnds(t))
    BY <1>5 DEF BreakAt
  <2> QED  BY <1>2, <1>3, <1>4, <1>5, <2>1
<1>6. CASE ParagraphEnds(t) = {} /\ LineEnds(t) # {}
  <2>1. BreakAt(t) = Max(LineEnds(t))
    BY <1>6 DEF BreakAt
  <2> QED  BY <1>2, <1>3, <1>4, <1>6, <2>1
<1>7. CASE ParagraphEnds(t) \cup LineEnds(t) = {} /\ WordEnds(t) # {}
  <2>1. BreakAt(t) = Max(WordEnds(t))
    BY <1>7 DEF BreakAt
  <2> QED  BY <1>2, <1>3, <1>4, <1>7, <2>1
<1>8. CASE ParagraphEnds(t) \cup LineEnds(t) \cup WordEnds(t) = {}
  <2>1. BreakAt(t) = MaxChars
    BY <1>8 DEF BreakAt
  <2> QED  BY <1>1, <2>1
<1> QED  BY <1>5, <1>6, <1>7, <1>8

\* What lstrip() leaves: all from the first character on that is not blank.
LEMMA LStripLeaves ==
  ASSUME NEW t \in Seq(Chars)
  PROVE  \E k \in 0 .. Len(t) :
           /\ LStrip(t) = SubSeq(t, k + 1, Len(t))
           /\ \A i \in 1 .. k : IsBlank(t[i])
           /\ k < Len(t) => ~IsBlank(t[k + 1])
<1> DEFINE ink == {i \in DOMAIN t : ~IsBlank(t[i])}
<1>1. Len(t) \in Nat /\ DOMAIN t = 1 .. Len(t)
  OBVIOUS
<1>2. CASE ink = {}
  <2>1. LStrip(t) = <<>>
    BY <1>2 DEF LStrip
  <2>2. SubSeq(t, Len(t) + 1, Len(t)) = <<>>
    BY <1>1
  <2>3. \A i \in 1 .. Len(t) : IsBlank(t[i])
    BY <1>1, <1>2
  <2>4. Len(t) \in 0 .. Len(t) /\ ~ (Len(t) < Len(t))
    BY <1>1
  <2> QED  BY <2>1, <2>2, <2>3, <2>4
<1>3. CASE ink # {}
  <2>1. LStrip(t) = SubSeq(t, Min(ink), Len(t))
    BY <1>3 DEF LStrip
  <2>2. ink \in SUBSET Nat
    BY <1>1
  <2>3. Min(ink) \in ink /\ \A j \in ink : Min(ink) <= j
    BY <1>3, <2>2, MinIsLeast
  <2> DEFINE k == Min(ink) - 1
  <2>4. k \in 0 .. Len(t) /\ k + 1 = Min(ink) /\ k + 1 \in 1 .. Len(t) /\ ~IsBlank(t[k + 1])
    <3>1. Min(ink) \in 1 .. Len(t) /\ ~IsBlank(t[Min(ink)])
      BY <1>1, <2>3
    <3> HIDE DEF ink
    <3>2. k \in 0 .. Len(t) /\ k + 1 = Min(ink)
      BY <1>1, <3>1
    <3> QED  BY <3>1, <3>2
  <2>5. ASSUME NEW i \in 1 .. k  PROVE IsBlank(t[i])
    <3>1. i \in 1 .. Len(t) /\ ~ (Min(ink) <= i)
      BY <1>1, <2>4
    <3> QED  BY <1>1, <2>3, <3>1
  <2> HIDE DEF k, ink
  <2> QED  BY <2>1, <2>4, <2>5
<1> QED  BY <1>2, <1>3

\* What strip() leaves: all from the first to the last character that is not blank.
LEMMA StripLeaves ==
  ASSUME NEW t \in Seq(Chars)
  PROVE  \/ Strip(t) = <<>> /\ \A i \in DOMAIN t : IsBlank(t[i])
         \/ \E a \in 1 .. Len(t), b \in 1 .. Len(t) :
              /\ a <= b
              /\ Strip(t) = SubSeq(t, a, b)
              /\ ~IsBlank(t[a])
              /\ \A i \in DOMAIN t : i < a \/ i > b => IsBlank(t[i])
<1> DEFINE ink == {i \in DOMAIN t : ~IsBlank(t[i])}
<1>1. Len(t) \in Nat /\ DOMAIN t = 1 .. Len(t)
  OBVIOUS
<1>2. CASE ink = {}
  BY <1>2 DEF Strip
<1>3. CASE ink # {}
  <2>1. Strip(t) = SubSeq(t, Min(ink), Max(ink))
    BY <1>3 DEF Strip
  <2>2. ink \in SUBSET Nat /\ ink \in SUBSET (1 .. Len(t))
    BY <1>1
  <2>3. Min(ink) \in ink /\ \A j \in ink : Min(ink) <= j
    BY <1>3, <2>2, MinIsLeast
  <2>4. Max(ink) \in ink /\ \A j \in ink : Max(ink) >= j
    <3>1. \E x \in ink : \A y \in ink : x >= y
      BY <1>1, <1>3, <2>2, GreatestBelow
    <3> QED  BY <3>1 DEF Max
  <2>5. Min(ink) \in 1 .. Len(t) /\ Max(ink) \in 1 .. Len(t) /\ Min(ink) <= Max(ink)
    BY <1>1, <2>2, <2>3, <2>4
  <2>6. ~IsBlank(t[Min(ink)])
    BY <2>3
  <2>7. ASSUME NEW i \in DOMAIN t, i < Min(ink) \/ i > Max(ink)  PROVE IsBlank(t[i])
    <3>1. i \in Nat /\ ~ (Min(ink) <= i /\ Max(ink) >= i)
      BY <1>1, <2>5, <2>7
    <3>2. i \notin ink
      BY <2>3, <2>4, <3>1
    <3> QED  BY <3>2
  <2> HIDE DEF ink
  <2> QED  BY <2>1, <2>5, <2>6, <2>7
<1> QED  BY <1>2, <1>3

\* What is split after a chunk is what is left of the text after it and the blanks that
\* follow it.
LEMMA AfterLeaves ==
  ASSUME NEW t \in Seq(Chars), Len(t) > MaxChars
  PROVE  \E k \in BreakAt(t) .. Len(t) :
           /\ After(t) = SubSeq(t, k + 1, Len(t))
           /\ After(t) \in Seq(Chars)
           /\ Len(After(t)) = Len(t) - k
           /\ \A i \in BreakAt(t) + 1 .. k : IsBlank(t[i])
           /\ k < Len(t) => ~IsBlank(t[k + 1])
<1> DEFINE b    == BreakAt(t)
           left == Rest(t, b)
<1>1. Len(t) \in Nat /\ b \in Nat /\ b \in 0 .. Len(t)
  BY ChunkAssumption, CutIsLate
<1>2. After(t) = LStrip(left)
  BY DEF After, Rest
<1> HIDE DEF b
<1>3. /\ left \in Seq(Chars)
      /\ Len(left) = Len(t) - b
      /\ \A i \in 1 .. Len(t) - b : left[i] = t[b + i]
  BY <1>1, RestLeaves
<1>4. PICK k \in 0 .. Len(left) :
        /\ LStrip(left) = Rest(left, k)
        /\ \A i \in 1 .. k : IsBlank(left[i])
        /\ k < Len(left) => ~IsBlank(left[k + 1])
  BY <1>3, LStripLeaves DEF Rest
<1>5. b + k \in b .. Len(t) /\ k \in 0 .. Len(t) - b /\ b + k \in 0 .. Len(t)
  BY <1>1, <1>3, <1>4
<1>6. /\ LStrip(left) = Rest(t, b + k)
      /\ Rest(t, b + k) \in Seq(Chars)
      /\ Len(Rest(t, b + k)) = Len(t) - (b + k)
  BY <1>1, <1>4, <1>5, RestLeaves, RestOfRest
<1> HIDE DEF left
<1>7. ASSUME NEW i \in b + 1 .. b + k  PROVE IsBlank(t[i])
  <2>1. i - b \in 1 .. k /\ i - b \in 1 .. Len(t) - b /\ b + (i - b) = i
    BY <1>1, <1>5
  <2> QED  BY <1>3, <1>4, <2>1
<1>8. ASSUME b + k < Len(t)  PROVE ~IsBlank(t[b + k + 1])
  <2>1. k < Len(left) /\ k + 1 \in 1 .. Len(t) - b /\ b + (k + 1) = b + k + 1
    BY <1>1, <1>3, <1>5, <1>8
  <2> QED  BY <1>3, <1>4, <2>1
<1> QED  BY <1>2, <1>4, <1>5, <1>6, <1>7, <1>8 DEF b, Rest

\* Which chunks a text is cut into, from the left.
LEMMA ChunksUnfolds ==
  /\ Chunks \in [Seq(Chars) -> Seq(Seq(Chars))]
  /\ Chunks[<<>>] = <<>>
  /\ \A t \in Seq(Chars) :
       t # <<>> => Chunks[t] = IF Len(t) > MaxChars
                               THEN <<First(t)>> \o Chunks[After(t)]
                               ELSE <<t>>
<1> DEFINE out  == [t \in Seq(Chars) |-> IF t = <<>> THEN <<>>
                                         ELSE IF Len(t) > MaxChars
                                         THEN <<First(t)>> ELSE <<t>>]
           next == [t \in Seq(Chars) |-> IF Len(t) > MaxChars THEN After(t) ELSE <<>>]
           Body(g, t) == IF Len(t) > MaxChars THEN <<First(t)>> \o g[After(t)]
                         ELSE IF t = <<>> THEN <<>> ELSE <<t>>
           Solves(g) == g = [t \in Seq(Chars) |-> Body(g, t)]
<1>1. ASSUME NEW t \in Seq(Chars), t # <<>>
      PROVE  /\ next[t] \in Seq(Chars) /\ Len(next[t]) < Len(t)
             /\ next[t] = IF Len(t) > MaxChars THEN After(t) ELSE <<>>
             /\ out[t] \in Seq(Seq(Chars))
             /\ out[t] = IF Len(t) > MaxChars THEN <<First(t)>> ELSE <<t>>
  <2>1. Len(t) \in Nat /\ Len(t) > 0 /\ MaxChars \in Nat
    BY <1>1, ChunkAssumption, EmptySeq, LenProperties
  <2>2. CASE Len(t) > MaxChars
    <3>1. BreakAt(t) \in 1 .. MaxChars /\ BreakAt(t) \in 1 .. Len(t)
      BY <2>1, <2>2, CutIsLate
    <3>2. After(t) \in Seq(Chars) /\ Len(After(t)) < Len(t)
      BY <2>1, <2>2, <3>1, AfterLeaves
    <3>3. First(t) \in Seq(Chars)
      BY <2>1, <3>1, SubSeqProperties DEF First
    <3>4. next[t] = After(t) /\ out[t] = <<First(t)>>
      BY <1>1, <2>2
    <3> HIDE DEF next, out
    <3> QED  BY <2>2, <3>2, <3>3, <3>4
  <2>3. CASE ~ (Len(t) > MaxChars)
    <3>1. next[t] = <<>> /\ out[t] = <<t>>
      BY <1>1, <2>3
    <3> HIDE DEF next, out
    <3> QED  BY <2>1, <2>3, <3>1, EmptySeq
  <2> QED  BY <2>2, <2>3
<1>2. Shortens(next, Chars) /\ out \in [Seq(Chars) -> Seq(Seq(Chars))]
  <2>1. next[<<>>] \in Seq(Chars) /\ out[<<>>] \in Seq(Seq(Chars))
    BY EmptySeq, ChunkAssumption
  <2>2. /\ next = [t \in Seq(Chars) |-> next[t]]
        /\ out = [t \in Seq(Chars) |-> out[t]]
    OBVIOUS
  <2> HIDE DEF next, out
  <2>3. \A t \in Seq(Chars) : next[t] \in Seq(Chars) /\ out[t] \in Seq(Seq(Chars))
    BY <1>1, <2>1
  <2> QED  BY <1>1, <2>2, <2>3 DEF Shortens
<1> HIDE DEF next, out
<1>3. \A g : Body(g, <<>>) = <<>>
  BY ChunkAssumption, EmptySeq
<1>4. ASSUME NEW g, NEW t \in Seq(Chars), t # <<>>
      PROVE  Body(g, t) = IF Len(t) > MaxChars
                          THEN <<First(t)>> \o g[After(t)] ELSE <<t>>
  BY <1>4
<1>5. ASSUME NEW g, g[<<>>] = <<>>, NEW t \in Seq(Chars), t # <<>>,
             g[next[t]] \in Seq(Seq(Chars))
      PROVE  Body(g, t) = out[t] \o g[next[t]]
  <2> HIDE DEF Body
  <2>1. CASE Len(t) > MaxChars
    BY <1>1, <1>4, <1>5, <2>1
  <2>2. CASE ~ (Len(t) > MaxChars)
    <3>1. Body(g, t) = <<t>> /\ out[t] = <<t>> /\ g[next[t]] = <<>>
      BY <1>1, <1>4, <1>5, <2>2
    <3>2. <<t>> \in Seq(Seq(Chars))
      OBVIOUS
    <3> QED  BY <3>1, <3>2, ConcatEmptySeq
  <2> QED  BY <2>1, <2>2
<1>6. Chunks = CHOOSE g : Solves(g)
  BY DEF Chunks
<1> HIDE DEF Body
<1>7. \E g : Solves(g)
  <2>1. PICK f \in [Seq(Chars) -> Seq(Seq(Chars))] : Unfolds(f, Chars, next, out)
    BY <1>2, RecursionHasSolution
  <2>2. ASSUME NEW t \in Seq(Chars)
        PROVE  Body(f, t) = f[t]
    <3>1. CASE t = <<>>
      BY <1>3, <2>1, <3>1 DEF Unfolds
    <3>2. CASE t # <<>>
      <4>1. f[next[t]] \in Seq(Seq(Chars))
        BY <1>1, <2>1, <3>2
      <4> QED  BY <1>5, <2>1, <3>2, <4>1 DEF Unfolds
    <3> QED  BY <3>1, <3>2
  <2>3. f = [t \in Seq(Chars) |-> Body(f, t)]
    BY <2>1, <2>2
  <2> QED  BY <2>3
<1>8. Solves(Chunks)
  <2> HIDE DEF Solves
  <2> QED  BY <1>6, <1>7
<1>9. /\ Chunks = [t \in Seq(Chars) |-> Chunks[t]]
      /\ \A t \in Seq(Chars) : Chunks[t] = Body(Chunks, t)
  BY <1>8
<1>10. Chunks[<<>>] = <<>>
  BY <1>3, <1>9, EmptySeq
<1>11. \A t \in Seq(Chars) : Chunks[t] \in Seq(Seq(Chars))
  <2>1. \A t \in Seq(Chars) :
          t # <<>> /\ Chunks[next[t]] \in Seq(Seq(Chars))
            => Chunks[t] = out[t] \o Chunks[next[t]]
    BY <1>5, <1>9, <1>10
  <2> QED  BY <1>2, <1>10, <2>1, RecursionTyped
<1> QED  BY <1>4, <1>9, <1>10, <1>11

\* One chunk, and then others.
LEMMA ChunkBefore ==
  ASSUME NEW b \in Seq(Chars), NEW c \in Seq(Seq(Chars))
  PROVE  /\ <<b>> \o c \in Seq(Seq(Chars))
         /\ Len(<<b>> \o c) = Len(c) + 1
         /\ DOMAIN (<<b>> \o c) = 1 .. Len(c) + 1
         /\ (<<b>> \o c)[1] = b
         /\ \A i \in 1 .. Len(c) : (<<b>> \o c)[i + 1] = c[i]
<1>1. <<b>> \in Seq(Seq(Chars)) /\ Len(<<b>>) = 1 /\ <<b>>[1] = b
  OBVIOUS
<1>2. Len(c) \in Nat
  OBVIOUS
<1> DEFINE d == <<b>> \o c
<1>3. /\ d \in Seq(Seq(Chars)) /\ Len(d) = Len(c) + 1
      /\ \A i \in 1 .. Len(c) + 1 : d[i] = IF i <= 1 THEN <<b>>[i] ELSE c[i - 1]
  BY <1>1, <1>2, ConcatProperties
<1> HIDE DEF d
<1>4. DOMAIN d = 1 .. Len(c) + 1
  BY <1>3, LenProperties
<1>5. d[1] = b
  BY <1>1, <1>2, <1>3
<1>6. ASSUME NEW i \in 1 .. Len(c)  PROVE d[i + 1] = c[i]
  <2>1. i + 1 \in 1 .. Len(c) + 1 /\ ~ (i + 1 <= 1) /\ i + 1 - 1 = i
    BY <1>2
  <2> QED  BY <1>3, <2>1
<1> QED  BY <1>3, <1>4, <1>5, <1>6 DEF d

\* Pieces of a part of a text are pieces of the text, when what is outside of the part
\* is blank.
LEMMA PiecesOfPart ==
  ASSUME NEW t \in Seq(Chars), NEW u \in Seq(Chars), NEW m \in Nat, m + Len(u) <= Len(t),
         \A i \in 1 .. Len(u) : u[i] = t[m + i],
         \A i \in DOMAIN t : i <= m \/ i > m + Len(u) => IsBlank(t[i]),
         NEW c \in Seq(Seq(Chars)), PiecesOf(u, c)
  PROVE  PiecesOf(t, c)
<1>1. /\ Len(t) \in Nat /\ Len(u) \in Nat /\ DOMAIN t = 1 .. Len(t) /\ DOMAIN u = 1 .. Len(u)
      /\ DOMAIN c = 1 .. Len(c) /\ Len(c) \in Nat
  OBVIOUS
<1>2. \A i \in DOMAIN c : c[i] \in Seq(Chars)
  OBVIOUS
<1>3. \A i \in DOMAIN c : Len(c[i]) \in Nat /\ DOMAIN c[i] = 1 .. Len(c[i])
  BY <1>2
<1>4. PICK at \in [DOMAIN c -> 1 .. Len(u) + 1] :
        /\ \A i \in DOMAIN c :
             /\ at[i] + Len(c[i]) <= Len(u) + 1
             /\ \A k \in DOMAIN c[i] : c[i][k] = u[at[i] + k - 1]
             /\ i + 1 \in DOMAIN c => at[i] + Len(c[i]) <= at[i + 1]
        /\ \A k \in DOMAIN u :
             IsBlank(u[k]) \/ \E i \in DOMAIN c : k \in at[i] .. at[i] + Len(c[i]) - 1
  BY DEF PiecesOf
<1> DEFINE to == [i \in DOMAIN c |-> m + at[i]]
<1>5. \A i \in DOMAIN c : to[i] = m + at[i] /\ at[i] \in 1 .. Len(u) + 1
  BY <1>4
<1>6. to \in [DOMAIN c -> 1 .. Len(t) + 1]
  <2>1. \A i \in DOMAIN c : m + at[i] \in 1 .. Len(t) + 1
    BY <1>1, <1>5
  <2> QED  BY <2>1
<1> HIDE DEF to
<1>7. ASSUME NEW i \in DOMAIN c
      PROVE  /\ to[i] + Len(c[i]) <= Len(t) + 1
             /\ \A k \in DOMAIN c[i] : c[i][k] = t[to[i] + k - 1]
             /\ i + 1 \in DOMAIN c => to[i] + Len(c[i]) <= to[i + 1]
  <2>1. to[i] + Len(c[i]) <= Len(t) + 1
    BY <1>1, <1>3, <1>4, <1>5
  <2>2. ASSUME NEW k \in DOMAIN c[i]  PROVE c[i][k] = t[to[i] + k - 1]
    <3>1. c[i][k] = u[at[i] + k - 1]
      BY <1>4
    <3>2. /\ at[i] \in 1 .. Len(u) + 1 /\ to[i] = m + at[i] /\ k \in 1 .. Len(c[i])
          /\ Len(c[i]) \in Nat /\ at[i] + Len(c[i]) <= Len(u) + 1
      BY <1>3, <1>4, <1>5
    <3>3. at[i] + k - 1 \in 1 .. Len(u) /\ m + (at[i] + k - 1) = to[i] + k - 1
      BY <1>1, <3>2
    <3> QED  BY <3>1, <3>3
  <2>3. ASSUME i + 1 \in DOMAIN c  PROVE to[i] + Len(c[i]) <= to[i + 1]
    <3>1. /\ at[i] \in 1 .. Len(u) + 1 /\ to[i] = m + at[i]
          /\ at[i + 1] \in 1 .. Len(u) + 1 /\ to[i + 1] = m + at[i + 1]
          /\ Len(c[i]) \in Nat /\ at[i] + Len(c[i]) <= at[i + 1]
      BY <1>3, <1>4, <1>5, <2>3
    <3> QED  BY <1>1, <3>1
  <2> QED  BY <2>1, <2>2, <2>3
<1>8. ASSUME NEW k \in DOMAIN t, ~IsBlank(t[k])
      PROVE  \E i \in DOMAIN c : k \in to[i] .. to[i] + Len(c[i]) - 1
  <2>1. k - m \in DOMAIN u /\ m + (k - m) = k
    BY <1>1, <1>8
  <2>2. u[k - m] = t[k]
    BY <1>1, <2>1
  <2>3. PICK i \in DOMAIN c : k - m \in at[i] .. at[i] + Len(c[i]) - 1
    BY <1>4, <1>8, <2>1, <2>2
  <2>4. at[i] \in 1 .. Len(u) + 1 /\ to[i] = m + at[i] /\ Len(c[i]) \in Nat
    BY <1>3, <1>5
  <2>5. k \in to[i] .. to[i] + Len(c[i]) - 1
    BY <1>1, <2>3, <2>4
  <2> QED  BY <2>5
<1> QED  BY <1>6, <1>7, <1>8 DEF PiecesOf

\* The text up to some point is a piece that can be put before the pieces of what is
\* left, when only blanks are between them.
LEMMA PieceBefore ==
  ASSUME NEW t \in Seq(Chars), NEW b \in 1 .. Len(t), NEW k \in b .. Len(t),
         \A i \in b + 1 .. k : IsBlank(t[i]),
         NEW c \in Seq(Seq(Chars)), PiecesOf(Rest(t, k), c)
  PROVE  PiecesOf(t, <<SubSeq(t, 1, b)>> \o c)
<1> DEFINE u == Rest(t, k)
           p == SubSeq(t, 1, b)
           d == <<p>> \o c
<1>1. /\ Len(t) \in Nat /\ DOMAIN t = 1 .. Len(t) /\ DOMAIN c = 1 .. Len(c) /\ Len(c) \in Nat
      /\ b \in Nat /\ k \in Nat /\ b <= k /\ k <= Len(t) /\ 1 <= b
  OBVIOUS
<1>2. /\ u \in Seq(Chars) /\ Len(u) = Len(t) - k /\ DOMAIN u = 1 .. Len(t) - k
      /\ \A i \in 1 .. Len(t) - k : u[i] = t[k + i]
  <2>1. k \in 0 .. Len(t)
    BY <1>1
  <2> QED  BY <2>1, RestLeaves, LenProperties
<1>3. /\ p \in Seq(Chars) /\ Len(p) = b /\ DOMAIN p = 1 .. b
      /\ \A i \in 1 .. b : p[i] = t[i]
  BY <1>1, SubSeqProperties
<1>4. PiecesOf(u, c)
  OBVIOUS
<1> HIDE DEF u, p
<1>5. /\ d \in Seq(Seq(Chars)) /\ DOMAIN d = 1 .. Len(c) + 1
      /\ d[1] = p
      /\ \A i \in 1 .. Len(c) : d[i + 1] = c[i]
  BY <1>3, ChunkBefore
<1> HIDE DEF d
<1>6. \A i \in DOMAIN c : Len(c[i]) \in Nat /\ DOMAIN c[i] = 1 .. Len(c[i])
  <2>1. \A i \in DOMAIN c : c[i] \in Seq(Chars)
    OBVIOUS
  <2> QED  BY <2>1
<1>7. PICK at \in [DOMAIN c -> 1 .. Len(u) + 1] :
        /\ \A i \in DOMAIN c :
             /\ at[i] + Len(c[i]) <= Len(u) + 1
             /\ \A j \in DOMAIN c[i] : c[i][j] = u[at[i] + j - 1]
             /\ i + 1 \in DOMAIN c => at[i] + Len(c[i]) <= at[i + 1]
        /\ \A j \in DOMAIN u :
             IsBlank(u[j]) \/ \E i \in DOMAIN c : j \in at[i] .. at[i] + Len(c[i]) - 1
  BY <1>4 DEF PiecesOf
<1> DEFINE to == [i \in DOMAIN d |-> IF i = 1 THEN 1 ELSE k + at[i - 1]]
<1>8. \A i \in DOMAIN d : to[i] = IF i = 1 THEN 1 ELSE k + at[i - 1]
  OBVIOUS
<1>9. to[1] = 1
  BY <1>1, <1>5, <1>8
<1>10. ASSUME NEW i \in DOMAIN c
       PROVE  /\ i + 1 \in DOMAIN d /\ i \in Nat
              /\ to[i + 1] = k + at[i] /\ at[i] \in 1 .. Len(t) - k + 1
              /\ d[i + 1] = c[i]
  <2>1. i + 1 \in DOMAIN d /\ i + 1 # 1 /\ i + 1 - 1 = i /\ i \in Nat
    BY <1>1, <1>5
  <2>2. at[i] \in 1 .. Len(t) - k + 1
    BY <1>2, <1>7
  <2>3. to[i + 1] = k + at[i]
    BY <1>8, <2>1
  <2>4. d[i + 1] = c[i]
    BY <1>1, <1>5
  <2> HIDE DEF to
  <2> QED  BY <2>1, <2>2, <2>3, <2>4
<1>11. \A i \in DOMAIN d : i = 1 \/ (i - 1 \in DOMAIN c /\ (i - 1) + 1 = i)
  BY <1>1, <1>5
<1>12. to \in [DOMAIN d -> 1 .. Len(t) + 1]
  <2>1. ASSUME NEW i \in DOMAIN d  PROVE to[i] \in 1 .. Len(t) + 1
    <3>1. CASE i = 1
      BY <1>1, <1>9, <3>1
    <3>2. CASE i # 1
      <4>1. i - 1 \in DOMAIN c /\ (i - 1) + 1 = i
        BY <1>11, <3>2
      <4>2. to[i] = k + at[i - 1] /\ at[i - 1] \in 1 .. Len(t) - k + 1
        BY <1>10, <4>1
      <4> QED  BY <1>1, <4>2
    <3> QED  BY <3>1, <3>2
  <2> QED  BY <2>1
<1> HIDE DEF to
<1>13. ASSUME NEW i \in DOMAIN d
       PROVE  /\ to[i] + Len(d[i]) <= Len(t) + 1
              /\ \A j \in DOMAIN d[i] : d[i][j] = t[to[i] + j - 1]
              /\ i + 1 \in DOMAIN d => to[i] + Len(d[i]) <= to[i + 1]
  <2>1. CASE i = 1
    <3>1. to[i] + Len(d[i]) <= Len(t) + 1
      BY <1>1, <1>3, <1>5, <1>9, <2>1
    <3>2. \A j \in DOMAIN d[i] : d[i][j] = t[to[i] + j - 1]
      <4>1. \A j \in 1 .. b : 1 + j - 1 = j
        BY <1>1
      <4> QED  BY <1>3, <1>5, <1>9, <2>1, <4>1
    <3>3. ASSUME i + 1 \in DOMAIN d  PROVE to[i] + Len(d[i]) <= to[i + 1]
      <4>1. 1 \in DOMAIN c
        BY <1>1, <1>5, <2>1, <3>3
      <4>2. to[1 + 1] = k + at[1] /\ at[1] \in 1 .. Len(t) - k + 1
        BY <1>10, <4>1
      <4> QED  BY <1>1, <1>3, <1>5, <1>9, <2>1, <4>2
    <3> QED  BY <3>1, <3>2, <3>3
  <2>2. CASE i # 1
    <3> DEFINE h == i - 1
    <3>1. h \in DOMAIN c /\ h + 1 = i
      BY <1>11, <2>2
    <3> HIDE DEF h
    <3>2. /\ to[i] = k + at[h] /\ at[h] \in 1 .. Len(t) - k + 1 /\ d[i] = c[h]
          /\ Len(c[h]) \in Nat /\ DOMAIN c[h] = 1 .. Len(c[h])
          /\ at[h] + Len(c[h]) <= Len(t) - k + 1
      <4>1. at[h] + Len(c[h]) <= Len(u) + 1
        BY <1>7, <3>1
      <4> QED  BY <1>2, <1>6, <1>10, <3>1, <4>1
    <3>3. to[i] + Len(d[i]) <= Len(t) + 1
      BY <1>1, <3>2
    <3>4. ASSUME NEW j \in DOMAIN d[i]  PROVE d[i][j] = t[to[i] + j - 1]
      <4>1. c[h][j] = u[at[h] + j - 1]
        BY <1>7, <3>1, <3>2, <3>4
      <4>2. at[h] + j - 1 \in 1 .. Len(t) - k /\ k + (at[h] + j - 1) = to[i] + j - 1
        BY <1>1, <3>2, <3>4
      <4> QED  BY <1>2, <3>2, <4>1, <4>2
    <3>5. ASSUME i + 1 \in DOMAIN d  PROVE to[i] + Len(d[i]) <= to[i + 1]
      <4>1. h + 1 \in DOMAIN c
        BY <1>1, <1>5, <3>1, <3>5
      <4>2. at[h] + Len(c[h]) <= at[h + 1]
        BY <1>7, <3>1, <4>1
      <4>3. to[i + 1] = k + at[h + 1] /\ at[h + 1] \in 1 .. Len(t) - k + 1
        BY <1>10, <3>1, <4>1
      <4> QED  BY <1>1, <3>2, <4>2, <4>3
    <3> QED  BY <3>3, <3>4, <3>5
  <2> QED  BY <2>1, <2>2
<1>14. ASSUME NEW j \in DOMAIN t, ~IsBlank(t[j])
       PROVE  \E i \in DOMAIN d : j \in to[i] .. to[i] + Len(d[i]) - 1
  <2>1. CASE j <= b
    <3>1. j \in to[1] .. to[1] + Len(d[1]) - 1
      BY <1>1, <1>3, <1>5, <1>9, <2>1
    <3>2. 1 \in DOMAIN d
      BY <1>1, <1>5
    <3> QED  BY <3>1, <3>2
  <2>2. CASE ~ (j <= b)
    <3>1. ~ (j <= k)
      <4>1. j <= k => j \in b + 1 .. k
        BY <1>1, <2>2
      <4> QED  BY <1>14, <4>1
    <3>2. j - k \in 1 .. Len(t) - k /\ k + (j - k) = j
      BY <1>1, <3>1
    <3>3. u[j - k] = t[j]
      BY <1>2, <3>2
    <3>4. PICK i \in DOMAIN c : j - k \in at[i] .. at[i] + Len(c[i]) - 1
      BY <1>2, <1>7, <1>14, <3>2, <3>3
    <3>5. /\ i + 1 \in DOMAIN d /\ to[i + 1] = k + at[i] /\ at[i] \in 1 .. Len(t) - k + 1
          /\ d[i + 1] = c[i] /\ Len(c[i]) \in Nat
      BY <1>6, <1>10
    <3>6. j \in to[i + 1] .. to[i + 1] + Len(d[i + 1]) - 1
      BY <1>1, <3>4, <3>5
    <3> QED  BY <3>5, <3>6
  <2> QED  BY <2>1, <2>2
<1>15. PiecesOf(t, d)
  BY <1>12, <1>13, <1>14 DEF PiecesOf
<1> QED  BY <1>15 DEF d, p

\* The chunks of a text are pieces of it, whatever it starts with.
LEMMA ChunksArePieces ==
  ASSUME NEW text \in Seq(Chars)
  PROVE  PiecesOf(text, Chunks[text])
<1> DEFINE Bad == {t \in Seq(Chars) : ~PiecesOf(t, Chunks[t])}
<1>1. ASSUME Bad # {}  PROVE FALSE
  <2>1. PICK t \in Bad : \A r \in Bad : Len(t) <= Len(r)
    BY <1>1, ShortestOne
  <2>2. t \in Seq(Chars) /\ ~PiecesOf(t, Chunks[t])
    OBVIOUS
  <2>3. \A r \in Seq(Chars) : Len(r) < Len(t) => PiecesOf(r, Chunks[r])
    <3> SUFFICES ASSUME NEW r \in Seq(Chars), Len(r) < Len(t), r \in Bad  PROVE FALSE
      OBVIOUS
    <3>1. Len(t) \in Nat /\ Len(r) \in Nat /\ Len(t) <= Len(r)
      BY <2>1, <2>2
    <3> QED  BY <3>1
  <2> HIDE DEF Bad
  <2>4. Len(t) \in Nat /\ DOMAIN t = 1 .. Len(t) /\ MaxChars \in Nat /\ MaxChars >= 2
    BY <2>2, ChunkAssumption
  <2>5. CASE t = <<>>
    <3>1. Chunks[t] = <<>> /\ DOMAIN t = {} /\ Len(t) = 0
      BY <2>2, <2>5, ChunksUnfolds
    <3> DEFINE at == [i \in {} |-> 1]
    <3>2. at \in [{} -> 1 .. Len(t) + 1]
      OBVIOUS
    <3>3. DOMAIN Chunks[t] = {}
      BY <3>1
    <3> HIDE DEF at
    <3>4. PiecesOf(t, Chunks[t])
      BY <3>1, <3>2, <3>3 DEF PiecesOf
    <3> QED  BY <2>2, <3>4
  <2>6. CASE t # <<>> /\ ~ (Len(t) > MaxChars)
    <3>1. Chunks[t] = <<t>>
      BY <2>2, <2>6, ChunksUnfolds
    <3> DEFINE at == [i \in {1} |-> 1]
    <3>2. at \in [{1} -> 1 .. Len(t) + 1] /\ at[1] = 1
      BY <2>4
    <3>3. DOMAIN <<t>> = {1} /\ <<t>>[1] = t
      OBVIOUS
    <3> HIDE DEF at
    <3>4. \A k \in DOMAIN t : at[1] + k - 1 = k /\ k \in at[1] .. at[1] + Len(t) - 1
      BY <2>4, <3>2
    <3>5. at[1] + Len(t) <= Len(t) + 1 /\ 1 + 1 \notin {1}
      BY <2>4, <3>2
    <3>6. PiecesOf(t, <<t>>)
      BY <3>2, <3>3, <3>4, <3>5 DEF PiecesOf
    <3> QED  BY <2>2, <3>1, <3>6
  <2>7. CASE t # <<>> /\ Len(t) > MaxChars
    <3>1. Chunks[t] = <<First(t)>> \o Chunks[After(t)]
      BY <2>2, <2>7, ChunksUnfolds
    <3>2. BreakAt(t) \in 1 .. MaxChars
      BY <2>2, <2>7, CutIsLate
    <3>3. PICK k \in BreakAt(t) .. Len(t) :
            /\ After(t) = Rest(t, k)
            /\ After(t) \in Seq(Chars)
            /\ Len(After(t)) = Len(t) - k
            /\ \A i \in BreakAt(t) + 1 .. k : IsBlank(t[i])
      BY <2>2, <2>7, AfterLeaves DEF Rest
    <3>4. BreakAt(t) \in 1 .. Len(t) /\ Len(After(t)) < Len(t)
      BY <2>4, <2>7, <3>2, <3>3
    <3>5. PiecesOf(Rest(t, k), Chunks[After(t)])
      BY <2>3, <3>3, <3>4
    <3>6. Chunks[After(t)] \in Seq(Seq(Chars))
      BY <3>3, ChunksUnfolds
    <3>7. PiecesOf(t, <<SubSeq(t, 1, BreakAt(t))>> \o Chunks[After(t)])
      BY <2>2, <3>3, <3>4, <3>5, <3>6, PieceBefore
    <3> QED  BY <2>2, <3>1, <3>7 DEF First
  <2> QED  BY <2>5, <2>6, <2>7
<1> QED  BY <1>1

\* No chunk of a text that does not start with a blank starts with one, and all but the
\* last are at least half full.
LEMMA ChunksAreFilled ==
  ASSUME NEW text \in Seq(Chars), text # <<>> => ~IsBlank(text[1])
  PROVE  WellFilled(Chunks[text])
<1> DEFINE Stops(t) == t # <<>> => ~IsBlank(t[1])
           Bad == {t \in Seq(Chars) : Stops(t) /\ ~WellFilled(Chunks[t])}
<1>1. ASSUME Bad # {}  PROVE FALSE
  <2>1. PICK t \in Bad : \A r \in Bad : Len(t) <= Len(r)
    BY <1>1, ShortestOne
  <2>2. t \in Seq(Chars) /\ Stops(t) /\ ~WellFilled(Chunks[t])
    OBVIOUS
  <2>3. \A r \in Seq(Chars) : Len(r) < Len(t) /\ Stops(r) => WellFilled(Chunks[r])
    <3> SUFFICES ASSUME NEW r \in Seq(Chars), Len(r) < Len(t), r \in Bad  PROVE FALSE
      OBVIOUS
    <3>1. Len(t) \in Nat /\ Len(r) \in Nat /\ Len(t) <= Len(r)
      BY <2>1, <2>2
    <3> QED  BY <3>1
  <2> HIDE DEF Bad
  <2>4. Len(t) \in Nat /\ DOMAIN t = 1 .. Len(t) /\ MaxChars \in Nat /\ MaxChars >= 2
    BY <2>2, ChunkAssumption
  <2>5. CASE t = <<>>
    <3>1. Chunks[t] = <<>>
      BY <2>5, ChunksUnfolds
    <3>2. WellFilled(<<>>)
      BY DEF WellFilled
    <3> QED  BY <2>2, <3>1, <3>2
  <2>6. CASE t # <<>> /\ ~ (Len(t) > MaxChars)
    <3>1. Chunks[t] = <<t>>
      BY <2>2, <2>6, ChunksUnfolds
    <3>2. DOMAIN <<t>> = {1} /\ <<t>>[1] = t /\ Len(<<t>>) = 1
      OBVIOUS
    <3>3. Len(t) \in 1 .. MaxChars
      BY <2>2, <2>4, <2>6, EmptySeq, LenProperties
    <3>4. WellFilled(<<t>>)
      BY <2>2, <2>6, <3>2, <3>3 DEF WellFilled
    <3> QED  BY <2>2, <3>1, <3>4
  <2>7. CASE t # <<>> /\ Len(t) > MaxChars
    <3> DEFINE p == First(t)
               c == Chunks[After(t)]
               d == <<p>> \o c
    <3>1. Chunks[t] = d
      BY <2>2, <2>7, ChunksUnfolds
    <3>2. /\ BreakAt(t) \in 1 .. MaxChars /\ BreakAt(t) \in 1 .. Len(t)
          /\ 2 * BreakAt(t) >= MaxChars
      <4>1. BreakAt(t) \in 1 .. MaxChars /\ 2 * BreakAt(t) >= MaxChars
        BY <2>2, <2>7, CutIsLate
      <4> QED  BY <2>4, <2>7, <4>1
    <3>3. p \in Seq(Chars) /\ Len(p) = BreakAt(t) /\ p[1] = t[1]
      <4>1. /\ 1 <= 1 /\ 1 \in 1 .. Len(t) + 1 /\ BreakAt(t) \in 1 - 1 .. Len(t)
            /\ BreakAt(t) - 1 + 1 = BreakAt(t) /\ 1 \in 1 .. BreakAt(t) /\ 1 + 1 - 1 = 1
        BY <2>4, <3>2
      <4> QED  BY <2>2, <4>1, SubSeqProperties DEF First
    <3>4. After(t) \in Seq(Chars) /\ Len(After(t)) < Len(t) /\ Stops(After(t))
      <4>1. PICK k \in BreakAt(t) .. Len(t) :
              /\ After(t) = SubSeq(t, k + 1, Len(t))
              /\ After(t) \in Seq(Chars)
              /\ Len(After(t)) = Len(t) - k
              /\ k < Len(t) => ~IsBlank(t[k + 1])
        BY <2>2, <2>7, AfterLeaves
      <4>2. k \in 0 .. Len(t) /\ k >= 1 /\ k \in Nat
        <5>1. \A j \in 1 .. MaxChars : \A i \in j .. Len(t) :
                i \in 0 .. Len(t) /\ i >= 1 /\ i \in Nat
          BY <2>4
        <5> QED  BY <3>2, <5>1
      <4>3. Len(After(t)) = Len(t) - k
        BY <4>1
      <4>4. Len(After(t)) < Len(t)
        BY <2>4, <4>2, <4>3
      <4>5. ASSUME After(t) # <<>>  PROVE ~IsBlank(After(t)[1])
        <5>1. Len(After(t)) # 0
          BY <4>1, <4>5, EmptySeq
        <5>2. Len(t) - k # 0
          BY <4>3, <5>1
        <5>3. k < Len(t) /\ 1 \in 1 .. Len(t) - k
          <6>1. \A n \in Nat : \A j \in 0 .. n : n - j # 0 => j < n /\ 1 \in 1 .. n - j
            OBVIOUS
          <6> QED  BY <2>4, <4>2, <5>2, <6>1
        <5>4. After(t)[1] = t[k + 1]
          BY <2>2, <4>1, <4>2, <5>3, RestLeaves DEF Rest
        <5> QED  BY <4>1, <5>3, <5>4
      <4> QED  BY <4>1, <4>4, <4>5
    <3>5. c \in Seq(Seq(Chars)) /\ WellFilled(c)
      BY <2>3, <3>4, ChunksUnfolds
    <3> HIDE DEF p, c
    <3>6. /\ Len(d) = Len(c) + 1 /\ DOMAIN d = 1 .. Len(c) + 1
          /\ d[1] = p
          /\ \A i \in 1 .. Len(c) : d[i + 1] = c[i]
          /\ Len(c) \in Nat /\ DOMAIN c = 1 .. Len(c)
      BY <3>3, <3>5, ChunkBefore
    <3> HIDE DEF d
    <3>7. ASSUME NEW i \in DOMAIN d
          PROVE  /\ Len(d[i]) \in 1 .. MaxChars
                 /\ ~IsBlank(d[i][1])
                 /\ i < Len(d) => 2 * Len(d[i]) >= MaxChars
      <4>1. CASE i = 1
        BY <2>2, <2>7, <3>2, <3>3, <3>6, <4>1
      <4>2. CASE i # 1
        <5>1. i - 1 \in DOMAIN c /\ (i - 1) + 1 = i /\ (i < Len(d) => i - 1 < Len(c))
          BY <3>6, <4>2
        <5>2. d[i] = c[i - 1]
          BY <3>6, <5>1
        <5> QED  BY <3>5, <5>1, <5>2 DEF WellFilled
      <4> QED  BY <4>1, <4>2
    <3>8. WellFilled(d)
      BY <3>7 DEF WellFilled
    <3> QED  BY <2>2, <3>1, <3>8
  <2> QED  BY <2>5, <2>6, <2>7
<1> QED  BY <1>1

\* _split_into_chunks() loses nothing of a text but blanks, and makes no chunk that is
\* empty, too long or, the last one apart, less than half full.
THEOREM EveryTextCovered ==
  ASSUME NEW text \in Seq(Chars)
  PROVE  CoveredByChunks(text)
<1>1. Len(text) \in Nat /\ DOMAIN text = 1 .. Len(text)
  OBVIOUS
<1>2. CASE Strip(text) = <<>> /\ \A i \in DOMAIN text : IsBlank(text[i])
  <2>1. Split(text) = <<text>>
    BY <1>2 DEF Split
  <2> DEFINE at == [i \in {1} |-> 1]
  <2>2. at \in [{1} -> 1 .. Len(text) + 1] /\ at[1] = 1
    BY <1>1
  <2>3. DOMAIN <<text>> = {1} /\ <<text>>[1] = text
    OBVIOUS
  <2> HIDE DEF at
  <2>4. \A k \in DOMAIN text : at[1] + k - 1 = k
    BY <1>1, <2>2
  <2>5. at[1] + Len(text) <= Len(text) + 1 /\ 1 + 1 \notin {1}
    BY <1>1, <2>2
  <2>6. PiecesOf(text, <<text>>)
    BY <1>2, <2>2, <2>3, <2>4, <2>5 DEF PiecesOf
  <2> QED  BY <1>2, <2>1, <2>6 DEF CoveredByChunks
<1>3. CASE \E a \in 1 .. Len(text), b \in 1 .. Len(text) :
             /\ a <= b
             /\ Strip(text) = SubSeq(text, a, b)
             /\ ~IsBlank(text[a])
             /\ \A i \in DOMAIN text : i < a \/ i > b => IsBlank(text[i])
  <2>1. PICK a \in 1 .. Len(text), b \in 1 .. Len(text) :
             /\ a <= b
             /\ Strip(text) = SubSeq(text, a, b)
             /\ ~IsBlank(text[a])
             /\ \A i \in DOMAIN text : i < a \/ i > b => IsBlank(text[i])
    BY <1>3
  <2> DEFINE u == SubSeq(text, a, b)
             m == a - 1
  <2>2. /\ u \in Seq(Chars)
        /\ Len(u) = b - a + 1
        /\ \A i \in 1 .. b - a + 1 : u[i] = text[a + i - 1]
    <3>1. a \in 1 .. Len(text) + 1 /\ b \in a - 1 .. Len(text)
      BY <1>1, <2>1
    <3>2. b - a + 1 = IF a <= b THEN b - a + 1 ELSE 0
      BY <2>1
    <3> QED  BY <2>1, <3>1, <3>2, SubSeqProperties
  <2> HIDE DEF u
  <2>3. m \in Nat /\ m + Len(u) = b /\ m + Len(u) <= Len(text) /\ Len(u) \in Nat /\ Len(u) >= 1
    BY <1>1, <2>1, <2>2
  <2>4. \A i \in 1 .. Len(u) : u[i] = text[m + i]
    <3>1. \A i \in 1 .. Len(u) : a + i - 1 = m + i
      BY <2>3
    <3> QED  BY <2>2, <3>1
  <2>5. \A i \in DOMAIN text : i <= m \/ i > m + Len(u) => IsBlank(text[i])
    <3>1. \A i \in DOMAIN text : (i <= m => i < a) /\ (i > m + Len(u) => i > b)
      BY <1>1, <2>3
    <3> QED  BY <2>1, <3>1
  <2>6. u # <<>> /\ ~IsBlank(u[1])
    <3>1. a + 1 - 1 = a /\ 1 \in 1 .. b - a + 1
      BY <1>1, <2>1
    <3> QED  BY <2>1, <2>2, <2>3, <3>1, EmptySeq
  <2>7. Split(text) = Chunks[u] /\ Chunks[u] \in Seq(Seq(Chars))
    <3>1. Strip(text) = u
      BY <2>1 DEF u
    <3> QED  BY <2>2, <2>6, <3>1, ChunksUnfolds DEF Split
  <2> HIDE DEF m
  <2>8. PiecesOf(u, Chunks[u])
    BY <2>2, ChunksArePieces
  <2>9. PiecesOf(text, Chunks[u])
    BY <2>2, <2>3, <2>4, <2>5, <2>7, <2>8, PiecesOfPart
  <2>10. WellFilled(Chunks[u])
    BY <2>2, <2>6, ChunksAreFilled
  <2> QED  BY <2>7, <2>9, <2>10 DEF CoveredByChunks
<1> QED  BY <1>2, <1>3, StripLeaves

\* The texts of the runs are such texts, so the property the runs check holds of texts of
\* any length, for any length of a chunk.
THEOREM TextsCovered == Spec => []ChunksCoverText
<1>1. Init => ChunksCoverText
  BY DEF Init, ChunksCoverText
<1>2. ChunksCoverText /\ [Next]_input => ChunksCoverText'
  <2> SUFFICES ASSUME ChunksCoverText, [Next]_input  PROVE ChunksCoverText'
    OBVIOUS
  <2>1. CASE UNCHANGED input
    BY <2>1 DEF ChunksCoverText
  <2>2. CASE PickText
    <3>1. PICK t \in SeqsUpTo(Chars, MaxText) : input' = <<"text", t>>
      BY <2>2 DEF PickText, Pick
    <3>2. CoveredByChunks(t)
      BY BoundedIsSeq, EveryTextCovered
    <3> QED  BY <3>1, <3>2 DEF ChunksCoverText
  <2>3. CASE PickMachine \/ PickRedline \/ WriteRedline \/ PickUpload
    BY <2>3 DEF PickMachine, PickRedline, WriteRedline, PickUpload, Pick, ChunksCoverText
  <2> QED  BY <2>1, <2>2, <2>3 DEF Next
<1> QED  BY <1>1, <1>2, PTL DEF Spec

-----------------------------------------------------------------------------
(* Redlines.                                                                *)

\* A sequence is its head and its tail.
LEMMA HeadAndTail ==
  ASSUME NEW T, NEW u \in Seq(T), u # <<>>
  PROVE  /\ Len(u) \in Nat \ {0} /\ DOMAIN u = 1 .. Len(u)
         /\ Head(u) = u[1] /\ Head(u) \in T
         /\ Tail(u) \in Seq(T) /\ Len(Tail(u)) = Len(u) - 1
         /\ \A i \in 1 .. Len(u) - 1 : Tail(u)[i] = u[i + 1]
         /\ u = <<u[1]>> \o Tail(u)
<1>1. Len(u) \in Nat \ {0} /\ DOMAIN u = 1 .. Len(u) /\ Head(u) = u[1]
  BY EmptySeq
<1>2. /\ Head(u) \in T
      /\ Tail(u) \in Seq(T) /\ Len(Tail(u)) = Len(u) - 1
      /\ \A i \in 1 .. Len(Tail(u)) : Tail(u)[i] = u[i + 1]
  BY HeadTailProperties
<1>3. SubSeq(u, 1, Len(u)) = <<u[1]>> \o SubSeq(u, 1 + 1, Len(u))
  BY <1>1, SubSeqRecursiveFirst
<1>4. SubSeq(u, 1, Len(u)) = u /\ Tail(u) = SubSeq(u, 2, Len(u))
  BY SubSeqFull, TailIsSubSeq
<1> QED  BY <1>1, <1>2, <1>3, <1>4

\* What comes after the first n of a sequence that goes on.
LEMMA RestOfConcat ==
  ASSUME NEW T, NEW u \in Seq(T), NEW v \in Seq(T), NEW n \in 0 .. Len(u)
  PROVE  Rest(u \o v, n) = Rest(u, n) \o v
<1> DEFINE s == u \o v
           x == Rest(s, n)
           z == Rest(u, n)
           y == z \o v
<1>1. Len(u) \in Nat /\ Len(v) \in Nat
  OBVIOUS
<1>2. /\ s \in Seq(T) /\ Len(s) = Len(u) + Len(v)
      /\ \A i \in 1 .. Len(u) + Len(v) : s[i] = IF i <= Len(u) THEN u[i] ELSE v[i - Len(u)]
  BY ConcatProperties
<1> HIDE DEF s
<1>3. n \in 0 .. Len(s)
  BY <1>1, <1>2
<1>4. /\ x \in Seq(T) /\ Len(x) = Len(u) + Len(v) - n
      /\ \A j \in 1 .. Len(u) + Len(v) - n : x[j] = s[n + j]
  <2>1. x \in Seq(T) /\ Len(x) = Len(s) - n /\ \A j \in 1 .. Len(s) - n : x[j] = s[n + j]
    BY <1>2, <1>3, RestLeaves
  <2> HIDE DEF x
  <2> QED  BY <1>2, <2>1
<1>5. /\ z \in Seq(T) /\ Len(z) = Len(u) - n
      /\ \A j \in 1 .. Len(u) - n : z[j] = u[n + j]
  BY RestLeaves
<1> HIDE DEF x, z
<1>6. /\ y \in Seq(T) /\ Len(y) = Len(u) - n + Len(v)
      /\ \A j \in 1 .. Len(u) - n + Len(v) :
           y[j] = IF j <= Len(u) - n THEN z[j] ELSE v[j - (Len(u) - n)]
  <2>1. /\ y \in Seq(T) /\ Len(y) = Len(z) + Len(v)
        /\ \A j \in 1 .. Len(z) + Len(v) : y[j] = IF j <= Len(z) THEN z[j] ELSE v[j - Len(z)]
    BY <1>5, ConcatProperties
  <2> HIDE DEF y
  <2> QED  BY <1>5, <2>1
<1> HIDE DEF y
<1>7. Len(x) = Len(y)
  BY <1>1, <1>4, <1>6
<1>8. ASSUME NEW j \in 1 .. Len(x)  PROVE x[j] = y[j]
  <2>1. /\ j \in 1 .. Len(u) - n + Len(v) /\ j \in 1 .. Len(u) + Len(v) - n
        /\ n + j \in 1 .. Len(u) + Len(v)
    BY <1>1, <1>4
  <2>2. x[j] = s[n + j]
    BY <1>4, <2>1
  <2>3. CASE j <= Len(u) - n
    <3>1. j \in 1 .. Len(u) - n /\ n + j <= Len(u)
      BY <1>1, <2>1, <2>3
    <3> QED  BY <1>2, <1>5, <1>6, <2>1, <2>2, <3>1
  <2>4. CASE ~ (j <= Len(u) - n)
    <3>1. ~ (n + j <= Len(u)) /\ n + j - Len(u) = j - (Len(u) - n)
      BY <1>1, <2>1, <2>4
    <3>2. y[j] = v[j - (Len(u) - n)]
      BY <1>6, <2>1, <2>4
    <3>3. s[n + j] = v[n + j - Len(u)]
      BY <1>2, <2>1, <3>1
    <3> QED  BY <2>2, <3>1, <3>2, <3>3
  <2> QED  BY <2>3, <2>4
<1>9. x = y
  BY <1>4, <1>6, <1>7, <1>8, SeqEqual
<1> QED  BY <1>9 DEF x, y, z, s

\* How a sequence that goes on starts.
LEMMA StartOfConcat ==
  ASSUME NEW T, NEW u \in Seq(T), u # <<>>, NEW v \in Seq(T)
  PROVE  /\ u \o v \in Seq(T) /\ u \o v # <<>>
         /\ Head(u \o v) = Head(u)
         /\ Tail(u \o v) = Tail(u) \o v
         /\ Tail(u) \in Seq(T) /\ Len(Tail(u)) < Len(u)
         /\ \A i \in 1 .. Len(u) : (u \o v)[i] = u[i]
         /\ Len(u) <= Len(u \o v)
<1>1. Len(u) \in Nat \ {0} /\ Len(v) \in Nat
  BY EmptySeq
<1>2. /\ u \o v \in Seq(T) /\ Len(u \o v) = Len(u) + Len(v)
      /\ \A i \in 1 .. Len(u) + Len(v) :
           (u \o v)[i] = IF i <= Len(u) THEN u[i] ELSE v[i - Len(u)]
  BY ConcatProperties
<1>3. u \o v # <<>>
  BY <1>1, <1>2, EmptySeq
<1>4. \A i \in 1 .. Len(u) : (u \o v)[i] = u[i]
  <2>1. \A i \in 1 .. Len(u) : i \in 1 .. Len(u) + Len(v) /\ i <= Len(u)
    BY <1>1
  <2> QED  BY <1>2, <2>1
<1>5. Head(u \o v) = Head(u)
  BY <1>1, <1>4
<1>6. Tail(u \o v) = Tail(u) \o v
  <2>1. Tail(u) = Rest(u, 1) /\ Tail(u \o v) = Rest(u \o v, 1)
    BY <1>2, <1>3, TailIsSubSeq DEF Rest
  <2>2. 1 \in 0 .. Len(u)
    BY <1>1
  <2> QED  BY <2>1, <2>2, RestOfConcat
<1>7. Tail(u) \in Seq(T) /\ Len(Tail(u)) = Len(u) - 1
  BY HeadTailProperties
<1> QED  BY <1>1, <1>2, <1>3, <1>4, <1>5, <1>6, <1>7

\* What does not hold of a sequence unless it does not hold of a shorter one holds of all.
LEMMA NoShortest ==
  ASSUME NEW T, NEW S \in SUBSET Seq(T), \A s \in S : \E r \in S : Len(r) < Len(s)
  PROVE  S = {}
<1> SUFFICES ASSUME S # {}  PROVE FALSE
  OBVIOUS
<1>1. PICK s \in S : \A r \in S : Len(s) <= Len(r)
  BY ShortestOne
<1>2. PICK r \in S : Len(r) < Len(s)
  OBVIOUS
<1>3. Len(s) <= Len(r) /\ s \in Seq(T) /\ r \in Seq(T)
  BY <1>1
<1> QED  BY <1>2, <1>3

\* The texts there are.
Text == Seq(Characters)

LEMMA ThreeTexts ==
  \A a, b, c \in Text : (a \o b) \o c = a \o (b \o c)
BY ConcatAssociative DEF Text

\* g replaces what match finds by what put has for it.
Replaces(g, match, put) ==
  /\ g[<<>>] = <<>>
  /\ \A r \in Text :
       /\ g[r] \in Text
       /\ r # <<>> =>
            /\ match[r] \in 0 .. Len(r)
            /\ match[r] > 0 => put[r] \in Text /\ g[r] = put[r] \o g[Rest(r, match[r])]
            /\ match[r] = 0 => g[r] = <<r[1]>> \o g[Rest(r, 1)]

\* So does Sub(), if what match finds is there.
LEMMA SubReplaces ==
  ASSUME NEW match, NEW put,
         \A r \in Text : r # <<>> => /\ match[r] \in 0 .. Len(r)
                                     /\ match[r] > 0 => put[r] \in Text
  PROVE  Replaces(Sub(match, put), match, put)
<1> USE DEF Text
<1> DEFINE n(r)  == IF match[r] > 0 THEN match[r] ELSE 1
           p(r)  == IF match[r] > 0 THEN put[r] ELSE <<r[1]>>
           out   == [r \in Text |-> IF r = <<>> THEN <<>> ELSE p(r)]
           next  == [r \in Text |-> IF r = <<>> THEN <<>> ELSE Rest(r, n(r))]
           Body(g, r) == IF r = <<>> THEN <<>>
                         ELSE IF match[r] > 0 THEN put[r] \o g[Rest(r, match[r])]
                         ELSE <<Head(r)>> \o g[Tail(r)]
           Solves(g) == g = [r \in Text |-> Body(g, r)]
           h == Sub(match, put)
<1>1. ASSUME NEW r \in Text, r # <<>>
      PROVE  /\ Head(r) = r[1] /\ Tail(r) = Rest(r, 1) /\ r[1] \in Characters
             /\ Len(r) \in Nat \ {0} /\ n(r) \in 1 .. Len(r)
             /\ Rest(r, n(r)) \in Text /\ Len(Rest(r, n(r))) < Len(r) /\ p(r) \in Text
  <2>1. Head(r) = r[1] /\ r[1] \in Characters /\ Len(r) \in Nat \ {0}
    BY <1>1, HeadAndTail
  <2>2. Tail(r) = Rest(r, 1)
    BY <1>1, TailIsSubSeq DEF Rest
  <2>3. n(r) \in 1 .. Len(r)
    BY <1>1, <2>1
  <2>4. p(r) \in Text
    BY <1>1, <2>1
  <2> HIDE DEF n, p
  <2>5. Rest(r, n(r)) \in Text /\ Len(Rest(r, n(r))) = Len(r) - n(r)
    BY <2>1, <2>3, RestLeaves
  <2> QED  BY <2>1, <2>2, <2>3, <2>4, <2>5
<1> HIDE DEF n, p
<1>2. next \in [Text -> Text] /\ out \in [Text -> Text]
  BY <1>1, EmptySeq
<1>3. \A r \in Text : r # <<>> => next[r] = Rest(r, n(r)) /\ out[r] = p(r)
  OBVIOUS
<1> HIDE DEF next, out
<1>4. Shortens(next, Characters)
  BY <1>1, <1>2, <1>3 DEF Shortens
<1>5. ASSUME NEW g, NEW r \in Text, r # <<>>
      PROVE  Body(g, r) = out[r] \o g[next[r]]
  <2>1. next[r] = Rest(r, n(r)) /\ out[r] = p(r) /\ Head(r) = r[1] /\ Tail(r) = Rest(r, 1)
    BY <1>1, <1>3, <1>5
  <2>2. CASE match[r] > 0
    BY <1>5, <2>1, <2>2 DEF n, p
  <2>3. CASE ~ (match[r] > 0)
    BY <1>5, <2>1, <2>3 DEF n, p
  <2> QED  BY <2>2, <2>3
<1>6. \A g : Body(g, <<>>) = <<>>
  OBVIOUS
<1>7. h = CHOOSE g : Solves(g)
  BY DEF Sub
<1> HIDE DEF Body, h
<1>8. \E g : Solves(g)
  <2>1. PICK f \in [Text -> Text] : Unfolds(f, Characters, next, out)
    BY <1>2, <1>4, RecursionHasSolution
  <2>2. \A r \in Text : Body(f, r) = f[r]
    BY <1>5, <1>6, <2>1 DEF Unfolds
  <2>3. f = [r \in Text |-> f[r]]
    BY <2>1
  <2>4. f = [r \in Text |-> Body(f, r)]
    BY <2>2, <2>3
  <2> QED  BY <2>4
<1>9. Solves(h)
  <2> HIDE DEF Solves
  <2> QED  BY <1>7, <1>8
<1>10. \A r \in Text : h[r] = Body(h, r)
  BY <1>9
<1>11. h[<<>>] = <<>>
  BY <1>6, <1>10, EmptySeq
<1>12. \A r \in Text : r # <<>> => h[r] = out[r] \o h[next[r]]
  BY <1>5, <1>10
<1>13. \A r \in Text : h[r] \in Text
  BY <1>2, <1>4, <1>11, <1>12, RecursionTyped
<1>14. ASSUME NEW r \in Text, r # <<>>
       PROVE  /\ match[r] \in 0 .. Len(r)
              /\ match[r] > 0 => put[r] \in Text /\ h[r] = put[r] \o h[Rest(r, match[r])]
              /\ match[r] = 0 => h[r] = <<r[1]>> \o h[Rest(r, 1)]
  <2>1. h[r] = p(r) \o h[Rest(r, n(r))]
    BY <1>3, <1>12, <1>14
  <2>2. match[r] \in 0 .. Len(r) /\ (match[r] > 0 => put[r] \in Text)
    BY <1>14
  <2>3. match[r] > 0 => h[r] = put[r] \o h[Rest(r, match[r])]
    BY <2>1 DEF n, p
  <2>4. match[r] = 0 => h[r] = <<r[1]>> \o h[Rest(r, 1)]
    BY <2>1 DEF n, p
  <2> QED  BY <2>2, <2>3, <2>4
<1> QED  BY <1>11, <1>13, <1>14 DEF Replaces, h

\* Nothing of a text of X is found across the cut where v comes after it, and what is
\* left of the text on the way is in X too.
Parted(X, v, match, put) ==
  /\ X \in SUBSET Text
  /\ \A x \in X : x # <<>> => /\ match[x \o v] = match[x]
                              /\ match[x] > 0 => put[x \o v] = put[x]
                              /\ Rest(x, IF match[x] > 0 THEN match[x] ELSE 1) \in X

\* The two are replaced each on its own.
InParts(X, v, g) == \A x \in X : g[x \o v] = g[x] \o g[v]

LEMMA ReplacedInParts ==
  ASSUME NEW g, NEW match, NEW put, Replaces(g, match, put),
         NEW v \in Text, NEW X, Parted(X, v, match, put)
  PROVE  InParts(X, v, g)
<1> USE DEF Text
<1>0. /\ X \in SUBSET Text
      /\ \A x \in X : x # <<>> => /\ match[x \o v] = match[x]
                                  /\ match[x] > 0 => put[x \o v] = put[x]
                                  /\ Rest(x, IF match[x] > 0 THEN match[x] ELSE 1) \in X
  BY DEF Parted
<1> DEFINE Bad == {x \in X : g[x \o v] # g[x] \o g[v]}
<1>1. ASSUME NEW u \in Bad  PROVE \E r \in Bad : Len(r) < Len(u)
  <2>1. u \in X /\ u \in Text /\ g[u \o v] # g[u] \o g[v]
    BY <1>0, <1>1
  <2>2. \A x \in X : x \notin Bad => g[x \o v] = g[x] \o g[v]
    OBVIOUS
  <2> HIDE DEF Bad
  <2>3. u # <<>>
    <3>1. ASSUME u = <<>>  PROVE FALSE
      <4>1. g[v] \in Text /\ g[<<>>] = <<>>
        BY DEF Replaces
      <4>2. <<>> \o v = v /\ <<>> \o g[v] = g[v]
        BY <4>1, ConcatEmptySeq
      <4> QED  BY <2>1, <3>1, <4>1, <4>2
    <3> QED  BY <3>1
  <2> DEFINE n == IF match[u] > 0 THEN match[u] ELSE 1
             p == IF match[u] > 0 THEN put[u] ELSE <<u[1]>>
             s == Rest(u, n)
  <2>4. /\ u \o v \in Text /\ u \o v # <<>> /\ (u \o v)[1] = u[1]
        /\ Len(u) \in Nat \ {0} /\ u[1] \in Characters
    BY <2>1, <2>3, StartOfConcat, HeadAndTail
  <2>5. match[u] \in 0 .. Len(u)
    BY <2>1, <2>3 DEF Replaces
  <2>6. n \in 1 .. Len(u) /\ n \in 0 .. Len(u)
    BY <2>4, <2>5
  <2>7. g[u] = p \o g[s] /\ p \in Text
    <3>1. CASE match[u] > 0
      BY <2>1, <2>3, <3>1 DEF Replaces
    <3>2. CASE ~ (match[u] > 0)
      <4>1. match[u] = 0
        BY <2>4, <2>5, <3>2
      <4>2. g[u] = <<u[1]>> \o g[Rest(u, 1)]
        BY <2>1, <2>3, <4>1 DEF Replaces
      <4>3. p = <<u[1]>> /\ n = 1
        BY <3>2
      <4>4. <<u[1]>> \in Text
        BY <2>4
      <4> QED  BY <4>2, <4>3, <4>4
    <3> QED  BY <3>1, <3>2
  <2>8. g[u \o v] = p \o g[Rest(u \o v, n)]
    <3>1. match[u \o v] = match[u] /\ (match[u] > 0 => put[u \o v] = put[u])
      BY <1>0, <2>1, <2>3
    <3>2. CASE match[u] > 0
      BY <2>4, <3>1, <3>2 DEF Replaces
    <3>3. CASE ~ (match[u] > 0)
      <4>1. match[u \o v] = 0
        BY <2>4, <2>5, <3>1, <3>3
      <4> QED  BY <2>4, <3>3, <4>1 DEF Replaces
    <3> QED  BY <3>2, <3>3
  <2>9. s \in X
    BY <1>0, <2>1, <2>3
  <2> HIDE DEF n, p
  <2>10. Rest(u \o v, n) = s \o v
    BY <2>1, <2>6, RestOfConcat
  <2>11. s \in Text /\ Len(s) < Len(u)
    <3>1. s \in Text /\ Len(s) = Len(u) - n
      BY <2>1, <2>6, RestLeaves
    <3> HIDE DEF s
    <3> QED  BY <2>4, <2>6, <3>1
  <2> HIDE DEF s
  <2>12. s \notin Bad => g[u \o v] = g[u] \o g[v]
    <3>1. g[s] \in Text /\ g[v] \in Text
      BY <2>11 DEF Replaces
    <3>2. p \o (g[s] \o g[v]) = (p \o g[s]) \o g[v]
      <4>1. \A x, y, z \in Seq(Characters) : (x \o y) \o z = x \o (y \o z)
        BY ConcatAssociative
      <4> QED  BY <2>7, <3>1, <4>1
    <3>3. s \notin Bad => g[s \o v] = g[s] \o g[v]
      BY <2>2, <2>9
    <3> QED  BY <2>7, <2>8, <2>10, <3>2, <3>3
  <2> QED  BY <2>1, <2>11, <2>12
<1>2. Bad \in SUBSET Seq(Characters)
  BY <1>0
<1> HIDE DEF Bad
<1>3. Bad = {}
  BY <1>1, <1>2, NoShortest
<1> QED  BY <1>3 DEF Bad, InParts

\* Where nothing is found, nothing is replaced.
LEMMA NothingReplaced ==
  ASSUME NEW g, NEW match, NEW put, Replaces(g, match, put), NEW v \in Text, NEW w \in Text,
         \A j \in 0 .. Len(w) - 1 : match[Rest(w \o v, j)] = 0
  PROVE  g[w \o v] = w \o g[v]
<1> USE DEF Text
<1> DEFINE Free(x) == \A j \in 0 .. Len(x) - 1 : match[Rest(x \o v, j)] = 0
           Bad == {x \in Text : Free(x) /\ g[x \o v] # x \o g[v]}
<1>1. ASSUME NEW u \in Bad  PROVE \E r \in Bad : Len(r) < Len(u)
  <2>1. u \in Text /\ Free(u) /\ g[u \o v] # u \o g[v]
    BY <1>1
  <2>2. g[v] \in Text
    BY DEF Replaces
  <2>3. u # <<>>
    <3>1. ASSUME u = <<>>  PROVE FALSE
      <4>1. <<>> \o v = v /\ <<>> \o g[v] = g[v]
        BY <2>2, ConcatEmptySeq
      <4> QED  BY <2>1, <3>1, <4>1
    <3> QED  BY <3>1
  <2> DEFINE s == Rest(u, 1)
  <2>4. /\ u \o v \in Text /\ u \o v # <<>> /\ (u \o v)[1] = u[1]
        /\ Len(u) \in Nat \ {0} /\ u[1] \in Characters /\ u = <<u[1]>> \o s
        /\ s \in Text /\ Len(s) = Len(u) - 1
    <3>1. Tail(u) = s
      BY <2>1, <2>3, TailIsSubSeq DEF Rest
    <3> HIDE DEF s
    <3>2. u \o v \in Text /\ u \o v # <<>> /\ Len(u) \in Nat \ {0} /\ u = <<u[1]>> \o s
      <4>1. u \o v \in Text /\ u \o v # <<>>
        BY <2>1, <2>3, StartOfConcat
      <4>2. Len(u) \in Nat \ {0} /\ u = <<u[1]>> \o Tail(u)
        BY <2>1, <2>3, HeadAndTail
      <4> QED  BY <3>1, <4>1, <4>2, Zenon
    <3>3. \A i \in 1 .. Len(u) : (u \o v)[i] = u[i]
      BY <2>1, <2>3, StartOfConcat
    <3>4. s \in Text /\ Len(s) = Len(u) - 1 /\ u[1] \in Characters
      BY <2>1, <2>3, <3>1, HeadAndTail
    <3> QED  BY <3>2, <3>3, <3>4
  <2>5. Rest(u \o v, 1) = s \o v
    <3>1. 1 \in 0 .. Len(u)
      BY <2>4
    <3> QED  BY <2>1, <3>1, RestOfConcat
  <2>6. \A x \in Text : Rest(x, 0) = x
    <3>1. \A x \in Text : SubSeq(x, 1, Len(x)) = x
      BY SubSeqFull
    <3>2. 0 + 1 = 1
      OBVIOUS
    <3> QED  BY <3>1, <3>2 DEF Rest
  <2>7. match[u \o v] = 0
    <3>1. 0 \in 0 .. Len(u) - 1
      BY <2>4
    <3> QED  BY <2>1, <2>4, <2>6, <3>1
  <2>8. g[u \o v] = <<u[1]>> \o g[s \o v]
    BY <2>4, <2>5, <2>7 DEF Replaces
  <2> HIDE DEF s
  <2>9. Free(s)
    <3> SUFFICES ASSUME NEW j \in 0 .. Len(s) - 1  PROVE match[Rest(s \o v, j)] = 0
      OBVIOUS
    <3>1. j + 1 \in 0 .. Len(u) - 1 /\ 1 + j = j + 1 /\ j \in Nat
      BY <2>4
    <3>2. Len(u \o v) = Len(u) + Len(v) /\ Len(v) \in Nat
      BY <2>1, ConcatProperties
    <3>3. 1 \in 0 .. Len(u \o v) /\ j \in 0 .. Len(u \o v) - 1
      BY <2>4, <3>1, <3>2
    <3>4. Rest(Rest(u \o v, 1), j) = Rest(u \o v, 1 + j)
      BY <2>4, <3>3, RestOfRest
    <3> QED  BY <2>1, <2>5, <3>1, <3>4
  <2> HIDE DEF Free
  <2>10. g[s \o v] = s \o g[v] => g[u \o v] = u \o g[v]
    <3>1. <<u[1]>> \in Text
      BY <2>4
    <3> DEFINE h == <<u[1]>>
    <3> DEFINE y == g[v]
    <3>2. h \in Seq(Characters) /\ s \in Seq(Characters) /\ y \in Seq(Characters)
      BY <2>2, <2>4, <3>1
    <3> HIDE DEF h, y
    <3>3. (h \o s) \o y = h \o (s \o y)
      <4>1. h \in Text /\ s \in Text /\ y \in Text
        BY <3>2
      <4> HIDE DEF Text
      <4> QED  BY <4>1, ThreeTexts, Zenon
    <3> QED  BY <2>4, <2>8, <3>3 DEF h, y
  <2>11. Len(s) < Len(u)
    BY <2>4
  <2> QED  BY <2>1, <2>4, <2>9, <2>10, <2>11
<1>2. Bad \in SUBSET Seq(Characters)
  OBVIOUS
<1> HIDE DEF Bad
<1>3. Bad = {}
  BY <1>1, <1>2, NoShortest
<1> QED  BY <1>3 DEF Bad

-----------------------------------------------------------------------------
(* Markers.                                                                  *)

\* A marker has three characters: a brace, and two that are alike.
LEMMA MarkerShape ==
  ASSUME NEW x \in Text, NEW i \in Nat \ {0}, NEW c
  PROVE  /\ At(x, i, <<"{", c, c>>) <=>
              i + 2 <= Len(x) /\ x[i] = "{" /\ x[i + 1] = c /\ x[i + 2] = c
         /\ At(x, i, <<c, c, "}">>) <=>
              i + 2 <= Len(x) /\ x[i] = c /\ x[i + 1] = c /\ x[i + 2] = "}"
<1>1. Len(x) \in Nat /\ DOMAIN x = 1 .. Len(x)
  BY LenProperties DEF Text
<1>2. ASSUME NEW a, NEW b, NEW d
      PROVE  At(x, i, <<a, b, d>>) <=>
               i + 2 <= Len(x) /\ x[i] = a /\ x[i + 1] = b /\ x[i + 2] = d
  <2> DEFINE w == <<a, b, d>>
  <2>1. DOMAIN w = 1 .. 3 /\ w[1] = a /\ w[2] = b /\ w[3] = d
    OBVIOUS
  <2>2. At(x, i, w) <=> \A k \in 1 .. 3 : i + k - 1 \in 1 .. Len(x) /\ x[i + k - 1] = w[k]
    BY <1>1, <2>1 DEF At
  <2> HIDE DEF w
  <2>3. 1 .. 3 = {1, 2, 3} /\ i + 1 - 1 = i /\ i + 2 - 1 = i + 1 /\ i + 3 - 1 = i + 2
    OBVIOUS
  <2>4. At(x, i, w) <=> /\ i \in 1 .. Len(x) /\ x[i] = w[1]
                        /\ i + 1 \in 1 .. Len(x) /\ x[i + 1] = w[2]
                        /\ i + 2 \in 1 .. Len(x) /\ x[i + 2] = w[3]
    BY <2>2, <2>3
  <2>5. i + 2 <= Len(x) <=> /\ i \in 1 .. Len(x) /\ i + 1 \in 1 .. Len(x)
                            /\ i + 2 \in 1 .. Len(x)
    BY <1>1
  <2> QED  BY <2>1, <2>4, <2>5 DEF w
<1> QED  BY <1>2

\* The i-th character of x opens (closes) a change.
OpensAt(x, i) == i + 2 <= Len(x) /\ x[i] = "{" /\ x[i + 1] \in {"-", "+"} /\ x[i + 2] = x[i + 1]
ClosesAt(x, i) == i + 2 <= Len(x) /\ x[i] \in {"-", "+"} /\ x[i + 1] = x[i] /\ x[i + 2] = "}"

LEMMA MarkerIs ==
  ASSUME NEW x \in Text, NEW i \in Nat \ {0}
  PROVE  MarkerAt(x, i) <=> OpensAt(x, i) \/ ClosesAt(x, i)
<1>1. MarkerAt(x, i) <=> \/ At(x, i, <<"{", "-", "-">>) \/ At(x, i, <<"-", "-", "}">>)
                         \/ At(x, i, <<"{", "+", "+">>) \/ At(x, i, <<"+", "+", "}">>)
  BY DEF MarkerAt, Markers, DelOpen, DelClose, InsOpen, InsClose
<1>2. At(x, i, <<"{", "-", "-">>) <=> i + 2 <= Len(x) /\ x[i] = "{" /\ x[i + 1] = "-" /\ x[i + 2] = "-"
  BY MarkerShape
<1>3. At(x, i, <<"{", "+", "+">>) <=> i + 2 <= Len(x) /\ x[i] = "{" /\ x[i + 1] = "+" /\ x[i + 2] = "+"
  BY MarkerShape
<1>4. At(x, i, <<"-", "-", "}">>) <=> i + 2 <= Len(x) /\ x[i] = "-" /\ x[i + 1] = "-" /\ x[i + 2] = "}"
  BY MarkerShape
<1>5. At(x, i, <<"+", "+", "}">>) <=> i + 2 <= Len(x) /\ x[i] = "+" /\ x[i + 1] = "+" /\ x[i + 2] = "}"
  BY MarkerShape
<1> QED  BY <1>1, <1>2, <1>3, <1>4, <1>5 DEF OpensAt, ClosesAt

\* What is at a place of a text is at its place in what is left of the text.
LEMMA AtRest ==
  ASSUME NEW x \in Text, NEW n \in 0 .. Len(x), NEW i \in Nat \ {0}
  PROVE  /\ MarkerAt(Rest(x, n), i) <=> MarkerAt(x, n + i)
         /\ \A c : /\ At(Rest(x, n), i, <<"{", c, c>>) <=> At(x, n + i, <<"{", c, c>>)
                   /\ At(Rest(x, n), i, <<c, c, "}">>) <=> At(x, n + i, <<c, c, "}">>)
<1> DEFINE s == Rest(x, n)
<1>1. /\ Len(x) \in Nat /\ s \in Text /\ Len(s) = Len(x) - n
      /\ \A j \in 1 .. Len(x) - n : s[j] = x[n + j]
  BY RestLeaves DEF Text
<1> HIDE DEF s
<1>2. n + i \in Nat \ {0}
  BY <1>1
<1>3. i + 2 <= Len(s) <=> n + i + 2 <= Len(x)
  BY <1>1
<1>4. n + i + 2 <= Len(x) => s[i] = x[n + i] /\ s[i + 1] = x[n + i + 1] /\ s[i + 2] = x[n + i + 2]
  <2> SUFFICES ASSUME n + i + 2 <= Len(x)
               PROVE  s[i] = x[n + i] /\ s[i + 1] = x[n + i + 1] /\ s[i + 2] = x[n + i + 2]
    OBVIOUS
  <2>1. i \in 1 .. Len(x) - n /\ i + 1 \in 1 .. Len(x) - n /\ i + 2 \in 1 .. Len(x) - n
    BY <1>1
  <2>2. n + (i + 1) = n + i + 1 /\ n + (i + 2) = n + i + 2
    BY <1>1
  <2> QED  BY <1>1, <2>1, <2>2
<1>5. MarkerAt(s, i) <=> MarkerAt(x, n + i)
  <2>1. MarkerAt(s, i) <=> OpensAt(s, i) \/ ClosesAt(s, i)
    BY <1>1, MarkerIs
  <2>2. MarkerAt(x, n + i) <=> OpensAt(x, n + i) \/ ClosesAt(x, n + i)
    BY <1>2, MarkerIs
  <2> QED  BY <1>3, <1>4, <2>1, <2>2 DEF OpensAt, ClosesAt
<1>6. ASSUME NEW c
      PROVE  /\ At(s, i, <<"{", c, c>>) <=> At(x, n + i, <<"{", c, c>>)
             /\ At(s, i, <<c, c, "}">>) <=> At(x, n + i, <<c, c, "}">>)
  <2>1. /\ At(s, i, <<"{", c, c>>) <=>
             i + 2 <= Len(s) /\ s[i] = "{" /\ s[i + 1] = c /\ s[i + 2] = c
        /\ At(s, i, <<c, c, "}">>) <=>
             i + 2 <= Len(s) /\ s[i] = c /\ s[i + 1] = c /\ s[i + 2] = "}"
    BY <1>1, MarkerShape
  <2>2. /\ At(x, n + i, <<"{", c, c>>) <=>
             n + i + 2 <= Len(x) /\ x[n + i] = "{" /\ x[n + i + 1] = c /\ x[n + i + 2] = c
        /\ At(x, n + i, <<c, c, "}">>) <=>
             n + i + 2 <= Len(x) /\ x[n + i] = c /\ x[n + i + 1] = c /\ x[n + i + 2] = "}"
    BY <1>2, MarkerShape
  <2> QED  BY <1>3, <1>4, <2>1, <2>2
<1> QED  BY <1>5, <1>6 DEF s

\* Where a marker is, and no brace touches it.
LEMMA ApartIs ==
  ASSUME NEW x \in Text
  PROVE  Apart(x) <=>
           \A j \in Nat \ {0} : MarkerAt(x, j) =>
             /\ j - 1 >= 1 => x[j - 1] # "{"
             /\ j - 2 >= 1 => x[j - 2] # "{"
             /\ j + 3 <= Len(x) => x[j + 3] # "}"
             /\ j + 4 <= Len(x) => x[j + 4] # "}"
<1>1. Len(x) \in Nat /\ DOMAIN x = 1 .. Len(x)
  BY LenProperties DEF Text
<1>2. \A j \in Nat \ {0} : MarkerAt(x, j) => j + 2 <= Len(x)
  BY MarkerIs DEF OpensAt, ClosesAt
<1>3. ASSUME Apart(x), NEW j \in Nat \ {0}, MarkerAt(x, j)
      PROVE  /\ j - 1 >= 1 => x[j - 1] # "{"
             /\ j - 2 >= 1 => x[j - 2] # "{"
             /\ j + 3 <= Len(x) => x[j + 3] # "}"
             /\ j + 4 <= Len(x) => x[j + 4] # "}"
  <2>1. j + 2 <= Len(x)
    BY <1>2, <1>3
  <2>2. j \in DOMAIN x
    BY <1>1, <2>1
  <2>3. \A i \in DOMAIN x : /\ x[i] = "{" => j \notin i + 1 .. i + 2
                            /\ x[i] = "}" => i \notin j + 3 .. j + 4
    BY <1>3, <2>2 DEF Apart
  <2>4. j - 1 >= 1 => j - 1 \in DOMAIN x /\ j \in j - 1 + 1 .. j - 1 + 2
    BY <1>1, <2>1
  <2>5. j - 2 >= 1 => j - 2 \in DOMAIN x /\ j \in j - 2 + 1 .. j - 2 + 2
    BY <1>1, <2>1
  <2>6. j + 3 <= Len(x) => j + 3 \in DOMAIN x /\ j + 3 \in j + 3 .. j + 4
    BY <1>1
  <2>7. j + 4 <= Len(x) => j + 4 \in DOMAIN x /\ j + 4 \in j + 3 .. j + 4
    BY <1>1
  <2> QED  BY <2>3, <2>4, <2>5, <2>6, <2>7
<1>4. ASSUME \A j \in Nat \ {0} : MarkerAt(x, j) =>
               /\ j - 1 >= 1 => x[j - 1] # "{"
               /\ j - 2 >= 1 => x[j - 2] # "{"
               /\ j + 3 <= Len(x) => x[j + 3] # "}"
               /\ j + 4 <= Len(x) => x[j + 4] # "}"
      PROVE  Apart(x)
  <2> SUFFICES ASSUME NEW i \in 1 .. Len(x), NEW j \in 1 .. Len(x), MarkerAt(x, j)
               PROVE  /\ x[i] = "{" => j \notin i + 1 .. i + 2
                      /\ x[i] = "}" => i \notin j + 3 .. j + 4
    BY <1>1 DEF Apart
  <2>0. j \in Nat \ {0} /\ i \in Nat
    BY <1>1
  <2>1. /\ j - 1 >= 1 => x[j - 1] # "{"
        /\ j - 2 >= 1 => x[j - 2] # "{"
        /\ j + 3 <= Len(x) => x[j + 3] # "}"
        /\ j + 4 <= Len(x) => x[j + 4] # "}"
    BY <1>4, <2>0
  <2>2. ASSUME x[i] = "{", j \in i + 1 .. i + 2  PROVE FALSE
    <3>1. (j - 1 = i /\ j - 1 >= 1) \/ (j - 2 = i /\ j - 2 >= 1)
      <4>1. j \in i + 1 .. i + 2
        BY <2>2
      <4> QED  BY <1>1, <4>1
    <3> QED  BY <2>1, <2>2, <3>1
  <2>3. ASSUME x[i] = "}", i \in j + 3 .. j + 4  PROVE FALSE
    <3>1. (j + 3 = i /\ j + 3 <= Len(x)) \/ (j + 4 = i /\ j + 4 <= Len(x))
      <4>1. i \in j + 3 .. j + 4
        BY <2>3
      <4> QED  BY <1>1, <4>1
    <3> QED  BY <2>1, <2>3, <3>1
  <2> QED  BY <2>2, <2>3
<1> QED  BY <1>3, <1>4

\* What is left of a text is apart, if the text is.
LEMMA ApartRest ==
  ASSUME NEW x \in Text, Apart(x), NEW n \in 0 .. Len(x)
  PROVE  Rest(x, n) \in Text /\ Apart(Rest(x, n))
<1> DEFINE s == Rest(x, n)
<1>1. /\ Len(x) \in Nat /\ s \in Text /\ Len(s) = Len(x) - n
      /\ \A j \in 1 .. Len(x) - n : s[j] = x[n + j]
  BY RestLeaves DEF Text
<1>2. \A j \in Nat \ {0} : MarkerAt(s, j) <=> MarkerAt(x, n + j)
  BY AtRest
<1>3. \A j \in Nat \ {0} : MarkerAt(s, j) => j + 2 <= Len(s)
  BY <1>1, MarkerIs DEF OpensAt, ClosesAt
<1> HIDE DEF s
<1>4. ASSUME NEW j \in Nat \ {0}, MarkerAt(s, j)
      PROVE  /\ j - 1 >= 1 => s[j - 1] # "{"
             /\ j - 2 >= 1 => s[j - 2] # "{"
             /\ j + 3 <= Len(s) => s[j + 3] # "}"
             /\ j + 4 <= Len(s) => s[j + 4] # "}"
  <2> DEFINE k == n + j
  <2>1. k \in Nat \ {0} /\ j + 2 <= Len(s) /\ j \in Nat
    BY <1>1, <1>3, <1>4
  <2>2. MarkerAt(x, k)
    BY <1>2, <1>4
  <2>3. ASSUME NEW i \in Nat, i >= 1, i <= Len(s)
        PROVE  s[i] = x[n + i]
    <3>1. i \in 1 .. Len(x) - n
      BY <1>1, <2>3
    <3> QED  BY <1>1, <3>1
  <2>4. /\ j - 1 >= 1 => j - 1 \in Nat /\ j - 1 <= Len(s) /\ n + (j - 1) = k - 1 /\ k - 1 >= 1
        /\ j - 2 >= 1 => j - 2 \in Nat /\ j - 2 <= Len(s) /\ n + (j - 2) = k - 2 /\ k - 2 >= 1
        /\ j + 3 <= Len(s) =>
             j + 3 \in Nat /\ j + 3 >= 1 /\ n + (j + 3) = k + 3 /\ k + 3 <= Len(x)
        /\ j + 4 <= Len(s) =>
             j + 4 \in Nat /\ j + 4 >= 1 /\ n + (j + 4) = k + 4 /\ k + 4 <= Len(x)
    <3>1. Len(x) \in Nat /\ Len(s) = Len(x) - n
      BY <1>1
    <3> QED  BY <2>1, <3>1
  <2> HIDE DEF k
  <2>5. /\ k - 1 >= 1 => x[k - 1] # "{"
        /\ k - 2 >= 1 => x[k - 2] # "{"
        /\ k + 3 <= Len(x) => x[k + 3] # "}"
        /\ k + 4 <= Len(x) => x[k + 4] # "}"
    BY <2>1, <2>2, ApartIs
  <2>6. j - 1 >= 1 => s[j - 1] # "{"
    BY <2>3, <2>4, <2>5
  <2>7. j - 2 >= 1 => s[j - 2] # "{"
    BY <2>3, <2>4, <2>5
  <2>8. j + 3 <= Len(s) => s[j + 3] # "}"
    BY <2>3, <2>4, <2>5
  <2>9. j + 4 <= Len(s) => s[j + 4] # "}"
    BY <2>3, <2>4, <2>5
  <2> QED  BY <2>6, <2>7, <2>8, <2>9
<1>5. Apart(s)
  BY <1>1, <1>4, ApartIs
<1> QED  BY <1>1, <1>5 DEF s

\* Markers that are apart do not overlap.
LEMMA NoOverlap ==
  ASSUME NEW x \in Text, Apart(x), NEW j \in Nat \ {0}, MarkerAt(x, j)
  PROVE  ~MarkerAt(x, j + 1) /\ ~MarkerAt(x, j + 2)
<1>1. OpensAt(x, j) \/ ClosesAt(x, j)
  BY MarkerIs
<1>2. CASE OpensAt(x, j)
  <2>1. x[j] = "{"
    BY <1>2 DEF OpensAt
  <2>3. \A k \in Nat \ {0} :
          MarkerAt(x, k) => /\ k - 1 >= 1 => x[k - 1] # "{"
                            /\ k - 2 >= 1 => x[k - 2] # "{"
    BY ApartIs
  <2>4. ASSUME MarkerAt(x, j + 1)  PROVE FALSE
    <3> DEFINE k == j + 1
    <3>1. k \in Nat \ {0} /\ k - 1 >= 1 /\ k - 1 = j
      OBVIOUS
    <3>2. MarkerAt(x, k)
      BY <2>4
    <3> HIDE DEF k
    <3> QED  BY <2>1, <2>3, <3>1, <3>2
  <2>5. ASSUME MarkerAt(x, j + 2)  PROVE FALSE
    <3> DEFINE k == j + 2
    <3>1. k \in Nat \ {0} /\ k - 2 >= 1 /\ k - 2 = j
      OBVIOUS
    <3>2. MarkerAt(x, k)
      BY <2>5
    <3> HIDE DEF k
    <3> QED  BY <2>1, <2>3, <3>1, <3>2
  <2> QED  BY <2>4, <2>5
<1>3. CASE ClosesAt(x, j)
  <2>1. x[j + 1] \in {"-", "+"} /\ x[j + 2] = "}"
    BY <1>3 DEF ClosesAt
  <2>2. j + 1 \in Nat \ {0} /\ j + 2 \in Nat \ {0} /\ j + 1 + 1 = j + 2
    OBVIOUS
  <2>3. ~OpensAt(x, j + 1) /\ ~ClosesAt(x, j + 1)
    BY <2>1, <2>2 DEF OpensAt, ClosesAt
  <2>4. ~OpensAt(x, j + 2) /\ ~ClosesAt(x, j + 2)
    BY <2>1 DEF OpensAt, ClosesAt
  <2> QED  BY <2>2, <2>3, <2>4, MarkerIs
<1> QED  BY <1>1, <1>2, <1>3

\* How a character in front of a text adds to it.
LEMMA InFront ==
  ASSUME NEW h \in Characters, NEW t \in Text
  PROVE  LET y == <<h>> \o t
         IN  /\ y \in Text /\ y # <<>> /\ Len(y) = Len(t) + 1 /\ y[1] = h
             /\ \A i \in 1 .. Len(t) : y[i + 1] = t[i]
             /\ \A i \in Nat \ {0} : MarkerAt(y, i + 1) <=> MarkerAt(t, i)
<1> DEFINE x == <<h>>
           y == x \o t
<1>1. x \in Text /\ Len(x) = 1 /\ x[1] = h
  BY DEF Text
<1> HIDE DEF x
<1>2. /\ y \in Text /\ Len(y) = 1 + Len(t)
      /\ \A i \in 1 .. 1 + Len(t) : y[i] = IF i <= 1 THEN x[i] ELSE t[i - 1]
  <2>1. /\ y \in Text /\ Len(y) = Len(x) + Len(t)
        /\ \A i \in 1 .. Len(x) + Len(t) : y[i] = IF i <= Len(x) THEN x[i] ELSE t[i - Len(x)]
    BY <1>1, ConcatProperties DEF Text
  <2> QED  BY <1>1, <2>1
<1> HIDE DEF y
<1>3. Len(t) \in Nat
  BY DEF Text
<1>4. y # <<>>
  BY <1>2, <1>3, EmptySeq
<1>5. y[1] = h
  BY <1>1, <1>2, <1>3
<1>6. ASSUME NEW i \in 1 .. Len(t)  PROVE y[i + 1] = t[i]
  <2>1. i + 1 \in 1 .. 1 + Len(t) /\ ~ (i + 1 <= 1) /\ i + 1 - 1 = i
    BY <1>3
  <2> QED  BY <1>2, <2>1
<1>7. ASSUME NEW i \in Nat \ {0}  PROVE MarkerAt(y, i + 1) <=> MarkerAt(t, i)
  <2>1. i + 1 \in Nat \ {0} /\ i + 1 + 2 = i + 2 + 1
    OBVIOUS
  <2>2. i + 1 + 2 <= Len(y) <=> i + 2 <= Len(t)
    BY <1>2, <1>3
  <2>3. i + 2 <= Len(t) => /\ y[i + 1] = t[i] /\ y[i + 1 + 1] = t[i + 1]
                           /\ y[i + 1 + 2] = t[i + 2]
    <3>1. i + 2 <= Len(t) => /\ i \in 1 .. Len(t) /\ i + 1 \in 1 .. Len(t)
                             /\ i + 2 \in 1 .. Len(t)
      BY <1>3
    <3> QED  BY <1>6, <2>1, <3>1
  <2>4. MarkerAt(y, i + 1) <=> OpensAt(y, i + 1) \/ ClosesAt(y, i + 1)
    BY <1>2, <2>1, MarkerIs
  <2>5. MarkerAt(t, i) <=> OpensAt(t, i) \/ ClosesAt(t, i)
    BY MarkerIs
  <2> QED  BY <2>2, <2>3, <2>4, <2>5 DEF OpensAt, ClosesAt
<1>8. Len(y) = Len(t) + 1
  BY <1>2, <1>3
<1> QED  BY <1>2, <1>4, <1>5, <1>6, <1>7, <1>8 DEF y, x

\* A character in front of a text that is apart.
FitsInFront(h, t) ==
  /\ Apart(t)
  /\ h = "{" => ~MarkerAt(t, 1) /\ ~MarkerAt(t, 2)
  /\ MarkerAt(<<h>> \o t, 1) => /\ Len(t) >= 3 => t[3] # "}"
                                /\ Len(t) >= 4 => t[4] # "}"

LEMMA ApartInFront ==
  ASSUME NEW h \in Characters, NEW t \in Text, FitsInFront(h, t)
  PROVE  Apart(<<h>> \o t)
<1> DEFINE y == <<h>> \o t
<1>1. /\ y \in Text /\ y[1] = h
      /\ \A i \in 1 .. Len(t) : y[i + 1] = t[i]
      /\ \A i \in Nat \ {0} : MarkerAt(y, i + 1) <=> MarkerAt(t, i)
  BY InFront
<1>2. Len(y) = Len(t) + 1 /\ Len(t) \in Nat
  BY InFront DEF Text
<1>3. MarkerAt(y, 1) => /\ Len(t) >= 3 => t[3] # "}"
                        /\ Len(t) >= 4 => t[4] # "}"
  BY DEF FitsInFront
<1>4. ASSUME NEW i \in Nat, i >= 1, i <= Len(t)  PROVE y[i + 1] = t[i]
  <2>1. i \in 1 .. Len(t)
    BY <1>2, <1>4
  <2> QED  BY <1>1, <2>1
<1> HIDE DEF y
<1>5. ASSUME MarkerAt(y, 1)
      PROVE  /\ 1 + 3 <= Len(y) => y[1 + 3] # "}"
             /\ 1 + 4 <= Len(y) => y[1 + 4] # "}"
  <2>1. /\ 1 + 3 <= Len(y) => 3 <= Len(t) /\ Len(t) >= 3
        /\ 1 + 4 <= Len(y) => 4 <= Len(t) /\ Len(t) >= 4
        /\ 1 + 3 = 3 + 1 /\ 1 + 4 = 4 + 1 /\ 3 >= 1 /\ 4 >= 1
    BY <1>2
  <2> QED  BY <1>3, <1>4, <1>5, <2>1
<1>6. ASSUME NEW i \in Nat \ {0}, MarkerAt(t, i)
      PROVE  /\ y[i] # "{"
             /\ i - 1 >= 1 => y[i - 1] # "{"
             /\ i + 4 <= Len(y) => y[i + 4] # "}"
             /\ i + 5 <= Len(y) => y[i + 5] # "}"
  <2>1. i + 2 <= Len(t)
    BY <1>6, MarkerIs DEF OpensAt, ClosesAt
  <2>2. /\ i - 1 >= 1 => t[i - 1] # "{"
        /\ i - 2 >= 1 => t[i - 2] # "{"
        /\ i + 3 <= Len(t) => t[i + 3] # "}"
        /\ i + 4 <= Len(t) => t[i + 4] # "}"
    BY <1>6, ApartIs DEF FitsInFront
  <2>3. y[i] # "{"
    <3>1. CASE i = 1
      BY <1>1, <1>6, <3>1 DEF FitsInFront
    <3>2. CASE i # 1
      <4>1. i - 1 \in Nat /\ i - 1 >= 1 /\ i - 1 <= Len(t) /\ i - 1 + 1 = i
        BY <1>2, <2>1, <3>2
      <4> QED  BY <1>4, <2>2, <4>1
    <3> QED  BY <3>1, <3>2
  <2>4. i - 1 >= 1 => y[i - 1] # "{"
    <3>1. CASE i = 1
      <4>1. ~ (i - 1 >= 1)
        BY <3>1
      <4> QED  BY <4>1
    <3>2. CASE i = 2
      <4>1. i - 1 = 1
        BY <3>2
      <4> QED  BY <1>1, <1>6, <3>2, <4>1 DEF FitsInFront
    <3>3. CASE i # 1 /\ i # 2
      <4>1. i - 2 \in Nat /\ i - 2 >= 1 /\ i - 2 <= Len(t) /\ i - 2 + 1 = i - 1
        BY <1>2, <2>1, <3>3
      <4> QED  BY <1>4, <2>2, <4>1
    <3> QED  BY <3>1, <3>2, <3>3
  <2>5. i + 4 <= Len(y) => y[i + 4] # "}"
    <3>1. /\ i + 4 <= Len(y) => i + 3 <= Len(t)
          /\ i + 3 \in Nat /\ i + 3 >= 1 /\ i + 3 + 1 = i + 4
      BY <1>2
    <3> QED  BY <1>4, <2>2, <3>1
  <2>6. i + 5 <= Len(y) => y[i + 5] # "}"
    <3>1. /\ i + 5 <= Len(y) => i + 4 <= Len(t)
          /\ i + 4 \in Nat /\ i + 4 >= 1 /\ i + 4 + 1 = i + 5
      BY <1>2
    <3> QED  BY <1>4, <2>2, <3>1
  <2> QED  BY <2>3, <2>4, <2>5, <2>6
<1>7. ASSUME NEW j \in Nat \ {0}, MarkerAt(y, j)
      PROVE  /\ j - 1 >= 1 => y[j - 1] # "{"
             /\ j - 2 >= 1 => y[j - 2] # "{"
             /\ j + 3 <= Len(y) => y[j + 3] # "}"
             /\ j + 4 <= Len(y) => y[j + 4] # "}"
  <2>1. CASE j = 1
    <3>1. ~ (1 - 1 >= 1) /\ ~ (1 - 2 >= 1)
      OBVIOUS
    <3> QED  BY <1>5, <1>7, <2>1, <3>1
  <2>2. CASE j # 1
    <3> DEFINE i == j - 1
    <3>1. /\ i \in Nat \ {0} /\ j = i + 1 /\ j - 1 = i /\ j - 2 = i - 1
          /\ j + 3 = i + 4 /\ j + 4 = i + 5
      BY <2>2
    <3> HIDE DEF i
    <3>2. MarkerAt(t, i)
      BY <1>1, <1>7, <3>1
    <3> QED  BY <1>6, <3>1, <3>2
  <2> QED  BY <2>1, <2>2
<1>8. Apart(y)
  BY <1>1, <1>7, ApartIs
<1> QED  BY <1>8 DEF y

-----------------------------------------------------------------------------
(* What starts and ends with a marker goes.                                  *)

\* What is replaced starts with a marker and ends with one, and nothing of it stays but
\* what is in between.
Cuts(match, put) ==
  \A r \in Text : r # <<>> /\ match[r] > 0 =>
    /\ match[r] >= 3 /\ MarkerAt(r, 1) /\ MarkerAt(r, match[r] - 2)
    /\ put[r] = <<>> \/ put[r] = Group(r, match[r])

\* The k-th character of x is a closing brace.
Brace(x, k) == Len(x) >= k /\ x[k] = "}"

LEMMA BraceOfConcat ==
  ASSUME NEW a \in Text, NEW b \in Text
  PROVE  /\ Brace(a \o b, 1) => Brace(a, 1) \/ Brace(b, 1)
         /\ Brace(a \o b, 2) => Brace(a, 2) \/ Brace(b, 1) \/ Brace(b, 2)
<1> DEFINE y == a \o b
<1>1. Len(a) \in Nat /\ Len(b) \in Nat
  BY DEF Text
<1>2. Len(y) = Len(a) + Len(b)
  BY ConcatProperties DEF Text
<1>3. \A i \in 1 .. Len(a) + Len(b) : y[i] = IF i <= Len(a) THEN a[i] ELSE b[i - Len(a)]
  BY ConcatProperties DEF Text
<1> HIDE DEF y
<1>4. ASSUME Len(y) >= 1  PROVE y[1] = IF 1 <= Len(a) THEN a[1] ELSE b[1 - Len(a)]
  <2>1. 1 \in 1 .. Len(a) + Len(b)
    BY <1>1, <1>2, <1>4
  <2> QED  BY <1>3, <2>1
<1>5. ASSUME Len(y) >= 2  PROVE y[2] = IF 2 <= Len(a) THEN a[2] ELSE b[2 - Len(a)]
  <2>1. 2 \in 1 .. Len(a) + Len(b)
    BY <1>1, <1>2, <1>5
  <2> QED  BY <1>3, <2>1
<1>6. Len(y) >= 1 => \/ 1 <= Len(a) /\ Len(a) >= 1
                     \/ ~ (1 <= Len(a)) /\ 1 - Len(a) = 1 /\ Len(b) >= 1
  BY <1>1, <1>2
<1>7. Len(y) >= 2 => \/ 2 <= Len(a) /\ Len(a) >= 2
                     \/ ~ (2 <= Len(a)) /\ 2 - Len(a) = 1 /\ Len(b) >= 1
                     \/ ~ (2 <= Len(a)) /\ 2 - Len(a) = 2 /\ Len(b) >= 2
  BY <1>1, <1>2
<1> QED  BY <1>4, <1>5, <1>6, <1>7 DEF Brace, y

LEMMA BraceOfRest ==
  ASSUME NEW x \in Text, NEW n \in 0 .. Len(x), NEW k \in Nat \ {0}
  PROVE  Brace(Rest(x, n), k) <=> Brace(x, n + k)
<1> DEFINE s == Rest(x, n)
<1>1. Len(x) \in Nat /\ Len(s) = Len(x) - n
  BY RestLeaves DEF Text
<1>2. \A j \in 1 .. Len(x) - n : s[j] = x[n + j]
  BY RestLeaves DEF Text
<1> HIDE DEF s
<1>3. Len(s) >= k <=> Len(x) >= n + k
  BY <1>1
<1>4. Len(s) >= k => k \in 1 .. Len(x) - n
  BY <1>1
<1> QED  BY <1>2, <1>3, <1>4 DEF Brace, s

LEMMA NoBraceAfter ==
  ASSUME NEW x \in Text, Apart(x), NEW j \in Nat \ {0}, MarkerAt(x, j)
  PROVE  ~Brace(x, j + 3) /\ ~Brace(x, j + 4)
<1>1. j + 3 <= Len(x) => x[j + 3] # "}"
  BY ApartIs
<1>2. j + 4 <= Len(x) => x[j + 4] # "}"
  BY ApartIs
<1>3. Len(x) \in Nat
  BY DEF Text
<1>4. /\ Len(x) >= j + 3 => j + 3 <= Len(x)
      /\ Len(x) >= j + 4 => j + 4 <= Len(x)
  BY <1>3
<1> QED  BY <1>1, <1>2, <1>4 DEF Brace

\* The group of a match.
LEMMA GroupIs ==
  ASSUME NEW x \in Text, NEW n \in 3 .. Len(x)
  PROVE  /\ Group(x, n) \in Text
         /\ Len(Group(x, n)) = IF n >= 6 THEN n - 6 ELSE 0
         /\ \A i \in Nat : i >= 1 /\ i <= Len(Group(x, n)) => Group(x, n)[i] = x[i + 3]
<1> DEFINE w == SubSeq(x, 4, n - 3)
<1>1. Len(x) \in Nat /\ 4 \in Int /\ n - 3 \in Int
  BY DEF Text
<1>2. \A i \in 4 .. n - 3 : x[i] \in Characters
  <2>1. \A i \in 4 .. n - 3 : i \in 1 .. Len(x)
    BY <1>1
  <2> QED  BY <2>1, ElementOfSeq DEF Text
<1>3. w \in Text
  BY <1>1, <1>2, SubSeqProperties DEF Text
<1>4. Len(w) = IF 4 <= n - 3 THEN n - 3 - 4 + 1 ELSE 0
  BY <1>1, <1>2, SubSeqProperties
<1>5. \A i \in 1 .. n - 3 - 4 + 1 : w[i] = x[4 + i - 1]
  BY <1>1, <1>2, SubSeqProperties
<1> HIDE DEF w
<1>6. Len(w) = IF n >= 6 THEN n - 6 ELSE 0
  BY <1>1, <1>4
<1>7. ASSUME NEW i \in Nat, i >= 1, i <= Len(w)  PROVE w[i] = x[i + 3]
  <2>1. i \in 1 .. n - 3 - 4 + 1 /\ 4 + i - 1 = i + 3
    BY <1>1, <1>6, <1>7
  <2> QED  BY <1>5, <2>1
<1> QED  BY <1>3, <1>6, <1>7 DEF w, Group

LEMMA BraceOfGroup ==
  ASSUME NEW x \in Text, NEW n \in 3 .. Len(x), NEW k \in Nat \ {0}, Brace(Group(x, n), k)
  PROVE  Brace(x, k + 3)
<1> DEFINE w == Group(x, n)
<1>1. Len(w) = IF n >= 6 THEN n - 6 ELSE 0
  BY GroupIs
<1>2. \A i \in Nat : i >= 1 /\ i <= Len(w) => w[i] = x[i + 3]
  BY GroupIs
<1> HIDE DEF w
<1>3. Len(w) >= k /\ w[k] = "}"
  BY DEF Brace, w
<1>4. Len(x) \in Nat
  BY DEF Text
<1>5. Len(w) >= k
  BY <1>3
<1>6. k >= 1 /\ k <= Len(w) /\ Len(x) >= k + 3
  BY <1>1, <1>4, <1>5
<1> QED  BY <1>2, <1>3, <1>6 DEF Brace

\* A text without its first character.
LEMMA AllButFirst ==
  ASSUME NEW x \in Text, x # <<>>
  PROVE  /\ Len(x) \in Nat \ {0} /\ 1 \in 0 .. Len(x) /\ x[1] \in Characters
         /\ Rest(x, 1) \in Text /\ Len(Rest(x, 1)) = Len(x) - 1
         /\ \A i \in Nat : i >= 1 /\ i <= Len(x) - 1 => Rest(x, 1)[i] = x[i + 1]
<1> DEFINE s == Rest(x, 1)
<1>1. Len(x) \in Nat \ {0} /\ x[1] \in Characters
  BY HeadAndTail DEF Text
<1>2. 1 \in 0 .. Len(x)
  BY <1>1
<1>3. s \in Text /\ Len(s) = Len(x) - 1
  BY <1>2, RestLeaves DEF Text
<1>4. \A j \in 1 .. Len(x) - 1 : s[j] = x[1 + j]
  BY <1>2, RestLeaves DEF Text
<1> HIDE DEF s
<1>5. ASSUME NEW i \in Nat, i >= 1, i <= Len(x) - 1  PROVE s[i] = x[i + 1]
  <2>1. i \in 1 .. Len(x) - 1 /\ 1 + i = i + 1
    BY <1>1, <1>5
  <2> QED  BY <1>4, <2>1
<1> QED  BY <1>1, <1>2, <1>3, <1>5 DEF s

\* A character that is not replaced comes first.
LEMMA FirstStays ==
  ASSUME NEW g, NEW match, NEW put, Replaces(g, match, put),
         NEW x \in Text, x # <<>>, match[x] = 0
  PROVE  /\ g[x] = <<x[1]>> \o g[Rest(x, 1)]
         /\ g[x][1] = x[1]
         /\ \A i \in Nat : i >= 1 /\ i <= Len(g[Rest(x, 1)]) => g[x][i + 1] = g[Rest(x, 1)][i]
         /\ Len(g[x]) = Len(g[Rest(x, 1)]) + 1
         /\ g[Rest(x, 1)] \in Text /\ Len(g[Rest(x, 1)]) \in Nat
<1> DEFINE s == Rest(x, 1)
           y == g[s]
<1>1. x[1] \in Characters /\ s \in Text
  BY AllButFirst
<1>2. g[x] = <<x[1]>> \o y
  BY DEF Replaces
<1> HIDE DEF s
<1>3. y \in Text
  BY <1>1 DEF Replaces
<1> HIDE DEF y
<1>4. /\ g[x][1] = x[1] /\ Len(g[x]) = Len(y) + 1
      /\ \A i \in 1 .. Len(y) : g[x][i + 1] = y[i]
  BY <1>1, <1>2, <1>3, InFront
<1>5. Len(y) \in Nat
  BY <1>3 DEF Text
<1>6. ASSUME NEW i \in Nat, i >= 1, i <= Len(y)  PROVE g[x][i + 1] = y[i]
  <2>1. i \in 1 .. Len(y)
    BY <1>5, <1>6
  <2> QED  BY <1>4, <2>1
<1> QED  BY <1>2, <1>3, <1>4, <1>5, <1>6 DEF y, s

\* A closing brace among the first two characters that stay is there from the beginning.
LEMMA EarlyBrace ==
  ASSUME NEW g, NEW match, NEW put, Replaces(g, match, put), Cuts(match, put),
         NEW t \in Text, Apart(t)
  PROVE  /\ Brace(g[t], 1) => Brace(t, 1)
         /\ Brace(g[t], 2) => Brace(t, 2)
<1> DEFINE Early(x) == /\ Brace(g[x], 1) => Brace(x, 1)
                       /\ Brace(g[x], 2) => Brace(x, 2)
           Bad == {x \in Text : Apart(x) /\ ~Early(x)}
<1>1. ASSUME NEW u \in Bad  PROVE \E r \in Bad : Len(r) < Len(u)
  <2>1. u \in Text /\ Apart(u) /\ ~Early(u)
    BY <1>1
  <2>2. \A x \in Text : Apart(x) /\ x \notin Bad => Early(x)
    OBVIOUS
  <2> HIDE DEF Bad
  <2>3. u # <<>>
    <3>1. ~Brace(<<>>, 1) /\ ~Brace(<<>>, 2)
      <4>1. ~ (0 >= 1) /\ ~ (0 >= 2) /\ Len(<<>>) = 0
        OBVIOUS
      <4> QED  BY <4>1 DEF Brace
    <3>2. g[<<>>] = <<>>
      BY DEF Replaces
    <3> QED  BY <2>1, <3>1, <3>2
  <2>4. Len(u) \in Nat \ {0} /\ match[u] \in 0 .. Len(u)
    BY <2>1, <2>3, EmptySeq DEF Replaces, Text
  <2>5. CASE match[u] = 0
    <3> DEFINE s == Rest(u, 1)
    <3>1. /\ g[u] = <<u[1]>> \o g[s] /\ g[u][1] = u[1] /\ s \in Text /\ g[s] \in Text
          /\ \A i \in Nat : i >= 1 /\ i <= Len(g[s]) => g[u][i + 1] = g[s][i]
      BY <2>1, <2>3, <2>5, FirstStays, AllButFirst
    <3>2. Len(g[u]) = Len(g[s]) + 1 /\ Len(g[s]) \in Nat /\ Len(s) = Len(u) - 1 /\ 1 \in 0 .. Len(u)
      <4>1. Len(g[u]) = Len(g[s]) + 1 /\ Len(g[s]) \in Nat
        BY <2>1, <2>3, <2>5, FirstStays
      <4>2. Len(s) = Len(u) - 1 /\ 1 \in 0 .. Len(u)
        BY <2>1, <2>3, AllButFirst
      <4> QED  BY <4>1, <4>2
    <3>3. Apart(s)
      BY <2>1, <3>2, ApartRest
    <3>4. Brace(s, 1) <=> Brace(u, 2)
      <4>1. Brace(s, 1) <=> Brace(u, 1 + 1)
        BY <2>1, <3>2, BraceOfRest
      <4>2. 1 + 1 = 2
        OBVIOUS
      <4> QED  BY <4>1, <4>2
    <3> HIDE DEF s
    <3>5. Len(g[u]) >= 2 => Len(g[s]) >= 1 /\ 1 <= Len(g[s]) /\ 1 >= 1 /\ 1 + 1 = 2
      BY <3>2
    <3>6. Brace(g[u], 2) => Brace(g[s], 1)
      <4>1. Len(g[u]) >= 2 => g[u][2] = g[s][1]
        BY <3>1, <3>5
      <4> QED  BY <3>5, <4>1 DEF Brace
    <3>7. Len(u) >= 1 /\ Len(s) < Len(u)
      BY <2>4, <3>2
    <3>8. Brace(g[u], 1) => Brace(u, 1)
      BY <3>1, <3>7 DEF Brace
    <3>9. s \notin Bad => Early(s)
      BY <2>2, <3>1, <3>3
    <3>10. s \in Bad
      BY <2>1, <3>4, <3>6, <3>8, <3>9
    <3> QED  BY <3>7, <3>10
  <2>6. CASE match[u] # 0
    <3> DEFINE n == match[u]
               s == Rest(u, n)
               w == Group(u, n)
    <3>0. match[u] > 0
      BY <2>4, <2>6
    <3>1. n >= 3 /\ MarkerAt(u, 1) /\ MarkerAt(u, n - 2) /\ (put[u] = <<>> \/ put[u] = w)
      BY <2>1, <2>3, <3>0 DEF Cuts
    <3>2. put[u] \in Text /\ g[u] = put[u] \o g[s]
      BY <2>1, <2>3, <3>0 DEF Replaces
    <3>3. n >= 3 /\ n \in 0 .. Len(u)
      BY <2>4, <3>1
    <3> HIDE DEF n
    <3>4. n \in 3 .. Len(u) /\ n - 2 \in Nat \ {0} /\ n - 2 + 3 = n + 1 /\ n - 2 + 4 = n + 2
      BY <2>4, <3>3
    <3>5. /\ s \in Text /\ Apart(s)
          /\ Brace(s, 1) <=> Brace(u, n + 1)
          /\ Brace(s, 2) <=> Brace(u, n + 2)
      BY <2>1, <3>3, ApartRest, BraceOfRest
    <3>6. ~Brace(u, n + 1) /\ ~Brace(u, n + 2)
      <4>1. ~Brace(u, n - 2 + 3) /\ ~Brace(u, n - 2 + 4)
        <5> DEFINE k == n - 2
        <5>1. k \in Nat \ {0} /\ MarkerAt(u, k)
          BY <3>1, <3>4
        <5> HIDE DEF k
        <5>2. ~Brace(u, k + 3) /\ ~Brace(u, k + 4)
          BY <2>1, <5>1, NoBraceAfter
        <5> QED  BY <5>2 DEF k
      <4> QED  BY <3>4, <4>1
    <3>7. ~Brace(w, 1) /\ ~Brace(w, 2) /\ w \in Text
      <4>1. ~Brace(u, 1 + 3) /\ ~Brace(u, 1 + 4)
        BY <2>1, <3>1, NoBraceAfter
      <4>2. Brace(w, 1) => Brace(u, 1 + 3)
        BY <2>1, <3>4, BraceOfGroup
      <4>3. Brace(w, 2) => Brace(u, 2 + 3)
        BY <2>1, <3>4, BraceOfGroup
      <4>4. 1 + 4 = 2 + 3
        OBVIOUS
      <4>5. w \in Text
        BY <2>1, <3>4, GroupIs
      <4> QED  BY <4>1, <4>2, <4>3, <4>4, <4>5
    <3>8. Len(s) < Len(u)
      <4>1. Len(s) = Len(u) - n
        BY <2>1, <3>3, RestLeaves DEF Text
      <4> QED  BY <2>4, <3>3, <4>1
    <3> HIDE DEF s, w
    <3>9. g[s] \in Text
      BY <3>5 DEF Replaces
    <3>10. /\ Brace(g[u], 1) => Brace(g[s], 1)
           /\ Brace(g[u], 2) => Brace(g[s], 1) \/ Brace(g[s], 2)
      <4>1. CASE put[u] = <<>>
        <5>1. g[u] = g[s]
          BY <3>2, <3>9, <4>1, ConcatEmptySeq DEF Text
        <5> QED  BY <5>1
      <4>2. CASE put[u] = w
        <5>1. g[u] = w \o g[s]
          BY <3>2, <4>2
        <5>2. /\ Brace(w \o g[s], 1) => Brace(w, 1) \/ Brace(g[s], 1)
              /\ Brace(w \o g[s], 2) => Brace(w, 2) \/ Brace(g[s], 1) \/ Brace(g[s], 2)
          BY <3>7, <3>9, BraceOfConcat
        <5> QED  BY <3>7, <5>1, <5>2
      <4> QED  BY <3>1, <4>1, <4>2
    <3>11. s \notin Bad => Early(s)
      BY <2>2, <3>5
    <3>12. s \in Bad
      BY <2>1, <3>5, <3>6, <3>10, <3>11
    <3> QED  BY <3>8, <3>12
  <2> QED  BY <2>5, <2>6
<1>2. Bad \in SUBSET Seq(Characters)
  BY DEF Text
<1> HIDE DEF Bad
<1>3. Bad = {}
  BY <1>1, <1>2, NoShortest
<1> QED  BY <1>3 DEF Bad

\* No marker comes first that was not there.
LEMMA NoNewMarker ==
  ASSUME NEW g, NEW match, NEW put, Replaces(g, match, put), Cuts(match, put),
         NEW x \in Text, Apart(x), ~MarkerAt(x, 1)
  PROVE  ~MarkerAt(g[x], 1)
<1> SUFFICES ASSUME MarkerAt(g[x], 1)  PROVE FALSE
  OBVIOUS
<1>1. \A t \in Text : g[t] \in Text
  BY DEF Replaces
<1>2. OpensAt(g[x], 1) \/ ClosesAt(g[x], 1)
  BY <1>1, MarkerIs
<1>3. \A t \in Text : ~MarkerAt(t, 1) /\ t # <<>> => match[t] = 0
  <2> SUFFICES ASSUME NEW t \in Text, ~MarkerAt(t, 1), t # <<>>  PROVE match[t] = 0
    OBVIOUS
  <2>1. match[t] \in 0 .. Len(t)
    BY DEF Replaces
  <2>2. ~ (match[t] > 0)
    BY DEF Cuts
  <2>3. Len(t) \in Nat
    BY DEF Text
  <2> QED  BY <2>1, <2>2, <2>3
<1>4. \A t \in Text : Len(g[t]) >= 1 => t # <<>>
  <2>1. g[<<>>] = <<>> /\ Len(<<>>) = 0 /\ ~ (0 >= 1)
    BY DEF Replaces
  <2> QED  BY <2>1
<1>5. Len(g[x]) \in Nat /\ Len(g[x]) >= 3 /\ Len(g[x]) >= 1
  <2>1. 1 + 2 <= Len(g[x])
    BY <1>2 DEF OpensAt, ClosesAt
  <2>2. Len(g[x]) \in Nat
    BY <1>1 DEF Text
  <2> QED  BY <2>1, <2>2
<1>6. x # <<>> /\ match[x] = 0
  BY <1>3, <1>4, <1>5
<1> DEFINE s == Rest(x, 1)
<1>7. /\ g[x][1] = x[1] /\ s \in Text
      /\ \A i \in Nat : i >= 1 /\ i <= Len(g[s]) => g[x][i + 1] = g[s][i]
      /\ \A i \in Nat : i >= 1 /\ i <= Len(x) - 1 => s[i] = x[i + 1]
  <2>1. /\ g[x][1] = x[1]
        /\ \A i \in Nat : i >= 1 /\ i <= Len(g[s]) => g[x][i + 1] = g[s][i]
    BY <1>6, FirstStays
  <2>2. /\ s \in Text
        /\ \A i \in Nat : i >= 1 /\ i <= Len(x) - 1 => s[i] = x[i + 1]
    BY <1>6, AllButFirst
  <2> QED  BY <2>1, <2>2
<1>8. /\ Len(g[x]) = Len(g[s]) + 1 /\ Len(g[s]) \in Nat
      /\ Len(s) = Len(x) - 1 /\ Len(x) \in Nat \ {0} /\ 1 \in 0 .. Len(x)
  <2>1. Len(g[x]) = Len(g[s]) + 1 /\ Len(g[s]) \in Nat
    BY <1>6, FirstStays
  <2>2. Len(s) = Len(x) - 1 /\ Len(x) \in Nat \ {0} /\ 1 \in 0 .. Len(x)
    BY <1>6, AllButFirst
  <2> QED  BY <2>1, <2>2
<1>9. /\ Apart(s)
      /\ MarkerAt(s, 1) <=> MarkerAt(x, 1 + 1)
      /\ MarkerAt(s, 2) <=> MarkerAt(x, 1 + 2)
  <2>1. 1 \in 0 .. Len(x) /\ 1 \in Nat \ {0} /\ 2 \in Nat \ {0}
    BY <1>8
  <2>2. Apart(s)
    BY <2>1, ApartRest
  <2>3. MarkerAt(s, 1) <=> MarkerAt(x, 1 + 1)
    BY <2>1, AtRest
  <2>4. MarkerAt(s, 2) <=> MarkerAt(x, 1 + 2)
    BY <2>1, AtRest
  <2> QED  BY <2>2, <2>3, <2>4
<1> HIDE DEF s
<1>10. /\ Len(g[s]) >= 2 /\ Len(g[s]) >= 1 /\ 1 <= Len(g[s]) /\ 2 <= Len(g[s])
       /\ 1 >= 1 /\ 2 >= 1 /\ 1 + 1 = 2 /\ 2 + 1 = 3 /\ 1 + 2 = 3
  BY <1>5, <1>8
<1>11. g[x][2] = g[s][1] /\ g[x][3] = g[s][2] /\ s # <<>>
  BY <1>4, <1>7, <1>10
<1>12. CASE OpensAt(g[x], 1)
  <2>1. x[1] = "{" /\ g[x][2] \in {"-", "+"} /\ g[x][3] = g[x][2]
    BY <1>7, <1>10, <1>12 DEF OpensAt
  <2>2. ~MarkerAt(x, 2) /\ ~MarkerAt(x, 3)
    <3>1. \A k \in Nat \ {0} :
            MarkerAt(x, k) => /\ k - 1 >= 1 => x[k - 1] # "{"
                              /\ k - 2 >= 1 => x[k - 2] # "{"
      BY ApartIs
    <3>2. 2 - 1 = 1 /\ 3 - 2 = 1 /\ 1 >= 1 /\ 2 \in Nat \ {0} /\ 3 \in Nat \ {0}
      OBVIOUS
    <3>3. MarkerAt(x, 2) => x[2 - 1] # "{"
      BY <3>1, <3>2
    <3>4. MarkerAt(x, 3) => x[3 - 2] # "{"
      BY <3>1, <3>2
    <3> QED  BY <2>1, <3>2, <3>3, <3>4
  <2>3. ~MarkerAt(s, 1) /\ ~MarkerAt(s, 2) /\ match[s] = 0
    BY <1>3, <1>7, <1>9, <1>10, <1>11, <2>2
  <2> DEFINE q == Rest(s, 1)
  <2>4. /\ g[s][1] = s[1] /\ q \in Text
        /\ \A i \in Nat : i >= 1 /\ i <= Len(g[q]) => g[s][i + 1] = g[q][i]
        /\ \A i \in Nat : i >= 1 /\ i <= Len(s) - 1 => q[i] = s[i + 1]
    <3>1. /\ g[s][1] = s[1]
          /\ \A i \in Nat : i >= 1 /\ i <= Len(g[q]) => g[s][i + 1] = g[q][i]
      <4>1. s \in Text /\ s # <<>> /\ match[s] = 0
        BY <1>7, <1>11, <2>3
      <4> QED  BY <4>1, FirstStays
    <3>2. /\ q \in Text
          /\ \A i \in Nat : i >= 1 /\ i <= Len(s) - 1 => q[i] = s[i + 1]
      BY <1>7, <1>11, AllButFirst
    <3> QED  BY <3>1, <3>2
  <2>5. /\ Len(g[s]) = Len(g[q]) + 1 /\ Len(g[q]) \in Nat
        /\ Len(q) = Len(s) - 1 /\ Len(s) \in Nat \ {0} /\ 1 \in 0 .. Len(s)
    <3>1. Len(g[s]) = Len(g[q]) + 1 /\ Len(g[q]) \in Nat
      BY <1>7, <1>11, <2>3, FirstStays
    <3>2. Len(q) = Len(s) - 1 /\ Len(s) \in Nat \ {0} /\ 1 \in 0 .. Len(s)
      BY <1>7, <1>11, AllButFirst
    <3> QED  BY <3>1, <3>2
  <2>6. ~MarkerAt(q, 1)
    <3>1. s \in Text /\ 1 \in 0 .. Len(s) /\ 1 \in Nat \ {0}
      BY <1>7, <2>5
    <3>2. MarkerAt(q, 1) <=> MarkerAt(s, 1 + 1)
      BY <3>1, AtRest
    <3> QED  BY <1>10, <2>3, <3>2
  <2> HIDE DEF q
  <2>7. Len(g[q]) >= 1 /\ 1 <= Len(g[q])
    BY <1>10, <2>5
  <2>8. q # <<>> /\ match[q] = 0 /\ g[s][2] = g[q][1]
    BY <1>3, <1>4, <1>10, <2>4, <2>6, <2>7
  <2>9. g[q][1] = q[1] /\ Len(q) \in Nat \ {0}
    <3>1. q \in Text /\ q # <<>> /\ match[q] = 0
      BY <2>4, <2>8
    <3>2. g[q][1] = q[1]
      BY <3>1, FirstStays
    <3> QED  BY <3>1, <3>2, AllButFirst
  <2>10. Len(q) \in Nat \ {0}
    BY <2>9
  <2>11. 1 + 2 <= Len(x) /\ 1 <= Len(s) - 1 /\ 1 <= Len(x) - 1 /\ 2 <= Len(x) - 1
    BY <1>8, <2>5, <2>10
  <2>12. s[1] = x[2] /\ s[2] = x[3] /\ q[1] = s[2]
    BY <1>7, <1>10, <2>4, <2>11
  <2>13. x[2] = g[x][2] /\ x[3] = g[x][3]
    BY <1>11, <2>4, <2>8, <2>9, <2>12
  <2>14. OpensAt(x, 1)
    BY <1>10, <2>1, <2>11, <2>13 DEF OpensAt
  <2> QED  BY <2>14, MarkerIs
<1>13. CASE ClosesAt(g[x], 1)
  <2>1. x[1] \in {"-", "+"} /\ g[s][1] = x[1] /\ g[s][2] = "}"
    BY <1>7, <1>10, <1>11, <1>13 DEF ClosesAt
  <2>2. Brace(s, 2)
    <3>1. Brace(g[s], 2)
      BY <1>10, <2>1 DEF Brace
    <3> QED  BY <1>7, <1>9, <3>1, EarlyBrace
  <2>3. ~MarkerAt(s, 1)
    <3>1. s[2] = "}"
      BY <2>2 DEF Brace
    <3>2. ~OpensAt(s, 1) /\ ~ClosesAt(s, 1)
      BY <1>10, <3>1 DEF OpensAt, ClosesAt
    <3> QED  BY <1>7, <3>2, MarkerIs
  <2>4. match[s] = 0
    BY <1>3, <1>7, <1>11, <2>3
  <2>5. g[s][1] = s[1]
    <3>1. s \in Text /\ s # <<>> /\ match[s] = 0
      BY <1>7, <1>11, <2>4
    <3> QED  BY <3>1, FirstStays
  <2>6. s[2] = "}"
    BY <2>2 DEF Brace
  <2>7. Len(s) >= 2
    BY <2>2 DEF Brace
  <2>8. 1 + 2 <= Len(x) /\ 1 <= Len(x) - 1 /\ 2 <= Len(x) - 1
    BY <1>8, <2>7
  <2>9. s[1] = x[2] /\ s[2] = x[3]
    BY <1>7, <1>10, <2>8
  <2>10. ClosesAt(x, 1)
    BY <1>10, <2>1, <2>5, <2>6, <2>8, <2>9 DEF ClosesAt
  <2> QED  BY <2>10, MarkerIs
<1> QED  BY <1>2, <1>12, <1>13

-----------------------------------------------------------------------------
(* What the patterns match.                                                  *)

Open(c)  == <<"{", c, c>>
Close(c) == <<c, c, "}">>

\* n characters match: from the opening marker to the first closing one; 0 when none do.
IsMatch(r, c, n) ==
  /\ n = 0 \/ n \in 6 .. Len(r)
  /\ n # 0 => /\ At(r, 1, Open(c)) /\ At(r, n - 2, Close(c))
              /\ \A j \in 4 .. n - 3 : ~At(r, j, Close(c))
  /\ At(r, 1, Open(c)) /\ (\E j \in 4 .. Len(r) : At(r, j, Close(c))) => n # 0

LEMMA EndOfMatch ==
  ASSUME NEW r \in Text, NEW c
  PROVE  IsMatch(r, c, EndOf(r, Open(c), Close(c)))
<1> DEFINE ends == {j \in 4 .. Len(r) : At(r, j, Close(c))}
           n    == EndOf(r, Open(c), Close(c))
<1>1. Len(r) \in Nat
  BY DEF Text
<1>2. ends \in SUBSET Nat
  BY <1>1
<1>3. CASE At(r, 1, Open(c)) /\ ends # {}
  <2> DEFINE k == Min(ends)
  <2>1. n = k + 2
    BY <1>3 DEF EndOf
  <2>2. k \in ends /\ \A j \in ends : k <= j
    BY <1>2, <1>3, MinIsLeast
  <2>3. k \in 4 .. Len(r) /\ At(r, k, Close(c))
    BY <2>2
  <2>4. k + 2 <= Len(r)
    <3>1. k \in Nat \ {0}
      BY <1>1, <2>3
    <3> HIDE DEF k
    <3> QED  BY <2>3, <3>1, MarkerShape DEF Close
  <2> HIDE DEF n, k
  <2>5. n \in 6 .. Len(r) /\ n - 2 = k /\ n # 0
    <3>1. k \in 4 .. Len(r)
      BY <2>3
    <3> QED  BY <1>1, <2>1, <2>4, <3>1
  <2>6. ASSUME NEW j \in 4 .. n - 3  PROVE ~At(r, j, Close(c))
    <3>0. k \in 4 .. Len(r)
      BY <2>3
    <3>1. j \in 4 .. Len(r) /\ ~ (k <= j)
      BY <1>1, <2>1, <2>4, <2>6, <3>0
    <3> QED  BY <2>2, <3>1
  <2>7. IsMatch(r, c, n)
    BY <1>3, <2>3, <2>5, <2>6 DEF IsMatch
  <2> QED  BY <2>7 DEF n
<1>4. CASE ~ (At(r, 1, Open(c)) /\ ends # {})
  <2>1. n = 0
    BY <1>4 DEF EndOf
  <2>2. ~ (At(r, 1, Open(c)) /\ \E j \in 4 .. Len(r) : At(r, j, Close(c)))
    BY <1>4
  <2> HIDE DEF n
  <2>3. IsMatch(r, c, n)
    BY <2>1, <2>2 DEF IsMatch
  <2> QED  BY <2>3 DEF n
<1> QED  BY <1>3, <1>4

\* A match starts with a marker and ends with one.
LEMMA MatchCuts ==
  ASSUME NEW r \in Text, NEW c \in {"-", "+"}, NEW n, IsMatch(r, c, n)
  PROVE  /\ n \in Nat
         /\ n > 0 => /\ n \in 6 .. Len(r)
                     /\ r[1] = "{" /\ r[2] = c /\ r[3] = c
                     /\ MarkerAt(r, 1) /\ MarkerAt(r, n - 2)
<1>1. Len(r) \in Nat
  BY DEF Text
<1>2. n = 0 \/ n \in 6 .. Len(r)
  BY DEF IsMatch
<1>3. n \in Nat /\ (n > 0 => n # 0 /\ n \in 6 .. Len(r))
  BY <1>1, <1>2
<1>4. ASSUME n > 0
      PROVE  r[1] = "{" /\ r[2] = c /\ r[3] = c /\ MarkerAt(r, 1) /\ MarkerAt(r, n - 2)
  <2>1. n # 0 /\ n - 2 \in Nat \ {0} /\ 1 \in Nat \ {0} /\ 1 + 1 = 2 /\ 1 + 2 = 3
    BY <1>3, <1>4
  <2>2. At(r, 1, Open(c)) /\ At(r, n - 2, Close(c))
    BY <2>1 DEF IsMatch
  <2>3. Open(c) \in Markers /\ Close(c) \in Markers
    BY DEF Markers, DelOpen, DelClose, InsOpen, InsClose, Open, Close
  <2>4. MarkerAt(r, 1) /\ MarkerAt(r, n - 2)
    BY <2>2, <2>3 DEF MarkerAt
  <2>5. r[1] = "{" /\ r[1 + 1] = c /\ r[1 + 2] = c
    <3>1. At(r, 1, <<"{", c, c>>)
      BY <2>2 DEF Open
    <3>2. 1 \in Nat \ {0}
      OBVIOUS
    <3> QED  BY <3>1, <3>2, MarkerShape
  <2> QED  BY <2>1, <2>4, <2>5
<1> QED  BY <1>3, <1>4

LEMMA ChangesMatch ==
  ASSUME NEW r \in Text
  PROVE  /\ IsMatch(r, "-", Deletion[r])
         /\ IsMatch(r, "+", Insertion[r])
         /\ Deletion[r] = 0 \/ Insertion[r] = 0
<1>1. Deletion[r] = EndOf(r, Open("-"), Close("-"))
  BY DEF Deletion, DelOpen, DelClose, Open, Close, Text
<1>2. Insertion[r] = EndOf(r, Open("+"), Close("+"))
  BY DEF Insertion, InsOpen, InsClose, Open, Close, Text
<1>3. IsMatch(r, "-", Deletion[r]) /\ IsMatch(r, "+", Insertion[r])
  BY <1>1, <1>2, EndOfMatch
<1>4. Deletion[r] \in Nat /\ (Deletion[r] > 0 => r[2] = "-")
  BY <1>3, MatchCuts
<1>5. Insertion[r] \in Nat /\ (Insertion[r] > 0 => r[2] = "+")
  BY <1>3, MatchCuts
<1>6. Deletion[r] = 0 \/ Insertion[r] = 0
  <2>1. ~ (Deletion[r] > 0) \/ ~ (Insertion[r] > 0)
    BY <1>4, <1>5
  <2>2. Deletion[r] \in Nat /\ Insertion[r] \in Nat
    BY <1>4, <1>5
  <2> QED  BY <2>1, <2>2
<1> QED  BY <1>3, <1>6

\* What of an insertion stays, and what of a change the page shows.
Inserted  == [r \in Seq(Characters) |-> Group(r, Insertion[r])]
Displayed == [r \in Seq(Characters) |->
                IF Insertion[r] > 0 THEN Group(r, Insertion[r]) ELSE <<>>]

LEMMA StrayIs ==
  ASSUME NEW r \in Text
  PROVE  /\ Stray[r] = IF MarkerAt(r, 1) THEN 3 ELSE 0
         /\ Stray[r] > 0 <=> MarkerAt(r, 1)
         /\ Stray[r] \in 0 .. Len(r)
<1>1. Stray[r] = IF MarkerAt(r, 1) THEN 3 ELSE 0
  BY DEF Stray, Text
<1>2. Len(r) \in Nat
  BY DEF Text
<1>3. MarkerAt(r, 1) => 1 + 2 <= Len(r)
  <2>1. 1 \in Nat \ {0}
    OBVIOUS
  <2>2. MarkerAt(r, 1) => OpensAt(r, 1) \/ ClosesAt(r, 1)
    BY <2>1, MarkerIs
  <2> QED  BY <2>2 DEF OpensAt, ClosesAt
<1>4. (MarkerAt(r, 1) => 3 \in 0 .. Len(r)) /\ 0 \in 0 .. Len(r) /\ 3 > 0 /\ ~ (0 > 0)
  BY <1>2, <1>3
<1> QED  BY <1>1, <1>4

LEMMA Replacements ==
  /\ Replaces(WithoutDeletions, Deletion, Nothing) /\ Cuts(Deletion, Nothing)
  /\ Replaces(Unwrapped, Insertion, Inserted) /\ Cuts(Insertion, Inserted)
  /\ Replaces(Stripped, Stray, Nothing) /\ Cuts(Stray, Nothing)
  /\ Replaces(Shown, Change, Displayed) /\ Cuts(Change, Displayed)
<1>1. ASSUME NEW r \in Text
      PROVE  /\ Nothing[r] = <<>> /\ Nothing[r] \in Text
             /\ Inserted[r] = Group(r, Insertion[r])
             /\ Displayed[r] = IF Insertion[r] > 0 THEN Group(r, Insertion[r]) ELSE <<>>
             /\ Change[r] = IF Deletion[r] > 0 THEN Deletion[r]
                            ELSE IF Insertion[r] > 0 THEN Insertion[r] ELSE Stray[r]
  BY <1>1, EmptySeq DEF Nothing, Inserted, Displayed, Change, Text
<1>2. ASSUME NEW r \in Text
      PROVE  /\ Deletion[r] \in 0 .. Len(r)
             /\ Deletion[r] > 0 => /\ Deletion[r] >= 3 /\ MarkerAt(r, 1)
                                   /\ MarkerAt(r, Deletion[r] - 2)
  <2> DEFINE n == Deletion[r]
  <2>1. IsMatch(r, "-", n)
    BY <1>2, ChangesMatch
  <2> HIDE DEF n
  <2>2. n \in Nat
    BY <1>2, <2>1, MatchCuts
  <2>3. n > 0 => n \in 6 .. Len(r)
    BY <1>2, <2>1, MatchCuts
  <2>4. n > 0 => MarkerAt(r, 1) /\ MarkerAt(r, n - 2)
    BY <1>2, <2>1, MatchCuts
  <2>5. Len(r) \in Nat
    BY <1>2 DEF Text
  <2>6. n \in 0 .. Len(r) /\ (n > 0 => n >= 3)
    BY <2>2, <2>3, <2>5
  <2> QED  BY <2>4, <2>6 DEF n
<1>3. ASSUME NEW r \in Text
      PROVE  /\ Insertion[r] \in 0 .. Len(r)
             /\ Insertion[r] > 0 => /\ Insertion[r] >= 3 /\ MarkerAt(r, 1)
                                    /\ MarkerAt(r, Insertion[r] - 2)
                                    /\ Group(r, Insertion[r]) \in Text
  <2> DEFINE n == Insertion[r]
  <2>1. IsMatch(r, "+", n)
    BY <1>3, ChangesMatch
  <2> HIDE DEF n
  <2>2. n \in Nat
    BY <1>3, <2>1, MatchCuts
  <2>3. n > 0 => n \in 6 .. Len(r)
    BY <1>3, <2>1, MatchCuts
  <2>4. n > 0 => MarkerAt(r, 1) /\ MarkerAt(r, n - 2)
    BY <1>3, <2>1, MatchCuts
  <2>5. Len(r) \in Nat
    BY <1>3 DEF Text
  <2>6. n \in 0 .. Len(r) /\ (n > 0 => n >= 3 /\ n \in 3 .. Len(r))
    BY <2>2, <2>3, <2>5
  <2>7. n > 0 => Group(r, n) \in Text
    BY <1>3, <2>6, GroupIs
  <2> QED  BY <2>4, <2>6, <2>7 DEF n
<1>4. ASSUME NEW r \in Text
      PROVE  /\ Stray[r] \in 0 .. Len(r)
             /\ Stray[r] > 0 => /\ Stray[r] >= 3 /\ MarkerAt(r, 1)
                                /\ MarkerAt(r, Stray[r] - 2)
  <2>1. Stray[r] > 0 => Stray[r] = 3 /\ MarkerAt(r, 1)
    BY <1>4, StrayIs
  <2>2. 3 >= 3 /\ 3 - 2 = 1
    OBVIOUS
  <2>3. Stray[r] \in 0 .. Len(r)
    BY <1>4, StrayIs
  <2> QED  BY <2>1, <2>2, <2>3
<1>5. ASSUME NEW r \in Text
      PROVE  /\ Change[r] \in 0 .. Len(r)
             /\ Displayed[r] \in Text
             /\ Change[r] > 0 => /\ Change[r] >= 3 /\ MarkerAt(r, 1)
                                 /\ MarkerAt(r, Change[r] - 2)
                                 /\ Displayed[r] = <<>> \/ Displayed[r] = Group(r, Change[r])
  <2>1. Deletion[r] = 0 \/ Insertion[r] = 0
    BY <1>5, ChangesMatch
  <2>2. Deletion[r] = 0 => ~ (Deletion[r] > 0)
    OBVIOUS
  <2>3. Insertion[r] = 0 => ~ (Insertion[r] > 0)
    OBVIOUS
  <2>4. CASE Deletion[r] > 0
    <3>1. Change[r] = Deletion[r] /\ Displayed[r] = <<>> /\ <<>> \in Text
      BY <1>1, <1>5, <2>1, <2>2, <2>3, <2>4
    <3> QED  BY <1>2, <1>5, <3>1
  <2>5. CASE ~ (Deletion[r] > 0) /\ Insertion[r] > 0
    <3>1. Change[r] = Insertion[r] /\ Displayed[r] = Group(r, Insertion[r])
      BY <1>1, <1>5, <2>5
    <3> QED  BY <1>3, <1>5, <2>5, <3>1
  <2>6. CASE ~ (Deletion[r] > 0) /\ ~ (Insertion[r] > 0)
    <3>1. Change[r] = Stray[r] /\ Displayed[r] = <<>> /\ <<>> \in Text
      BY <1>1, <1>5, <2>6
    <3> QED  BY <1>4, <1>5, <3>1
  <2> QED  BY <2>4, <2>5, <2>6
<1>6. /\ WithoutDeletions = Sub(Deletion, Nothing)
      /\ Unwrapped = Sub(Insertion, Inserted)
      /\ Stripped = Sub(Stray, Nothing)
      /\ Shown = Sub(Change, Displayed)
  BY DEF WithoutDeletions, Unwrapped, Stripped, Shown, Inserted, Displayed
<1>7. Replaces(Sub(Deletion, Nothing), Deletion, Nothing)
  BY <1>1, <1>2, SubReplaces
<1>8. Replaces(Sub(Insertion, Inserted), Insertion, Inserted)
  BY <1>1, <1>3, SubReplaces
<1>9. Replaces(Sub(Stray, Nothing), Stray, Nothing)
  BY <1>1, <1>4, SubReplaces
<1>10. Replaces(Sub(Change, Displayed), Change, Displayed)
  BY <1>1, <1>5, SubReplaces
<1>11. Cuts(Deletion, Nothing) /\ Cuts(Stray, Nothing)
  BY <1>1, <1>2, <1>4 DEF Cuts
<1>12. Cuts(Insertion, Inserted)
  BY <1>1, <1>3 DEF Cuts
<1>13. Cuts(Change, Displayed)
  BY <1>5 DEF Cuts
<1> QED  BY <1>6, <1>7, <1>8, <1>9, <1>10, <1>11, <1>12, <1>13

-----------------------------------------------------------------------------
(* What stays of a text whose markers are apart.                             *)

\* A text is its first n characters and the rest.
LEMMA StartAndRest ==
  ASSUME NEW x \in Text, NEW n \in 0 .. Len(x)
  PROVE  /\ SubSeq(x, 1, n) \in Text /\ Len(SubSeq(x, 1, n)) = n
         /\ \A i \in 1 .. n : SubSeq(x, 1, n)[i] = x[i]
         /\ Rest(x, n) \in Text /\ Len(Rest(x, n)) = Len(x) - n
         /\ x = SubSeq(x, 1, n) \o Rest(x, n)
<1> DEFINE a == SubSeq(x, 1, n)
           b == Rest(x, n)
           y == a \o b
<1>1. Len(x) \in Nat /\ n \in Nat
  BY DEF Text
<1>2. \A i \in 1 .. n : x[i] \in Characters
  <2>1. \A i \in 1 .. n : i \in 1 .. Len(x)
    BY <1>1
  <2> QED  BY <2>1, ElementOfSeq DEF Text
<1>3. a \in Text /\ Len(a) = IF 1 <= n THEN n - 1 + 1 ELSE 0
  BY <1>1, <1>2, SubSeqProperties DEF Text
<1>4. \A i \in 1 .. n - 1 + 1 : a[i] = x[1 + i - 1]
  BY <1>1, <1>2, SubSeqProperties
<1>5. b \in Text /\ Len(b) = Len(x) - n
  BY RestLeaves DEF Text
<1>6. \A j \in 1 .. Len(x) - n : b[j] = x[n + j]
  BY RestLeaves DEF Text
<1> HIDE DEF a, b
<1>7. Len(a) = n
  BY <1>1, <1>3
<1>8. \A i \in 1 .. n : a[i] = x[i]
  <2>1. \A i \in 1 .. n : i \in 1 .. n - 1 + 1 /\ 1 + i - 1 = i
    BY <1>1
  <2> QED  BY <1>4, <2>1
<1>9. y \in Text /\ Len(y) = Len(x)
  <2>1. y \in Text /\ Len(y) = Len(a) + Len(b)
    BY <1>3, <1>5, ConcatProperties DEF Text
  <2> HIDE DEF y
  <2> QED  BY <1>1, <1>5, <1>7, <2>1
<1>10. ASSUME NEW i \in 1 .. Len(x)  PROVE y[i] = x[i]
  <2>1. i \in 1 .. Len(a) + Len(b)
    BY <1>1, <1>5, <1>7
  <2>2. y[i] = IF i <= Len(a) THEN a[i] ELSE b[i - Len(a)]
    BY <1>3, <1>5, <2>1, ConcatProperties DEF Text
  <2>3. i <= n => i \in 1 .. n
    BY <1>1
  <2>4. ~ (i <= n) => i - n \in 1 .. Len(x) - n /\ n + (i - n) = i
    BY <1>1
  <2> QED  BY <1>6, <1>7, <1>8, <2>2, <2>3, <2>4
<1> HIDE DEF y
<1>11. y = x
  BY <1>9, <1>10, SeqEqual DEF Text
<1> QED  BY <1>3, <1>5, <1>7, <1>8, <1>11 DEF a, b, y

\* What is at a place of a text that goes on.
LEMMA AtConcat ==
  ASSUME NEW a \in Text, NEW b \in Text, NEW j \in Nat \ {0}, j + 2 <= Len(a)
  PROVE  /\ MarkerAt(a \o b, j) <=> MarkerAt(a, j)
         /\ \A c : /\ At(a \o b, j, <<"{", c, c>>) <=> At(a, j, <<"{", c, c>>)
                   /\ At(a \o b, j, <<c, c, "}">>) <=> At(a, j, <<c, c, "}">>)
<1> DEFINE y == a \o b
<1>1. Len(a) \in Nat /\ Len(b) \in Nat
  BY DEF Text
<1>2. y \in Text /\ Len(y) = Len(a) + Len(b)
  BY ConcatProperties DEF Text
<1>3. \A i \in 1 .. Len(a) + Len(b) : y[i] = IF i <= Len(a) THEN a[i] ELSE b[i - Len(a)]
  BY ConcatProperties DEF Text
<1> HIDE DEF y
<1>4. /\ j \in 1 .. Len(a) + Len(b) /\ j <= Len(a)
      /\ j + 1 \in 1 .. Len(a) + Len(b) /\ j + 1 <= Len(a)
      /\ j + 2 \in 1 .. Len(a) + Len(b) /\ j + 2 <= Len(y)
  BY <1>1, <1>2
<1>5. y[j] = a[j] /\ y[j + 1] = a[j + 1] /\ y[j + 2] = a[j + 2]
  BY <1>3, <1>4
<1>6. MarkerAt(y, j) <=> OpensAt(y, j) \/ ClosesAt(y, j)
  BY <1>2, MarkerIs
<1>7. MarkerAt(a, j) <=> OpensAt(a, j) \/ ClosesAt(a, j)
  BY MarkerIs
<1>8. MarkerAt(y, j) <=> MarkerAt(a, j)
  BY <1>4, <1>5, <1>6, <1>7 DEF OpensAt, ClosesAt
<1>9. ASSUME NEW c
      PROVE  /\ At(y, j, <<"{", c, c>>) <=> At(a, j, <<"{", c, c>>)
             /\ At(y, j, <<c, c, "}">>) <=> At(a, j, <<c, c, "}">>)
  <2>1. /\ At(y, j, <<"{", c, c>>) <=>
             j + 2 <= Len(y) /\ y[j] = "{" /\ y[j + 1] = c /\ y[j + 2] = c
        /\ At(y, j, <<c, c, "}">>) <=>
             j + 2 <= Len(y) /\ y[j] = c /\ y[j + 1] = c /\ y[j + 2] = "}"
    BY <1>2, MarkerShape
  <2>2. /\ At(a, j, <<"{", c, c>>) <=>
             j + 2 <= Len(a) /\ a[j] = "{" /\ a[j + 1] = c /\ a[j + 2] = c
        /\ At(a, j, <<c, c, "}">>) <=>
             j + 2 <= Len(a) /\ a[j] = c /\ a[j + 1] = c /\ a[j + 2] = "}"
    BY MarkerShape
  <2> QED  BY <1>4, <1>5, <2>1, <2>2
<1> QED  BY <1>8, <1>9 DEF y

\* Nothing matches where no marker is.
LEMMA NoMatch ==
  ASSUME NEW g, NEW match, NEW put, Replaces(g, match, put), Cuts(match, put),
         NEW x \in Text, x # <<>>, ~MarkerAt(x, 1)
  PROVE  match[x] = 0
<1>1. match[x] \in 0 .. Len(x)
  BY DEF Replaces
<1>2. ~ (match[x] > 0)
  BY DEF Cuts
<1>3. Len(x) \in Nat
  BY DEF Text
<1> QED  BY <1>1, <1>2, <1>3

\* No marker follows an opening brace.
LEMMA NoMarkerAfterBrace ==
  ASSUME NEW x \in Text, Apart(x), NEW j \in Nat \ {0}
  PROVE  x[j] = "{" => ~MarkerAt(x, j + 1) /\ ~MarkerAt(x, j + 2)
<1>1. ASSUME MarkerAt(x, j + 1)  PROVE x[j] # "{"
  <2> DEFINE k == j + 1
  <2>1. k \in Nat \ {0} /\ k - 1 >= 1 /\ k - 1 = j
    OBVIOUS
  <2>2. MarkerAt(x, k)
    BY <1>1
  <2> HIDE DEF k
  <2>3. x[k - 1] # "{"
    <3>1. k - 1 >= 1 => x[k - 1] # "{"
      BY <2>1, <2>2, ApartIs
    <3> QED  BY <2>1, <3>1, Zenon
  <2>4. k - 1 = j
    BY <2>1
  <2> QED  BY <2>3, <2>4
<1>2. ASSUME MarkerAt(x, j + 2)  PROVE x[j] # "{"
  <2> DEFINE k == j + 2
  <2>1. k \in Nat \ {0} /\ k - 2 >= 1 /\ k - 2 = j
    OBVIOUS
  <2>2. MarkerAt(x, k)
    BY <1>2
  <2> HIDE DEF k
  <2>3. x[k - 2] # "{"
    <3>1. k - 2 >= 1 => x[k - 2] # "{"
      BY <2>1, <2>2, ApartIs
    <3> QED  BY <2>1, <3>1, Zenon
  <2>4. k - 2 = j
    BY <2>1
  <2> QED  BY <2>3, <2>4
<1> QED  BY <1>1, <1>2

\* A marker that is not part of a change stays as it is.
LEMMA MarkerStays ==
  ASSUME NEW g, NEW match, NEW put, Replaces(g, match, put), Cuts(match, put),
         NEW x \in Text, Apart(x), MarkerAt(x, 1), match[x] = 0
  PROVE  /\ 3 \in 0 .. Len(x) /\ SubSeq(x, 1, 3) \in Text /\ Len(SubSeq(x, 1, 3)) = 3
         /\ g[x] = SubSeq(x, 1, 3) \o g[Rest(x, 3)]
<1>1. 1 \in Nat \ {0} /\ 1 + 1 = 2 /\ 1 + 2 = 3
  OBVIOUS
<1>2. Len(x) \in Nat
  BY DEF Text
<1>3. 1 + 2 <= Len(x)
  <2>1. OpensAt(x, 1) \/ ClosesAt(x, 1)
    BY <1>1, MarkerIs
  <2> QED  BY <2>1 DEF OpensAt, ClosesAt
<1>4. 3 \in 0 .. Len(x) /\ 3 <= Len(x)
  BY <1>2, <1>3
<1>5. ~MarkerAt(x, 2) /\ ~MarkerAt(x, 3)
  BY <1>1, NoOverlap
<1> DEFINE w == SubSeq(x, 1, 3)
           v == Rest(x, 3)
<1>6. w \in Text /\ Len(w) = 3 /\ v \in Text /\ x = w \o v
  BY <1>4, StartAndRest
<1> HIDE DEF w, v
<1>7. ASSUME NEW j \in 0 .. Len(w) - 1  PROVE match[Rest(w \o v, j)] = 0
  <2>1. j = 0 \/ (j \in {1, 2} /\ j \in 0 .. Len(x))
    BY <1>4, <1>6
  <2>2. CASE j = 0
    <3>1. Rest(x, 0) = x
      <4>1. SubSeq(x, 1, Len(x)) = x
        BY SubSeqFull DEF Text
      <4>2. 0 + 1 = 1
        OBVIOUS
      <4> QED  BY <4>1, <4>2 DEF Rest
    <3> QED  BY <1>6, <2>2, <3>1
  <2>3. CASE j \in {1, 2} /\ j \in 0 .. Len(x)
    <3> DEFINE s == Rest(x, j)
    <3>1. s \in Text /\ Len(s) = Len(x) - j
      BY <2>3, StartAndRest
    <3>2. MarkerAt(s, 1) <=> MarkerAt(x, j + 1)
      BY <1>1, <2>3, AtRest
    <3>3. j + 1 = 2 \/ j + 1 = 3
      BY <2>3
    <3>4. ~MarkerAt(s, 1)
      BY <1>5, <3>2, <3>3
    <3> HIDE DEF s
    <3>5. s # <<>>
      <4>1. Len(s) # 0
        BY <1>2, <1>4, <2>3, <3>1
      <4> QED  BY <4>1
    <3>6. match[s] = 0
      BY <3>1, <3>4, <3>5, NoMatch
    <3> QED  BY <1>6, <3>6 DEF s
  <2> QED  BY <2>1, <2>2, <2>3
<1>8. g[w \o v] = w \o g[v]
  <2>1. w \in Text /\ v \in Text
    BY <1>6
  <2>2. \A j \in 0 .. Len(w) - 1 : match[Rest(w \o v, j)] = 0
    BY <1>7
  <2> QED  BY <2>1, <2>2, NothingReplaced
<1> QED  BY <1>4, <1>6, <1>8 DEF w, v

\* What comes after the start of a text.
LEMMA RestOfStart ==
  ASSUME NEW w \in Text, NEW z \in Text
  PROVE  Rest(w \o z, Len(w)) = z
<1>1. Len(w) \in Nat /\ Len(w) \in 0 .. Len(w)
  BY DEF Text
<1>2. Rest(w \o z, Len(w)) = Rest(w, Len(w)) \o z
  BY <1>1, RestOfConcat DEF Text
<1>3. Rest(w, Len(w)) = <<>>
  <2>1. Rest(w, Len(w)) \in Text /\ Len(Rest(w, Len(w))) = Len(w) - Len(w)
    BY <1>1, RestLeaves DEF Text
  <2>2. Len(w) - Len(w) = 0
    BY <1>1
  <2> QED  BY <2>1, <2>2, EmptySeq DEF Text
<1>4. <<>> \o z = z
  BY ConcatEmptySeq DEF Text
<1> QED  BY <1>2, <1>3, <1>4

\* What stays where all that is found goes is apart.
LEMMA ApartStays ==
  ASSUME NEW g, NEW match, NEW put, Replaces(g, match, put), Cuts(match, put),
         \A r \in Text : put[r] = <<>>,
         NEW x \in Text, Apart(x)
  PROVE  Apart(g[x])
<1> DEFINE Bad == {y \in Text : Apart(y) /\ ~Apart(g[y])}
<1>1. ASSUME NEW u \in Bad  PROVE \E r \in Bad : Len(r) < Len(u)
  <2>1. u \in Text /\ Apart(u) /\ ~Apart(g[u])
    BY <1>1
  <2>2. \A y \in Text : Apart(y) /\ y \notin Bad => Apart(g[y])
    OBVIOUS
  <2> HIDE DEF Bad
  <2>3. u # <<>>
    <3>1. DOMAIN <<>> = {} /\ g[<<>>] = <<>>
      BY DEF Replaces
    <3> QED  BY <2>1, <3>1 DEF Apart
  <2>4. Len(u) \in Nat \ {0} /\ match[u] \in 0 .. Len(u)
    BY <2>1, <2>3, EmptySeq DEF Replaces, Text
  <2>5. CASE match[u] > 0
    <3> DEFINE n == match[u]
               s == Rest(u, n)
    <3>1. g[u] = put[u] \o g[s]
      BY <2>1, <2>3, <2>5 DEF Replaces
    <3>2. n \in 1 .. Len(u) /\ n \in 0 .. Len(u)
      BY <2>4, <2>5
    <3> HIDE DEF n
    <3>3. s \in Text /\ Apart(s) /\ Len(s) = Len(u) - n
      BY <2>1, <3>2, ApartRest, RestLeaves DEF Text
    <3> HIDE DEF s
    <3>4. g[s] \in Text
      BY <3>3 DEF Replaces
    <3>5. g[u] = g[s]
      BY <2>1, <3>1, <3>4, ConcatEmptySeq DEF Text
    <3>6. s \in Bad
      BY <2>1, <2>2, <3>3, <3>5
    <3>7. Len(s) < Len(u)
      BY <2>4, <3>2, <3>3
    <3> QED  BY <3>6, <3>7
  <2>6. CASE ~ (match[u] > 0)
    <3>1. match[u] = 0
      BY <2>4, <2>6
    <3> DEFINE s == Rest(u, 1)
               t == g[s]
    <3>2. g[u] = <<u[1]>> \o t /\ u[1] \in Characters /\ s \in Text
      <4>1. g[u] = <<u[1]>> \o t
        BY <2>1, <2>3, <3>1, FirstStays
      <4>2. u[1] \in Characters /\ s \in Text
        BY <2>1, <2>3, AllButFirst
      <4> QED  BY <4>1, <4>2
    <3>3. 1 \in 0 .. Len(u) /\ Len(s) = Len(u) - 1
      BY <2>1, <2>3, AllButFirst
    <3>4. Apart(s)
      BY <2>1, <3>3, ApartRest
    <3>5. /\ MarkerAt(s, 1) <=> MarkerAt(u, 1 + 1)
          /\ MarkerAt(s, 2) <=> MarkerAt(u, 1 + 2)
      <4>1. 1 \in Nat \ {0} /\ 2 \in Nat \ {0}
        OBVIOUS
      <4>2. MarkerAt(s, 1) <=> MarkerAt(u, 1 + 1)
        BY <2>1, <3>3, <4>1, AtRest
      <4>3. MarkerAt(s, 2) <=> MarkerAt(u, 1 + 2)
        BY <2>1, <3>3, <4>1, AtRest
      <4> QED  BY <4>2, <4>3
    <3> HIDE DEF s
    <3>6. t \in Text
      BY <3>2 DEF Replaces
    <3>7. ASSUME u[1] = "{"  PROVE ~MarkerAt(t, 1) /\ ~MarkerAt(t, 2)
      <4>1. ~MarkerAt(s, 1) /\ ~MarkerAt(s, 2)
        <5>1. 1 \in Nat \ {0}
          OBVIOUS
        <5>2. ~MarkerAt(u, 1 + 1) /\ ~MarkerAt(u, 1 + 2)
          BY <2>1, <3>7, <5>1, NoMarkerAfterBrace
        <5> QED  BY <3>5, <5>2
      <4>2. ~MarkerAt(t, 1)
        BY <3>2, <3>4, <4>1, NoNewMarker
      <4>3. CASE s = <<>>
        <5>1. t = <<>>
          BY <4>3 DEF Replaces
        <5>2. ~MarkerAt(t, 2)
          <6>1. ~ (2 + 2 <= Len(t)) /\ 2 \in Nat \ {0}
            BY <5>1
          <6>2. MarkerAt(t, 2) <=> OpensAt(t, 2) \/ ClosesAt(t, 2)
            BY <3>6, <6>1, MarkerIs
          <6> QED  BY <6>1, <6>2 DEF OpensAt, ClosesAt
        <5> QED  BY <4>2, <5>2
      <4>4. CASE s # <<>>
        <5> DEFINE q == Rest(s, 1)
        <5>1. match[s] = 0
          BY <3>2, <4>1, <4>4, NoMatch
        <5>2. t = <<s[1]>> \o g[q]
          BY <3>2, <4>4, <5>1, FirstStays
        <5>3. s[1] \in Characters /\ q \in Text /\ 1 \in 0 .. Len(s)
          BY <3>2, <4>4, AllButFirst
        <5>4. Apart(q)
          BY <3>2, <3>4, <5>3, ApartRest
        <5>5. 1 \in Nat \ {0} /\ 1 + 1 = 2
          OBVIOUS
        <5>6. ~MarkerAt(q, 1)
          <6>1. MarkerAt(q, 1) <=> MarkerAt(s, 1 + 1)
            BY <3>2, <5>3, <5>5, AtRest
          <6> QED  BY <4>1, <5>5, <6>1
        <5> HIDE DEF q
        <5>7. ~MarkerAt(g[q], 1)
          BY <5>3, <5>4, <5>6, NoNewMarker
        <5>8. g[q] \in Text
          BY <5>3 DEF Replaces
        <5>9. MarkerAt(<<s[1]>> \o g[q], 1 + 1) <=> MarkerAt(g[q], 1)
          BY <5>3, <5>5, <5>8, InFront
        <5>10. ~MarkerAt(t, 2)
          BY <5>2, <5>5, <5>7, <5>9
        <5> QED  BY <4>2, <5>10
      <4> QED  BY <4>3, <4>4
    <3>8. ASSUME MarkerAt(g[u], 1)
          PROVE  ~Brace(t, 3) /\ ~Brace(t, 4)
      <4>1. MarkerAt(u, 1)
        BY <2>1, <3>8, NoNewMarker
      <4> DEFINE w == SubSeq(u, 1, 3)
                 q == Rest(u, 3)
      <4>2. 3 \in 0 .. Len(u) /\ w \in Text /\ Len(w) = 3 /\ g[u] = w \o g[q]
        BY <2>1, <3>1, <4>1, MarkerStays
      <4>3. q \in Text /\ Apart(q)
        BY <2>1, <4>2, ApartRest
      <4>4. ~Brace(q, 1) /\ ~Brace(q, 2)
        <5>1. 1 \in Nat \ {0} /\ 2 \in Nat \ {0} /\ 1 + 3 = 3 + 1 /\ 1 + 4 = 3 + 2
          OBVIOUS
        <5>2. ~Brace(u, 1 + 3) /\ ~Brace(u, 1 + 4)
          BY <2>1, <4>1, <5>1, NoBraceAfter
        <5>3. Brace(q, 1) <=> Brace(u, 3 + 1)
          BY <2>1, <4>2, <5>1, BraceOfRest
        <5>4. Brace(q, 2) <=> Brace(u, 3 + 2)
          BY <2>1, <4>2, <5>1, BraceOfRest
        <5> QED  BY <5>1, <5>2, <5>3, <5>4
      <4> HIDE DEF w, q
      <4>5. g[q] \in Text /\ ~Brace(g[q], 1) /\ ~Brace(g[q], 2)
        <5>1. g[q] \in Text
          BY <4>3 DEF Replaces
        <5> QED  BY <4>3, <4>4, <5>1, EarlyBrace
      <4>6. Rest(g[u], 3) = g[q] /\ g[u] \in Text /\ 3 \in 0 .. Len(g[u])
        <5> DEFINE z == g[q]
        <5>1. z \in Text
          BY <4>5
        <5> HIDE DEF z
        <5>2. 3 \in 0 .. Len(w)
          BY <4>2
        <5>3. Rest(w \o z, 3) = Rest(w, 3) \o z
          BY <4>2, <5>1, <5>2, RestOfConcat DEF Text
        <5>4. Rest(w, 3) = <<>>
          <6>1. Rest(w, 3) \in Text /\ Len(Rest(w, 3)) = Len(w) - 3
            BY <4>2, <5>2, RestLeaves DEF Text
          <6>2. Len(w) - 3 = 0
            BY <4>2
          <6> QED  BY <6>1, <6>2, EmptySeq DEF Text
        <5>5. <<>> \o z = z
          BY <5>1, ConcatEmptySeq DEF Text
        <5>6. w \o z \in Text /\ Len(w \o z) = Len(w) + Len(z)
          BY <4>2, <5>1, ConcatProperties DEF Text
        <5>7. 3 \in 0 .. Len(w \o z)
          <6>1. Len(z) \in Nat /\ Len(w) = 3
            BY <4>2, <5>1 DEF Text
          <6> QED  BY <5>6, <6>1
        <5> QED  BY <4>2, <5>3, <5>4, <5>5, <5>6, <5>7 DEF z
      <4>7. ~Brace(g[u], 3 + 1) /\ ~Brace(g[u], 3 + 2)
        <5> DEFINE y == g[u]
        <5>1. y \in Text /\ 3 \in 0 .. Len(y)
          BY <4>6
        <5>2. Rest(y, 3) = g[q]
          BY <4>6
        <5> HIDE DEF y
        <5>3. 1 \in Nat \ {0} /\ 2 \in Nat \ {0}
          OBVIOUS
        <5>4. Brace(Rest(y, 3), 1) <=> Brace(y, 3 + 1)
          BY <5>1, <5>3, BraceOfRest
        <5>5. Brace(Rest(y, 3), 2) <=> Brace(y, 3 + 2)
          BY <5>1, <5>3, BraceOfRest
        <5> QED  BY <4>5, <5>2, <5>4, <5>5 DEF y
      <4>8. \A k \in {3, 4} : Brace(t, k) => Brace(g[u], k + 1)
        <5>1. /\ Len(g[u]) = Len(t) + 1
              /\ \A i \in 1 .. Len(t) : g[u][i + 1] = t[i]
          BY <3>2, <3>6, InFront
        <5>2. Len(t) \in Nat
          BY <3>6 DEF Text
        <5>3. \A k \in {3, 4} : Len(t) >= k => k \in 1 .. Len(t) /\ Len(g[u]) >= k + 1
          <6>1. Len(g[u]) = Len(t) + 1
            BY <5>1
          <6> QED  BY <5>2, <6>1
        <5> QED  BY <5>1, <5>3 DEF Brace
      <4>9. 3 + 2 = 4 + 1
        OBVIOUS
      <4> QED  BY <4>7, <4>8, <4>9
    <3>9. s \notin Bad => Apart(t)
      BY <2>2, <3>2, <3>4
    <3>10. Len(s) < Len(u)
      BY <2>4, <3>3
    <3> HIDE DEF t
    <3>11. ASSUME Apart(t)  PROVE FALSE
      <4>1. FitsInFront(u[1], t)
        <5>1. MarkerAt(g[u], 1) => /\ Len(t) >= 3 => t[3] # "}"
                                   /\ Len(t) >= 4 => t[4] # "}"
          BY <3>8 DEF Brace
        <5> QED  BY <3>2, <3>7, <3>11, <5>1 DEF FitsInFront
      <4>2. Apart(<<u[1]>> \o t)
        BY <3>2, <3>6, <4>1, ApartInFront
      <4> QED  BY <2>1, <3>2, <4>2
    <3>12. s \in Bad
      BY <3>9, <3>11
    <3> QED  BY <3>10, <3>12
  <2> QED  BY <2>5, <2>6
<1>2. Bad \in SUBSET Seq(Characters)
  BY DEF Text
<1> HIDE DEF Bad
<1>3. Bad = {}
  BY <1>1, <1>2, NoShortest
<1> QED  BY <1>3 DEF Bad

-----------------------------------------------------------------------------
(* The stray markers.                                                        *)

\* Where a text is cut into two, no marker is cut.
Whole(a, b) == \A j \in 1 .. Len(a) : MarkerAt(a \o b, j) => j + 2 <= Len(a)

LEMMA StrippedInParts ==
  ASSUME NEW b \in Text
  PROVE  \A a \in Text : Whole(a, b) => Stripped[a \o b] = Stripped[a] \o Stripped[b]
<1> DEFINE X == {x \in Text : Whole(x, b)}
<1>1. ASSUME NEW x \in X, x # <<>>
      PROVE  /\ Stray[x \o b] = Stray[x]
             /\ Stray[x] > 0 => Nothing[x \o b] = Nothing[x]
             /\ Rest(x, IF Stray[x] > 0 THEN Stray[x] ELSE 1) \in X
  <2>1. x \in Text /\ Whole(x, b)
    BY <1>1
  <2>2. Len(x) \in Nat \ {0} /\ Len(b) \in Nat
    BY <1>1, <2>1, EmptySeq DEF Text
  <2>3. x \o b \in Text
    BY <2>1, ConcatProperties DEF Text
  <2>4. MarkerAt(x \o b, 1) <=> MarkerAt(x, 1)
    <3>1. 1 \in 1 .. Len(x) /\ 1 \in Nat \ {0}
      BY <2>2
    <3>2. MarkerAt(x \o b, 1) => 1 + 2 <= Len(x)
      BY <2>1, <3>1 DEF Whole
    <3>3. MarkerAt(x, 1) => 1 + 2 <= Len(x)
      <4>1. MarkerAt(x, 1) <=> OpensAt(x, 1) \/ ClosesAt(x, 1)
        BY <2>1, <3>1, MarkerIs
      <4> QED  BY <4>1 DEF OpensAt, ClosesAt
    <3>4. 1 + 2 <= Len(x) => (MarkerAt(x \o b, 1) <=> MarkerAt(x, 1))
      BY <2>1, <3>1, AtConcat
    <3> QED  BY <3>2, <3>3, <3>4
  <2>5. Stray[x \o b] = Stray[x]
    BY <2>1, <2>3, <2>4, StrayIs
  <2>6. Nothing[x \o b] = Nothing[x]
    BY <2>1, <2>3 DEF Nothing, Text
  <2> DEFINE n == IF Stray[x] > 0 THEN Stray[x] ELSE 1
             s == Rest(x, n)
  <2>7. n \in 1 .. Len(x) /\ n \in 0 .. Len(x)
    <3>1. Stray[x] \in 0 .. Len(x)
      BY <2>1, StrayIs
    <3> QED  BY <2>2, <3>1
  <2> HIDE DEF n
  <2>8. s \in Text /\ Len(s) = Len(x) - n /\ s \o b = Rest(x \o b, n)
    <3>1. s \in Text /\ Len(s) = Len(x) - n
      BY <2>1, <2>7, RestLeaves DEF Text
    <3>2. s \o b = Rest(x \o b, n)
      BY <2>1, <2>7, RestOfConcat DEF Text
    <3> QED  BY <3>1, <3>2
  <2> HIDE DEF s
  <2>9. Whole(s, b)
    <3> SUFFICES ASSUME NEW j \in 1 .. Len(s), MarkerAt(s \o b, j)  PROVE j + 2 <= Len(s)
      BY DEF Whole
    <3>1. j \in Nat \ {0} /\ n + j \in 1 .. Len(x)
      BY <2>2, <2>7, <2>8
    <3>2. n \in 0 .. Len(x \o b)
      <4>1. Len(x \o b) = Len(x) + Len(b)
        BY <2>1, ConcatProperties DEF Text
      <4> QED  BY <2>2, <2>7, <4>1
    <3>3. MarkerAt(x \o b, n + j)
      BY <2>3, <2>8, <3>1, <3>2, AtRest
    <3>4. n + j + 2 <= Len(x)
      BY <2>1, <3>1, <3>3 DEF Whole
    <3> QED  BY <2>2, <2>7, <2>8, <3>4
  <2>10. s \in X
    BY <2>8, <2>9
  <2> QED  BY <2>5, <2>6, <2>10 DEF s, n
<1>2. X \in SUBSET Text /\ \A a \in Text : Whole(a, b) => a \in X
  OBVIOUS
<1> HIDE DEF X
<1>3. Replaces(Stripped, Stray, Nothing)
  BY Replacements
<1>4. InParts(X, b, Stripped)
  <2>1. Parted(X, b, Stray, Nothing)
    BY <1>1, <1>2 DEF Parted
  <2> QED  BY <1>3, <2>1, ReplacedInParts
<1> QED  BY <1>2, <1>4, Zenon DEF InParts

\* A text without markers stays as it is.
LEMMA StrippedOfPlain ==
  ASSUME NEW a \in Text, ~HasMarker(a)
  PROVE  Stripped[a] = a
<1>1. Replaces(Stripped, Stray, Nothing) /\ Len(a) \in Nat /\ DOMAIN a = 1 .. Len(a)
  BY Replacements, LenProperties DEF Text
<1>2. <<>> \in Text /\ a \o <<>> = a /\ Stripped[<<>>] = <<>>
  BY <1>1, ConcatEmptySeq, EmptySeq DEF Text, Replaces
<1>3. ASSUME NEW j \in 0 .. Len(a) - 1  PROVE Stray[Rest(a \o <<>>, j)] = 0
  <2>1. j \in 0 .. Len(a) /\ j + 1 \in DOMAIN a /\ 1 \in Nat \ {0}
    BY <1>1
  <2>2. Rest(a, j) \in Text
    BY <2>1, RestLeaves DEF Text
  <2>3. MarkerAt(Rest(a, j), 1) <=> MarkerAt(a, j + 1)
    BY <2>1, AtRest
  <2>4. ~MarkerAt(Rest(a, j), 1)
    BY <2>1, <2>3 DEF HasMarker
  <2> QED  BY <1>2, <2>2, <2>4, StrayIs
<1>4. Stripped[a \o <<>>] = a \o Stripped[<<>>]
  <2> DEFINE v == <<>>
  <2>1. v \in Text /\ Replaces(Stripped, Stray, Nothing)
    BY <1>1, <1>2
  <2>2. \A j \in 0 .. Len(a) - 1 : Stray[Rest(a \o v, j)] = 0
    BY <1>3
  <2> HIDE DEF v
  <2>3. Stripped[a \o v] = a \o Stripped[v]
    BY <2>1, <2>2, NothingReplaced
  <2> QED  BY <2>3 DEF v
<1> QED  BY <1>2, <1>4

\* A marker at the start goes, ...
LEMMA StrippedOfMarker ==
  ASSUME NEW x \in Text, MarkerAt(x, 1)
  PROVE  3 \in 1 .. Len(x) /\ Stripped[x] = Stripped[Rest(x, 3)]
<1>1. Replaces(Stripped, Stray, Nothing)
  BY Replacements
<1>2. Stray[x] = 3 /\ Stray[x] \in 0 .. Len(x) /\ Len(x) \in Nat
  BY StrayIs DEF Text
<1>3. 3 \in 1 .. Len(x) /\ 3 \in 0 .. Len(x) /\ 3 > 0
  BY <1>2
<1>4. x # <<>>
  <2>1. Len(x) # 0
    BY <1>2, <1>3
  <2> QED  BY <2>1
<1>5. Stripped[x] = Nothing[x] \o Stripped[Rest(x, 3)]
  BY <1>1, <1>2, <1>3, <1>4 DEF Replaces
<1>6. Stripped[Rest(x, 3)] \in Text
  <2>1. Rest(x, 3) \in Text
    BY <1>3, RestLeaves DEF Text
  <2> QED  BY <1>1, <2>1 DEF Replaces
<1>7. Nothing[x] = <<>>
  BY DEF Nothing, Text
<1> QED  BY <1>3, <1>5, <1>6, <1>7, ConcatEmptySeq DEF Text

\* ... and any other character stays.
LEMMA StrippedOfOther ==
  ASSUME NEW x \in Text, x # <<>>, ~MarkerAt(x, 1)
  PROVE  Stripped[x] = <<x[1]>> \o Stripped[Rest(x, 1)]
<1>1. Replaces(Stripped, Stray, Nothing)
  BY Replacements
<1>2. Stray[x] = 0
  BY StrayIs
<1> QED  BY <1>1, <1>2 DEF Replaces

\* Of what starts and ends with a marker, the group and the rest are stripped on their own.
LEMMA StrippedOfChange ==
  ASSUME NEW y \in Text, Apart(y), NEW n \in 6 .. Len(y), MarkerAt(y, 1), MarkerAt(y, n - 2)
  PROVE  Stripped[y] = Stripped[Group(y, n)] \o Stripped[Rest(y, n)]
<1> DEFINE s == Rest(y, 3)
           m == n - 6
           a == SubSeq(s, 1, m)
           b == Rest(s, m)
<1>1. Len(y) \in Nat /\ n \in 3 .. Len(y) /\ n \in 0 .. Len(y)
  BY DEF Text
<1>2. 3 \in 0 .. Len(y) /\ m \in Nat /\ 3 + m = n - 3 /\ n - 3 \in 0 .. Len(y)
      /\ m + 3 = n - 3 /\ n - 3 + 3 = n /\ m \in 0 .. Len(y) - 3
  BY <1>1
<1>3. Stripped[y] = Stripped[s]
  BY StrippedOfMarker
<1>4. s \in Text /\ Len(s) = Len(y) - 3 /\ \A i \in 1 .. Len(y) - 3 : s[i] = y[3 + i]
  BY <1>2, RestLeaves DEF Text
<1> HIDE DEF m
<1>5. b = Rest(y, n - 3)
  BY <1>2, RestOfRest DEF Text
<1>6. \A j \in Nat \ {0} : MarkerAt(s, j) <=> MarkerAt(y, 3 + j)
  BY <1>2, AtRest
<1> HIDE DEF s
<1>7. m \in 0 .. Len(s)
  BY <1>2, <1>4
<1>8. a \in Text /\ Len(a) = m /\ b \in Text /\ Len(b) = Len(s) - m /\ s = a \o b
  BY <1>4, <1>7, StartAndRest
<1>9. \A i \in 1 .. m : a[i] = s[i]
  BY <1>4, <1>7, StartAndRest
<1> HIDE DEF a, b
<1>10. a = Group(y, n)
  <2> DEFINE w == Group(y, n)
  <2>1. w \in Text /\ Len(w) = IF n >= 6 THEN n - 6 ELSE 0
    BY <1>1, GroupIs
  <2>2. \A i \in Nat : i >= 1 /\ i <= Len(w) => w[i] = y[i + 3]
    BY <1>1, GroupIs
  <2> HIDE DEF w
  <2>3. Len(w) = Len(a)
    BY <1>8, <2>1 DEF m
  <2>4. ASSUME NEW i \in 1 .. Len(a)  PROVE a[i] = w[i]
    <3>1. /\ i \in Nat /\ i >= 1 /\ i <= Len(w) /\ i \in 1 .. m
          /\ i \in 1 .. Len(y) - 3 /\ 3 + i = i + 3
      BY <1>2, <1>8, <2>3
    <3> QED  BY <1>4, <1>9, <2>2, <3>1
  <2>5. a = w
    BY <1>8, <2>1, <2>3, <2>4, SeqEqual DEF Text
  <2> QED  BY <2>5 DEF w
<1>11. Whole(a, b)
  <2> SUFFICES ASSUME NEW j \in 1 .. m, MarkerAt(s, j), ~ (j + 2 <= m)  PROVE FALSE
    BY <1>8 DEF Whole
  <2>1. j \in Nat \ {0} /\ j \in Nat
    BY <1>2
  <2> DEFINE k == 3 + j
  <2>2. MarkerAt(y, k) /\ k \in Nat \ {0}
    BY <1>6, <2>1
  <2>3. k + 1 = n - 2 \/ k + 2 = n - 2
    BY <1>2, <2>1 DEF m
  <2> HIDE DEF k
  <2>4. ~MarkerAt(y, k + 1) /\ ~MarkerAt(y, k + 2)
    BY <2>2, NoOverlap
  <2> QED  BY <2>3, <2>4
<1>12. Stripped[s] = Stripped[a] \o Stripped[b]
  BY <1>8, <1>11, StrippedInParts
<1>13. Stripped[b] = Stripped[Rest(y, n)]
  <2>1. 1 \in Nat \ {0} /\ n - 3 + 1 = n - 2 /\ 3 \in 0 .. Len(y) - (n - 3) /\ n - 3 + 3 = n
    BY <1>1
  <2>2. MarkerAt(b, 1)
    <3>1. MarkerAt(Rest(y, n - 3), 1) <=> MarkerAt(y, n - 3 + 1)
      BY <1>2, <2>1, AtRest
    <3> QED  BY <1>5, <2>1, <3>1
  <2>3. Stripped[b] = Stripped[Rest(b, 3)]
    BY <1>8, <2>2, StrippedOfMarker
  <2>4. Rest(Rest(y, n - 3), 3) = Rest(y, n - 3 + 3)
    BY <1>2, <2>1, RestOfRest DEF Text
  <2> QED  BY <1>5, <2>1, <2>3, <2>4
<1> QED  BY <1>3, <1>10, <1>12, <1>13

\* No marker is left in what is stripped.
LEMMA NoMarkerLeft ==
  ASSUME NEW x \in Text, Apart(x)
  PROVE  ~HasMarker(Stripped[x])
<1> DEFINE Bad == {y \in Text : Apart(y) /\ HasMarker(Stripped[y])}
<1>0. Replaces(Stripped, Stray, Nothing) /\ Cuts(Stray, Nothing)
  BY Replacements
<1>1. ASSUME NEW u \in Bad  PROVE \E r \in Bad : Len(r) < Len(u)
  <2>1. u \in Text /\ Apart(u) /\ HasMarker(Stripped[u])
    BY <1>1
  <2>2. \A y \in Text : Apart(y) /\ HasMarker(Stripped[y]) => y \in Bad
    OBVIOUS
  <2> HIDE DEF Bad
  <2>3. u # <<>>
    <3>1. DOMAIN <<>> = {} /\ Stripped[<<>>] = <<>>
      BY <1>0 DEF Replaces
    <3> QED  BY <2>1, <3>1 DEF HasMarker
  <2>4. Len(u) \in Nat \ {0}
    BY <2>1, <2>3, EmptySeq DEF Text
  <2>5. CASE MarkerAt(u, 1)
    <3> DEFINE s == Rest(u, 3)
    <3>1. 3 \in 1 .. Len(u) /\ Stripped[u] = Stripped[s]
      BY <2>1, <2>5, StrippedOfMarker
    <3>2. 3 \in 0 .. Len(u)
      BY <2>4, <3>1
    <3>3. s \in Text /\ Apart(s) /\ Len(s) = Len(u) - 3
      BY <2>1, <3>2, ApartRest, RestLeaves DEF Text
    <3> HIDE DEF s
    <3>4. s \in Bad
      BY <2>1, <2>2, <3>1, <3>3
    <3>5. Len(s) < Len(u)
      BY <2>4, <3>3
    <3> QED  BY <3>4, <3>5
  <2>6. CASE ~MarkerAt(u, 1)
    <3> DEFINE s == Rest(u, 1)
               t == Stripped[s]
    <3>1. Stripped[u] = <<u[1]>> \o t
      BY <2>1, <2>3, <2>6, StrippedOfOther
    <3>2. u[1] \in Characters /\ s \in Text /\ Len(s) = Len(u) - 1 /\ 1 \in 0 .. Len(u)
      BY <2>1, <2>3, AllButFirst
    <3>3. Apart(s)
      BY <2>1, <3>2, ApartRest
    <3> HIDE DEF s
    <3>4. t \in Text
      BY <1>0, <3>2 DEF Replaces
    <3>5. ~MarkerAt(Stripped[u], 1) /\ Stripped[u] \in Text
      <4>1. Stripped[u] \in Text
        BY <1>0, <2>1 DEF Replaces
      <4> QED  BY <1>0, <2>1, <2>6, <4>1, NoNewMarker
    <3>6. PICK i \in DOMAIN Stripped[u] : MarkerAt(Stripped[u], i)
      BY <2>1 DEF HasMarker
    <3>7. i \in Nat \ {0} /\ i # 1
      <4>1. DOMAIN Stripped[u] = 1 .. Len(Stripped[u]) /\ Len(Stripped[u]) \in Nat
        BY <3>5, LenProperties DEF Text
      <4>2. i \in Nat \ {0}
        BY <3>6, <4>1
      <4>3. i # 1
        BY <3>5, <3>6
      <4> QED  BY <4>2, <4>3
    <3> DEFINE k == i - 1
    <3>8. k \in Nat \ {0} /\ k + 1 = i
      BY <3>7
    <3> HIDE DEF k, t
    <3>9. MarkerAt(t, k)
      <4>1. MarkerAt(<<u[1]>> \o t, k + 1) <=> MarkerAt(t, k)
        BY <3>2, <3>4, <3>8, InFront
      <4> QED  BY <3>1, <3>6, <3>8, <4>1
    <3>10. k \in DOMAIN t
      <4>1. OpensAt(t, k) \/ ClosesAt(t, k)
        BY <3>4, <3>8, <3>9, MarkerIs
      <4>2. k + 2 <= Len(t)
        BY <4>1 DEF OpensAt, ClosesAt
      <4>3. DOMAIN t = 1 .. Len(t) /\ Len(t) \in Nat
        BY <3>4, LenProperties DEF Text
      <4> QED  BY <3>8, <4>2, <4>3
    <3>11. s \in Bad
      BY <2>2, <3>2, <3>3, <3>9, <3>10 DEF HasMarker, t
    <3>12. Len(s) < Len(u)
      BY <2>4, <3>2
    <3> QED  BY <3>11, <3>12
  <2> QED  BY <2>5, <2>6
<1>2. Bad \in SUBSET Seq(Characters)
  BY DEF Text
<1> HIDE DEF Bad
<1>3. Bad = {}
  BY <1>1, <1>2, NoShortest
<1> QED  BY <1>3 DEF Bad

\* A marker in front of a text goes.
LEMMA StrippedAfterMarker ==
  ASSUME NEW x \in Text, MarkerAt(x, 1), NEW z \in Text
  PROVE  Stripped[SubSeq(x, 1, 3) \o z] = Stripped[z]
<1> DEFINE w == SubSeq(x, 1, 3)
           y == w \o z
<1>0. 1 \in Nat \ {0} /\ 1 + 1 = 2 /\ 1 + 2 = 3
  OBVIOUS
<1>1. 3 \in 1 .. Len(x) /\ 3 \in 0 .. Len(x)
  <2>1. 3 \in 1 .. Len(x) /\ Len(x) \in Nat
    BY StrippedOfMarker DEF Text
  <2> QED  BY <2>1
<1>2. w \in Text /\ Len(w) = 3
  BY <1>1, StartAndRest
<1>3. \A i \in 1 .. 3 : w[i] = x[i]
  BY <1>1, StartAndRest
<1> HIDE DEF w
<1>4. MarkerAt(w, 1)
  <2>1. w[1] = x[1] /\ w[2] = x[2] /\ w[3] = x[3]
    BY <1>3
  <2>2. 1 + 2 <= Len(w)
    BY <1>2
  <2>3. MarkerAt(x, 1) <=> OpensAt(x, 1) \/ ClosesAt(x, 1)
    BY <1>0, MarkerIs
  <2>4. MarkerAt(w, 1) <=> OpensAt(w, 1) \/ ClosesAt(w, 1)
    BY <1>0, <1>2, MarkerIs
  <2> QED  BY <1>0, <2>1, <2>2, <2>3, <2>4 DEF OpensAt, ClosesAt
<1>5. y \in Text
  BY <1>2, ConcatProperties DEF Text
<1>6. MarkerAt(y, 1)
  <2>1. 1 + 2 <= Len(w)
    BY <1>2
  <2> QED  BY <1>0, <1>2, <1>4, <2>1, AtConcat
<1>7. Stripped[y] = Stripped[Rest(y, 3)]
  BY <1>5, <1>6, StrippedOfMarker
<1>8. Rest(y, 3) = z
  BY <1>2, RestOfStart
<1> QED  BY <1>7, <1>8 DEF y, w

\* The insertion that a text starts with, unwrapped, and what stays of the rest: no
\* marker is cut between them.
LEMMA UnwrappedWhole ==
  ASSUME NEW y \in Text, Apart(y), NEW n \in 6 .. Len(y), MarkerAt(y, n - 2)
  PROVE  Whole(Group(y, n), Unwrapped[Rest(y, n)])
<1> DEFINE w == Group(y, n)
           q == Rest(y, n)
           b == Unwrapped[q]
<1>0. Replaces(Unwrapped, Insertion, Inserted) /\ Cuts(Insertion, Inserted)
  BY Replacements
<1>1. Len(y) \in Nat /\ n \in 3 .. Len(y) /\ n \in 0 .. Len(y)
  BY DEF Text
<1>2. w \in Text /\ Len(w) = IF n >= 6 THEN n - 6 ELSE 0
  BY <1>1, GroupIs
<1>3. \A i \in Nat : i >= 1 /\ i <= Len(w) => w[i] = y[i + 3]
  BY <1>1, GroupIs
<1>4. q \in Text /\ Apart(q)
  BY <1>1, ApartRest
<1>5. ~Brace(q, 1) /\ ~Brace(q, 2)
  <2> DEFINE k == n - 2
  <2>1. k \in Nat \ {0} /\ MarkerAt(y, k) /\ k + 3 = n + 1 /\ k + 4 = n + 2
    BY <1>1
  <2> HIDE DEF k
  <2>2. ~Brace(y, k + 3) /\ ~Brace(y, k + 4)
    BY <2>1, NoBraceAfter
  <2>3. 1 \in Nat \ {0} /\ 2 \in Nat \ {0}
    OBVIOUS
  <2>4. Brace(q, 1) <=> Brace(y, n + 1)
    BY <1>1, <2>3, BraceOfRest
  <2>5. Brace(q, 2) <=> Brace(y, n + 2)
    BY <1>1, <2>3, BraceOfRest
  <2> QED  BY <2>1, <2>2, <2>4, <2>5
<1> HIDE DEF w, q
<1>6. b \in Text
  BY <1>0, <1>4 DEF Replaces
<1>7. ~Brace(b, 1) /\ ~Brace(b, 2)
  BY <1>0, <1>4, <1>5, EarlyBrace
<1> HIDE DEF b
<1> DEFINE t == w \o b
<1>8. t \in Text /\ Len(t) = Len(w) + Len(b)
  BY <1>2, <1>6, ConcatProperties DEF Text
<1>9. \A i \in 1 .. Len(w) + Len(b) : t[i] = IF i <= Len(w) THEN w[i] ELSE b[i - Len(w)]
  BY <1>2, <1>6, ConcatProperties DEF Text
<1> HIDE DEF t
<1>10. Len(w) \in Nat /\ Len(b) \in Nat /\ Len(w) = n - 6
  <2>1. Len(w) \in Nat /\ Len(b) \in Nat
    BY <1>2, <1>6 DEF Text
  <2> QED  BY <1>1, <1>2, <2>1
<1>11. ASSUME NEW j \in 1 .. Len(w), MarkerAt(t, j), ~ (j + 2 <= Len(w))  PROVE FALSE
  <2>1. j \in Nat \ {0} /\ j \in Nat /\ j >= 1 /\ j <= Len(w) /\ j \in 1 .. Len(w) + Len(b)
    BY <1>10
  <2>2. OpensAt(t, j) \/ ClosesAt(t, j)
    BY <1>8, <1>11, <2>1, MarkerIs
  <2>3. ~OpensAt(t, j)
    <3>1. t[j] = y[j + 3]
      BY <1>3, <1>9, <2>1
    <3> DEFINE k == j + 3
    <3>2. k \in Nat \ {0} /\ (k + 1 = n - 2 \/ k + 2 = n - 2)
      BY <1>10, <1>11, <2>1
    <3> HIDE DEF k
    <3>3. y[k] # "{"
      <4>1. y[k] = "{" => ~MarkerAt(y, k + 1) /\ ~MarkerAt(y, k + 2)
        BY <3>2, NoMarkerAfterBrace
      <4> QED  BY <3>2, <4>1
    <3> QED  BY <3>1, <3>3 DEF OpensAt, k
  <2>4. ~ClosesAt(t, j)
    <3> SUFFICES ASSUME j + 2 <= Len(t)  PROVE t[j + 2] # "}"
      BY DEF ClosesAt
    <3>1. /\ j + 2 \in 1 .. Len(w) + Len(b) /\ ~ (j + 2 <= Len(w))
          /\ j + 2 - Len(w) \in {1, 2} /\ Len(b) >= j + 2 - Len(w)
      BY <1>8, <1>10, <1>11, <2>1
    <3>2. t[j + 2] = b[j + 2 - Len(w)]
      BY <1>9, <3>1
    <3> DEFINE k == j + 2 - Len(w)
    <3>3. k \in {1, 2} /\ Len(b) >= k /\ t[j + 2] = b[k]
      BY <3>1, <3>2
    <3> HIDE DEF k
    <3>4. ~Brace(b, k)
      BY <1>7, <3>3
    <3> QED  BY <3>3, <3>4 DEF Brace
  <2> QED  BY <2>2, <2>3, <2>4
<1> QED  BY <1>11 DEF Whole, t, w, b, q

\* Unwrapping the insertions makes no difference to what is stripped then.
LEMMA StrippedOfUnwrapped ==
  ASSUME NEW x \in Text, Apart(x)
  PROVE  Stripped[Unwrapped[x]] = Stripped[x]
<1> DEFINE Bad == {y \in Text : Apart(y) /\ Stripped[Unwrapped[y]] # Stripped[y]}
<1>0. /\ Replaces(Unwrapped, Insertion, Inserted) /\ Cuts(Insertion, Inserted)
      /\ Replaces(Stripped, Stray, Nothing) /\ Cuts(Stray, Nothing)
  BY Replacements
<1>1. ASSUME NEW u \in Bad  PROVE \E r \in Bad : Len(r) < Len(u)
  <2>1. u \in Text /\ Apart(u) /\ Stripped[Unwrapped[u]] # Stripped[u]
    BY <1>1
  <2>2. \A y \in Text : Apart(y) /\ y \notin Bad => Stripped[Unwrapped[y]] = Stripped[y]
    OBVIOUS
  <2> HIDE DEF Bad
  <2>3. u # <<>>
    BY <1>0, <2>1 DEF Replaces
  <2>4. Len(u) \in Nat \ {0} /\ Insertion[u] \in 0 .. Len(u)
    BY <1>0, <2>1, <2>3, EmptySeq DEF Replaces, Text
  <2>5. CASE Insertion[u] > 0
    <3> DEFINE n == Insertion[u]
               w == Group(u, n)
               q == Rest(u, n)
    <3>1. IsMatch(u, "+", n)
      BY <2>1, ChangesMatch
    <3>2. Unwrapped[u] = w \o Unwrapped[q]
      <4>1. Unwrapped[u] = Inserted[u] \o Unwrapped[q]
        BY <1>0, <2>1, <2>3, <2>5 DEF Replaces
      <4>2. Inserted[u] = w
        BY <2>1 DEF Inserted, Text
      <4> QED  BY <4>1, <4>2
    <3>3. n > 0
      BY <2>5
    <3> HIDE DEF n
    <3>4. n \in 6 .. Len(u) /\ MarkerAt(u, 1) /\ MarkerAt(u, n - 2)
      BY <2>1, <3>1, <3>3, MatchCuts
    <3>5. n \in 3 .. Len(u) /\ n \in 0 .. Len(u)
      BY <2>4, <3>4
    <3>6. w \in Text /\ q \in Text /\ Apart(q) /\ Len(q) = Len(u) - n
      <4>1. w \in Text
        BY <2>1, <3>5, GroupIs
      <4>2. q \in Text /\ Apart(q)
        BY <2>1, <3>5, ApartRest
      <4>3. Len(q) = Len(u) - n
        BY <2>1, <3>5, RestLeaves DEF Text
      <4> QED  BY <4>1, <4>2, <4>3
    <3>7. Unwrapped[q] \in Text
      BY <1>0, <3>6 DEF Replaces
    <3>8. Whole(w, Unwrapped[q])
      BY <2>1, <3>4, UnwrappedWhole
    <3>9. Stripped[u] = Stripped[w] \o Stripped[q]
      BY <2>1, <3>4, StrippedOfChange
    <3> HIDE DEF w, q
    <3>10. Stripped[w \o Unwrapped[q]] = Stripped[w] \o Stripped[Unwrapped[q]]
      BY <3>6, <3>7, <3>8, StrippedInParts
    <3>11. q \in Bad
      <4>1. Stripped[Unwrapped[q]] = Stripped[q] => Stripped[Unwrapped[u]] = Stripped[u]
        BY <3>2, <3>9, <3>10, Zenon
      <4> QED  BY <2>1, <2>2, <3>6, <4>1
    <3>12. Len(q) < Len(u)
      BY <2>4, <3>4, <3>6
    <3> QED  BY <3>11, <3>12
  <2>6. CASE ~ (Insertion[u] > 0) /\ MarkerAt(u, 1)
    <3> DEFINE w == SubSeq(u, 1, 3)
               q == Rest(u, 3)
    <3>1. Insertion[u] = 0
      BY <2>4, <2>6
    <3>2. 3 \in 0 .. Len(u) /\ Unwrapped[u] = w \o Unwrapped[q]
      BY <1>0, <2>1, <2>6, <3>1, MarkerStays
    <3>3. Stripped[u] = Stripped[q]
      BY <2>1, <2>6, StrippedOfMarker
    <3>4. q \in Text /\ Apart(q) /\ Len(q) = Len(u) - 3
      BY <2>1, <3>2, ApartRest, RestLeaves DEF Text
    <3> HIDE DEF q
    <3>5. Unwrapped[q] \in Text
      BY <1>0, <3>4 DEF Replaces
    <3>6. Stripped[w \o Unwrapped[q]] = Stripped[Unwrapped[q]]
      BY <2>1, <2>6, <3>5, StrippedAfterMarker
    <3> HIDE DEF w
    <3>7. q \in Bad
      <4>1. Stripped[Unwrapped[q]] = Stripped[q] => Stripped[Unwrapped[u]] = Stripped[u]
        BY <3>2, <3>3, <3>6, Zenon
      <4> QED  BY <2>1, <2>2, <3>4, <4>1
    <3>8. Len(q) < Len(u)
      BY <2>4, <3>4
    <3> QED  BY <3>7, <3>8
  <2>7. CASE ~ (Insertion[u] > 0) /\ ~MarkerAt(u, 1)
    <3> DEFINE q == Rest(u, 1)
    <3>1. Insertion[u] = 0
      BY <2>4, <2>7
    <3>2. Unwrapped[u] = <<u[1]>> \o Unwrapped[q]
      BY <1>0, <2>1, <2>3, <3>1, FirstStays
    <3>3. Unwrapped[u][1] = u[1]
      BY <1>0, <2>1, <2>3, <3>1, FirstStays
    <3>4. Stripped[u] = <<u[1]>> \o Stripped[q]
      BY <2>1, <2>3, <2>7, StrippedOfOther
    <3>5. u[1] \in Characters /\ q \in Text /\ Len(q) = Len(u) - 1 /\ 1 \in 0 .. Len(u)
      BY <2>1, <2>3, AllButFirst
    <3>6. Apart(q)
      BY <2>1, <3>5, ApartRest
    <3> HIDE DEF q
    <3> DEFINE y == Unwrapped[u]
               z == Unwrapped[q]
    <3>7. z \in Text /\ y \in Text
      BY <1>0, <2>1, <3>5 DEF Replaces
    <3>8. ~MarkerAt(y, 1)
      BY <1>0, <2>1, <2>7, NoNewMarker
    <3>9. Stripped[y] = <<u[1]>> \o Stripped[z]
      <4>1. y = <<u[1]>> \o z /\ y[1] = u[1]
        BY <3>2, <3>3
      <4> HIDE DEF y, z
      <4> DEFINE h == u[1]
      <4>2. h \in Characters /\ y = <<h>> \o z
        BY <3>5, <4>1
      <4>3. y # <<>> /\ Rest(y, 1) = z
        <5> HIDE DEF h
        <5> DEFINE w == <<h>>
        <5>1. w \in Text /\ Len(w) = 1
          BY <4>2 DEF Text
        <5>2. y # <<>>
          BY <3>7, <4>2, InFront
        <5>3. y = w \o z
          BY <4>2
        <5> HIDE DEF w
        <5>4. Rest(w \o z, Len(w)) = z
          BY <3>7, <5>1, RestOfStart
        <5> QED  BY <5>1, <5>2, <5>3, <5>4
      <4>4. Stripped[y] = <<y[1]>> \o Stripped[Rest(y, 1)]
        BY <3>7, <3>8, <4>3, StrippedOfOther
      <4> QED  BY <4>1, <4>3, <4>4, Zenon
    <3>10. q \in Bad
      <4>1. Stripped[z] = Stripped[q] => Stripped[y] = Stripped[u]
        BY <3>4, <3>9, Zenon
      <4> QED  BY <2>1, <2>2, <3>5, <3>6, <4>1
    <3>11. Len(q) < Len(u)
      BY <2>4, <3>5
    <3> QED  BY <3>10, <3>11
  <2> QED  BY <2>5, <2>6, <2>7
<1>2. Bad \in SUBSET Seq(Characters)
  BY DEF Text
<1> HIDE DEF Bad
<1>3. Bad = {}
  BY <1>1, <1>2, NoShortest
<1> QED  BY <1>3 DEF Bad

\* Where two texts together have no marker, neither of them has one.
LEMMA NoMarkerInParts ==
  ASSUME NEW a \in Text, NEW b \in Text, ~HasMarker(a \o b)
  PROVE  ~HasMarker(a) /\ ~HasMarker(b)
<1> DEFINE y == a \o b
<1>1. Len(a) \in Nat /\ Len(b) \in Nat /\ DOMAIN a = 1 .. Len(a) /\ DOMAIN b = 1 .. Len(b)
  BY LenProperties DEF Text
<1>2. y \in Text /\ Len(y) = Len(a) + Len(b)
  BY ConcatProperties DEF Text
<1>3. DOMAIN y = 1 .. Len(a) + Len(b)
  BY <1>2, LenProperties DEF Text
<1>4. Rest(y, Len(a)) = b
  BY RestOfStart
<1>5. ~HasMarker(y)
  OBVIOUS
<1>6. ASSUME NEW i \in DOMAIN a, MarkerAt(a, i)  PROVE FALSE
  <2>1. i \in Nat \ {0} /\ i \in 1 .. Len(a) + Len(b)
    BY <1>1
  <2>2. OpensAt(a, i) \/ ClosesAt(a, i)
    BY <1>6, <2>1, MarkerIs
  <2>3. i + 2 <= Len(a)
    BY <2>2 DEF OpensAt, ClosesAt
  <2>4. MarkerAt(y, i)
    BY <1>6, <2>1, <2>3, AtConcat
  <2> HIDE DEF y
  <2> QED  BY <1>3, <1>5, <2>1, <2>4 DEF HasMarker
<1> HIDE DEF y
<1>7. ASSUME NEW i \in DOMAIN b, MarkerAt(b, i)  PROVE FALSE
  <2>1. i \in Nat \ {0} /\ Len(a) + i \in 1 .. Len(a) + Len(b) /\ Len(a) \in 0 .. Len(y)
    BY <1>1, <1>2
  <2>2. MarkerAt(Rest(y, Len(a)), i) <=> MarkerAt(y, Len(a) + i)
    BY <1>2, <2>1, AtRest
  <2> QED  BY <1>3, <1>4, <1>5, <1>7, <2>1, <2>2 DEF HasMarker
<1> QED  BY <1>6, <1>7 DEF HasMarker

\* An insertion without a marker in it has no deletion in it.
LEMMA InsertionStays ==
  ASSUME NEW x \in Text, Apart(x), NEW n, n = Insertion[x], n > 0, ~HasMarker(Group(x, n))
  PROVE  WithoutDeletions[x] = SubSeq(x, 1, n) \o WithoutDeletions[Rest(x, n)]
<1> DEFINE w == SubSeq(x, 1, n)
           q == Rest(x, n)
           a == Group(x, n)
<1>0. Replaces(WithoutDeletions, Deletion, Nothing) /\ Cuts(Deletion, Nothing)
  BY Replacements
<1>1. IsMatch(x, "+", n)
  BY ChangesMatch
<1>2. n \in 6 .. Len(x) /\ MarkerAt(x, 1) /\ MarkerAt(x, n - 2)
  BY <1>1, MatchCuts
<1>3. n # 0 /\ Len(x) \in Nat
  BY DEF Text
<1>4. At(x, n - 2, <<"+", "+", "}">>)
  BY <1>1, <1>3 DEF IsMatch, Close
<1>5. n \in 0 .. Len(x) /\ n \in 3 .. Len(x) /\ n \in Nat
  BY <1>2, <1>3
<1>6. w \in Text /\ Len(w) = n /\ q \in Text /\ x = w \o q
  BY <1>5, StartAndRest
<1>7. a \in Text /\ Len(a) = IF n >= 6 THEN n - 6 ELSE 0
  BY <1>5, GroupIs
<1>8. \A i \in Nat : i >= 1 /\ i <= Len(a) => a[i] = x[i + 3]
  BY <1>5, GroupIs
<1>9. ~HasMarker(a)
  OBVIOUS
<1> HIDE DEF w, q, a
<1>10. Deletion[x] = 0
  BY ChangesMatch
<1>11. ASSUME NEW k \in 2 .. n, k # n - 2  PROVE ~MarkerAt(x, k)
  <2>1. k \in Nat \ {0} /\ 1 \in Nat \ {0} /\ 1 + 1 = 2 /\ 1 + 2 = 3
    BY <1>2, <1>3
  <2>2. \A j \in Nat \ {0} : MarkerAt(x, j) => ~MarkerAt(x, j + 1) /\ ~MarkerAt(x, j + 2)
    BY NoOverlap
  <2>3. CASE k \in {2, 3}
    BY <1>2, <2>1, <2>2, <2>3
  <2>4. CASE k \in {n - 1, n}
    <3> DEFINE j == n - 2
    <3>1. j \in Nat \ {0} /\ MarkerAt(x, j) /\ (k = j + 1 \/ k = j + 2)
      BY <1>2, <1>3, <2>4
    <3> HIDE DEF j
    <3> QED  BY <2>2, <3>1
  <2>5. CASE k \in {n - 3, n - 4} /\ k # 2 /\ k # 3
    <3>1. k + 1 = n - 2 \/ k + 2 = n - 2
      BY <1>5, <2>5
    <3> QED  BY <1>2, <2>1, <2>2, <3>1
  <2>6. CASE k \in 4 .. n - 5
    <3> DEFINE i == k - 3
    <3>1. /\ i \in Nat \ {0} /\ i \in Nat /\ k = i + 3 /\ i >= 1 /\ i <= Len(a) /\ i + 2 <= Len(a)
          /\ i + 1 \in Nat /\ i + 1 >= 1 /\ i + 1 <= Len(a) /\ i + 1 + 3 = k + 1
          /\ i + 2 \in Nat /\ i + 2 >= 1 /\ i + 2 + 3 = k + 2 /\ i \in 1 .. Len(a)
      <4>1. k \in 4 .. n - 5 /\ Len(a) = n - 6 /\ n \in Nat
        BY <1>2, <1>5, <1>7, <2>6
      <4> QED  BY <4>1
    <3> HIDE DEF i
    <3>2. a[i] = x[k] /\ a[i + 1] = x[k + 1] /\ a[i + 2] = x[k + 2]
      BY <1>8, <3>1
    <3>3. ~MarkerAt(a, i)
      <4>1. DOMAIN a = 1 .. Len(a)
        BY <1>7, LenProperties DEF Text
      <4> QED  BY <1>9, <3>1, <4>1 DEF HasMarker
    <3>4. MarkerAt(a, i) <=> OpensAt(a, i) \/ ClosesAt(a, i)
      BY <1>7, <3>1, MarkerIs
    <3>5. MarkerAt(x, k) <=> OpensAt(x, k) \/ ClosesAt(x, k)
      BY <2>1, MarkerIs
    <3> QED  BY <3>1, <3>2, <3>3, <3>4, <3>5 DEF OpensAt, ClosesAt
  <2>7. k \in {2, 3} \/ k \in {n - 1, n} \/ (k \in {n - 3, n - 4} /\ k # 2 /\ k # 3) \/ k \in 4 .. n - 5
    <3>1. k \in 2 .. n /\ k # n - 2 /\ n \in 6 .. Len(x)
      BY <1>2, <1>11
    <3> QED  BY <1>3, <3>1
  <2> QED  BY <2>3, <2>4, <2>5, <2>6, <2>7
<1>12. ASSUME NEW j \in 0 .. Len(w) - 1  PROVE Deletion[Rest(x, j)] = 0
  <2>1. j \in 0 .. Len(x) /\ (j = 0 \/ (j + 1 \in 2 .. n /\ j + 1 \in Nat \ {0})) /\ Len(x) - j # 0
    BY <1>3, <1>5, <1>6
  <2>2. CASE j = 0
    <3>1. Rest(x, 0) = x
      <4>1. SubSeq(x, 1, Len(x)) = x
        BY SubSeqFull DEF Text
      <4>2. 0 + 1 = 1
        OBVIOUS
      <4> QED  BY <4>1, <4>2 DEF Rest
    <3> QED  BY <1>10, <2>2, <3>1
  <2>3. CASE j + 1 \in 2 .. n /\ j + 1 # n - 2
    <3>1. 1 \in Nat \ {0}
      OBVIOUS
    <3>2. ~MarkerAt(x, j + 1)
      BY <1>11, <2>3
    <3> DEFINE s == Rest(x, j)
    <3>3. MarkerAt(s, 1) <=> MarkerAt(x, j + 1)
      BY <2>1, <3>1, AtRest
    <3>4. s \in Text /\ Len(s) = Len(x) - j
      BY <2>1, RestLeaves DEF Text
    <3> HIDE DEF s
    <3>5. s # <<>>
      <4>1. Len(s) # 0
        BY <2>1, <3>4
      <4> QED  BY <4>1
    <3>6. Deletion[s] = 0
      BY <1>0, <3>2, <3>3, <3>4, <3>5, NoMatch
    <3> QED  BY <3>6 DEF s
  <2>4. CASE j + 1 = n - 2
    <3>1. 1 \in Nat \ {0}
      OBVIOUS
    <3> DEFINE s == Rest(x, j)
    <3>2. s \in Text
      BY <2>1, RestLeaves DEF Text
    <3>3. At(s, 1, <<"+", "+", "}">>)
      <4>1. At(s, 1, <<"+", "+", "}">>) <=> At(x, j + 1, <<"+", "+", "}">>)
        BY <2>1, <3>1, AtRest
      <4> QED  BY <1>4, <2>4, <4>1
    <3> HIDE DEF s
    <3>4. s[1] = "+"
      BY <3>1, <3>2, <3>3, MarkerShape
    <3>5. IsMatch(s, "-", Deletion[s])
      BY <3>2, ChangesMatch
    <3>6. Deletion[s] \in Nat
      BY <3>2, <3>5, MatchCuts
    <3>7. Deletion[s] > 0 => s[1] = "{"
      BY <3>2, <3>5, MatchCuts
    <3>8. ~ (Deletion[s] > 0)
      BY <3>4, <3>7
    <3>9. Deletion[s] = 0
      BY <3>6, <3>8
    <3> QED  BY <3>9 DEF s
  <2> QED  BY <2>1, <2>2, <2>3, <2>4
<1>13. \A j \in 0 .. Len(w) - 1 : Deletion[Rest(w \o q, j)] = 0
  BY <1>6, <1>12
<1>14. WithoutDeletions[w \o q] = w \o WithoutDeletions[q]
  BY <1>0, <1>6, <1>13, NothingReplaced
<1> QED  BY <1>6, <1>14 DEF w, q

\* What the page shows of a redline, unless there is a marker in it, is the text without
\* the deletions and without markers.
LEMMA ShownIsStripped ==
  ASSUME NEW x \in Text, Apart(x), ~HasMarker(Shown[x])
  PROVE  Shown[x] = Stripped[WithoutDeletions[x]]
<1> DEFINE Good(y) == ~HasMarker(Shown[y]) => Shown[y] = Stripped[WithoutDeletions[y]]
           Bad == {y \in Text : Apart(y) /\ ~Good(y)}
<1>0. /\ Replaces(WithoutDeletions, Deletion, Nothing) /\ Cuts(Deletion, Nothing)
      /\ Replaces(Stripped, Stray, Nothing) /\ Cuts(Stray, Nothing)
      /\ Replaces(Shown, Change, Displayed) /\ Cuts(Change, Displayed)
  BY Replacements
<1>1. ASSUME NEW u \in Bad  PROVE \E r \in Bad : Len(r) < Len(u)
  <2>1. u \in Text /\ Apart(u) /\ ~HasMarker(Shown[u])
        /\ Shown[u] # Stripped[WithoutDeletions[u]]
    BY <1>1
  <2>2. \A y \in Text : Apart(y) /\ y \notin Bad /\ ~HasMarker(Shown[y])
                          => Shown[y] = Stripped[WithoutDeletions[y]]
    OBVIOUS
  <2> HIDE DEF Bad, Good
  <2>3. u # <<>>
    BY <1>0, <2>1 DEF Replaces
  <2>4. Len(u) \in Nat \ {0}
    BY <2>1, <2>3, EmptySeq DEF Text
  <2>5. /\ Change[u] = IF Deletion[u] > 0 THEN Deletion[u]
                       ELSE IF Insertion[u] > 0 THEN Insertion[u] ELSE Stray[u]
        /\ Displayed[u] = IF Insertion[u] > 0 THEN Group(u, Insertion[u]) ELSE <<>>
        /\ Nothing[u] = <<>>
    BY <2>1 DEF Change, Displayed, Nothing, Text
  <2>6. /\ Deletion[u] \in 0 .. Len(u) /\ Change[u] \in 0 .. Len(u)
    BY <1>0, <2>1, <2>3 DEF Replaces
  <2>7. Insertion[u] \in Nat /\ (Deletion[u] = 0 \/ Insertion[u] = 0)
    <3> DEFINE m == Insertion[u]
    <3>1. IsMatch(u, "+", m) /\ (Deletion[u] = 0 \/ Insertion[u] = 0)
      BY <2>1, ChangesMatch
    <3> HIDE DEF m
    <3>2. m \in Nat
      BY <2>1, <3>1, MatchCuts
    <3> QED  BY <3>1, <3>2 DEF m
  <2>8. CASE Deletion[u] > 0
    <3> DEFINE n == Deletion[u]
               q == Rest(u, n)
    <3>1. ~ (Insertion[u] > 0)
      BY <2>6, <2>7, <2>8
    <3>2. Change[u] = n /\ Displayed[u] = <<>> /\ Change[u] > 0
      BY <2>5, <2>8, <3>1
    <3>3. Shown[u] = Displayed[u] \o Shown[q] /\ WithoutDeletions[u] = Nothing[u] \o WithoutDeletions[q]
      <4>1. Shown[u] = Displayed[u] \o Shown[Rest(u, Change[u])]
        BY <1>0, <2>1, <2>3, <3>2 DEF Replaces
      <4>2. WithoutDeletions[u] = Nothing[u] \o WithoutDeletions[q]
        BY <1>0, <2>1, <2>3, <2>8 DEF Replaces
      <4> QED  BY <3>2, <4>1, <4>2
    <3>4. n \in 1 .. Len(u) /\ n \in 0 .. Len(u)
      BY <2>4, <2>6, <2>8
    <3> HIDE DEF n
    <3>5. q \in Text /\ Apart(q) /\ Len(q) = Len(u) - n
      BY <2>1, <3>4, ApartRest, RestLeaves DEF Text
    <3> HIDE DEF q
    <3>6. Shown[q] \in Text /\ WithoutDeletions[q] \in Text
      BY <1>0, <3>5 DEF Replaces
    <3>7. Shown[u] = Shown[q]
      <4>1. <<>> \o Shown[q] = Shown[q]
        BY <3>6, ConcatEmptySeq DEF Text
      <4> QED  BY <3>2, <3>3, <4>1
    <3>8. WithoutDeletions[u] = WithoutDeletions[q]
      <4>1. <<>> \o WithoutDeletions[q] = WithoutDeletions[q]
        BY <3>6, ConcatEmptySeq DEF Text
      <4> QED  BY <2>5, <3>3, <4>1
    <3>9. q \in Bad
      BY <2>1, <2>2, <3>5, <3>7, <3>8
    <3>10. Len(q) < Len(u)
      BY <2>4, <3>4, <3>5
    <3> QED  BY <3>9, <3>10
  <2>9. CASE Insertion[u] > 0
    <3> DEFINE n == Insertion[u]
               w == Group(u, n)
               q == Rest(u, n)
    <3>1. ~ (Deletion[u] > 0)
      BY <2>6, <2>7, <2>9
    <3>2. Change[u] = n /\ Displayed[u] = w /\ Change[u] > 0
      BY <2>5, <2>9, <3>1
    <3>3. Shown[u] = w \o Shown[q]
      <4>1. Shown[u] = Displayed[u] \o Shown[Rest(u, Change[u])]
        BY <1>0, <2>1, <2>3, <3>2 DEF Replaces
      <4> QED  BY <3>2, <4>1
    <3>4. IsMatch(u, "+", n) /\ n > 0 /\ n = Insertion[u]
      BY <2>1, <2>9, ChangesMatch
    <3> HIDE DEF n
    <3>5. n \in 6 .. Len(u) /\ MarkerAt(u, 1) /\ MarkerAt(u, n - 2)
      BY <2>1, <3>4, MatchCuts
    <3>6. n \in 3 .. Len(u) /\ n \in 0 .. Len(u) /\ n - 2 \in Nat \ {0}
          /\ 1 + 2 <= n /\ n - 2 + 2 <= n
      BY <2>4, <3>5
    <3>7. w \in Text /\ q \in Text /\ Apart(q) /\ Len(q) = Len(u) - n
      <4>1. w \in Text
        BY <2>1, <3>6, GroupIs
      <4>2. q \in Text /\ Apart(q)
        BY <2>1, <3>6, ApartRest
      <4>3. Len(q) = Len(u) - n
        BY <2>1, <3>6, RestLeaves DEF Text
      <4> QED  BY <4>1, <4>2, <4>3
    <3> HIDE DEF q
    <3> DEFINE z == WithoutDeletions[q]
               y == WithoutDeletions[u]
               a == SubSeq(u, 1, n)
    <3>8. Shown[q] \in Text /\ z \in Text /\ y \in Text
      BY <1>0, <2>1, <3>7 DEF Replaces
    <3>9. ~HasMarker(w) /\ ~HasMarker(Shown[q])
      <4> HIDE DEF w
      <4>1. ~HasMarker(w \o Shown[q])
        BY <2>1, <3>3
      <4> QED  BY <3>7, <3>8, <4>1, NoMarkerInParts
    <3>10. y = a \o z
      BY <2>1, <3>4, <3>9, InsertionStays DEF q
    <3>11. Apart(y)
      <4>1. \A r \in Text : Nothing[r] = <<>>
        BY DEF Nothing, Text
      <4> QED  BY <1>0, <2>1, <4>1, ApartStays
    <3>12. a \in Text /\ Len(a) = n /\ \A i \in 1 .. n : a[i] = u[i]
      BY <2>1, <3>6, StartAndRest
    <3>13. u = a \o Rest(u, n) /\ Rest(u, n) \in Text
      BY <2>1, <3>6, StartAndRest
    <3> HIDE DEF y, z, a
    <3>14. Len(y) = n + Len(z) /\ Len(z) \in Nat
      <4>1. Len(a \o z) = Len(a) + Len(z)
        BY <3>8, <3>12, ConcatProperties DEF Text
      <4>2. Len(z) \in Nat
        BY <3>8 DEF Text
      <4> QED  BY <3>10, <3>12, <4>1, <4>2
    <3>15. n \in 6 .. Len(y) /\ n \in 3 .. Len(y)
      BY <2>4, <3>5, <3>14
    <3>16. MarkerAt(y, 1) /\ MarkerAt(y, n - 2)
      <4> DEFINE q2 == Rest(u, n)
      <4>1. q2 \in Text /\ u = a \o q2
        BY <3>13
      <4> HIDE DEF q2
      <4>2. ASSUME NEW j \in Nat \ {0}, j + 2 <= n, MarkerAt(u, j)  PROVE MarkerAt(y, j)
        <5>1. j + 2 <= Len(a)
          BY <3>12, <4>2
        <5>2. MarkerAt(a \o q2, j) <=> MarkerAt(a, j)
          BY <3>12, <4>1, <5>1, AtConcat
        <5>3. MarkerAt(a \o z, j) <=> MarkerAt(a, j)
          BY <3>8, <3>12, <5>1, AtConcat
        <5> QED  BY <3>10, <4>1, <4>2, <5>2, <5>3, Zenon
      <4>3. 1 \in Nat \ {0}
        OBVIOUS
      <4>4. MarkerAt(y, 1)
        BY <3>5, <3>6, <4>2, <4>3
      <4> DEFINE k == n - 2
      <4>5. k \in Nat \ {0} /\ k + 2 <= n /\ MarkerAt(u, k)
        BY <3>5, <3>6
      <4> HIDE DEF k
      <4>6. MarkerAt(y, k)
        BY <4>2, <4>5
      <4> QED  BY <4>4, <4>6 DEF k
    <3>17. Rest(y, n) = z
      BY <3>8, <3>10, <3>12, RestOfStart
    <3>18. Group(y, n) = w
      <4> DEFINE v == Group(y, n)
      <4>1. v \in Text /\ Len(v) = IF n >= 6 THEN n - 6 ELSE 0
        BY <3>8, <3>15, GroupIs
      <4>2. \A i \in Nat : i >= 1 /\ i <= Len(v) => v[i] = y[i + 3]
        BY <3>8, <3>15, GroupIs
      <4>3. Len(w) = IF n >= 6 THEN n - 6 ELSE 0
        BY <2>1, <3>6, GroupIs
      <4>4. \A i \in Nat : i >= 1 /\ i <= Len(w) => w[i] = u[i + 3]
        BY <2>1, <3>6, GroupIs
      <4> HIDE DEF v, w
      <4>5. Len(v) = n - 6 /\ Len(w) = n - 6 /\ n \in Nat
        BY <3>5, <4>1, <4>3
      <4>6. \A i \in 1 .. n : y[i] = a[i]
        <5>1. \A i \in 1 .. Len(a) + Len(z) : (a \o z)[i] = IF i <= Len(a) THEN a[i] ELSE z[i - Len(a)]
          BY <3>8, <3>12, ConcatProperties DEF Text
        <5>2. \A i \in 1 .. n : i \in 1 .. n + Len(z) /\ i <= n
          BY <3>14, <4>5
        <5>3. \A i \in 1 .. n : (a \o z)[i] = a[i]
          BY <3>12, <5>1, <5>2
        <5> QED  BY <3>10, <5>3
      <4>7. ASSUME NEW i \in 1 .. Len(v)  PROVE v[i] = w[i]
        <5>1. i \in Nat /\ i >= 1 /\ i <= Len(v) /\ i <= Len(w) /\ i + 3 \in 1 .. n
          BY <4>5
        <5> QED  BY <3>12, <4>2, <4>4, <4>6, <5>1
      <4>8. v = w
        BY <3>7, <4>1, <4>5, <4>7, SeqEqual DEF Text
      <4> QED  BY <4>8 DEF v
    <3>19. Stripped[y] = Stripped[w] \o Stripped[z]
      <4>1. Stripped[y] = Stripped[Group(y, n)] \o Stripped[Rest(y, n)]
        BY <3>8, <3>11, <3>15, <3>16, StrippedOfChange
      <4> QED  BY <3>17, <3>18, <4>1
    <3>20. Stripped[w] = w
      BY <3>7, <3>9, StrippedOfPlain
    <3> HIDE DEF w
    <3>21. q \in Bad
      <4>1. Shown[q] = Stripped[z] => Shown[u] = Stripped[y]
        BY <3>3, <3>19, <3>20, Zenon
      <4> QED  BY <2>1, <2>2, <3>7, <3>9, <4>1 DEF y, z
    <3>22. Len(q) < Len(u)
      BY <2>4, <3>5, <3>7
    <3> QED  BY <3>21, <3>22
  <2>10. CASE ~ (Deletion[u] > 0) /\ ~ (Insertion[u] > 0) /\ MarkerAt(u, 1)
    <3> DEFINE w == SubSeq(u, 1, 3)
               q == Rest(u, 3)
    <3>1. Deletion[u] = 0
      BY <2>6, <2>10
    <3>2. Stray[u] = 3 /\ 3 > 0
      BY <2>1, <2>10, StrayIs
    <3>3. Change[u] = 3 /\ Displayed[u] = <<>> /\ Change[u] > 0
      BY <2>5, <2>10, <3>2
    <3>4. Shown[u] = Displayed[u] \o Shown[q]
      BY <1>0, <2>1, <2>3, <3>3 DEF Replaces
    <3>5. 3 \in 0 .. Len(u) /\ WithoutDeletions[u] = w \o WithoutDeletions[q]
      BY <1>0, <2>1, <2>10, <3>1, MarkerStays
    <3>6. q \in Text /\ Apart(q) /\ Len(q) = Len(u) - 3
      BY <2>1, <3>5, ApartRest, RestLeaves DEF Text
    <3> HIDE DEF q
    <3>7. Shown[q] \in Text /\ WithoutDeletions[q] \in Text
      BY <1>0, <3>6 DEF Replaces
    <3>8. Stripped[w \o WithoutDeletions[q]] = Stripped[WithoutDeletions[q]]
      BY <2>1, <2>10, <3>7, StrippedAfterMarker
    <3>9. Shown[u] = Shown[q]
      <4>1. <<>> \o Shown[q] = Shown[q]
        BY <3>7, ConcatEmptySeq DEF Text
      <4> QED  BY <3>3, <3>4, <4>1
    <3> HIDE DEF w
    <3>10. Stripped[WithoutDeletions[u]] = Stripped[WithoutDeletions[q]]
      BY <3>5, <3>8, Zenon
    <3>11. q \in Bad
      BY <2>1, <2>2, <3>6, <3>9, <3>10
    <3>12. Len(q) < Len(u)
      BY <2>4, <3>6
    <3> QED  BY <3>11, <3>12
  <2>11. CASE ~ (Deletion[u] > 0) /\ ~ (Insertion[u] > 0) /\ ~MarkerAt(u, 1)
    <3> DEFINE q == Rest(u, 1)
    <3>1. Deletion[u] = 0 /\ Stray[u] = 0
      BY <2>1, <2>6, <2>11, StrayIs
    <3>2. Change[u] = 0
      BY <2>5, <2>11, <3>1
    <3>3. Shown[u] = <<u[1]>> \o Shown[q]
      BY <1>0, <2>1, <2>3, <3>2, FirstStays
    <3>4. WithoutDeletions[u] = <<u[1]>> \o WithoutDeletions[q]
      BY <1>0, <2>1, <2>3, <3>1, FirstStays
    <3>5. u[1] \in Characters /\ q \in Text /\ Len(q) = Len(u) - 1 /\ 1 \in 0 .. Len(u)
      BY <2>1, <2>3, AllButFirst
    <3>6. Apart(q)
      BY <2>1, <3>5, ApartRest
    <3> HIDE DEF q
    <3> DEFINE y == WithoutDeletions[u]
               z == WithoutDeletions[q]
               h == u[1]
               v == <<h>>
    <3>7. z \in Text /\ y \in Text /\ Shown[q] \in Text
      BY <1>0, <2>1, <3>5 DEF Replaces
    <3>8. ~MarkerAt(y, 1)
      BY <1>0, <2>1, <2>11, NoNewMarker
    <3>9. y = v \o z /\ Shown[u] = v \o Shown[q] /\ h \in Characters
      BY <3>3, <3>4, <3>5
    <3> HIDE DEF y, z, h
    <3>10. y # <<>> /\ y[1] = h
      BY <3>7, <3>9, InFront
    <3>11. v \in Text /\ Len(v) = 1 /\ v = <<h>>
      BY <3>9 DEF Text
    <3> HIDE DEF v
    <3>12. Rest(y, 1) = z
      <4>1. Rest(v \o z, Len(v)) = z
        BY <3>7, <3>11, RestOfStart
      <4> QED  BY <3>9, <3>11, <4>1
    <3>13. Stripped[y] = v \o Stripped[z]
      <4>1. Stripped[y] = <<y[1]>> \o Stripped[Rest(y, 1)]
        BY <3>7, <3>8, <3>10, StrippedOfOther
      <4> QED  BY <3>10, <3>11, <3>12, <4>1, Zenon
    <3>14. ~HasMarker(Shown[q])
      <4>1. ~HasMarker(v \o Shown[q])
        BY <2>1, <3>9
      <4> QED  BY <3>7, <3>11, <4>1, NoMarkerInParts
    <3>15. q \in Bad
      <4>1. Shown[q] = Stripped[z] => Shown[u] = Stripped[y]
        BY <3>9, <3>13, Zenon
      <4> QED  BY <2>1, <2>2, <3>5, <3>6, <3>14, <4>1 DEF y, z
    <3>16. Len(q) < Len(u)
      BY <2>4, <3>5
    <3> QED  BY <3>15, <3>16
  <2> QED  BY <2>8, <2>9, <2>10, <2>11
<1>2. Bad \in SUBSET Seq(Characters)
  BY DEF Text
<1> HIDE DEF Bad
<1>3. Bad = {}
  BY <1>1, <1>2, NoShortest
<1> QED  BY <1>3 DEF Bad

\* For every sequence of characters of any length, over any letters: if no brace of the text
\* touches a marker, then however its markers are nested, left open or out of place, what
\* clean_revision() downloads (redline.py:13-18) has no marker in it, not even one that
\* forms where something was removed, and is the text that renderRedline() shows
\* (page.tsx:41-62), unless that has a marker in it.
THEOREM EveryDownloadShown ==
  \A r \in Seq(Characters) : CleanIsShown(r)
<1> SUFFICES ASSUME NEW r \in Text, Apart(r)
             PROVE  /\ ~HasMarker(Clean(r))
                    /\ ~HasMarker(Shown[r]) => Shown[r] = Clean(r)
  BY DEF CleanIsShown, Text
<1> DEFINE y == WithoutDeletions[r]
<1>1. /\ Replaces(WithoutDeletions, Deletion, Nothing) /\ Cuts(Deletion, Nothing)
      /\ \A x \in Text : Nothing[x] = <<>>
  BY Replacements DEF Nothing, Text
<1>2. y \in Text /\ Apart(y)
  <2>1. y \in Text
    BY <1>1 DEF Replaces
  <2>2. Apart(y)
    BY <1>1, ApartStays
  <2> QED  BY <2>1, <2>2
<1>3. Clean(r) = Stripped[y]
  BY <1>2, StrippedOfUnwrapped DEF Clean
<1>4. ~HasMarker(Stripped[y])
  BY <1>2, NoMarkerLeft
<1>5. ~HasMarker(Shown[r]) => Shown[r] = Stripped[y]
  BY ShownIsStripped
<1> QED  BY <1>3, <1>4, <1>5

-----------------------------------------------------------------------------
(* The redline of a chunk.                                                   *)

\* The separator of the chunks.
Break == <<"\n", "\n">>

LEMMA BreakFirst ==
  ASSUME NEW z \in Text
  PROVE  /\ Break \in Text /\ Len(Break) = 2
         /\ Break \o z \in Text /\ Len(Break \o z) = Len(z) + 2
         /\ (Break \o z)[1] = "\n" /\ (Break \o z)[2] = "\n"
         /\ \A i \in 1 .. Len(z) : (Break \o z)[i + 2] = z[i]
         /\ Rest(Break \o z, 2) = z
<1> DEFINE y == Break \o z
<1>1. Break \in Text /\ Len(Break) = 2 /\ Break[1] = "\n" /\ Break[2] = "\n"
  <2> DEFINE ch == "\n"
  <2>1. ch \in Characters
    BY DEF Characters
  <2>2. Break = <<ch, ch>>
    BY DEF Break
  <2> HIDE DEF ch
  <2>3. Break \in Text /\ Len(Break) = 2 /\ Break[1] = ch /\ Break[2] = ch
    BY <2>1, <2>2 DEF Text
  <2> QED  BY <2>3 DEF ch
<1>2. Rest(y, 2) = z
  BY <1>1, RestOfStart
<1>3. y \in Text /\ Len(y) = Len(Break) + Len(z)
  BY <1>1, ConcatProperties DEF Text
<1>4. \A i \in 1 .. Len(Break) + Len(z) :
        y[i] = IF i <= Len(Break) THEN Break[i] ELSE z[i - Len(Break)]
  BY <1>1, ConcatProperties DEF Text
<1> HIDE DEF y
<1>5. Len(z) \in Nat /\ Len(Break) = 2
  BY <1>1 DEF Text
<1>6. y[1] = Break[1] /\ y[2] = Break[2]
  <2>1. 1 \in 1 .. Len(Break) + Len(z) /\ 2 \in 1 .. Len(Break) + Len(z)
        /\ 1 <= Len(Break) /\ 2 <= Len(Break)
    BY <1>5
  <2> QED  BY <1>4, <2>1
<1>7. ASSUME NEW i \in 1 .. Len(z)  PROVE y[i + 2] = z[i]
  <2>1. i + 2 \in 1 .. Len(Break) + Len(z) /\ ~ (i + 2 <= Len(Break)) /\ i + 2 - Len(Break) = i
    BY <1>5
  <2> QED  BY <1>4, <2>1
<1>8. Len(y) = Len(z) + 2
  BY <1>3, <1>5
<1> QED  BY <1>1, <1>2, <1>3, <1>6, <1>7, <1>8 DEF y

\* The separator stays.
LEMMA BreakStays ==
  ASSUME NEW g, NEW match, NEW put, Replaces(g, match, put), Cuts(match, put), NEW z \in Text
  PROVE  g[Break \o z] = Break \o g[z]
<1> DEFINE y == Break \o z
<1>1. /\ Break \in Text /\ Len(Break) = 2 /\ y \in Text /\ Len(y) = Len(z) + 2
      /\ y[1] = "\n" /\ y[2] = "\n"
  BY BreakFirst
<1>2. Len(z) \in Nat
  BY DEF Text
<1> HIDE DEF y
<1>3. \A x \in Text : x[1] = "\n" => ~MarkerAt(x, 1)
  <2> SUFFICES ASSUME NEW x \in Text, x[1] = "\n"  PROVE ~MarkerAt(x, 1)
    OBVIOUS
  <2>1. ~OpensAt(x, 1) /\ ~ClosesAt(x, 1)
    BY DEF OpensAt, ClosesAt
  <2> QED  BY <2>1, MarkerIs
<1>4. ASSUME NEW j \in 0 .. Len(Break) - 1  PROVE match[Rest(y, j)] = 0
  <2>1. j \in {0, 1} /\ j \in 0 .. Len(y) /\ Len(y) - j # 0 /\ 1 \in 1 .. Len(y) - j
    BY <1>1, <1>2
  <2> DEFINE s == Rest(y, j)
  <2>2. s \in Text /\ Len(s) = Len(y) - j /\ \A k \in 1 .. Len(y) - j : s[k] = y[j + k]
    BY <1>1, <2>1, RestLeaves DEF Text
  <2> HIDE DEF s
  <2>3. s[1] = "\n"
    <3>1. s[1] = y[j + 1]
      BY <2>1, <2>2
    <3>2. j + 1 = 1 \/ j + 1 = 2
      BY <2>1
    <3> QED  BY <1>1, <3>1, <3>2
  <2>4. s # <<>>
    <3>1. Len(s) # 0
      BY <2>1, <2>2
    <3> QED  BY <3>1
  <2>5. match[s] = 0
    BY <1>3, <2>2, <2>3, <2>4, NoMatch
  <2> QED  BY <2>5 DEF s
<1>5. \A j \in 0 .. Len(Break) - 1 : match[Rest(Break \o z, j)] = 0
  BY <1>4 DEF y
<1>6. Break \in Text
  BY <1>1
<1> QED  BY <1>5, <1>6, NothingReplaced

\* No marker has the separator in it.
LEMMA NoneAcross ==
  ASSUME NEW a \in Text, NEW z \in Text, NEW j \in 1 .. Len(a),
         MarkerAt(a \o (Break \o z), j)
  PROVE  j + 2 <= Len(a)
<1> DEFINE b == Break \o z
           y == a \o b
<1>1. Len(a) \in Nat /\ Len(z) \in Nat
  BY DEF Text
<1>2. b \in Text /\ Len(b) = Len(z) + 2 /\ b[1] = "\n" /\ b[2] = "\n"
  BY BreakFirst
<1> HIDE DEF b
<1>3. y \in Text /\ MarkerAt(y, j)
  BY <1>2, ConcatProperties DEF Text, b
<1>4. \A i \in 1 .. Len(a) + Len(b) : y[i] = IF i <= Len(a) THEN a[i] ELSE b[i - Len(a)]
  BY <1>2, ConcatProperties DEF Text
<1> HIDE DEF y
<1> DEFINE m == Len(a) + 1
<1>5. y[m] = "\n"
  <2>1. m \in 1 .. Len(a) + Len(b) /\ ~ (m <= Len(a)) /\ m - Len(a) = 1
    <3>1. Len(b) = Len(z) + 2
      BY <1>2
    <3> QED  BY <1>1, <3>1
  <2> HIDE DEF m
  <2>2. y[m] = b[m - Len(a)]
    BY <1>4, <2>1
  <2> QED  BY <1>2, <2>1, <2>2
<1>6. OpensAt(y, j) \/ ClosesAt(y, j)
  <2>1. j \in Nat \ {0}
    BY <1>1
  <2> QED  BY <1>3, <2>1, MarkerIs
<1>7. y[j] # "\n" /\ y[j + 1] # "\n" /\ y[j + 2] # "\n"
  BY <1>6 DEF OpensAt, ClosesAt
<1> HIDE DEF m
<1>8. m # j /\ m # j + 1 /\ m # j + 2
  BY <1>5, <1>7
<1> QED  BY <1>1, <1>8 DEF m

LEMMA WholeBreak ==
  ASSUME NEW a \in Text, NEW z \in Text
  PROVE  Whole(a, Break \o z)
BY NoneAcross DEF Whole

\* There is one answer to how much matches.
LEMMA OneMatch ==
  ASSUME NEW r \in Text, NEW c, NEW n, NEW m, IsMatch(r, c, n), IsMatch(r, c, m)
  PROVE  n = m
<1>1. Len(r) \in Nat
  BY DEF Text
<1>2. \A k \in {n, m} : /\ k = 0 \/ k \in 6 .. Len(r)
                        /\ k # 0 => /\ At(r, 1, Open(c)) /\ At(r, k - 2, Close(c))
                                    /\ \A j \in 4 .. k - 3 : ~At(r, j, Close(c))
                        /\ At(r, 1, Open(c)) /\ (\E j \in 4 .. Len(r) : At(r, j, Close(c))) => k # 0
  BY DEF IsMatch
<1>3. \A k \in {n, m} : k # 0 => k - 2 \in 4 .. Len(r)
  BY <1>1, <1>2
<1>4. (n = 0) <=> (m = 0)
  BY <1>2, <1>3
<1>5. ASSUME n # 0, m # 0  PROVE n = m
  <2>1. n \in 6 .. Len(r) /\ m \in 6 .. Len(r)
    BY <1>2, <1>5
  <2>2. ~ (n - 2 \in 4 .. m - 3) /\ ~ (m - 2 \in 4 .. n - 3)
    BY <1>2, <1>5
  <2> QED  BY <1>1, <2>1, <2>2
<1> QED  BY <1>4, <1>5

\* What follows a text after the separator makes no difference to what matches at its
\* start, unless a change is opened there and not closed.
LEMMA MatchInParts ==
  ASSUME NEW c \in {"-", "+"}, NEW u \in Text, u # <<>>, NEW z \in Text,
         NEW n, IsMatch(u, c, n), NEW m, IsMatch(u \o (Break \o z), c, m)
  PROVE  n # 0 \/ ~At(u, 1, Open(c)) => m = n
<1> DEFINE v == Break \o z
           y == u \o v
<1>0. 1 \in Nat \ {0} /\ 1 + 2 = 3
  OBVIOUS
<1>1. v \in Text
  BY BreakFirst
<1>2. IsMatch(y, c, m)
  OBVIOUS
<1>3. \A j \in 1 .. Len(u) : MarkerAt(y, j) => j + 2 <= Len(u)
  BY NoneAcross
<1> HIDE DEF v
<1>4. y \in Text /\ Len(y) = Len(u) + Len(v) /\ Len(u) \in Nat \ {0} /\ Len(v) \in Nat
  BY <1>1, ConcatProperties, EmptySeq DEF Text
<1>5. \A j \in Nat \ {0} : j + 2 <= Len(u) =>
        /\ At(y, j, Open(c)) <=> At(u, j, Open(c))
        /\ At(y, j, Close(c)) <=> At(u, j, Close(c))
  BY <1>1, AtConcat DEF Open, Close
<1> HIDE DEF y
<1>6. ASSUME n # 0  PROVE IsMatch(y, c, n)
  <2>1. n \in 6 .. Len(u) /\ At(u, 1, Open(c)) /\ At(u, n - 2, Close(c))
        /\ \A j \in 4 .. n - 3 : ~At(u, j, Close(c))
    BY <1>6 DEF IsMatch
  <2>2. n \in 6 .. Len(u)
    BY <2>1
  <2>3. n \in 6 .. Len(y) /\ 1 + 2 <= Len(u) /\ n - 2 \in Nat \ {0} /\ n - 2 + 2 <= Len(u)
    BY <1>4, <2>2
  <2>4. At(y, 1, Open(c)) /\ At(y, n - 2, Close(c))
    <3>1. At(y, 1, Open(c))
      BY <1>0, <1>5, <2>1, <2>3
    <3> DEFINE k == n - 2
    <3>2. k \in Nat \ {0} /\ k + 2 <= Len(u) /\ At(u, k, Close(c))
      BY <2>1, <2>3
    <3> HIDE DEF k
    <3>3. At(y, k, Close(c))
      BY <1>5, <3>2
    <3> QED  BY <3>1, <3>3 DEF k
  <2>5. ASSUME NEW j \in 4 .. n - 3  PROVE ~At(y, j, Close(c))
    <3>1. j \in Nat \ {0} /\ j + 2 <= Len(u)
      BY <1>4, <2>2
    <3> QED  BY <1>5, <2>1, <3>1
  <2> QED  BY <1>6, <2>3, <2>4, <2>5 DEF IsMatch
<1>7. n # 0 => m = n
  BY <1>2, <1>4, <1>6, OneMatch
<1>8. ASSUME n = 0, ~At(u, 1, Open(c)), m # 0  PROVE FALSE
  <2>1. At(y, 1, Open(c))
    BY <1>2, <1>8 DEF IsMatch
  <2>2. MarkerAt(y, 1)
    <3>1. Open(c) \in Markers
      BY DEF Markers, DelOpen, InsOpen, Open
    <3> QED  BY <2>1, <3>1 DEF MarkerAt
  <2>3. 1 \in 1 .. Len(u)
    BY <1>4
  <2>4. 1 + 2 <= Len(u)
    BY <1>3, <2>2, <2>3
  <2> QED  BY <1>0, <1>5, <1>8, <2>1, <2>4
<1> QED  BY <1>7, <1>8

\* What match finds are the changes of c, and what put has for one depends on it alone.
Finds(match, put, c) ==
  /\ c \in {"-", "+"}
  /\ \A x \in Text : /\ IsMatch(x, c, match[x])
                     /\ \A y \in Text : match[x] > 0 /\ match[x \o y] = match[x]
                                          => put[x \o y] = put[x]

\* At the start of u a change is opened and not closed.
LeftOpen(u, match, c) == At(u, 1, Open(c)) /\ match[u] = 0

\* It is still there.
LEMMA OpenStays ==
  ASSUME NEW g, NEW match, NEW put, Replaces(g, match, put), NEW c, Finds(match, put, c),
         NEW u \in Text, LeftOpen(u, match, c)
  PROVE  Has(g[u], Open(c))
<1>0. 1 \in Nat \ {0} /\ 1 + 1 = 2 /\ 1 + 2 = 3 /\ 2 + 1 = 3 /\ 1 >= 1 /\ 2 >= 1
  OBVIOUS
<1>1. c \in {"-", "+"}
  BY DEF Finds
<1>2. 1 + 2 <= Len(u) /\ u[1] = "{" /\ u[2] = c /\ u[3] = c
  <2>1. At(u, 1, <<"{", c, c>>)
    BY DEF Open, LeftOpen
  <2>2. 1 + 2 <= Len(u) /\ u[1] = "{" /\ u[1 + 1] = c /\ u[1 + 2] = c
    <3>1. 1 \in Nat \ {0}
      OBVIOUS
    <3> QED  BY <2>1, <3>1, MarkerShape
  <2> QED  BY <1>0, <2>2
<1>3. \A x \in Text : x # <<>> /\ x[1] = c => match[x] = 0
  <2> SUFFICES ASSUME NEW x \in Text, x[1] = c  PROVE match[x] = 0
    OBVIOUS
  <2> DEFINE n == match[x]
  <2>1. IsMatch(x, c, n)
    BY DEF Finds
  <2> HIDE DEF n
  <2>2. n \in Nat
    BY <1>1, <2>1, MatchCuts
  <2>3. n > 0 => x[1] = "{"
    BY <1>1, <2>1, MatchCuts
  <2>4. ~ (n > 0)
    BY <1>1, <2>3
  <2>5. n = 0
    BY <2>2, <2>4
  <2> QED  BY <2>5 DEF n
<1> DEFINE s == Rest(u, 1)
           q == Rest(s, 1)
<1>4. 1 + 2 <= Len(u)
  BY <1>2
<1>5. u # <<>>
  <2>1. Len(u) # 0
    BY <1>4
  <2> QED  BY <2>1
<1>6. s \in Text /\ Len(s) = Len(u) - 1 /\ Len(u) \in Nat
  BY <1>5, AllButFirst
<1>7. \A i \in Nat : i >= 1 /\ i <= Len(u) - 1 => s[i] = u[i + 1]
  BY <1>5, AllButFirst
<1>a. match[u] = 0
  BY DEF LeftOpen
<1>8. /\ Len(g[u]) = Len(g[s]) + 1 /\ Len(g[s]) \in Nat
  BY <1>5, <1>a, FirstStays
<1>9. /\ g[u][1] = u[1]
      /\ \A i \in Nat : i >= 1 /\ i <= Len(g[s]) => g[u][i + 1] = g[s][i]
  BY <1>5, <1>a, FirstStays
<1> HIDE DEF s
<1>10. 1 <= Len(u) - 1 /\ 2 <= Len(u) - 1 /\ 1 <= Len(s) - 1 /\ Len(s) # 0
  BY <1>4, <1>6
<1>11. s[1] = c /\ s[2] = c /\ s # <<>> /\ match[s] = 0
  <2>1. s[1] = c /\ s[2] = c
    BY <1>0, <1>2, <1>7, <1>10
  <2>2. s # <<>>
    BY <1>10
  <2> QED  BY <1>3, <1>6, <2>1, <2>2
<1>12. s \in Text /\ s # <<>> /\ match[s] = 0
  BY <1>6, <1>11
<1>13. q \in Text /\ Len(q) = Len(s) - 1
  BY <1>12, AllButFirst
<1>14. \A i \in Nat : i >= 1 /\ i <= Len(s) - 1 => q[i] = s[i + 1]
  BY <1>12, AllButFirst
<1>15. Len(g[s]) = Len(g[q]) + 1 /\ Len(g[q]) \in Nat
  BY <1>12, FirstStays
<1>16. /\ g[s][1] = s[1]
       /\ \A i \in Nat : i >= 1 /\ i <= Len(g[q]) => g[s][i + 1] = g[q][i]
  BY <1>12, FirstStays
<1> HIDE DEF q
<1>17. q[1] = c
  BY <1>0, <1>10, <1>11, <1>14
<1>18. q \in Text /\ q # <<>> /\ match[q] = 0
  <2>1. Len(q) # 0
    BY <1>6, <1>10, <1>13
  <2>2. q # <<>>
    BY <2>1
  <2> QED  BY <1>3, <1>13, <1>17, <2>2
<1>19. g[q][1] = q[1]
  BY <1>18, FirstStays
<1>20. Len(g[q]) = Len(g[Rest(q, 1)]) + 1 /\ Len(g[Rest(q, 1)]) \in Nat
  BY <1>18, FirstStays
<1>21. /\ 1 <= Len(g[q]) /\ 1 <= Len(g[s]) /\ 2 <= Len(g[s]) /\ 1 + 2 <= Len(g[u])
       /\ 1 \in 1 .. Len(g[u])
  BY <1>8, <1>15, <1>20
<1>22. g[u][1] = "{" /\ g[u][2] = c /\ g[u][3] = c
  <2>1. g[u][1] = "{"
    BY <1>2, <1>9
  <2>2. g[u][1 + 1] = g[s][1] /\ g[s][1] = c
    BY <1>0, <1>9, <1>11, <1>16, <1>21
  <2>3. g[u][2 + 1] = g[s][2]
    BY <1>0, <1>9, <1>21
  <2>4. g[s][1 + 1] = g[q][1] /\ g[q][1] = c
    BY <1>0, <1>16, <1>17, <1>19, <1>21
  <2> QED  BY <1>0, <2>1, <2>2, <2>3, <2>4
<1>23. g[u] \in Text
  BY DEF Replaces
<1> DEFINE y == g[u]
<1>24. /\ y \in Text /\ 1 + 2 <= Len(y) /\ y[1] = "{" /\ y[1 + 1] = c /\ y[1 + 2] = c
  BY <1>0, <1>21, <1>22, <1>23
<1>25. 1 \in DOMAIN y
  <2>1. DOMAIN y = 1 .. Len(y)
    BY <1>24, LenProperties DEF Text
  <2> QED  BY <1>21, <2>1
<1> HIDE DEF y
<1>26. At(y, 1, Open(c))
  BY <1>0, <1>24, MarkerShape DEF Open
<1> QED  BY <1>25, <1>26 DEF Has, y

\* What is in a text is in one that ends with it.
LEMMA HasInRest ==
  ASSUME NEW a \in Text, NEW b \in Text, NEW c, Has(b, Open(c))
  PROVE  Has(a \o b, Open(c))
<1> DEFINE y == a \o b
<1>1. Len(a) \in Nat /\ Len(b) \in Nat /\ DOMAIN b = 1 .. Len(b)
  BY LenProperties DEF Text
<1>2. y \in Text /\ Len(y) = Len(a) + Len(b)
  BY ConcatProperties DEF Text
<1>3. DOMAIN y = 1 .. Len(a) + Len(b)
  BY <1>2, LenProperties DEF Text
<1>4. Rest(y, Len(a)) = b
  BY RestOfStart
<1> HIDE DEF y
<1>5. PICK i \in DOMAIN b : At(b, i, Open(c))
  BY DEF Has
<1>6. i \in Nat \ {0} /\ Len(a) + i \in 1 .. Len(a) + Len(b) /\ Len(a) \in 0 .. Len(y)
  <2>1. i \in 1 .. Len(b)
    BY <1>1, <1>5
  <2> QED  BY <1>1, <1>2, <2>1
<1>7. At(Rest(y, Len(a)), i, Open(c)) <=> At(y, Len(a) + i, Open(c))
  BY <1>2, <1>6, AtRest DEF Open
<1> QED  BY <1>3, <1>4, <1>5, <1>6, <1>7 DEF Has, y

\* What is replaced in a text that leaves no change open.
LEMMA ClosedInParts ==
  ASSUME NEW g, NEW match, NEW put, Replaces(g, match, put), Cuts(match, put),
         NEW c, Finds(match, put, c),
         NEW a \in Text, ~Has(g[a], Open(c)), NEW z \in Text
  PROVE  g[a \o (Break \o z)] = g[a] \o (Break \o g[z])
<1> DEFINE X == {u \in Text : ~Has(g[u], Open(c))}
           v == Break \o z
<1>1. v \in Text
  BY BreakFirst
<1>2. c \in {"-", "+"} /\ \A x \in Text : IsMatch(x, c, match[x])
  BY DEF Finds
<1>3. ASSUME NEW x \in X, x # <<>>
      PROVE  /\ match[x \o v] = match[x]
             /\ match[x] > 0 => put[x \o v] = put[x]
             /\ Rest(x, IF match[x] > 0 THEN match[x] ELSE 1) \in X
  <2>1. x \in Text /\ ~Has(g[x], Open(c))
    BY <1>3
  <2>2. x \o v \in Text
    BY <1>1, <2>1, ConcatProperties DEF Text
  <2>3. match[x] \in 0 .. Len(x) /\ Len(x) \in Nat \ {0}
    BY <1>3, <2>1, EmptySeq DEF Replaces, Text
  <2>4. match[x] # 0 \/ ~At(x, 1, Open(c))
    BY <2>1, <2>3, OpenStays DEF LeftOpen
  <2>5. match[x \o v] = match[x]
    <3>1. IsMatch(x, c, match[x]) /\ IsMatch(x \o v, c, match[x \o v])
      BY <1>2, <2>1, <2>2
    <3> QED  BY <1>2, <1>3, <2>1, <2>4, <3>1, MatchInParts
  <2>6. match[x] > 0 => put[x \o v] = put[x]
    BY <1>1, <2>1, <2>5 DEF Finds
  <2> DEFINE n == IF match[x] > 0 THEN match[x] ELSE 1
             p == IF match[x] > 0 THEN put[x] ELSE <<x[1]>>
             s == Rest(x, n)
  <2>7. n \in 0 .. Len(x)
    BY <2>3
  <2>8. g[x] = p \o g[s] /\ p \in Text
    <3>1. CASE match[x] > 0
      BY <1>3, <2>1, <3>1 DEF Replaces
    <3>2. CASE ~ (match[x] > 0)
      <4>1. match[x] = 0
        BY <2>3, <3>2
      <4>2. g[x] = <<x[1]>> \o g[Rest(x, 1)]
        BY <1>3, <2>1, <4>1 DEF Replaces
      <4>3. p = <<x[1]>> /\ n = 1
        BY <3>2
      <4>4. <<x[1]>> \in Text
        <5>1. x[1] \in Characters
          BY <1>3, <2>1, AllButFirst
        <5> QED  BY <5>1 DEF Text
      <4> QED  BY <4>2, <4>3, <4>4
    <3> QED  BY <3>1, <3>2
  <2> HIDE DEF n, p
  <2>9. s \in Text
    BY <2>1, <2>7, RestLeaves DEF Text
  <2> HIDE DEF s
  <2>10. g[s] \in Text
    BY <2>9 DEF Replaces
  <2>11. ~Has(g[s], Open(c))
    <3>1. ~Has(p \o g[s], Open(c))
      BY <2>1, <2>8
    <3> QED  BY <2>8, <2>10, <3>1, HasInRest
  <2>12. s \in X
    BY <2>9, <2>11
  <2> QED  BY <2>5, <2>6, <2>12 DEF s, n
<1>4. X \in SUBSET Text /\ a \in X
  OBVIOUS
<1> HIDE DEF X, v
<1>5. Parted(X, v, match, put)
  BY <1>3, <1>4 DEF Parted
<1>6. InParts(X, v, g)
  BY <1>1, <1>5, ReplacedInParts
<1>7. g[a \o v] = g[a] \o g[v]
  BY <1>4, <1>6, Zenon DEF InParts
<1>8. g[v] = Break \o g[z]
  BY BreakStays DEF v
<1> QED  BY <1>7, <1>8, Zenon DEF v

\* The group of a match is the same where the text goes on.
LEMMA GroupOfConcat ==
  ASSUME NEW a \in Text, NEW b \in Text, NEW n \in 6 .. Len(a)
  PROVE  Group(a \o b, n) = Group(a, n)
<1> DEFINE y == a \o b
           v == Group(y, n)
           w == Group(a, n)
<1>1. Len(a) \in Nat /\ Len(b) \in Nat /\ n \in 3 .. Len(a)
  BY DEF Text
<1>2. y \in Text /\ Len(y) = Len(a) + Len(b)
  BY ConcatProperties DEF Text
<1>3. \A i \in 1 .. Len(a) + Len(b) : y[i] = IF i <= Len(a) THEN a[i] ELSE b[i - Len(a)]
  BY ConcatProperties DEF Text
<1> HIDE DEF y
<1>4. n \in 3 .. Len(y)
  BY <1>1, <1>2
<1>5. v \in Text /\ Len(v) = IF n >= 6 THEN n - 6 ELSE 0
  BY <1>2, <1>4, GroupIs
<1>6. \A i \in Nat : i >= 1 /\ i <= Len(v) => v[i] = y[i + 3]
  BY <1>2, <1>4, GroupIs
<1>7. w \in Text /\ Len(w) = IF n >= 6 THEN n - 6 ELSE 0
  BY <1>1, GroupIs
<1>8. \A i \in Nat : i >= 1 /\ i <= Len(w) => w[i] = a[i + 3]
  BY <1>1, GroupIs
<1> HIDE DEF v, w
<1>9. Len(v) = n - 6 /\ Len(w) = n - 6 /\ n \in Nat
  BY <1>1, <1>5, <1>7
<1>10. ASSUME NEW i \in 1 .. Len(v)  PROVE v[i] = w[i]
  <2>1. /\ i \in Nat /\ i >= 1 /\ i <= Len(v) /\ i <= Len(w)
        /\ i + 3 \in 1 .. Len(a) + Len(b) /\ i + 3 <= Len(a)
    BY <1>1, <1>9
  <2>2. y[i + 3] = a[i + 3]
    BY <1>3, <2>1
  <2> QED  BY <1>6, <1>8, <2>1, <2>2
<1>11. v = w
  BY <1>5, <1>7, <1>9, <1>10, SeqEqual DEF Text
<1> QED  BY <1>11 DEF v, w, y

\* So deletions and insertions are found.
LEMMA ChangesFound ==
  Finds(Deletion, Nothing, "-") /\ Finds(Insertion, Inserted, "+")
<1>1. \A x \in Text : IsMatch(x, "-", Deletion[x]) /\ IsMatch(x, "+", Insertion[x])
  BY ChangesMatch
<1>2. ASSUME NEW x \in Text, NEW y \in Text  PROVE x \o y \in Text
  BY ConcatProperties DEF Text
<1>3. ASSUME NEW x \in Text, NEW y \in Text  PROVE Nothing[x \o y] = Nothing[x]
  BY <1>2 DEF Nothing, Text
<1>4. ASSUME NEW x \in Text, NEW y \in Text, Insertion[x] > 0, Insertion[x \o y] = Insertion[x]
      PROVE  Inserted[x \o y] = Inserted[x]
  <2> DEFINE n == Insertion[x]
  <2>1. Inserted[x] = Group(x, n) /\ Inserted[x \o y] = Group(x \o y, Insertion[x \o y])
    BY <1>2 DEF Inserted, Text
  <2>2. IsMatch(x, "+", n) /\ n > 0
    BY <1>1, <1>4
  <2>3. Inserted[x \o y] = Group(x \o y, n)
    BY <1>4, <2>1
  <2> HIDE DEF n
  <2>4. n \in 6 .. Len(x)
    BY <2>2, MatchCuts
  <2>5. Group(x \o y, n) = Group(x, n)
    BY <2>4, GroupOfConcat
  <2> QED  BY <2>1, <2>3, <2>5
<1> QED  BY <1>1, <1>3, <1>4 DEF Finds

\* Two texts whose markers are apart, with the separator between them.
LEMMA JoinedApart ==
  ASSUME NEW a \in Text, Apart(a), NEW b \in Text, Apart(b)
  PROVE  a \o (Break \o b) \in Text /\ Apart(a \o (Break \o b))
<1> DEFINE v == Break \o b
           y == a \o v
<1>1. v \in Text /\ Len(v) = Len(b) + 2 /\ Rest(v, 2) = b
  BY BreakFirst
<1>2. v[1] = "\n" /\ v[2] = "\n"
  BY BreakFirst
<1>3. \A j \in 1 .. Len(a) : MarkerAt(y, j) => j + 2 <= Len(a)
  BY NoneAcross
<1>4. \A i \in 1 .. Len(b) : v[i + 2] = b[i]
  BY BreakFirst
<1> HIDE DEF v
<1>5. y \in Text /\ Len(y) = Len(a) + Len(v)
  BY <1>1, ConcatProperties DEF Text
<1>6. \A i \in 1 .. Len(a) + Len(v) : y[i] = IF i <= Len(a) THEN a[i] ELSE v[i - Len(a)]
  BY <1>1, ConcatProperties DEF Text
<1>7. \A j \in Nat \ {0} : j + 2 <= Len(a) => (MarkerAt(y, j) <=> MarkerAt(a, j))
  BY <1>1, AtConcat
<1>8. Rest(y, Len(a)) = v
  BY <1>1, RestOfStart
<1> HIDE DEF y
<1>9. Len(a) \in Nat /\ Len(b) \in Nat /\ Len(v) \in Nat /\ Len(y) = Len(a) + Len(b) + 2
  <2>1. Len(a) \in Nat /\ Len(b) \in Nat
    BY DEF Text
  <2> QED  BY <1>1, <1>5, <2>1
<1>10. \A i \in Nat : i >= 1 /\ i <= Len(a) => y[i] = a[i]
  <2>1. \A i \in Nat : i >= 1 /\ i <= Len(a) => i \in 1 .. Len(a) + Len(v)
    BY <1>9
  <2> QED  BY <1>6, <2>1
<1>11. y[Len(a) + 1] = "\n" /\ y[Len(a) + 2] = "\n"
  <2> DEFINE i == Len(a) + 1
             k == Len(a) + 2
  <2>1. /\ i \in 1 .. Len(a) + Len(v) /\ ~ (i <= Len(a)) /\ i - Len(a) = 1
        /\ k \in 1 .. Len(a) + Len(v) /\ ~ (k <= Len(a)) /\ k - Len(a) = 2
    <3>1. Len(v) = Len(b) + 2
      BY <1>1
    <3> QED  BY <1>9, <3>1
  <2> HIDE DEF i, k
  <2>2. y[i] = v[i - Len(a)] /\ y[k] = v[k - Len(a)]
    BY <1>6, <2>1
  <2>3. y[i] = v[1] /\ y[k] = v[2]
    BY <2>1, <2>2
  <2> QED  BY <1>2, <2>3 DEF i, k
<1>12. ASSUME NEW i \in Nat, i >= 1, i <= Len(b)  PROVE y[Len(a) + 2 + i] = b[i]
  <2> DEFINE k == Len(a) + 2 + i
  <2>1. /\ k \in 1 .. Len(a) + Len(v) /\ ~ (k <= Len(a)) /\ k - Len(a) = i + 2
        /\ i \in 1 .. Len(b)
    <3>1. Len(v) = Len(b) + 2
      BY <1>1
    <3> QED  BY <1>9, <1>12, <3>1
  <2> HIDE DEF k
  <2>2. y[k] = v[k - Len(a)]
    BY <1>6, <2>1
  <2>3. v[i + 2] = b[i]
    BY <1>4, <2>1
  <2>4. y[k] = b[i]
    BY <2>1, <2>2, <2>3
  <2> QED  BY <2>4 DEF k
<1>13. ASSUME NEW i \in Nat \ {0}  PROVE MarkerAt(y, Len(a) + 2 + i) <=> MarkerAt(b, i)
  <2>1. Len(a) \in 0 .. Len(y) /\ 2 \in 0 .. Len(y) - Len(a) /\ Len(a) + 2 \in 0 .. Len(y)
    BY <1>9
  <2>2. Rest(Rest(y, Len(a)), 2) = Rest(y, Len(a) + 2)
    BY <1>5, <2>1, RestOfRest DEF Text
  <2>3. Rest(y, Len(a) + 2) = b
    BY <1>1, <1>8, <2>2
  <2> DEFINE k == Len(a) + 2
  <2>4. k \in 0 .. Len(y) /\ Rest(y, k) = b
    BY <2>1, <2>3
  <2> HIDE DEF k
  <2>5. MarkerAt(Rest(y, k), i) <=> MarkerAt(y, k + i)
    BY <1>5, <2>4, AtRest
  <2> QED  BY <2>4, <2>5 DEF k
<1>14. ASSUME NEW j \in Nat \ {0}, MarkerAt(y, j)
       PROVE  j + 2 <= Len(a) \/ j >= Len(a) + 3
  <2>1. CASE j <= Len(a)
    <3>1. j \in 1 .. Len(a)
      BY <1>9, <2>1
    <3> QED  BY <1>3, <1>14, <3>1
  <2>2. CASE j = Len(a) + 1 \/ j = Len(a) + 2
    <3>1. y[j] = "\n"
      BY <1>11, <2>2
    <3>2. OpensAt(y, j) \/ ClosesAt(y, j)
      BY <1>5, <1>14, MarkerIs
    <3> QED  BY <3>1, <3>2 DEF OpensAt, ClosesAt
  <2>3. j <= Len(a) \/ j = Len(a) + 1 \/ j = Len(a) + 2 \/ j >= Len(a) + 3
    BY <1>9
  <2> QED  BY <2>1, <2>2, <2>3
<1>15. ASSUME NEW j \in Nat \ {0}, MarkerAt(y, j)
       PROVE  /\ j - 1 >= 1 => y[j - 1] # "{"
              /\ j - 2 >= 1 => y[j - 2] # "{"
              /\ j + 3 <= Len(y) => y[j + 3] # "}"
              /\ j + 4 <= Len(y) => y[j + 4] # "}"
  <2>1. CASE j + 2 <= Len(a)
    <3>1. MarkerAt(a, j)
      BY <1>7, <1>15, <2>1
    <3>2. /\ j - 1 >= 1 => a[j - 1] # "{"
          /\ j - 2 >= 1 => a[j - 2] # "{"
          /\ j + 3 <= Len(a) => a[j + 3] # "}"
          /\ j + 4 <= Len(a) => a[j + 4] # "}"
      BY <3>1, ApartIs
    <3>3. /\ j - 1 >= 1 => j - 1 \in Nat /\ j - 1 <= Len(a)
          /\ j - 2 >= 1 => j - 2 \in Nat /\ j - 2 <= Len(a)
          /\ j + 3 \in Nat /\ j + 3 >= 1 /\ j + 4 \in Nat /\ j + 4 >= 1
          /\ j + 3 <= Len(a) \/ j + 3 = Len(a) + 1
          /\ j + 4 <= Len(a) \/ j + 4 = Len(a) + 1 \/ j + 4 = Len(a) + 2
      BY <1>9, <2>1
    <3>4. j - 1 >= 1 => y[j - 1] # "{"
      BY <1>10, <3>2, <3>3
    <3>5. j - 2 >= 1 => y[j - 2] # "{"
      BY <1>10, <3>2, <3>3
    <3>6. y[j + 3] # "}"
      BY <1>10, <1>11, <3>2, <3>3
    <3>7. y[j + 4] # "}"
      BY <1>10, <1>11, <3>2, <3>3
    <3> QED  BY <3>4, <3>5, <3>6, <3>7
  <2>2. CASE j >= Len(a) + 3
    <3> DEFINE i == j - (Len(a) + 2)
    <3>1. i \in Nat \ {0} /\ Len(a) + 2 + i = j
      BY <1>9, <2>2
    <3>2. /\ i - 1 >= 1 => i - 1 \in Nat /\ Len(a) + 2 + (i - 1) = j - 1
          /\ i - 2 >= 1 => i - 2 \in Nat /\ Len(a) + 2 + (i - 2) = j - 2
          /\ ~ (i - 1 >= 1) => j - 1 = Len(a) + 2
          /\ ~ (i - 2 >= 1) => j - 2 = Len(a) + 2 \/ j - 2 = Len(a) + 1
          /\ i + 3 \in Nat /\ i + 3 >= 1 /\ Len(a) + 2 + (i + 3) = j + 3
          /\ i + 4 \in Nat /\ i + 4 >= 1 /\ Len(a) + 2 + (i + 4) = j + 4
          /\ j + 3 <= Len(y) => i + 3 <= Len(b)
          /\ j + 4 <= Len(y) => i + 4 <= Len(b)
      BY <1>9, <2>2
    <3> HIDE DEF i
    <3>3. MarkerAt(b, i)
      BY <1>13, <1>15, <3>1
    <3>4. i + 2 <= Len(b)
      <4>1. OpensAt(b, i) \/ ClosesAt(b, i)
        BY <3>1, <3>3, MarkerIs
      <4> QED  BY <4>1 DEF OpensAt, ClosesAt
    <3>5. /\ i - 1 >= 1 => b[i - 1] # "{"
          /\ i - 2 >= 1 => b[i - 2] # "{"
          /\ i + 3 <= Len(b) => b[i + 3] # "}"
          /\ i + 4 <= Len(b) => b[i + 4] # "}"
      BY <3>1, <3>3, ApartIs
    <3>6. i - 1 <= Len(b) /\ i - 2 <= Len(b)
      BY <1>9, <3>1, <3>4
    <3>7. y[j - 1] # "{"
      <4>1. CASE i - 1 >= 1
        <5>1. y[Len(a) + 2 + (i - 1)] = b[i - 1]
          BY <1>12, <3>2, <3>6, <4>1
        <5> QED  BY <3>2, <3>5, <4>1, <5>1
      <4>2. CASE ~ (i - 1 >= 1)
        BY <1>11, <3>2, <4>2
      <4> QED  BY <4>1, <4>2
    <3>8. y[j - 2] # "{"
      <4>1. CASE i - 2 >= 1
        <5>1. y[Len(a) + 2 + (i - 2)] = b[i - 2]
          BY <1>12, <3>2, <3>6, <4>1
        <5> QED  BY <3>2, <3>5, <4>1, <5>1
      <4>2. CASE ~ (i - 2 >= 1)
        BY <1>11, <3>2, <4>2
      <4> QED  BY <4>1, <4>2
    <3>9. j + 3 <= Len(y) => y[j + 3] # "}"
      <4> SUFFICES ASSUME j + 3 <= Len(y)  PROVE y[j + 3] # "}"
        OBVIOUS
      <4>1. y[Len(a) + 2 + (i + 3)] = b[i + 3]
        BY <1>12, <3>2
      <4> QED  BY <3>2, <3>5, <4>1
    <3>10. j + 4 <= Len(y) => y[j + 4] # "}"
      <4> SUFFICES ASSUME j + 4 <= Len(y)  PROVE y[j + 4] # "}"
        OBVIOUS
      <4>1. y[Len(a) + 2 + (i + 4)] = b[i + 4]
        BY <1>12, <3>2
      <4> QED  BY <3>2, <3>5, <4>1
    <3> QED  BY <3>7, <3>8, <3>9, <3>10
  <2> QED  BY <1>14, <1>15, <2>1, <2>2
<1>16. Apart(y)
  BY <1>5, <1>15, ApartIs
<1> QED  BY <1>5, <1>16 DEF y, v

\* For every sequence of characters, cut anywhere in two and joined as revise_contract()
\* joins chunks (together.py:265): clean_revision() (redline.py:13-18) of the whole is that
\* of the parts, if the first closes the deletions it opens, and closes the insertions it
\* opens or has, as the second, no brace that touches a marker.
THEOREM EveryRedlineInParts ==
  \A r \in Seq(Characters) : CleanInParts(r)
<1>1. ASSUME NEW a \in Text, NEW b \in Text, ClosesDeletions(a),
             ClosesInsertions(a) \/ (Apart(a) /\ Apart(b))
      PROVE  Clean(a \o (Break \o b)) = Clean(a) \o (Break \o Clean(b))
  <2> DEFINE x == WithoutDeletions[a]
             y == WithoutDeletions[b]
             w == Unwrapped[x]
             z == Unwrapped[y]
  <2>1. /\ Replaces(WithoutDeletions, Deletion, Nothing) /\ Cuts(Deletion, Nothing)
        /\ Replaces(Unwrapped, Insertion, Inserted) /\ Cuts(Insertion, Inserted)
        /\ Replaces(Stripped, Stray, Nothing) /\ Cuts(Stray, Nothing)
    BY Replacements
  <2>2. x \in Text /\ y \in Text
    BY <1>1, <2>1 DEF Replaces
  <2>3. ~Has(WithoutDeletions[a], Open("-"))
    BY <1>1 DEF ClosesDeletions, DelOpen, Open
  <2>4. WithoutDeletions[a \o (Break \o b)] = x \o (Break \o y)
    BY <1>1, <2>1, <2>3, ChangesFound, ClosedInParts
  <2>5. Clean(a \o (Break \o b)) = Stripped[Unwrapped[x \o (Break \o y)]]
    BY <2>4, Zenon DEF Clean
  <2>6. Clean(a) = Stripped[w] /\ Clean(b) = Stripped[z]
    BY DEF Clean
  <2>7. ASSUME NEW p \in Text, NEW q \in Text
        PROVE  Stripped[p \o (Break \o q)] = Stripped[p] \o (Break \o Stripped[q])
    <3>1. Break \o q \in Text
      BY BreakFirst
    <3>2. Stripped[p \o (Break \o q)] = Stripped[p] \o Stripped[Break \o q]
      BY <3>1, WholeBreak, StrippedInParts
    <3>3. Stripped[Break \o q] = Break \o Stripped[q]
      BY <2>1, BreakStays
    <3> QED  BY <3>2, <3>3, Zenon
  <2>8. CASE ClosesInsertions(a)
    <3>1. ~Has(Unwrapped[x], Open("+"))
      BY <2>8 DEF ClosesInsertions, InsOpen, Open
    <3> HIDE DEF x, y
    <3>2. Unwrapped[x \o (Break \o y)] = w \o (Break \o z)
      BY <2>1, <2>2, <3>1, ChangesFound, ClosedInParts
    <3>3. w \in Text /\ z \in Text
      BY <2>1, <2>2 DEF Replaces
    <3> HIDE DEF w, z
    <3>4. Stripped[w \o (Break \o z)] = Stripped[w] \o (Break \o Stripped[z])
      BY <2>7, <3>3
    <3> QED  BY <2>5, <2>6, <3>2, <3>4, Zenon
  <2>9. CASE Apart(a) /\ Apart(b)
    <3>1. Apart(x) /\ Apart(y)
      <4>1. \A r \in Text : Nothing[r] = <<>>
        BY DEF Nothing, Text
      <4> QED  BY <1>1, <2>1, <2>9, <4>1, ApartStays
    <3> HIDE DEF x, y
    <3> DEFINE t == x \o (Break \o y)
    <3>2. t \in Text /\ Apart(t)
      BY <2>2, <3>1, JoinedApart
    <3> HIDE DEF t
    <3>3. Stripped[Unwrapped[t]] = Stripped[t]
      BY <3>2, StrippedOfUnwrapped
    <3>4. Stripped[w] = Stripped[x] /\ Stripped[z] = Stripped[y]
      BY <2>2, <3>1, StrippedOfUnwrapped
    <3>5. Stripped[x \o (Break \o y)] = Stripped[x] \o (Break \o Stripped[y])
      BY <2>2, <2>7
    <3> HIDE DEF w, z
    <3> QED  BY <2>5, <2>6, <3>3, <3>4, <3>5, Zenon DEF t
  <2> QED  BY <1>1, <2>8, <2>9
<1>2. ASSUME NEW a \in Text, NEW b \in Text  PROVE Joined(a, b) = a \o (Break \o b)
  <2>1. Break \in Text
    BY <1>2, BreakFirst
  <2>2. (a \o Break) \o b = a \o (Break \o b)
    BY <1>2, <2>1, ThreeTexts, Zenon
  <2>3. Joined(a, b) = (a \o Break) \o b
    BY Zenon DEF Joined, Break
  <2> QED  BY <2>2, <2>3, Zenon
<1>3. ASSUME NEW a \in Text  PROVE Clean(a) \in Text
  BY <1>3, Replacements DEF Replaces, Clean
<1>4. ASSUME NEW r \in Text, NEW n \in 0 .. Len(r)
      PROVE  LET first == SubSeq(r, 1, n)
                 rest  == SubSeq(r, n + 1, Len(r))
             IN  /\ ClosesDeletions(first)
                 /\ ClosesInsertions(first) \/ (Apart(first) /\ Apart(rest))
                 => Clean(Joined(first, rest)) = Joined(Clean(first), Clean(rest))
  <2> DEFINE first == SubSeq(r, 1, n)
             rest  == SubSeq(r, n + 1, Len(r))
  <2>1. first \in Text /\ rest \in Text
    BY <1>4, StartAndRest DEF Rest
  <2> HIDE DEF first, rest
  <2> SUFFICES ASSUME ClosesDeletions(first),
                      ClosesInsertions(first) \/ (Apart(first) /\ Apart(rest))
               PROVE  Clean(Joined(first, rest)) = Joined(Clean(first), Clean(rest))
    BY DEF first, rest
  <2>2. Clean(first \o (Break \o rest)) = Clean(first) \o (Break \o Clean(rest))
    BY <1>1, <2>1
  <2>3. Clean(first) \in Text /\ Clean(rest) \in Text
    BY <1>3, <2>1
  <2>4. /\ Joined(first, rest) = first \o (Break \o rest)
        /\ Joined(Clean(first), Clean(rest)) = Clean(first) \o (Break \o Clean(rest))
    BY <1>2, <2>1, <2>3
  <2> QED  BY <2>2, <2>4, Zenon
<1> QED  BY <1>4 DEF CleanInParts, Text

\* What is written piece by piece is a text.
RedlineIsText == input[1] = "redline" => input[2] \in Seq(Characters)

LEMMA RedlineStaysText ==
  /\ Init => RedlineIsText
  /\ RedlineIsText /\ [Next]_input => RedlineIsText'
<1>1. Init => RedlineIsText
  BY DEF Init, RedlineIsText
<1>2. ASSUME RedlineIsText, [Next]_input  PROVE RedlineIsText'
  <2>1. CASE UNCHANGED input
    BY <1>2, <2>1 DEF RedlineIsText
  <2>2. CASE PickRedline
    <3>1. input'[2] = <<>>
      BY <2>2 DEF PickRedline, Pick
    <3> QED  BY <3>1, EmptySeq DEF RedlineIsText
  <2>3. CASE WriteRedline
    <3>1. PICK piece \in Pieces : input' = <<"redline", input[2] \o piece, input[3] + 1>>
      BY <2>3 DEF WriteRedline
    <3>2. input[2] \in Seq(Characters)
      BY <1>2, <2>3 DEF RedlineIsText, WriteRedline
    <3>3. piece \in Seq(Characters)
      <4>1. "{" \in Characters /\ "}" \in Characters /\ "-" \in Characters /\ "+" \in Characters
        BY DEF Characters
      <4>2. \A p, q, s \in Characters : <<p, q, s>> \in Seq(Characters)
        OBVIOUS
      <4>3. \A w \in Markers : w \in Seq(Characters)
        BY <4>1, <4>2 DEF Markers, DelOpen, DelClose, InsOpen, InsClose
      <4>4. \A ch \in Characters : <<ch>> \in Seq(Characters)
        OBVIOUS
      <4>5. Letters \cup {"{", "}", "-", "+"} \subseteq Characters
        BY DEF Characters
      <4> QED  BY <4>3, <4>4, <4>5 DEF Pieces
    <3>4. input[2] \o piece \in Seq(Characters)
      BY <3>2, <3>3, ConcatProperties
    <3>5. input'[2] = input[2] \o piece
      BY <3>1
    <3> QED  BY <3>4, <3>5 DEF RedlineIsText
  <2>4. CASE PickMachine \/ PickText \/ PickUpload
    BY <2>4 DEF PickMachine, PickText, PickUpload, Pick, RedlineIsText
  <2> QED  BY <1>2, <2>1, <2>2, <2>3, <2>4 DEF Next
<1> QED  BY <1>1, <1>2

\* The redlines of the runs are texts, so what the run checks holds of redlines of any
\* number of pieces, over any letters: clean_revision() leaves no marker and what
\* renderRedline() shows, ...
THEOREM DownloadsAreShown == Spec => []DownloadIsShown
<1>1. RedlineIsText => DownloadIsShown
  BY EveryDownloadShown DEF RedlineIsText, DownloadIsShown
<1> QED  BY <1>1, RedlineStaysText, PTL DEF Spec

\* ... and a chunk of revise_contract() with no open deletion leaves the others alone.
THEOREM RedlinesInParts == Spec => []ChunksIndependent
<1>1. RedlineIsText => ChunksIndependent
  BY EveryRedlineInParts DEF RedlineIsText, ChunksIndependent
<1> QED  BY <1>1, RedlineStaysText, PTL DEF Spec
=============================================================================

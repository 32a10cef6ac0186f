-------------------------- MODULE OrcaBridgeProofs --------------------------
(***************************************************************************)
(* What OrcaBridge promises, for any processes, callers and fields: the    *)
(* row of machine_snapshots implements the one durable machine.            *)
(*                                                                         *)
(* One caller works on the run at a time (Alone), so everything in memory  *)
(* belongs to it.  BridgeInv says of it, at each await, which machine it   *)
(* works on, whether that machine is registered, and that it is what the   *)
(* snapshot can become.                                                    *)
(***************************************************************************)
EXTENDS OrcaBridge, TLAPS

-----------------------------------------------------------------------------
(* The contract machine: events lead on, and keep its parts together.        *)

Rank(s) == CASE s = "received" -> 0 [] s = "validating" -> 1 [] OTHER -> 2

HasRow(tr, from, event, guard, to, action) ==
  /\ tr.from = from
  /\ tr.event = event
  /\ tr.guard = guard
  /\ tr.to = to
  /\ tr.action = action

\* A row of the table is read by its five columns.
LEMMA RowHasRow ==
  ASSUME NEW from, NEW event, NEW guard, NEW to, NEW action
  PROVE  HasRow(Row(from, event, guard, to, action), from, event, guard, to, action)
BY DEF HasRow, Row

\* The transition table, read row by row.
LEMMA TableRows ==
  ASSUME NEW tr \in Transitions
  PROVE  \/ HasRow(tr, "received", "EXTRACTED", "", "validating", "record_extracted")
         \/ HasRow(tr, "received", "EVALUATE", "", "received", "")
         \/ HasRow(tr, "received", "EXTRACTION_FAILED", "", "error", "record_error")
         \/ HasRow(tr, "received", "TIMEOUT", "", "error", "record_error")
         \/ HasRow(tr, "validating", "EXTRACTED", "", "validating", "")
         \/ HasRow(tr, "validating", "EVALUATE", "all_required_present", "valid",
                   "record_valid")
         \/ HasRow(tr, "validating", "EVALUATE", "missing_required", "invalid",
                   "record_invalid")
         \/ HasRow(tr, "validating", "EXTRACTION_FAILED", "", "error", "record_error")
         \/ HasRow(tr, "validating", "TIMEOUT", "", "error", "record_error")
BY RowHasRow DEF Transitions

\* Where record_* actions take the machine is another machine.
LEMMA FiredTyped ==
  ASSUME NEW m \in Machines, NEW tr \in Transitions, NEW missing \in SUBSET Names
  PROVE  Fired(m, tr, missing) \in Machines
<1> DEFINE ctx == Computed(tr.action, m.ctx, missing)
<1>1. tr.to \in States
  BY TableRows DEF HasRow, States
<1>2. m.ctx \in Contexts
  BY DEF Machines
<1>3. tr.action \in {"record_extracted", "record_valid", "record_invalid", "record_error", ""}
  BY TableRows DEF HasRow
<1>4. CASE tr.action = "record_extracted"
  BY <1>1, <1>2, <1>4 DEF Fired, Computed, Machines, Contexts
<1>5. CASE tr.action = "record_valid"
  BY <1>1, <1>2, <1>5 DEF Fired, Computed, Machines, Contexts, Verdicts, Reasons
<1>6. CASE tr.action = "record_invalid"
  BY <1>1, <1>2, <1>6 DEF Fired, Computed, Machines, Contexts, Verdicts, Reasons
<1>7. CASE tr.action = "record_error"
  BY <1>1, <1>2, <1>7 DEF Fired, Computed, Machines, Contexts, Verdicts, Reasons
<1>8. CASE tr.action = ""
  BY <1>1, <1>2, <1>8 DEF Fired, Computed, Machines, Contexts
<1> QED
  BY <1>3, <1>4, <1>5, <1>6, <1>7, <1>8

\* An event leaves a machine as it is, or takes it further.
LEMMA FiredLeadsOn ==
  ASSUME NEW m \in Machines, NEW event \in Events, NEW tr \in Enabled(m, event),
         NEW missing \in SUBSET Names
  PROVE  \/ Fired(m, tr, missing) = m
         \/ Rank(Fired(m, tr, missing).state) > Rank(m.state)
<1>1. m = [state |-> m.state, ctx |-> m.ctx]
  BY DEF Machines
<1>2. CASE tr.action = "" /\ tr.to = m.state
  BY <1>1, <1>2 DEF Fired, Computed
<1>3. CASE Rank(tr.to) > Rank(m.state)
  BY <1>3 DEF Fired
<1>4. /\ Rank("received") = 0 /\ Rank("validating") = 1 /\ Rank("valid") = 2
      /\ Rank("invalid") = 2 /\ Rank("error") = 2
  BY DEF Rank
<1>5. tr \in Transitions /\ tr.from = m.state
  BY DEF Enabled
<1>6. \/ tr.action = "" /\ tr.to = m.state
      \/ m.state = "received" /\ tr.to \in {"validating", "error"}
      \/ m.state = "validating" /\ tr.to \in {"valid", "invalid", "error"}
  BY <1>5, TableRows DEF HasRow
<1>7. CASE m.state = "received" /\ tr.to \in {"validating", "error"}
  <2>1. Rank(m.state) = 0 /\ Rank(tr.to) \in {1, 2}
    BY <1>4, <1>7
  <2> QED
    BY <1>3, <2>1
<1>8. CASE m.state = "validating" /\ tr.to \in {"valid", "invalid", "error"}
  <2>1. Rank(m.state) = 1 /\ Rank(tr.to) = 2
    BY <1>4, <1>8
  <2> QED
    BY <1>3, <2>1
<1> QED
  BY <1>2, <1>6, <1>7, <1>8

\* An event keeps state, verdict and reasons together.
LEMMA FiredCoherent ==
  ASSUME NEW m \in Machines, Coherent(m), NEW event \in Events,
         NEW tr \in Enabled(m, event), NEW missing \in SUBSET Names
  PROVE  Coherent(Fired(m, tr, missing))
<1>1. tr \in Transitions /\ tr.from = m.state /\ GuardHolds(tr.guard, m.ctx)
  BY DEF Enabled
<1>2. m.ctx \in Contexts
  BY DEF Machines
<1>3. CASE tr.action = ""
  BY <1>1, <1>2, <1>3, TableRows DEF HasRow, Coherent, Fired, Computed
<1>4. CASE tr.action = "record_extracted"
  BY <1>1, <1>2, <1>4, TableRows DEF HasRow, Coherent, Fired, Computed, Contexts
<1>5. CASE tr.action = "record_valid"
  BY <1>1, <1>2, <1>5, TableRows DEF HasRow, Coherent, Fired, Computed, Contexts, GuardHolds
<1>6. CASE tr.action = "record_invalid"
  BY <1>1, <1>2, <1>6, TableRows DEF HasRow, Coherent, Fired, Computed, Contexts, GuardHolds
<1>7. CASE tr.action = "record_error"
  BY <1>1, <1>2, <1>7, TableRows DEF HasRow, Coherent, Fired, Computed, Contexts
<1> QED
  BY <1>1, <1>3, <1>4, <1>5, <1>6, <1>7, TableRows DEF HasRow

\* What an event makes of a machine is a machine.
LEMMA AfterTyped ==
  ASSUME NEW m \in Machines
  PROVE  After(m) \subseteq Machines
BY FiredTyped DEF After, Enabled

\* What an event makes of a machine is that machine, or in a later state.
LEMMA AfterLeadsOn ==
  ASSUME NEW m \in Machines, NEW n \in After(m)
  PROVE  n = m \/ Rank(n.state) > Rank(m.state)
BY FiredLeadsOn DEF After

\* What a machine may be later is a machine.
LEMMA LaterTyped ==
  ASSUME NEW m \in Machines
  PROVE  Later(m) \subseteq Machines
BY AfterTyped DEF Later

\* Coherence is kept by whatever a machine may become.
LEMMA LaterCoherent ==
  ASSUME NEW m \in Machines, Coherent(m), NEW n \in Later(m)
  PROVE  Coherent(n)
<1>1. \A k \in Machines : Coherent(k) => \A l \in After(k) : Coherent(l)
  BY FiredCoherent DEF After
<1> QED
  BY <1>1, AfterTyped DEF Later

\* Two rounds are enough: what comes after what may be later may be later itself.
LEMMA LaterClosed ==
  ASSUME NEW m \in Machines, NEW n \in Later(m), NEW k \in After(n)
  PROVE  k \in Later(m)
<1>1. CASE n = m \/ n \in After(m)
  BY <1>1 DEF Later
<1>2. CASE n # m /\ n \notin After(m)
  <2>1. PICK l \in After(m) : n \in After(l)
    BY <1>2 DEF Later
  <2>2. l \in Machines /\ n \in Machines /\ k \in Machines
    BY <2>1, AfterTyped
  <2>3. l # m /\ n # l
    BY <1>2, <2>1
  <2>4. Rank(l.state) > Rank(m.state) /\ Rank(n.state) > Rank(l.state)
    BY <2>1, <2>2, <2>3, AfterLeadsOn
  <2>5. \A s : Rank(s) \in 0 .. 2
    BY DEF Rank
  <2>6. ~ Rank(k.state) > Rank(n.state)
    BY <2>4, <2>5
  <2>7. k = n
    BY <2>2, <2>6, AfterLeadsOn
  <2> QED
    BY <2>7
<1> QED
  BY <1>1, <1>2

\* The machine a run starts with is coherent.
LEMMA InitialCoherent == InitialMachine \in Machines /\ Coherent(InitialMachine)
BY DEF InitialMachine, Machines, States, Contexts, Verdicts, Reasons, Coherent

-----------------------------------------------------------------------------
(* The invariant.                                                            *)

Active(c) == call[c].pc \notin {"idle", "gone"}

OneActive == \A c, d \in Callers : Active(c) /\ Active(d) => c = d

\* What is registered is the machine of the caller that is active, in its process.
RegistryOwned ==
  \A p \in Procs :
    registry[p] # None => Active(registry[p]) /\ ProcOf[registry[p]] = p

\* What the active caller knows where it waits.
CallerKnows(c) ==
  LET pc == call[c].pc
  IN  /\ pc \in {"exists", "load"} => registry[ProcOf[c]] = None
      /\ pc = "load" => call[c].ref = c /\ (call[c].existed <=> snapshot # None)
      /\ pc = "fire" => call[c].ref = c /\ registry[ProcOf[c]] = c
      /\ pc \in {"saveSelect", "saveCommit"} =>
           /\ call[c].ref = c
           /\ call[c].snap = obj[c]
           /\ IF call[c].initial
              THEN /\ registry[ProcOf[c]] = None
                   /\ snapshot = None
                   /\ call[c].snap = InitialMachine
              ELSE registry[ProcOf[c]] = c

MemoryLater ==
  \A p \in Procs :
    registry[p] # None =>
      /\ snapshot # None
      /\ obj[registry[p]] \in Later(snapshot)

BridgeInv ==
  /\ BridgeTypeOK
  /\ OneActive
  /\ RegistryOwned
  /\ \A c \in Callers : CallerKnows(c)
  /\ MemoryLater
  /\ snapshot # None => Coherent(snapshot)
-----------------------------------------------------------------------------
(* It is inductive.                                                          *)

\* All that is in memory belongs to the active caller.
LEMMA Possessions ==
  ASSUME BridgeInv, NEW c \in Callers, Active(c)
  PROVE  /\ \A d \in Callers : d # c => ~ Active(d)
         /\ \A p \in Procs : p # ProcOf[c] => registry[p] = None
         /\ registry[ProcOf[c]] \in {None, c}
BY BridgeAssumption DEF BridgeInv, BridgeTypeOK, OneActive, RegistryOwned

\* Nothing is said of a caller that has not entered, or has died.
LEMMA InactiveKnowsNothing ==
  ASSUME NEW c \in Callers, ~ Active(c)
  PROVE  CallerKnows(c)
BY DEF Active, CallerKnows

\* It holds initially.
LEMMA InitInv == BridgeInit => BridgeInv
<1> SUFFICES ASSUME BridgeInit PROVE BridgeInv
  OBVIOUS
<1>1. Idle \in Calls
  BY DEF Idle, Calls
<1>2. BridgeTypeOK
  BY <1>1, BridgeAssumption DEF BridgeInit, BridgeTypeOK
<1>3. \A c \in Callers : ~ Active(c)
  BY DEF BridgeInit, Active, Idle
<1>4. \A p \in Procs : registry[p] = None
  BY DEF BridgeInit
<1> QED
  BY <1>2, <1>3, <1>4, InactiveKnowsNothing
  DEF BridgeInv, BridgeInit, OneActive, RegistryOwned, MemoryLater

\* Entering get_or_create(): a hit in the registry is a hit of the caller's own machine.
LEMMA EnterInv ==
  ASSUME BridgeInv, NEW c \in Callers, Enter(c)
  PROVE  BridgeInv'
<1> DEFINE p == ProcOf[c]
<1>1. PICK event \in Events \cup {"none"}, missing \in SUBSET Names :
        call' = [call EXCEPT ![c] = Entered(c, event, missing)]
  <2>1. PICK event \in Events \cup {"none"},
             m \in IF call[c].pc = "idle" THEN {{}} ELSE SUBSET Names :
          call' = [call EXCEPT ![c] =
                     Entered(c, event, IF event = "EXTRACTED" THEN m ELSE {})]
    BY DEF Enter
  <2>2. (IF event = "EXTRACTED" THEN m ELSE {}) \in SUBSET Names
    OBVIOUS
  <2> QED
    BY <2>1, <2>2
<1>2. UNCHANGED <<registry, obj, snapshot, dbErrors, crashes>>
  BY DEF Enter
<1>3. p \in Procs /\ call \in [Callers -> Calls] /\ registry[p] \in Callers \cup {None}
  BY BridgeAssumption DEF BridgeInv, BridgeTypeOK
<1>4. registry[p] \in {None, c}
  BY <1>3, BridgeAssumption DEF Enter, Alone, BridgeInv, RegistryOwned, Active
<1>5. /\ call'[c] \in Calls
      /\ call'[c].pc \in {"exists", "returned", "fire"}
      /\ call'[c].pc = "exists" => registry[p] = None
      /\ call'[c].pc = "fire" => call'[c].ref = c /\ registry[p] = c
  <2>1. call'[c] = Entered(c, event, missing)
    BY <1>1, <1>3
  <2>2. CASE registry[p] = None
    <3>1. Entered(c, event, missing) =
            [pc |-> "exists", event |-> event, missing |-> missing, existed |-> FALSE,
             ref |-> None, snap |-> None, sawRow |-> FALSE, initial |-> FALSE]
      BY <2>2 DEF Entered, Idle
    <3> QED
      BY <2>1, <2>2, <3>1 DEF Calls, Suspended
  <2>3. CASE registry[p] = c
    <3>1. c # None
      BY BridgeAssumption
    <3>2. Entered(c, event, missing) =
            [pc |-> AfterGet(event), event |-> event, missing |-> missing,
             existed |-> FALSE, ref |-> c, snap |-> None, sawRow |-> FALSE,
             initial |-> FALSE]
      BY <2>3, <3>1 DEF Entered, Idle
    <3>3. AfterGet(event) \in {"returned", "fire"}
      BY DEF AfterGet
    <3> QED
      BY <2>1, <2>3, <3>2, <3>3 DEF Calls, Suspended, Ended
  <2> QED
    BY <1>4, <2>2, <2>3
<1>6. \A d \in Callers : d # c => call'[d] = call[d] /\ ~ Active(d)
  BY <1>1, <1>3 DEF Enter, Alone, Active
<1>7. BridgeTypeOK'
  BY <1>1, <1>2, <1>5 DEF BridgeInv, BridgeTypeOK
<1>8. Active(c)' /\ \A d \in Callers : d # c => ~ Active(d)'
  BY <1>5, <1>6 DEF Active
<1>9. OneActive'
  BY <1>8 DEF OneActive
<1>10. RegistryOwned'
  BY <1>2, <1>6, <1>8 DEF BridgeInv, RegistryOwned, BridgeTypeOK
<1>11. CallerKnows(c)'
  BY <1>2, <1>5 DEF CallerKnows
<1>12. \A d \in Callers : CallerKnows(d)'
  BY <1>8, <1>11, InactiveKnowsNothing DEF Active, CallerKnows
<1>13. MemoryLater' /\ (snapshot' # None => Coherent(snapshot'))
  BY <1>2 DEF BridgeInv, MemoryLater
<1> QED
  BY <1>7, <1>9, <1>10, <1>12, <1>13 DEF BridgeInv

\* A step of the active caller: what there is to show of it.
LEMMA CallStep ==
  ASSUME BridgeInv, NEW c \in Callers, Active(c),
         NEW x \in Calls, x.pc \notin {"idle", "gone"},
         call' = [call EXCEPT ![c] = x],
         registry' \in [Procs -> Callers \cup {None}],
         \A p \in Procs : p # ProcOf[c] => registry'[p] = registry[p],
         registry'[ProcOf[c]] \in {None, c},
         obj' \in [Callers -> Machines \cup {None}],
         snapshot' \in Machines \cup {None},
         dbErrors' \in 0 .. MaxDbErrors,
         UNCHANGED crashes,
         CallerKnows(c)',
         registry'[ProcOf[c]] = c => snapshot' # None /\ obj'[c] \in Later(snapshot'),
         snapshot' # None => Coherent(snapshot')
  PROVE  BridgeInv'
<1>1. /\ call'[c] = x
      /\ \A d \in Callers : d # c => call'[d] = call[d]
      /\ call' \in [Callers -> Calls]
  BY DEF BridgeInv, BridgeTypeOK
<1>2. BridgeTypeOK'
  BY <1>1 DEF BridgeInv, BridgeTypeOK
<1>3. Active(c)' /\ \A d \in Callers : d # c => ~ Active(d)'
  BY <1>1, Possessions DEF Active
<1>4. \A p \in Procs : registry'[p] \in {None, c} /\ (registry'[p] = c => p = ProcOf[c])
  BY BridgeAssumption, Possessions
<1>5. OneActive'
  BY <1>3 DEF OneActive
<1>6. RegistryOwned'
  BY <1>3, <1>4 DEF RegistryOwned
<1>7. \A d \in Callers : CallerKnows(d)'
  BY <1>3, InactiveKnowsNothing DEF Active, CallerKnows
<1>8. MemoryLater'
  BY <1>4 DEF MemoryLater
<1> QED
  BY <1>2, <1>5, <1>6, <1>7, <1>8 DEF BridgeInv

\* The parts of the type invariant that every step needs.
LEMMA Parts ==
  ASSUME BridgeInv, NEW c \in Callers
  PROVE  /\ ProcOf[c] \in Procs
         /\ registry \in [Procs -> Callers \cup {None}]
         /\ obj \in [Callers -> Machines \cup {None}]
         /\ snapshot \in Machines \cup {None}
         /\ dbErrors \in 0 .. MaxDbErrors
         /\ call \in [Callers -> Calls]
         /\ call[c] \in Calls
         /\ CallerKnows(c)
         /\ registry[ProcOf[c]] = c => snapshot # None /\ obj[c] \in Later(snapshot)
         /\ snapshot # None => Coherent(snapshot)
         /\ None \notin Callers
         /\ None \notin Machines
BY BridgeAssumption DEF BridgeInv, BridgeTypeOK, MemoryLater

\* persistence.exists() tells whether there is a row, and nobody else writes one.
LEMMA CheckExistsInv ==
  ASSUME BridgeInv, NEW c \in Callers, CheckExists(c)
  PROVE  BridgeInv'
<1>1. Active(c) /\ call[c].pc = "exists" /\ registry[ProcOf[c]] = None
  BY Parts DEF CheckExists, Active, CallerKnows
<1>2. UNCHANGED <<registry, snapshot, dbErrors, crashes>>
  BY DEF CheckExists
<1>3. CASE snapshot = None /\ call[c].event # "none"
  <2> DEFINE x == [call[c] EXCEPT !.pc = "raised"]
  <2>1. x \in Calls /\ x.pc = "raised"
    BY Parts DEF Calls, Ended
  <2>2. call' = [call EXCEPT ![c] = x] /\ UNCHANGED obj
    BY <1>3 DEF CheckExists
  <2>3. CallerKnows(c)'
    BY <2>1, <2>2, Parts DEF CallerKnows
  <2> QED
    BY <1>1, <1>2, <2>1, <2>2, <2>3, Parts, CallStep
<1>4. CASE ~ (snapshot = None /\ call[c].event # "none")
  <2> DEFINE there == snapshot # None
             x == [call[c] EXCEPT !.pc = "load", !.existed = there, !.ref = c]
  <2>1. there \in BOOLEAN
    OBVIOUS
  <2>2. call' = [call EXCEPT ![c] = x]
    BY <1>4 DEF CheckExists
  <2>7. x \in Calls /\ x.pc = "load" /\ x.ref = c /\ (x.existed <=> there)
    <3> HIDE DEF there
    <3>1. call[c] \in Calls
      BY Parts
    <3>2. x \in Calls
      BY <2>1, <3>1 DEF Calls, Suspended
    <3>3. x.pc = "load" /\ x.ref = c
      BY <3>1 DEF Calls
    <3>4. x.existed = there
      BY <3>1 DEF Calls
    <3> QED
      BY <3>2, <3>3, <3>4
  <2>3. obj' = [obj EXCEPT ![c] = InitialMachine]
    BY <1>4 DEF CheckExists
  <2>4. obj' \in [Callers -> Machines \cup {None}]
    BY <2>3, Parts, InitialCoherent
  <2>5. CallerKnows(c)'
    BY <1>1, <1>2, <2>2, <2>7, Parts DEF CallerKnows
  <2>6. c # None
    BY Parts
  <2> QED
    BY <1>1, <1>2, <2>2, <2>4, <2>5, <2>6, <2>7, Parts, CallStep
<1> QED
  BY <1>3, <1>4

\* What a machine may be later includes itself.
LEMMA LaterItself ==
  ASSUME NEW m
  PROVE  m \in Later(m)
BY DEF Later

\* A call that turns to saving a machine.
LEMMA SavingTyped ==
  ASSUME NEW k \in Calls, NEW n \in Machines, NEW initial \in BOOLEAN
  PROVE  LET x == [k EXCEPT !.pc = "saveSelect", !.snap = n, !.initial = initial]
         IN  /\ x \in Calls /\ x.pc = "saveSelect" /\ x.ref = k.ref
             /\ x.snap = n /\ (x.initial <=> initial)
<1> DEFINE x == [k EXCEPT !.pc = "saveSelect", !.snap = n, !.initial = initial]
<1>1. x \in Calls
  BY DEF Calls, Suspended
<1>2. x.pc = "saveSelect" /\ x.ref = k.ref /\ x.snap = n
  BY DEF Calls
<1>3. x.initial = initial
  BY DEF Calls
<1> QED
  BY <1>1, <1>2, <1>3

\* load_or_start(): what is loaded is the snapshot, what is started is initial.
LEMMA LoadOrStartInv ==
  ASSUME BridgeInv, NEW c \in Callers, LoadOrStart(c)
  PROVE  BridgeInv'
<1> DEFINE m == IF snapshot # None THEN snapshot ELSE InitialMachine
<1>1. /\ Active(c) /\ call[c].pc = "load"
      /\ registry[ProcOf[c]] = None /\ call[c].ref = c
      /\ (call[c].existed <=> snapshot # None)
  BY Parts DEF LoadOrStart, Active, CallerKnows
<1>2. UNCHANGED <<snapshot, dbErrors, crashes>> /\ obj' = [obj EXCEPT ![c] = m]
  BY DEF LoadOrStart
<1>3. m \in Machines /\ obj' \in [Callers -> Machines \cup {None}] /\ obj'[c] = m
  BY <1>2, Parts, InitialCoherent
<1>4. CASE call[c].existed
  <2> DEFINE x == [call[c] EXCEPT !.pc = AfterGet(call[c].event)]
  <2>1. AfterGet(call[c].event) \in {"returned", "fire"}
    BY DEF AfterGet
  <2>2. x \in Calls /\ x.pc \in {"returned", "fire"} /\ x.ref = c
    BY <1>1, <2>1, Parts DEF Calls, Suspended, Ended
  <2>3. call' = [call EXCEPT ![c] = x] /\ registry' = [registry EXCEPT ![ProcOf[c]] = c]
    BY <1>4 DEF LoadOrStart
  <2>4. /\ registry' \in [Procs -> Callers \cup {None}]
        /\ registry'[ProcOf[c]] = c
        /\ \A p \in Procs : p # ProcOf[c] => registry'[p] = registry[p]
    BY <2>3, Parts
  <2>5. CallerKnows(c)'
    BY <2>2, <2>3, <2>4, Parts DEF CallerKnows
  <2>6. snapshot' # None /\ obj'[c] \in Later(snapshot')
    BY <1>1, <1>2, <1>3, <1>4, LaterItself
  <2> QED
    BY <1>1, <1>2, <1>3, <2>2, <2>3, <2>4, <2>5, <2>6, Parts, CallStep
<1>5. CASE ~ call[c].existed
  <2> DEFINE x == [call[c] EXCEPT !.pc = "saveSelect", !.snap = m, !.initial = TRUE]
  <2>1. /\ x \in Calls /\ x.pc = "saveSelect" /\ x.ref = call[c].ref
        /\ x.snap = m /\ x.initial
    <3>1. call[c] \in Calls
      BY Parts
    <3>2. TRUE \in BOOLEAN
      OBVIOUS
    <3>3. /\ x \in Calls /\ x.pc = "saveSelect" /\ x.ref = call[c].ref
          /\ x.snap = m /\ (x.initial <=> TRUE)
      <4> HIDE DEF m
      <4> QED
        BY <1>3, <3>1, <3>2, SavingTyped, Zenon
    <3> QED
      BY <3>3
  <2>2. call' = [call EXCEPT ![c] = x] /\ UNCHANGED registry
    BY <1>5 DEF LoadOrStart
  <2>3. snapshot = None /\ m = InitialMachine
    BY <1>1, <1>5
  <2>4. CallerKnows(c)'
    <3>1. call'[c] = x
      BY <2>2, Parts
    <3> HIDE DEF x
    <3> QED
      BY <1>1, <1>2, <1>3, <2>1, <2>2, <2>3, <3>1 DEF CallerKnows
  <2>5. c # None
    BY Parts
  <2> QED
    BY <1>1, <1>2, <1>3, <2>1, <2>2, <2>4, <2>5, Parts, CallStep
<1> QED
  BY <1>4, <1>5

\* machine.send(): the machine in memory takes one transition further.
LEMMA FireInv ==
  ASSUME BridgeInv, NEW c \in Callers, Fire(c)
  PROVE  BridgeInv'
<1>1. /\ Active(c) /\ call[c].pc = "fire"
      /\ call[c].ref = c /\ registry[ProcOf[c]] = c
      /\ snapshot # None /\ obj[c] \in Later(snapshot)
  BY Parts DEF Fire, Active, CallerKnows
<1>2. UNCHANGED <<registry, snapshot, dbErrors, crashes>>
  BY DEF Fire
<1>3. obj[c] \in Machines
  BY <1>1, Parts, LaterTyped
<1>4. CASE call' = [call EXCEPT ![c].pc = "returned"] /\ UNCHANGED obj
  <2> DEFINE x == [call[c] EXCEPT !.pc = "returned"]
  <2>1. x \in Calls /\ x.pc = "returned"
    BY Parts DEF Calls, Ended
  <2>2. call' = [call EXCEPT ![c] = x] /\ UNCHANGED obj
    BY <1>4
  <2>3. CallerKnows(c)'
    BY <2>1, <2>2, Parts DEF CallerKnows
  <2> QED
    BY <1>1, <1>2, <2>1, <2>2, <2>3, Parts, CallStep
<1>5. ASSUME NEW next \in After(obj[c]),
             obj' = [obj EXCEPT ![c] = next],
             call' = [call EXCEPT ![c].pc = "saveSelect", ![c].snap = next,
                                  ![c].initial = FALSE]
      PROVE  BridgeInv'
  <2> DEFINE x == [call[c] EXCEPT !.pc = "saveSelect", !.snap = next, !.initial = FALSE]
  <2>1. next \in Machines /\ next \in Later(snapshot)
    BY <1>1, <1>3, AfterTyped, LaterClosed, Parts
  <2>2. /\ x \in Calls /\ x.pc = "saveSelect" /\ x.ref = call[c].ref
        /\ x.snap = next /\ ~ x.initial
    <3>1. call[c] \in Calls
      BY Parts
    <3>2. FALSE \in BOOLEAN
      OBVIOUS
    <3>3. /\ x \in Calls /\ x.pc = "saveSelect" /\ x.ref = call[c].ref
          /\ x.snap = next /\ (x.initial <=> FALSE)
      BY <2>1, <3>1, <3>2, SavingTyped, Zenon
    <3> QED
      BY <3>3
  <2>3. call' = [call EXCEPT ![c] = x]
    BY <1>5
  <2>4. obj' \in [Callers -> Machines \cup {None}] /\ obj'[c] = next
    BY <1>5, <2>1, Parts
  <2>5. CallerKnows(c)'
    <3>1. call'[c] = x
      BY <2>3, Parts
    <3> HIDE DEF x
    <3> QED
      BY <1>1, <1>2, <2>2, <2>4, <3>1 DEF CallerKnows
  <2> QED
    BY <1>1, <1>2, <2>1, <2>2, <2>3, <2>4, <2>5, Parts, CallStep
<1>6. \/ call' = [call EXCEPT ![c].pc = "returned"] /\ UNCHANGED obj
      \/ \E next \in After(obj[c]) :
           /\ obj' = [obj EXCEPT ![c] = next]
           /\ call' = [call EXCEPT ![c].pc = "saveSelect", ![c].snap = next,
                                   ![c].initial = FALSE]
  <2>1. call[c].event \in Events \cup {"none"} /\ call[c].missing \in SUBSET Names
    BY Parts DEF Calls
  <2>2. CASE call[c].event = "none"
    <3>1. Enabled(obj[c], "none") = {}
      <4>1. \A tr \in Transitions : tr.event # "none"
        BY TableRows DEF HasRow
      <4> QED
        BY <4>1 DEF Enabled
    <3> QED
      BY <1>1, <2>2, <3>1 DEF Fire
  <2>3. CASE call[c].event \in Events
    <3>1. ASSUME NEW tr \in Enabled(obj[c], call[c].event)
          PROVE  Fired(obj[c], tr, call[c].missing) \in After(obj[c])
      BY <2>1, <2>3 DEF After
    <3> QED
      BY <1>1, <3>1 DEF Fire
  <2> QED
    BY <2>1, <2>2, <2>3
<1> QED
  BY <1>4, <1>5, <1>6

\* save() looks for the row.
LEMMA SaveSelectInv ==
  ASSUME BridgeInv, NEW c \in Callers, SaveSelect(c)
  PROVE  BridgeInv'
<1> DEFINE there == snapshot # None
           x == [call[c] EXCEPT !.pc = "saveCommit", !.sawRow = there]
<1>1. Active(c) /\ call[c].pc = "saveSelect" /\ registry[ProcOf[c]] \in {None, c}
  BY Parts, Possessions DEF SaveSelect, Active
<1>2. UNCHANGED <<registry, obj, snapshot, dbErrors, crashes>>
  BY DEF SaveSelect
<1>3. call' = [call EXCEPT ![c] = x]
  BY DEF SaveSelect
<1>4. /\ x \in Calls /\ x.pc = "saveCommit" /\ x.ref = call[c].ref
      /\ x.snap = call[c].snap /\ x.initial = call[c].initial
  <2>1. there \in BOOLEAN /\ call[c] \in Calls
    BY Parts
  <2> HIDE DEF there
  <2>2. x \in Calls
    BY <2>1 DEF Calls, Suspended
  <2> QED
    BY <2>1, <2>2 DEF Calls
<1>5. CallerKnows(c)'
  <2>1. call'[c] = x
    BY <1>3, Parts
  <2>2. CallerKnows(c)
    BY Parts
  <2> HIDE DEF x
  <2> QED
    BY <1>1, <1>2, <1>4, <2>1, <2>2 DEF CallerKnows
<1> QED
  BY <1>1, <1>2, <1>3, <1>4, <1>5, Parts, CallStep

\* What a commit that takes effect makes of the snapshot.
LEMMA Committed ==
  ASSUME BridgeInv, NEW c \in Callers, call[c].pc = "saveCommit"
  PROVE  /\ Active(c)
         /\ call[c].ref = c
         /\ call[c].snap = obj[c] /\ call[c].snap \in Machines
         /\ Coherent(call[c].snap)
         /\ IF call[c].initial
            THEN snapshot = None /\ call[c].snap = InitialMachine
                 /\ registry[ProcOf[c]] = None
            ELSE snapshot # None /\ call[c].snap \in Later(snapshot)
                 /\ registry[ProcOf[c]] = c
<1>1. Active(c) /\ CallerKnows(c) /\ call[c].ref = c /\ call[c].snap = obj[c]
  BY Parts DEF Active, CallerKnows
<1>2. CASE call[c].initial
  BY <1>1, <1>2, InitialCoherent DEF CallerKnows
<1>3. CASE ~ call[c].initial
  <2>1. registry[ProcOf[c]] = c
    BY <1>1, <1>3 DEF CallerKnows
  <2>2. snapshot # None /\ obj[c] \in Later(snapshot)
    BY <2>1, Parts
  <2> QED
    BY <1>1, <1>3, <2>1, <2>2, Parts, LaterTyped, LaterCoherent
<1> QED
  BY <1>2, <1>3

\* save() commits: the snapshot catches up with the machine in memory.
LEMMA SaveCommitInv ==
  ASSUME BridgeInv, NEW c \in Callers, SaveCommit(c)
  PROVE  BridgeInv'
<1>1. call[c].pc = "saveCommit" /\ Active(c) /\ registry[ProcOf[c]] \in {None, c}
  BY Committed, Possessions DEF SaveCommit
<1>2. UNCHANGED <<obj, dbErrors, crashes>>
  BY DEF SaveCommit
<1>3. CASE ~ call[c].sawRow /\ snapshot # None
  <2> DEFINE x == [call[c] EXCEPT !.pc = "raised"]
  <2>1. x \in Calls /\ x.pc = "raised"
    BY Parts DEF Calls, Ended
  <2>2. call' = [call EXCEPT ![c] = x] /\ UNCHANGED <<registry, snapshot>>
    BY <1>3 DEF SaveCommit
  <2>3. CallerKnows(c)'
    BY <2>1, <2>2, Parts DEF CallerKnows
  <2> QED
    BY <1>1, <1>2, <2>1, <2>2, <2>3, Parts, CallStep
<1>4. CASE ~ (~ call[c].sawRow /\ snapshot # None)
  <2> DEFINE pc == IF call[c].initial THEN AfterGet(call[c].event) ELSE "returned"
             x  == [call[c] EXCEPT !.pc = pc]
  <2>1. pc \in {"returned", "fire"}
    BY DEF AfterGet
  <2>2. snapshot' = call[c].snap
    BY <1>4 DEF SaveCommit
  <2>3. call' = [call EXCEPT ![c] = x]
    BY <1>4 DEF SaveCommit
  <2>4. /\ registry' \in [Procs -> Callers \cup {None}]
        /\ registry'[ProcOf[c]] = c
        /\ \A p \in Procs : p # ProcOf[c] => registry'[p] = registry[p]
    <3>1. CASE call[c].initial
      BY <1>4, <3>1, Parts DEF SaveCommit
    <3>2. CASE ~ call[c].initial
      BY <1>1, <1>4, <3>2, Parts, Committed DEF SaveCommit
    <3> QED
      BY <3>1, <3>2
  <2>5. x \in Calls /\ x.pc = pc /\ x.ref = call[c].ref
    <3> HIDE DEF pc
    <3> QED
      BY <2>1, Parts DEF Calls, Suspended, Ended
  <2>6. snapshot' \in Machines /\ Coherent(snapshot') /\ obj'[c] \in Later(snapshot')
    BY <1>1, <1>2, <2>2, Committed, LaterItself
  <2>7. snapshot' # None
    BY <2>6, Parts
  <2>8. CallerKnows(c)'
    <3>1. call'[c] = x
      BY <2>3, Parts
    <3>2. call[c].ref = c
      BY <1>1, Committed
    <3> HIDE DEF x
    <3> QED
      BY <2>1, <2>4, <2>5, <3>1, <3>2 DEF CallerKnows
  <2> QED
    BY <1>1, <1>2, <2>1, <2>3, <2>4, <2>5, <2>6, <2>7, <2>8, Parts, CallStep
<1> QED
  BY <1>3, <1>4

\* A failing call leaves the bridge; a commit that fails may have taken effect.
LEMMA BridgeDbErrorInv ==
  ASSUME BridgeInv, NEW c \in Callers, BridgeDbError(c)
  PROVE  BridgeInv'
<1> DEFINE x == [call[c] EXCEPT !.pc = "raised"]
<1>1. Active(c) /\ registry[ProcOf[c]] \in {None, c}
  <2>1. Active(c)
    BY DEF BridgeDbError, Active
  <2> QED
    BY <2>1, Possessions
<1>2. UNCHANGED <<registry, obj, crashes>> /\ dbErrors' \in 0 .. MaxDbErrors
  BY Parts, BridgeAssumption DEF BridgeDbError
<1>3. call' = [call EXCEPT ![c] = x]
  BY DEF BridgeDbError
<1>4. x \in Calls /\ x.pc = "raised"
  BY Parts DEF Calls, Ended
<1>5. CallerKnows(c)'
  BY <1>3, <1>4, Parts DEF CallerKnows
<1>6. CASE UNCHANGED snapshot
  BY <1>1, <1>2, <1>3, <1>4, <1>5, <1>6, Parts, CallStep
<1>7. CASE call[c].pc = "saveCommit" /\ snapshot' = call[c].snap
  <2>1. snapshot' \in Machines /\ Coherent(snapshot') /\ obj'[c] \in Later(snapshot')
    BY <1>2, <1>7, Committed, LaterItself
  <2>2. snapshot' # None
    BY <2>1, Parts
  <2> QED
    BY <1>1, <1>2, <1>3, <1>4, <1>5, <2>1, <2>2, Parts, CallStep
<1> QED
  BY <1>6, <1>7 DEF BridgeDbError

\* A process dies with everything it knew; the snapshot stays.
LEMMA BridgeCrashInv ==
  ASSUME BridgeInv, NEW p \in Procs, BridgeCrash(p)
  PROVE  BridgeInv'
<1> DEFINE gone == [Idle EXCEPT !.pc = "gone"]
<1>1. gone \in Calls /\ gone.pc = "gone"
  BY DEF Idle, Calls, Ended
<1>2. UNCHANGED <<snapshot, dbErrors>> /\ crashes' \in 0 .. MaxCrashes
  BY BridgeAssumption DEF BridgeCrash, BridgeInv, BridgeTypeOK
<1>3. /\ \A q \in Procs : registry'[q] = IF q = p THEN None ELSE registry[q]
      /\ registry' \in [Procs -> Callers \cup {None}]
  BY DEF BridgeCrash, BridgeInv, BridgeTypeOK
<1>4. /\ \A c \in Callers : obj'[c] = IF ProcOf[c] = p THEN None ELSE obj[c]
      /\ obj' \in [Callers -> Machines \cup {None}]
  BY DEF BridgeCrash, BridgeInv, BridgeTypeOK
<1>5. /\ \A c \in Callers : call'[c] = IF ProcOf[c] = p THEN gone ELSE call[c]
      /\ call' \in [Callers -> Calls]
  <2> HIDE DEF gone
  <2>1. call' = [c \in Callers |-> IF ProcOf[c] = p THEN gone ELSE call[c]]
    BY DEF BridgeCrash, gone
  <2> QED
    BY <1>1, <2>1 DEF BridgeInv, BridgeTypeOK
<1>6. BridgeTypeOK'
  BY <1>2, <1>3, <1>4, <1>5 DEF BridgeInv, BridgeTypeOK
<1>7. \A c \in Callers :
        IF ProcOf[c] = p THEN ~ Active(c)' ELSE Active(c)' <=> Active(c)
  BY <1>1, <1>5 DEF Active
<1>8. OneActive'
  BY <1>7 DEF BridgeInv, OneActive
<1>9. RegistryOwned'
  BY <1>3, <1>7 DEF BridgeInv, BridgeTypeOK, RegistryOwned
<1>10. ASSUME NEW c \in Callers
       PROVE  CallerKnows(c)'
  <2>1. CASE ProcOf[c] = p
    BY <1>1, <1>5, <2>1 DEF CallerKnows
  <2>2. CASE ProcOf[c] # p
    <3>1. /\ call'[c] = call[c] /\ obj'[c] = obj[c] /\ snapshot' = snapshot
          /\ registry'[ProcOf[c]] = registry[ProcOf[c]]
      BY <1>2, <1>3, <1>4, <1>5, <2>2, BridgeAssumption
    <3> QED
      BY <3>1, Parts DEF CallerKnows
  <2> QED
    BY <2>1, <2>2
<1>11. MemoryLater'
  <2>1. ASSUME NEW q \in Procs, registry'[q] # None
        PROVE  snapshot' # None /\ obj'[registry'[q]] \in Later(snapshot')
    <3>1. q # p /\ registry'[q] = registry[q]
      BY <1>3, <2>1
    <3>2. registry[q] \in Callers /\ ProcOf[registry[q]] = q
      BY <2>1, <3>1 DEF BridgeInv, BridgeTypeOK, RegistryOwned
    <3>3. obj'[registry'[q]] = obj[registry[q]]
      BY <1>4, <3>1, <3>2
    <3> QED
      BY <1>2, <2>1, <3>1, <3>3 DEF BridgeInv, MemoryLater
  <2> QED
    BY <2>1 DEF MemoryLater
<1> QED
  BY <1>2, <1>6, <1>8, <1>9, <1>10, <1>11 DEF BridgeInv

\* Nothing changes.
LEMMA StutterInv ==
  ASSUME BridgeInv, UNCHANGED bridgeVars
  PROVE  BridgeInv'
<1>1. UNCHANGED <<registry, obj, snapshot, call, dbErrors, crashes>>
  BY DEF bridgeVars
<1>2. BridgeTypeOK'
  BY <1>1 DEF BridgeInv, BridgeTypeOK
<1>3. OneActive' /\ RegistryOwned'
  BY <1>1 DEF BridgeInv, OneActive, RegistryOwned, Active
<1>4. \A c \in Callers : CallerKnows(c)'
  BY <1>1 DEF BridgeInv, CallerKnows
<1>5. MemoryLater' /\ (snapshot' # None => Coherent(snapshot'))
  BY <1>1 DEF BridgeInv, MemoryLater
<1> QED
  BY <1>2, <1>3, <1>4, <1>5 DEF BridgeInv

\* Every step of the bridge keeps it.
LEMMA StepInv == BridgeInv /\ [BridgeNext]_bridgeVars => BridgeInv'
<1> SUFFICES ASSUME BridgeInv, [BridgeNext]_bridgeVars PROVE BridgeInv'
  OBVIOUS
<1>1. ASSUME NEW c \in Callers, Enter(c) PROVE BridgeInv'
  BY <1>1, EnterInv
<1>2. ASSUME NEW c \in Callers, BridgeStep(c) PROVE BridgeInv'
  BY <1>2, CheckExistsInv, LoadOrStartInv, FireInv, SaveSelectInv, SaveCommitInv
  DEF BridgeStep
<1>3. ASSUME NEW c \in Callers, BridgeDbError(c) PROVE BridgeInv'
  BY <1>3, BridgeDbErrorInv
<1>4. ASSUME NEW p \in Procs, BridgeCrash(p) PROVE BridgeInv'
  BY <1>4, BridgeCrashInv
<1> QED
  BY <1>1, <1>2, <1>3, <1>4, StutterInv DEF BridgeNext

-----------------------------------------------------------------------------
(* What follows.                                                             *)

\* The invariant holds in every state of the bridge, for any processes, callers and
\* fields, as long as one caller at a time works on the run (bridge.py).
THEOREM BridgeInvariant == BridgeSpec => []BridgeInv
<1> QED
  BY InitInv, StepInv, PTL DEF BridgeSpec

\* A registered machine is the durable one or what that can still become (bridge.py:46-53).
THEOREM MemoryIsAhead == BridgeSpec => []MemoryAheadOfSnapshot
<1>1. BridgeInv => MemoryAheadOfSnapshot
  BY DEF BridgeInv, MemoryLater, MemoryAheadOfSnapshot
<1> QED
  BY <1>1, BridgeInvariant, PTL

\* What is durable is coherent: a run resumes from a state, a verdict and reasons
\* that belong together (contract_actions.py:27-43).
THEOREM SnapshotsCohere == BridgeSpec => []SnapshotCoherent
<1>1. BridgeInv => SnapshotCoherent
  BY DEF BridgeInv, SnapshotCoherent
<1> QED
  BY <1>1, BridgeInvariant, PTL

\* The vocabulary of the durable machine is that of the bridge.
LEMMA DurableLater ==
  ASSUME NEW m
  PROVE  Durable!Later(m) = Later(m)
<1>1. Durable!Transitions = Transitions
  BY DEF Durable!Transitions, Transitions, Durable!Row, Row
<1>2. \A n, event : Durable!Enabled(n, event) = Enabled(n, event)
  BY <1>1 DEF Durable!Enabled, Enabled, Durable!GuardHolds, GuardHolds
<1>3. \A n, tr, missing : Durable!Fired(n, tr, missing) = Fired(n, tr, missing)
  BY DEF Durable!Fired, Fired, Durable!Computed, Computed
<1>4. \A n : Durable!After(n) = After(n)
  BY <1>2, <1>3 DEF Durable!After, After, Durable!Events, Events
<1> QED
  BY <1>4 DEF Durable!Later, Later

\* Only a commit writes the row, and what it writes the durable machine may become.
LEMMA StepIsDurable ==
  ASSUME BridgeInv, [BridgeNext]_bridgeVars
  PROVE  [Durable!Next]_snapshot
<1>1. ASSUME NEW c \in Callers, call[c].pc = "saveCommit", snapshot' = call[c].snap
      PROVE  Durable!Next
  <2>1. CASE call[c].initial
    BY <1>1, <2>1, Committed
    DEF Durable!Next, Durable!Start, Durable!InitialMachine, InitialMachine
  <2>2. CASE ~ call[c].initial
    BY <1>1, <2>2, Committed, DurableLater DEF Durable!Next, Durable!Advance
  <2> QED
    BY <2>1, <2>2
<1>2. ASSUME NEW c \in Callers, SaveCommit(c)
      PROVE  UNCHANGED snapshot \/ (call[c].pc = "saveCommit" /\ snapshot' = call[c].snap)
  BY <1>2, Zenon DEF SaveCommit
<1>3. ASSUME NEW c \in Callers, BridgeDbError(c)
      PROVE  UNCHANGED snapshot \/ (call[c].pc = "saveCommit" /\ snapshot' = call[c].snap)
  BY <1>3, Zenon DEF BridgeDbError
<1>4. ASSUME NEW c \in Callers,
             Enter(c) \/ CheckExists(c) \/ LoadOrStart(c) \/ Fire(c) \/ SaveSelect(c)
      PROVE  UNCHANGED snapshot
  BY <1>4 DEF Enter, CheckExists, LoadOrStart, Fire, SaveSelect
<1>5. ASSUME NEW p \in Procs, BridgeCrash(p)
      PROVE  UNCHANGED snapshot
  BY <1>5 DEF BridgeCrash
<1>6. UNCHANGED bridgeVars => UNCHANGED snapshot
  BY DEF bridgeVars
<1> QED
  BY <1>1, <1>2, <1>3, <1>4, <1>5, <1>6 DEF BridgeNext, BridgeStep

\* The row of machine_snapshots implements the durable machine: inserted once, as the
\* initial machine, and from then on only taken further by its table, whatever calls,
\* resumes, crashes and failing saves there are (persistence.py).
THEOREM BridgeImplementsDurable == BridgeSpec => DurableSpec
<1>1. BridgeInit => Durable!Init
  BY DEF BridgeInit, Durable!Init
<1> QED
  BY <1>1, BridgeInvariant, StepIsDurable, PTL
  DEF BridgeSpec, DurableSpec, Durable!Spec
=============================================================================

----------------------------- MODULE OrcaBridge -----------------------------
(***************************************************************************)
(* backend/orca/bridge.py over backend/orca/persistence.py, for ONE run id *)
(* (runs share no machine and no snapshot row, so one is enough).          *)
(*                                                                         *)
(* Every process has its own registry.  A caller is a coroutine of one     *)
(* process; each await of the source is the end of a step, so two callers  *)
(* interleave exactly where the event loop may switch.  A machine object   *)
(* is named after the caller that constructed it.  The orca runtime is     *)
(* external: send() computes the transition in memory, then awaits the     *)
(* save of a snapshot; load_or_start() restores the saved snapshot, or     *)
(* starts afresh when there is none.                                       *)
(***************************************************************************)
EXTENDS ContractMachine, FiniteSets, Naturals

CONSTANTS Procs,          \* processes: API workers and validation workers
          Callers,        \* coroutines that use the bridge
          ProcOf,         \* the process a caller runs in
          None,
          MaxDbErrors,    \* bound: failing database calls
          MaxCrashes      \* bound: process crashes

ASSUME BridgeAssumption ==
  /\ ProcOf \in [Callers -> Procs]
  /\ None \notin Callers
  /\ None \notin Machines
  /\ MaxDbErrors \in Nat
  /\ MaxCrashes \in Nat

VARIABLES registry,   \* _machines of each process: the machine registered, or None
          obj,        \* the machine objects, by constructing caller
          snapshot,   \* the row of machine_snapshots, or None
          call,       \* the bridge call each caller is in
          dbErrors, crashes

bridgeVars == <<registry, obj, snapshot, call, dbErrors, crashes>>

\* Where a call can be suspended, and where it has ended.
Suspended == {"exists", "load", "saveSelect", "saveCommit", "fire"}
Ended     == {"returned", "raised", "gone"}

Calls == [pc      : {"idle"} \cup Suspended \cup Ended,
          event   : Events \cup {"none"},      \* "none": get_or_create() alone
          missing : SUBSET Names,              \* the payload
          existed : BOOLEAN,
          ref     : Callers \cup {None},       \* the machine this call works on
          snap    : Machines \cup {None},      \* the snapshot being saved
          sawRow  : BOOLEAN,                   \* save() found the row to update
          initial : BOOLEAN]                   \* the save is get_or_create's own

Idle == [pc |-> "idle", event |-> "none", missing |-> {}, existed |-> FALSE,
         ref |-> None, snap |-> None, sawRow |-> FALSE, initial |-> FALSE]

BridgeTypeOK ==
  /\ registry \in [Procs -> Callers \cup {None}]
  /\ obj \in [Callers -> Machines \cup {None}]
  /\ snapshot \in Machines \cup {None}
  /\ call \in [Callers -> Calls]
  /\ dbErrors \in 0 .. MaxDbErrors
  /\ crashes \in 0 .. MaxCrashes

BridgeInit ==
  /\ registry = [p \in Procs |-> None]
  /\ obj = [c \in Callers |-> None]
  /\ snapshot = None
  /\ call = [c \in Callers |-> Idle]
  /\ dbErrors = 0
  /\ crashes = 0

-----------------------------------------------------------------------------
\* What a call does once it has the machine: return it, or send the event.
AfterGet(event) == IF event = "none" THEN "returned" ELSE "fire"

\* The call c makes when it enters get_or_create(), up to the first await: a
\* hit in the registry costs no database call.
Entered(c, event, missing) ==
  IF registry[ProcOf[c]] # None
  THEN [Idle EXCEPT !.pc = AfterGet(event), !.event = event, !.missing = missing,
                    !.ref = registry[ProcOf[c]]]
  ELSE [Idle EXCEPT !.pc = "exists", !.event = event, !.missing = missing]

\* persistence.exists(); only get_or_create() itself carries a context here,
\* send() passes none, and needs the machine to exist already.
CheckExists(c) ==
  /\ call[c].pc = "exists"
  /\ IF snapshot = None /\ call[c].event # "none"
     THEN /\ call' = [call EXCEPT ![c].pc = "raised"]
          /\ UNCHANGED obj
     ELSE /\ call' = [call EXCEPT ![c].pc = "load", ![c].existed = snapshot # None,
                                  ![c].ref = c]
          /\ obj' = [obj EXCEPT ![c] = InitialMachine]
  /\ UNCHANGED <<registry, snapshot, dbErrors, crashes>>

\* Mutant: every process starts its machine afresh.
LoadOrStart_AlwaysStarts(c) ==
  /\ call[c].pc = "load"
  /\ obj' = [obj EXCEPT ![c] = InitialMachine]
  /\ registry' = [registry EXCEPT ![ProcOf[c]] = c]
  /\ call' = [call EXCEPT ![c].pc = AfterGet(call[c].event)]
  /\ UNCHANGED <<snapshot, dbErrors, crashes>>

\* Mutant: the machine is registered before its initial snapshot is saved.
LoadOrStart_RegistersFirst(c) ==
  LET m == IF snapshot # None THEN snapshot ELSE InitialMachine
  IN  /\ call[c].pc = "load"
      /\ obj' = [obj EXCEPT ![c] = m]
      /\ registry' = [registry EXCEPT ![ProcOf[c]] = c]
      /\ call' = [call EXCEPT ![c].pc = "saveSelect", ![c].snap = m, ![c].initial = TRUE]
      /\ UNCHANGED <<snapshot, dbErrors, crashes>>

\* load_or_start(); a machine that did not exist is saved before it is registered.
LoadOrStart(c) ==
  LET m == IF snapshot # None THEN snapshot ELSE InitialMachine
  IN  /\ call[c].pc = "load"
      /\ obj' = [obj EXCEPT ![c] = m]
      /\ IF call[c].existed
         THEN /\ registry' = [registry EXCEPT ![ProcOf[c]] = c]
              /\ call' = [call EXCEPT ![c].pc = AfterGet(call[c].event)]
         ELSE /\ call' = [call EXCEPT ![c].pc = "saveSelect", ![c].snap = m,
                                      ![c].initial = TRUE]
              /\ UNCHANGED registry
      /\ UNCHANGED <<snapshot, dbErrors, crashes>>

\* machine.send(): an event with no enabled transition is only logged.
Fire(c) ==
  /\ call[c].pc = "fire"
  /\ LET m == obj[call[c].ref]
         enabled == Enabled(m, call[c].event)
     IN  \/ /\ enabled = {}
            /\ call' = [call EXCEPT ![c].pc = "returned"]
            /\ UNCHANGED obj
         \/ \E tr \in enabled :
              LET next == Fired(m, tr, call[c].missing)
              IN  /\ obj' = [obj EXCEPT ![call[c].ref] = next]
                  /\ call' = [call EXCEPT ![c].pc = "saveSelect", ![c].snap = next,
                                          ![c].initial = FALSE]
  /\ UNCHANGED <<registry, snapshot, dbErrors, crashes>>

\* save(): the SELECT that decides between update and insert ...
SaveSelect(c) ==
  /\ call[c].pc = "saveSelect"
  /\ call' = [call EXCEPT ![c].pc = "saveCommit", ![c].sawRow = snapshot # None]
  /\ UNCHANGED <<registry, obj, snapshot, dbErrors, crashes>>

\* ... and the commit; a second insert of the same primary key is refused.
SaveCommit(c) ==
  /\ call[c].pc = "saveCommit"
  /\ IF ~call[c].sawRow /\ snapshot # None
     THEN /\ call' = [call EXCEPT ![c].pc = "raised"]
          /\ UNCHANGED <<registry, snapshot>>
     ELSE /\ snapshot' = call[c].snap
          /\ IF call[c].initial
             THEN /\ registry' = [registry EXCEPT ![ProcOf[c]] = c]
                  /\ call' = [call EXCEPT ![c].pc = AfterGet(call[c].event)]
             ELSE /\ call' = [call EXCEPT ![c].pc = "returned"]
                  /\ UNCHANGED registry
  /\ UNCHANGED <<obj, dbErrors, crashes>>

BridgeStep(c) ==
  \/ CheckExists(c)
  \/ LoadOrStart(c)
  \/ Fire(c)
  \/ SaveSelect(c)
  \/ SaveCommit(c)

\* A database call fails; a failing commit may have been applied all the same.
\* The exception leaves the bridge through the caller.
BridgeDbError(c) ==
  /\ dbErrors < MaxDbErrors
  /\ dbErrors' = dbErrors + 1
  /\ call[c].pc \in {"exists", "load", "saveSelect", "saveCommit"}
  /\ call' = [call EXCEPT ![c].pc = "raised"]
  /\ \/ UNCHANGED snapshot
     \/ /\ call[c].pc = "saveCommit"
        /\ call[c].sawRow \/ snapshot = None
        /\ snapshot' = call[c].snap
  /\ UNCHANGED <<registry, obj, crashes>>

\* Process p dies: its registry, its machine objects and its coroutines go.
BridgeCrash(p) ==
  LET dead == {c \in Callers : ProcOf[c] = p}
  IN  /\ crashes < MaxCrashes
      /\ crashes' = crashes + 1
      /\ registry' = [registry EXCEPT ![p] = None]
      /\ obj' = [c \in Callers |-> IF c \in dead THEN None ELSE obj[c]]
      /\ call' = [c \in Callers |->
                    IF c \in dead THEN [Idle EXCEPT !.pc = "gone"] ELSE call[c]]
      /\ UNCHANGED <<snapshot, dbErrors>>

-----------------------------------------------------------------------------
(* The bridge on its own, under any client that lets one caller at a time   *)
(* work on the run: a new caller enters once the others have died with      *)
(* their process.  It may make any call, in any order, also after an error. *)
Alone(c) == \A d \in Callers \ {c} : call[d].pc \in {"idle", "gone"}

Enter(c) ==
  /\ Alone(c)
  /\ call[c].pc \in {"idle", "returned", "raised"}
  /\ \E event \in Events \cup {"none"},
        missing \in IF call[c].pc = "idle" THEN {{}} ELSE SUBSET Names :
       call' = [call EXCEPT ![c] =
                  Entered(c, event, IF event = "EXTRACTED" THEN missing ELSE {})]
  /\ UNCHANGED <<registry, obj, snapshot, dbErrors, crashes>>

BridgeNext ==
  \/ \E c \in Callers : Enter(c) \/ BridgeStep(c) \/ BridgeDbError(c)
  \/ \E p \in Procs : BridgeCrash(p)

BridgeSpec == BridgeInit /\ [][BridgeNext]_bridgeVars

-----------------------------------------------------------------------------
\* A registered machine is never behind or beside its durable snapshot: it is the
\* snapshot, or what the snapshot can still become, context included, through
\* crashes, resumes and saves that fail after the transition (bridge.py:46-53).
MemoryAheadOfSnapshot ==
  \A p \in Procs :
    registry[p] # None =>
      /\ snapshot # None
      /\ obj[registry[p]] \in Later(snapshot)

\* Whatever the sequence of calls, also of two callers at once, a durable snapshot
\* couples state, verdict and reasons as one machine would (contract_actions.py:27-43,
\* bridge.py:53).
SnapshotCoherent == snapshot # None => Coherent(snapshot)

Durable == INSTANCE DurableMachine WITH machine <- snapshot

\* The row of machine_snapshots implements the one durable machine: it is inserted
\* as the initial machine, never lost, never taken back, and every save is what the
\* last one can become by its table, through resumes, crashes and failing saves
\* (persistence.py).
DurableSpec == Durable!Spec
=============================================================================

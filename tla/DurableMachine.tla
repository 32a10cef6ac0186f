--------------------------- MODULE DurableMachine ---------------------------
(***************************************************************************)
(* What the bridge promises of the machine of a run: one durable machine,  *)
(* started once, that from then on only takes transitions of its table.    *)
(* Processes, registries, calls, crashes and failing saves are not seen;   *)
(* one step may stand for several transitions, when saves in between them  *)
(* failed.                                                                 *)
(***************************************************************************)
EXTENDS ContractMachine

CONSTANT None      \* no machine yet

VARIABLE machine

Init == machine = None

Start ==
  /\ machine = None
  /\ machine' = InitialMachine

Advance ==
  /\ machine # None
  /\ machine' \in Later(machine)

Next == Start \/ Advance

Spec == Init /\ [][Next]_machine
=============================================================================

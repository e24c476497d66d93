--------------------------- MODULE DidLifecycle ----------------------------
(***************************************************************************)
(* What a DID contract promises to whoever resolves it or holds its keys,  *)
(* with no ledger cell, signature or circuit in sight: a document under a  *)
(* controller, counted by a version, that one recovery authority watches   *)
(* over and that can be deactivated once.                                  *)
(*                                                                         *)
(* DidContract implements it (DidContract!Lifecycle); ControllerKeys uses  *)
(* it as the chain that wallets talk to.                                   *)
(***************************************************************************)
EXTENDS Naturals

CONSTANT Key        \* keys that can control or recover a DID

VARIABLES
    controller,     \* the key in control
    recovery,       \* the key that may replace it
    version,        \* number of operations that took effect
    active,         \* FALSE once deactivated
    doc             \* the DID document

vars == <<controller, recovery, version, active, doc>>

Init ==
    /\ controller \in Key
    /\ recovery \in Key
    /\ controller # recovery
    /\ version = 0
    /\ active = TRUE

TakesEffect == active /\ version' = version + 1 /\ recovery' = recovery

\* The document, and only the document, may change.
Amend == TakesEffect /\ UNCHANGED <<controller, active>>

\* A new key, which is not the recovery authority, takes over.
Handover(new) ==
    /\ TakesEffect
    /\ new \notin {controller, recovery}
    /\ controller' = new
    /\ UNCHANGED <<active, doc>>

\* The document stays as it is, for good.
Deactivate ==
    /\ TakesEffect
    /\ active' = FALSE
    /\ UNCHANGED <<controller, doc>>

Next == Amend \/ (\E new \in Key : Handover(new)) \/ Deactivate

Spec == Init /\ [][Next]_vars

=============================================================================

-------------------------- MODULE ControllerKeys ---------------------------
(***************************************************************************)
(* The controller key of one DID, from the side of the wallet that holds   *)
(* it: the two slots of the private-state store, the calls of              *)
(* midnight-did-api that move keys between them (rotate_controller_key,    *)
(* recover_controller_key, recover_pending_..., create_did,                *)
(* deactivate_and_clear), and the chain they submit transactions to.       *)
(*                                                                         *)
(* Every await is a step of its own: between two of them other calls run,  *)
(* the chain moves, and the call can end there, because its future is      *)
(* dropped or because the process dies.  The slots outlive the process.    *)
(* Any write to the store can fail.                                        *)
(*                                                                         *)
(* A secret key and the public key derived from it are one value: callers  *)
(* pass them together.  Signing and submitting are outside the repository; *)
(* a rotation or a deactivation is signed with the key in the Active slot, *)
(* a recovery with the recovery authority's key, each for the version that *)
(* is current when it is submitted.  The chain is DidLifecycle.            *)
(***************************************************************************)
EXTENDS Naturals, FiniteSets

CONSTANTS
    Client,         \* tasks of the wallet that may make a call
    Key,            \* controller keys
    RecoveryKey,    \* the recovery authority's key, kept elsewhere
    NoKey,          \* an empty slot
    ZeroKey,        \* the sentinel that deactivate_and_clear stores
    MaxVersion      \* bound: nothing takes effect once version reaches it

\* What the environment may do.
CONSTANTS
    Serialised,     \* one call at a time (the FFI handle's mutex)
    Reconciles,     \* callers settle the previous rotation before the next
    LostAnswers     \* submit_tx may report an error whatever became of the tx

ASSUME KeyAssumption ==
    /\ RecoveryKey \notin Key
    /\ NoKey \notin Key \cup {RecoveryKey, ZeroKey}
    /\ ZeroKey \notin Key \cup {RecoveryKey}
ASSUME BoundAssumption == MaxVersion \in Nat
ASSUME SwitchAssumption == {Serialised, Reconciles, LostAnswers} \subseteq BOOLEAN

VARIABLES
    controller, version, active,    \* the chain
    flight,         \* transactions submitted and not settled
    activeSlot,     \* PrivateStateSlot::Active
    pendingSlot,    \* PrivateStateSlot::Pending
    pc,             \* where each client's call is
    call,           \* each client's last call: operation, new key, version
    answer,         \* what submit_tx is about to return to each client
    outcome         \* what each client's last call returned

Chain == INSTANCE DidLifecycle WITH
    Key <- Key \cup {RecoveryKey}, recovery <- RecoveryKey, doc <- "doc"

chain == <<controller, version, active>>
slots == <<activeSlot, pendingSlot>>
calls == <<pc, call, answer, outcome>>
vars  == <<chain, flight, slots, calls>>

Rotation  == {"rotate", "recover"}
Submitted == Rotation \cup {"deactivate"}
PC        == {"idle", "create", "submit", "wait", "abort", "promote", "clear", "sentinel"}
\* What a call and a transaction are about: a key, unless it is a deactivation or
\* there has been no call.
Call == [op : Rotation \cup {"repair", "create"}, new : Key, at : Nat]
            \cup [op : {"deactivate", "none"}, new : {NoKey}, at : Nat]

Tx == [client : Client, op : Submitted, new : Key \cup {NoKey},
       by : Key \cup {RecoveryKey, NoKey, ZeroKey}, at : Nat]

TypeOK ==
    /\ controller \in Key
    /\ version \in Nat
    /\ active \in BOOLEAN
    /\ flight \subseteq Tx
    /\ \A tx \in flight : tx.op \in Rotation => tx.new \in Key
    /\ activeSlot \in Key \cup {NoKey, ZeroKey}
    /\ pendingSlot \in Key \cup {NoKey}
    /\ pc \in [Client -> PC]
    /\ call \in [Client -> Call]
    /\ \A c \in Client : pc[c] \in {"submit", "wait"} => call[c].op \in Submitted
    /\ answer \in [Client -> {"none", "finalized", "rejected"}]
    /\ outcome \in [Client -> {"none", "Ok", "Err", "Failed", "RotationOrphaned"}]

\* A deployed DID; its key is in the hands of whoever deployed it.
Init ==
    /\ controller \in Key
    /\ version = 0
    /\ active = TRUE
    /\ flight = {}
    /\ activeSlot = NoKey
    /\ pendingSlot = NoKey
    /\ pc = [c \in Client |-> "idle"]
    /\ call = [c \in Client |-> [op |-> "none", new |-> NoKey, at |-> 0]]
    /\ answer = [c \in Client |-> "none"]
    /\ outcome = [c \in Client |-> "none"]

-----------------------------------------------------------------------------
(***************************************************************************)
(* Calls.                                                                  *)
(***************************************************************************)
Free(c) ==
    /\ pc[c] = "idle"
    /\ Serialised => \A d \in Client : pc[d] = "idle"

\* The previous rotation is settled, and promoted if it took effect.
Settled == flight = {} /\ (pendingSlot = controller => activeSlot = controller)

MayBegin == Reconciles => Settled /\ activeSlot # NoKey

Begin(c, op, new, start) ==
    /\ Free(c)
    /\ call' = [call EXCEPT ![c] = [op |-> op, new |-> new, at |-> version]]
    /\ pc' = [pc EXCEPT ![c] = start]
    /\ outcome' = [outcome EXCEPT ![c] = "none"]
    /\ answer' = [answer EXCEPT ![c] = "none"]

Goto(c, label) ==
    /\ pc' = [pc EXCEPT ![c] = label]
    /\ UNCHANGED <<call, answer, outcome>>

Return(c, result) ==
    /\ pc' = [pc EXCEPT ![c] = "idle"]
    /\ outcome' = [outcome EXCEPT ![c] = result]
    /\ UNCHANGED <<call, answer>>

\* The store accepts the write, or reports an error and stays as it was.
Remove(slot) == slot' \in {NoKey, slot}

\* create_did with the secret of the key in control: it looks whether the Active
\* slot is taken, which it would leave alone, and stores the secret.
CreateDid(c) ==
    /\ activeSlot = NoKey
    /\ Begin(c, "create", controller, "create")
    /\ UNCHANGED <<chain, flight, slots>>

StoreSecret(c) ==
    /\ pc[c] = "create"
    /\ \/ activeSlot' = call[c].new /\ Return(c, "Ok")
       \/ UNCHANGED activeSlot /\ Return(c, "Err")
    /\ UNCHANGED <<chain, flight, pendingSlot>>

\* rotate_controller_key, recover_controller_key: the new key is saved in the
\* Pending slot, over whatever is there, before anything is submitted.
BeginRotation(c, op, new) ==
    /\ MayBegin
    /\ Begin(c, op, new, "submit")
    /\ pendingSlot' = new
    /\ UNCHANGED <<chain, flight, activeSlot>>

BeginDeactivation(c) ==
    /\ MayBegin
    /\ Begin(c, "deactivate", NoKey, "submit")
    /\ UNCHANGED <<chain, flight, slots>>

Submit(c) ==
    /\ pc[c] = "submit"
    /\ pc' = [pc EXCEPT ![c] = "wait"]
    /\ call' = [call EXCEPT ![c].at = version]
    /\ flight' = flight \cup
           {[client |-> c, op |-> call[c].op, new |-> call[c].new, at |-> version,
             by |-> IF call[c].op = "recover" THEN RecoveryKey ELSE activeSlot]}
    /\ UNCHANGED <<chain, slots, answer, outcome>>

\* submit_tx returns: what became of the transaction or, if the answer is
\* lost, an error.
AfterFinalized(c) == IF call[c].op = "deactivate" THEN "sentinel" ELSE "promote"

Finalized(c) ==
    /\ pc[c] = "wait"
    /\ answer[c] = "finalized"
    /\ Goto(c, AfterFinalized(c))
    /\ UNCHANGED <<chain, flight, slots>>

\* Faulty variant: goes on as if the transaction had been finalized.
ErrorIgnored(c) ==
    /\ pc[c] = "wait"
    /\ answer[c] = "rejected" \/ LostAnswers
    /\ Goto(c, AfterFinalized(c))
    /\ UNCHANGED <<chain, flight, slots>>

Error(c) ==
    /\ pc[c] = "wait"
    /\ answer[c] = "rejected" \/ LostAnswers
    /\ IF call[c].op = "deactivate" THEN Return(c, "Failed") ELSE Goto(c, "abort")
    /\ UNCHANGED <<chain, flight, slots>>

\* The error arm: clearing Pending is best-effort.
Abort(c) ==
    /\ pc[c] = "abort"
    /\ Remove(pendingSlot)
    /\ Return(c, "Failed")
    /\ UNCHANGED <<chain, flight, activeSlot>>

Promote(c) ==
    /\ pc[c] = "promote"
    /\ activeSlot' = call[c].new
    /\ Goto(c, "clear")
    /\ UNCHANGED <<chain, flight, pendingSlot>>

\* Faulty variant: cleans up although the promotion failed.
PromoteFailsCleaningUp(c) ==
    /\ pc[c] = "promote"
    /\ Remove(pendingSlot)
    /\ Return(c, IF call[c].op = "repair" THEN "Err" ELSE "RotationOrphaned")
    /\ UNCHANGED <<chain, flight, activeSlot>>

PromoteFails(c) ==
    /\ pc[c] = "promote"
    /\ Return(c, IF call[c].op = "repair" THEN "Err" ELSE "RotationOrphaned")
    /\ UNCHANGED <<chain, flight, slots>>

\* A rotation ignores a failing clear, a repair reports it.
Clear(c) ==
    /\ pc[c] = "clear"
    /\ Remove(pendingSlot)
    /\ Return(c, IF call[c].op = "repair" /\ pendingSlot' # NoKey THEN "Err" ELSE "Ok")
    /\ UNCHANGED <<chain, flight, activeSlot>>

\* Faulty variant: the sentinel goes to the wrong slot.
SentinelInPending(c) ==
    /\ pc[c] = "sentinel"
    /\ \/ pendingSlot' = ZeroKey /\ Return(c, "Ok")
       \/ UNCHANGED pendingSlot /\ Return(c, "Err")
    /\ UNCHANGED <<chain, flight, activeSlot>>

\* deactivate_and_clear, once the DID is deactivated.
Sentinel(c) ==
    /\ pc[c] = "sentinel"
    /\ \/ activeSlot' = ZeroKey /\ Return(c, "Ok")
       \/ UNCHANGED activeSlot /\ Return(c, "Err")
    /\ UNCHANGED <<chain, flight, pendingSlot>>

\* Faulty variant: clears Pending without promoting it.
BeginRepairByClearing(c) ==
    /\ pendingSlot # NoKey
    /\ pendingSlot = controller
    /\ Begin(c, "repair", pendingSlot, "clear")
    /\ UNCHANGED <<chain, flight, slots>>

\* recover_pending_controller_private_state.  Its caller vouches that the
\* rotation was finalized: the pending key is the one in control.
BeginRepair(c) ==
    /\ pendingSlot # NoKey
    /\ pendingSlot = controller
    /\ Begin(c, "repair", pendingSlot, "promote")
    /\ UNCHANGED <<chain, flight, slots>>

\* The future of a call is dropped at an await, or its process dies.
Cancel(c) ==
    /\ pc[c] # "idle"
    /\ Return(c, "none")
    /\ UNCHANGED <<chain, flight, slots>>

-----------------------------------------------------------------------------
(***************************************************************************)
(* The chain.                                                              *)
(***************************************************************************)
Authority(tx) == IF tx.op = "recover" THEN RecoveryKey ELSE controller

\* Tell the client, if its call is still the one that waits for tx.
Settle(tx, result) ==
    /\ flight' = flight \ {tx}
    /\ answer' = IF pc[tx.client] = "wait"
                    /\ call[tx.client] = [op |-> tx.op, new |-> tx.new, at |-> tx.at]
                 THEN [answer EXCEPT ![tx.client] = result]
                 ELSE answer
    /\ UNCHANGED <<slots, pc, call, outcome>>

Finalize(tx) ==
    /\ version < MaxVersion
    /\ tx.at = version
    /\ tx.by = Authority(tx)
    /\ IF tx.op = "deactivate" THEN Chain!Deactivate ELSE Chain!Handover(tx.new)
    /\ Settle(tx, "finalized")

\* Refused by the contract, expired or dropped.
Reject(tx) ==
    /\ Settle(tx, "rejected")
    /\ UNCHANGED chain

\* Other operations of the DID move the version under the wallet's feet.
Amend ==
    /\ version < MaxVersion
    /\ activeSlot = controller
    /\ Chain!Amend
    /\ UNCHANGED <<flight, slots, calls>>

-----------------------------------------------------------------------------
Step(c) ==
    \/ StoreSecret(c) \/ Submit(c) \/ Finalized(c) \/ Error(c) \/ Abort(c)
    \/ Promote(c) \/ PromoteFails(c) \/ Clear(c) \/ Sentinel(c)

Next ==
    \/ \E c \in Client :
          \/ CreateDid(c)
          \/ \E op \in Rotation, new \in Key : BeginRotation(c, op, new)
          \/ BeginDeactivation(c)
          \/ BeginRepair(c)
          \/ Step(c)
          \/ Cancel(c)
    \/ \E tx \in flight : Finalize(tx) \/ Reject(tx)
    \/ Amend

Spec == Init /\ [][Next]_vars

\* The executor polls every call, the chain settles every transaction, and a
\* caller who finds its rotation finalized but not promoted repairs it, again
\* if the store failed.
Fairness ==
    /\ \A c \in Client : WF_vars(Step(c)) /\ SF_vars(Promote(c))
    /\ WF_vars(\E tx \in flight : Finalize(tx) \/ Reject(tx))
    /\ WF_vars(activeSlot # controller /\ \E c \in Client : BeginRepair(c))

FairSpec == Spec /\ Fairness

-----------------------------------------------------------------------------
(***************************************************************************)
(* What a wallet needs of its slots.                                       *)
(***************************************************************************)
\* The key in control is never held by memory alone: at every instant it is
\* in one of the two slots, wherever calls are interrupted and whatever write
\* fails.  A wallet that has lost it has lost the DID.
KeyIsPersisted ==
    active /\ activeSlot # NoKey => controller \in {activeSlot, pendingSlot}

\* Only a key that is in control is promoted: whatever was interrupted, refused
\* or repeated, Active never runs ahead of the chain.
PromotionFollowsFinalization ==
    [][activeSlot' \in {controller, ZeroKey}]_activeSlot

\* A call that returns an error and clears Pending failed before finalization
\* (tests/controller.rs:110): its new key is not in control of a DID that can
\* still be updated.
FailureMeansNotFinalized ==
    \A c \in Client :
        /\ outcome[c] = "Failed" /\ call[c].op \in Rotation
        /\ active /\ pendingSlot = NoKey /\ activeSlot # controller
        => controller # call[c].new

\* A rotation that took effect is completed in the wallet: Active catches up
\* with the chain, after whatever interruptions.
RotationIsCompleted ==
    (active /\ activeSlot \notin {NoKey, controller})
        ~> (activeSlot = controller \/ ~active)

=============================================================================

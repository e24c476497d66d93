----------------------- MODULE ControllerKeysProofs ------------------------
(***************************************************************************)
(* A wallet that makes one call at a time, settles a rotation before the   *)
(* next, and learns what became of its transactions never loses the key in *)
(* control, whatever call is interrupted and whatever write fails: for any *)
(* number of clients and keys.  Each of the three assumptions is needed:   *)
(* TLC finds the key lost when any one of them is dropped.                 *)
(***************************************************************************)
EXTENDS ControllerKeys, TLAPS

-----------------------------------------------------------------------------
(***************************************************************************)
(* Types, under no assumption on the environment.                          *)
(***************************************************************************)
\* The wallet and the chain start with the types of TypeOK.
LEMMA InitTypeOK == Init => TypeOK
BY DEF Init, TypeOK, PC, Call

\* What a call or the chain writes has the type of where it is written.
LEMMA NextTypeOK == TypeOK /\ [Next]_vars => TypeOK'
<1> SUFFICES ASSUME TypeOK, [Next]_vars PROVE TypeOK'
  OBVIOUS
<1> USE DEF TypeOK, chain, slots, calls, Goto, Return, Begin, Remove, PC,
            Call, Submitted
<1>1. ASSUME NEW c \in Client, CreateDid(c) PROVE TypeOK'
  BY <1>1 DEF CreateDid
<1>2. ASSUME NEW c \in Client, NEW op \in Rotation, NEW new \in Key,
             BeginRotation(c, op, new)
      PROVE  TypeOK'
  BY <1>2 DEF BeginRotation
<1>3. ASSUME NEW c \in Client, BeginDeactivation(c) PROVE TypeOK'
  BY <1>3 DEF BeginDeactivation
<1>4. ASSUME NEW c \in Client, BeginRepair(c) PROVE TypeOK'
  BY <1>4 DEF BeginRepair
<1>5. ASSUME NEW c \in Client, Submit(c) PROVE TypeOK'
  <2> DEFINE tx == [client |-> c, op |-> call[c].op, new |-> call[c].new, at |-> version,
                    by |-> IF call[c].op = "recover" THEN RecoveryKey ELSE activeSlot]
  <2>1. call[c].op \in Submitted /\ call[c] \in Call
    BY <1>5 DEF Submit
  <2>2. tx \in Tx /\ (tx.op \in Rotation => tx.new \in Key)
    BY <2>1 DEF Tx, Rotation
  <2>3. flight' = flight \cup {tx}
    BY <1>5 DEF Submit
  <2>4. [call[c] EXCEPT !.at = version] \in Call /\ call' \in [Client -> Call]
    BY <1>5, <2>1 DEF Submit
  <2>5. \A d \in Client : pc'[d] \in {"submit", "wait"} => call'[d].op \in Submitted
    BY <1>5, <2>1 DEF Submit
  <2> QED
    BY <1>5, <2>2, <2>3, <2>4, <2>5 DEF Submit
<1>18. ASSUME NEW c \in Client, StoreSecret(c) PROVE TypeOK'
  BY <1>18 DEF StoreSecret
<1>6. ASSUME NEW c \in Client, Finalized(c) PROVE TypeOK'
  BY <1>6 DEF Finalized, AfterFinalized
<1>7. ASSUME NEW c \in Client, Error(c) PROVE TypeOK'
  BY <1>7 DEF Error
<1>8. ASSUME NEW c \in Client, Abort(c) PROVE TypeOK'
  BY <1>8 DEF Abort
<1>9. ASSUME NEW c \in Client, Promote(c) PROVE TypeOK'
  BY <1>9 DEF Promote
<1>10. ASSUME NEW c \in Client, PromoteFails(c) PROVE TypeOK'
  BY <1>10 DEF PromoteFails
<1>11. ASSUME NEW c \in Client, Clear(c) PROVE TypeOK'
  BY <1>11 DEF Clear
<1>12. ASSUME NEW c \in Client, Sentinel(c) PROVE TypeOK'
  BY <1>12 DEF Sentinel
<1>13. ASSUME NEW c \in Client, Cancel(c) PROVE TypeOK'
  BY <1>13 DEF Cancel
<1>14. ASSUME NEW tx \in flight, Finalize(tx) PROVE TypeOK'
  <2>1. controller' \in Key /\ version' \in Nat
    BY <1>14 DEF Finalize, Tx, Chain!Deactivate, Chain!Handover, Chain!TakesEffect
  <2>2. active' \in BOOLEAN
    BY <1>14 DEF Finalize, Chain!Deactivate, Chain!Handover
  <2> QED
    BY <1>14, <2>1, <2>2 DEF Finalize, Settle
<1>15. ASSUME NEW tx \in flight, Reject(tx) PROVE TypeOK'
  BY <1>15 DEF Reject, Settle, Tx
<1>16. CASE Amend
  BY <1>16 DEF Amend, Chain!Amend, Chain!TakesEffect
<1>17. CASE UNCHANGED vars
  BY <1>17 DEF vars
<1> QED
  BY <1>1, <1>2, <1>3, <1>4, <1>5, <1>6, <1>7, <1>8, <1>9, <1>10, <1>11, <1>12,
     <1>13, <1>14, <1>15, <1>16, <1>17, <1>18 DEF Next, Step

\* Type correctness, whatever the environment does.
THEOREM WalletTypes == Spec => []TypeOK
BY InitTypeOK, NextTypeOK, PTL DEF Spec

-----------------------------------------------------------------------------
(***************************************************************************)
(* The inductive invariant.  While a rotation is on its way the Active     *)
(* slot holds the key in control and the Pending slot the key the          *)
(* transaction would put in control; so whenever the transaction takes     *)
(* effect, even after its call was cancelled, the new key is at hand, and  *)
(* nobody touches Pending before that is known.                            *)
(***************************************************************************)
\* Nothing of the wallet has happened on the chain since the call began.
Untouched == active => activeSlot = controller

OneCall == \A c, d \in Client : pc[c] # "idle" /\ pc[d] # "idle" => c = d

OneTx == \A s, t \in flight : s = t

FlightIsKept ==
    \A t \in flight : t.op \in Rotation => t.new \in {pendingSlot, controller}

\* Nothing is submitted before a key is stored.
FirstStored == activeSlot = NoKey => flight = {}

Creating(c) ==
    pc[c] = "create" => activeSlot = NoKey /\ call[c].new = controller

Submitting(c) ==
    pc[c] = "submit" =>
        /\ flight = {} /\ Untouched /\ answer[c] = "none" /\ activeSlot # NoKey
        /\ call[c].op \in Rotation => call[c].new = pendingSlot

Waiting(c) ==
    pc[c] = "wait" =>
        /\ answer[c] = "none" =>
              /\ Untouched
              /\ \A t \in flight : /\ t.client = c
                                   /\ call[c] = [op |-> t.op, new |-> t.new, at |-> t.at]
        /\ answer[c] = "rejected" => flight = {} /\ Untouched
        /\ answer[c] = "finalized" =>
              /\ flight = {}
              /\ call[c].op = "deactivate" => ~active
              /\ call[c].op \in Rotation => call[c].new = controller

Finishing(c) ==
    /\ pc[c] = "abort" => flight = {} /\ Untouched
    /\ pc[c] \in {"promote", "clear"} =>
          /\ call[c].new = controller
          /\ \A t \in flight : t.op \in Rotation => t.new = controller
    /\ pc[c] = "clear" => activeSlot = controller
    /\ pc[c] = "sentinel" => ~active

KeysInv ==
    /\ TypeOK
    /\ KeyIsPersisted
    /\ OneCall
    /\ OneTx
    /\ FlightIsKept
    /\ FirstStored
    /\ \A c \in Client : Creating(c) /\ Submitting(c) /\ Waiting(c) /\ Finishing(c)

\* Initially no call runs and no key is held.
LEMMA InitKeysInv == Init => KeysInv
BY InitTypeOK DEF Init, KeysInv, KeyIsPersisted, OneCall, OneTx, FlightIsKept,
                  FirstStored, Creating, Submitting, Waiting, Finishing

\* Steps of a wallet that makes one call at a time and settles a rotation
\* before the next, on a chain whose answers arrive.
LEMMA NextKeysInv ==
  ASSUME Serialised, Reconciles, ~LostAnswers, KeysInv, [Next]_vars
  PROVE  KeysInv'
<1> USE DEF KeysInv, KeyIsPersisted, OneCall, OneTx, FlightIsKept, FirstStored,
            Creating, Submitting, Waiting, Finishing, Untouched, chain, slots, calls
<1>0. TypeOK /\ TypeOK'
  BY NextTypeOK
<1>1. ASSUME NEW c \in Client, CreateDid(c) PROVE KeysInv'
  BY <1>0, <1>1 DEF CreateDid, Begin, Free, TypeOK
<1>18. ASSUME NEW c \in Client, StoreSecret(c) PROVE KeysInv'
  BY <1>0, <1>18, KeyAssumption DEF StoreSecret, Return, TypeOK
<1>2. ASSUME NEW c \in Client, NEW op \in Rotation, NEW new \in Key,
             BeginRotation(c, op, new)
      PROVE  KeysInv'
  BY <1>0, <1>2 DEF BeginRotation, Begin, Free, MayBegin, Settled, TypeOK, Rotation
<1>3. ASSUME NEW c \in Client, BeginDeactivation(c) PROVE KeysInv'
  BY <1>0, <1>3 DEF BeginDeactivation, Begin, Free, MayBegin, Settled, TypeOK, Rotation
<1>4. ASSUME NEW c \in Client, BeginRepair(c) PROVE KeysInv'
  BY <1>0, <1>4 DEF BeginRepair, Begin, Free, TypeOK
<1>5. ASSUME NEW c \in Client, Submit(c) PROVE KeysInv'
  <2> DEFINE tx == [client |-> c, op |-> call[c].op, new |-> call[c].new, at |-> version,
                    by |-> IF call[c].op = "recover" THEN RecoveryKey ELSE activeSlot]
  <2>1. /\ pc[c] = "submit" /\ flight = {}
        /\ UNCHANGED <<controller, version, active, activeSlot, pendingSlot, answer>>
    BY <1>5 DEF Submit
  <2>2. flight' = {tx}
    BY <1>5, <2>1 DEF Submit
  <2>3. /\ \A d \in Client : d # c => pc[d] = "idle" /\ pc'[d] = "idle"
        /\ pc'[c] = "wait"
    BY <1>5, <2>1 DEF Submit, TypeOK
  <2>4. call'[c] = [op |-> tx.op, new |-> tx.new, at |-> tx.at]
    <3>1. call'[c] = [call[c] EXCEPT !.at = version] /\ call[c] \in Call
      BY <1>5 DEF Submit, TypeOK
    <3>2. DOMAIN call[c] = {"op", "new", "at"}
      BY <3>1 DEF Call
    <3> QED
      BY <3>1, <3>2 DEF Call
  <2>5. KeyIsPersisted' /\ OneTx' /\ OneCall'
    BY <2>1, <2>2, <2>3
  <2>6. FlightIsKept' /\ FirstStored'
    BY <1>5, <2>1, <2>2 DEF Submit
  <2>7. \A d \in Client : Creating(d)' /\ Submitting(d)' /\ Waiting(d)' /\ Finishing(d)'
    BY <2>1, <2>2, <2>3, <2>4
  <2> QED
    BY <1>0, <2>5, <2>6, <2>7
<1>6. ASSUME NEW c \in Client, Finalized(c) PROVE KeysInv'
  BY <1>0, <1>6 DEF Finalized, AfterFinalized, Goto, TypeOK, Submitted
<1>7. ASSUME NEW c \in Client, Error(c) PROVE KeysInv'
  BY <1>0, <1>7 DEF Error, Goto, Return, TypeOK
<1>8. ASSUME NEW c \in Client, Abort(c) PROVE KeysInv'
  BY <1>0, <1>8 DEF Abort, Remove, Return, TypeOK
<1>9. ASSUME NEW c \in Client, Promote(c) PROVE KeysInv'
  BY <1>0, <1>9, KeyAssumption DEF Promote, Goto, TypeOK
<1>10. ASSUME NEW c \in Client, PromoteFails(c) PROVE KeysInv'
  BY <1>0, <1>10 DEF PromoteFails, Return, TypeOK
<1>11. ASSUME NEW c \in Client, Clear(c) PROVE KeysInv'
  BY <1>0, <1>11 DEF Clear, Remove, Return, TypeOK
<1>12. ASSUME NEW c \in Client, Sentinel(c) PROVE KeysInv'
  BY <1>0, <1>12, KeyAssumption DEF Sentinel, Return, TypeOK
<1>13. ASSUME NEW c \in Client, Cancel(c) PROVE KeysInv'
  BY <1>0, <1>13 DEF Cancel, Return, TypeOK
<1>14. ASSUME NEW tx \in flight, Finalize(tx) PROVE KeysInv'
  <2>1. /\ active
        /\ flight' = {}
        /\ UNCHANGED <<activeSlot, pendingSlot, pc, call>>
    BY <1>14 DEF Finalize, Settle, Chain!Deactivate, Chain!Handover, Chain!TakesEffect
  <2>2. CASE tx.op = "deactivate"
    <3>1. ~active' /\ controller' = controller
      BY <1>14, <2>2 DEF Finalize, Chain!Deactivate
    <3>2. \A c \in Client : pc[c] = "wait" /\ answer'[c] = "finalized" =>
             call[c].op \notin Rotation
      BY <1>0, <1>14, <2>2 DEF Finalize, Settle, TypeOK, Tx, Rotation
    <3> QED
      BY <1>0, <2>1, <3>1, <3>2, <1>14 DEF Finalize, Settle, TypeOK, Tx
  <2>3. CASE tx.op \in Rotation
    <3>1. /\ controller' = tx.new /\ controller' # controller /\ active' = active
      BY <1>14, <2>3 DEF Finalize, Chain!Handover, Rotation
    <3>2. tx.new = pendingSlot
      BY <2>3, <3>1
    <3>3. \A c \in Client : pc[c] \in {"idle", "wait"}
      BY <1>0, <2>1, <2>3, <3>1 DEF TypeOK, PC
    <3>4. \A c \in Client : pc[c] = "wait" =>
             answer'[c] = "finalized" /\ call[c].new = tx.new /\ call[c].op = tx.op
      BY <1>0, <1>14 DEF Finalize, Settle, TypeOK, Tx
    <3> QED
      BY <1>0, <2>1, <2>3, <3>1, <3>2, <3>3, <3>4 DEF Rotation
  <2> QED
    BY <1>0, <2>2, <2>3 DEF TypeOK, Tx, Submitted
<1>15. ASSUME NEW tx \in flight, Reject(tx) PROVE KeysInv'
  BY <1>0, <1>15 DEF Reject, Settle, TypeOK, Tx
<1>16. CASE Amend
  BY <1>0, <1>16 DEF Amend, Chain!Amend
<1>17. CASE UNCHANGED vars
  BY <1>0, <1>17 DEF vars
<1> QED
  BY <1>1, <1>2, <1>3, <1>4, <1>5, <1>6, <1>7, <1>8, <1>9, <1>10, <1>11, <1>12,
     <1>13, <1>14, <1>15, <1>16, <1>17, <1>18 DEF Next, Step

\* The invariant holds under the three assumptions.
THEOREM KeysCorrect ==
  ASSUME Serialised, Reconciles, ~LostAnswers
  PROVE  Spec => []KeysInv
<1>1. KeysInv /\ [Next]_vars => KeysInv'
  BY NextKeysInv
<1> QED
  BY <1>1, InitKeysInv, PTL DEF Spec

\* The key in control is in one of the two slots at every instant.
THEOREM KeyIsNeverLost ==
  ASSUME Serialised, Reconciles, ~LostAnswers
  PROVE  Spec => []KeyIsPersisted
<1>1. KeysInv => KeyIsPersisted
  BY DEF KeysInv
<1> QED
  BY <1>1, KeysCorrect, PTL

\* The Active slot never runs ahead of the chain.
THEOREM PromotionIsSafe ==
  ASSUME Serialised, Reconciles, ~LostAnswers
  PROVE  Spec => PromotionFollowsFinalization
<1>1. KeysInv /\ [Next]_vars => [activeSlot' \in {controller, ZeroKey}]_activeSlot
  <2> SUFFICES ASSUME KeysInv, Next, activeSlot' # activeSlot
               PROVE  activeSlot' \in {controller, ZeroKey}
    BY DEF vars, slots
  <2> USE DEF chain, slots, calls
  <2>1. ASSUME NEW c \in Client, StoreSecret(c) PROVE activeSlot' = controller
    BY <2>1 DEF StoreSecret, KeysInv, Creating
  <2>2. ASSUME NEW c \in Client, Promote(c) PROVE activeSlot' = controller
    BY <2>2 DEF Promote, KeysInv, Finishing
  <2>3. ASSUME NEW c \in Client, Sentinel(c) PROVE activeSlot' = ZeroKey
    BY <2>3 DEF Sentinel
  <2> QED
    BY <2>1, <2>2, <2>3
       DEF Next, Step, CreateDid, BeginRotation, BeginDeactivation, BeginRepair, Submit, Finalized,
           Error, Abort, PromoteFails, Clear, Cancel, Finalize, Reject, Settle, Amend
<1> QED
  BY <1>1, KeysCorrect, PTL DEF Spec, PromotionFollowsFinalization

-----------------------------------------------------------------------------
(***************************************************************************)
(* What an error says.                                                     *)
(***************************************************************************)
\* Whoever has made a call but create_did had a key in Active, and Active is never
\* emptied.
ActiveIsTaken ==
    \A c \in Client :
        pc[c] \notin {"idle", "create"} \/ outcome[c] = "Failed" \/ pendingSlot # NoKey
            => activeSlot # NoKey

LEMMA InitActiveIsTaken == Init => ActiveIsTaken
BY DEF Init, ActiveIsTaken

LEMMA NextActiveIsTaken ==
  ASSUME Reconciles, KeysInv, ActiveIsTaken, [Next]_vars
  PROVE  ActiveIsTaken'
<1> USE DEF ActiveIsTaken, chain, slots, calls
<1>0. TypeOK
  BY DEF KeysInv
<1>1. ASSUME NEW c \in Client, CreateDid(c) PROVE ActiveIsTaken'
  BY <1>0, <1>1 DEF CreateDid, Begin, TypeOK
<1>17. ASSUME NEW c \in Client, StoreSecret(c) PROVE ActiveIsTaken'
  BY <1>0, <1>17, KeyAssumption DEF StoreSecret, Return, KeysInv, Creating, TypeOK
<1>2. ASSUME NEW c \in Client, NEW op \in Rotation, NEW new \in Key,
             BeginRotation(c, op, new)
      PROVE  ActiveIsTaken'
  BY <1>2 DEF BeginRotation, MayBegin
<1>3. ASSUME NEW c \in Client, BeginDeactivation(c) PROVE ActiveIsTaken'
  BY <1>3 DEF BeginDeactivation, MayBegin
<1>4. ASSUME NEW c \in Client, BeginRepair(c) PROVE ActiveIsTaken'
  BY <1>4 DEF BeginRepair
<1>5. ASSUME NEW c \in Client, Submit(c) PROVE ActiveIsTaken'
  BY <1>0, <1>5 DEF Submit, TypeOK
<1>6. ASSUME NEW c \in Client, Finalized(c) PROVE ActiveIsTaken'
  BY <1>0, <1>6 DEF Finalized, Goto, TypeOK
<1>7. ASSUME NEW c \in Client, Error(c) PROVE ActiveIsTaken'
  BY <1>0, <1>7 DEF Error, Goto, Return, TypeOK
<1>8. ASSUME NEW c \in Client, Abort(c) PROVE ActiveIsTaken'
  BY <1>0, <1>8 DEF Abort, Remove, Return, TypeOK
<1>9. ASSUME NEW c \in Client, Promote(c) PROVE ActiveIsTaken'
  BY <1>0, <1>9, KeyAssumption DEF Promote, KeysInv, Finishing, TypeOK
<1>10. ASSUME NEW c \in Client, PromoteFails(c) PROVE ActiveIsTaken'
  BY <1>0, <1>10 DEF PromoteFails, Return, TypeOK
<1>11. ASSUME NEW c \in Client, Clear(c) PROVE ActiveIsTaken'
  BY <1>0, <1>11 DEF Clear, Remove, Return, TypeOK
<1>12. ASSUME NEW c \in Client, Sentinel(c) PROVE ActiveIsTaken'
  BY <1>0, <1>12, KeyAssumption DEF Sentinel, Return, TypeOK
<1>13. ASSUME NEW c \in Client, Cancel(c) PROVE ActiveIsTaken'
  BY <1>0, <1>13 DEF Cancel, Return, TypeOK
<1>14. ASSUME NEW tx \in flight, Finalize(tx) \/ Reject(tx) PROVE ActiveIsTaken'
  BY <1>14 DEF Finalize, Reject, Settle
<1>15. CASE Amend
  BY <1>15 DEF Amend
<1>16. CASE UNCHANGED vars
  BY <1>16 DEF vars
<1> QED
  BY <1>1, <1>2, <1>3, <1>4, <1>5, <1>6, <1>7, <1>8, <1>9, <1>10, <1>11, <1>12,
     <1>13, <1>14, <1>15, <1>16, <1>17 DEF Next, Step

\* While every answer arrives, what the test says of a failed rotation is true:
\* the answers that are lost are all that wallet_lost_answer needs to refute it.
THEOREM FailuresComeFirst ==
  ASSUME Serialised, Reconciles, ~LostAnswers
  PROVE  Spec => []FailureMeansNotFinalized
<1>1. KeysInv /\ ActiveIsTaken /\ [Next]_vars => ActiveIsTaken'
  BY NextActiveIsTaken
<1>2. KeysInv /\ ActiveIsTaken => FailureMeansNotFinalized
  <2> SUFFICES ASSUME KeysInv, ActiveIsTaken, NEW c \in Client, outcome[c] = "Failed",
                      active, pendingSlot = NoKey, activeSlot # controller
               PROVE  FALSE
    BY DEF FailureMeansNotFinalized
  <2>1. activeSlot # NoKey
    BY DEF ActiveIsTaken
  <2>2. controller \in {activeSlot, pendingSlot} /\ controller \in Key
    BY <2>1 DEF KeysInv, KeyIsPersisted, TypeOK
  <2> QED
    BY <2>2, KeyAssumption
<1> QED
  BY <1>1, <1>2, InitActiveIsTaken, KeysCorrect, PTL DEF Spec

=============================================================================

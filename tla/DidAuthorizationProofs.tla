---------------------- MODULE DidAuthorizationProofs -----------------------
(***************************************************************************)
(* Authorizations keep their promises for any operations, any number of    *)
(* requests and any delivery by the network.                               *)
(***************************************************************************)
EXTENDS DidAuthorization, DidContractProofs

-----------------------------------------------------------------------------
(***************************************************************************)
(* The inductive invariant.  A request for the present version was signed  *)
(* by somebody who saw the present ledger; and the n-th execution used up  *)
(* the version n - 1, which is why no request can act twice.               *)
(***************************************************************************)
RequestsAreSigned ==
    \A r \in requests :
        /\ r.sig = Signature(r.sig.by, Digest(r.meant, r.call))
        /\ r.meant = version => r.saw = Visible

EachVersionOnce ==
    \A n \in DOMAIN executed : executed[n].request.meant = n - 1

AuthInv ==
    /\ AuthTypeOK
    /\ RequestsAreSigned
    /\ EachVersionOnce
    /\ ActsOnWhatTheSignerSaw
    /\ SignedByTheKeyInForce

\* What a client can see of a well-typed ledger.
LEMMA VisibleType == TypeOK => Visible \in VisibleState
<1> SUFFICES ASSUME TypeOK PROVE Visible \in VisibleState
  OBVIOUS
<1>1. document \in Document
  BY DEF TypeOK, document, Document
<1>2. status \in BOOLEAN \X BOOLEAN
  BY DEF TypeOK, status
<1> QED
  BY <1>1, <1>2 DEF TypeOK, Visible, VisibleState

\* Initially nothing is signed and nothing has run.
LEMMA InitAuthInv == AuthInit => AuthInv
<1> SUFFICES ASSUME AuthInit PROVE AuthInv
  OBVIOUS
<1>1. TypeOK
  BY InitTypeOK DEF AuthInit
<1>2. executed = <<>> /\ requests = {} /\ version = 0
  BY DEF AuthInit, Init
<1> QED
  BY <1>1, <1>2 DEF AuthInv, AuthTypeOK, RequestsAreSigned, EachVersionOnce,
                    ActsOnWhatTheSignerSaw, SignedByTheKeyInForce

\* Signing adds a request that is for the present version and saw its ledger.
LEMMA SignAuthInv ==
  ASSUME AuthInv, NEW k \in PublicKey, NEW call \in Call, Sign(k, call)
  PROVE  AuthInv'
<1> DEFINE new == [sig |-> Signature(k, Digest(version, call)), call |-> call,
                   meant |-> version, saw |-> Visible]
<1>1. requests' = requests \cup {new} /\ UNCHANGED <<ledger, executed>>
  BY DEF Sign
<1>2. /\ UNCHANGED <<version, id, Visible>>
      /\ TypeOK /\ TypeOK'
  BY <1>1 DEF ledger, identity, document, counters, status, Visible, AuthInv,
              AuthTypeOK, TypeOK
<1>3. new.sig.by = k
  BY DEF Signature
<1>4. AuthTypeOK'
  <2>1. \A r \in requests' : /\ r.sig.by \in PublicKey
                             /\ r.call \in Call
                             /\ r.meant \in 0 .. version
                             /\ r.saw \in VisibleState
    BY <1>1, <1>2, <1>3, VisibleType DEF AuthInv, AuthTypeOK, TypeOK
  <2>2. executed \in Seq(Execution')
    <3>1. Execution \subseteq Execution'
      BY <1>1 DEF Execution
    <3> QED
      BY <3>1 DEF AuthInv, AuthTypeOK
  <2> QED
    BY <1>1, <1>2, <2>1, <2>2 DEF AuthInv, AuthTypeOK, VisibleState, Document
<1>5. RequestsAreSigned'
  BY <1>1, <1>2, <1>3 DEF AuthInv, RequestsAreSigned, Signature, Digest
<1>6. EachVersionOnce' /\ ActsOnWhatTheSignerSaw' /\ SignedByTheKeyInForce'
  BY <1>1 DEF AuthInv, EachVersionOnce, ActsOnWhatTheSignerSaw, SignedByTheKeyInForce
<1> QED
  BY <1>4, <1>5, <1>6 DEF AuthInv

\* A delivery that a circuit accepts is of a request for the present version
\* and for the very call that runs, by the key in force.
LEMMA DeliverAccepted ==
  ASSUME AuthInv, NEW r \in requests, NEW call \in Call, NEW v \in 0 .. MaxVersion,
         Deliver(r, call, v)
  PROVE  /\ r.call = call
         /\ r.meant = version
         /\ r.saw = Visible
         /\ r.sig.by = IF call[1] = "recoverControllerKey"
                       THEN recoveryAuthorityPublicKey ELSE controllerPublicKey
         /\ Mutation(r.sig.by, v)
<1> DEFINE k == IF call[1] = "recoverControllerKey"
                THEN recoveryAuthorityPublicKey ELSE controllerPublicKey
<1>1. call \in AnyCall /\ r.call \in AnyCall
  BY CallAssumption DEF AuthInv, AuthTypeOK
<1>2. /\ v = version
      /\ r.sig = Signature(k, Digest(v, call))
      /\ Mutation(k, v)
  BY <1>1, CircuitAuthorized DEF Deliver
<1>3. r.sig = Signature(r.sig.by, Digest(r.meant, r.call))
  BY DEF AuthInv, RequestsAreSigned
<1>4. r.sig.by = k /\ Digest(v, call) = Digest(r.meant, r.call)
  BY <1>2, <1>3 DEF Signature
<1>5. v = r.meant /\ call[1] = r.call[1] /\ call[2] = r.call[2]
  BY <1>4 DEF Digest, ControllerAuthorizationDigest
<1>6. call = r.call
  <2>1. call = <<call[1], call[2]>> /\ r.call = <<r.call[1], r.call[2]>>
    BY <1>1 DEF AnyCall
  <2> QED
    BY <1>5, <2>1
<1> QED
  BY <1>2, <1>4, <1>5, <1>6 DEF AuthInv, RequestsAreSigned

\* A delivery is a mutation of the ledger, and of nothing else in it.
LEMMA DeliverAuthInv ==
  ASSUME AuthInv, NEW r \in requests, NEW call \in Call, NEW v \in 0 .. MaxVersion,
         Deliver(r, call, v)
  PROVE  AuthInv'
<1> DEFINE e == [request |-> r, call |-> call, on |-> Visible,
                 recovery |-> recoveryAuthorityPublicKey]
<1>1. executed' = Append(executed, e) /\ UNCHANGED requests
  BY DEF Deliver
<1>2. /\ r.call = call
      /\ r.meant = version
      /\ r.saw = Visible
      /\ r.sig.by = IF call[1] = "recoverControllerKey"
                    THEN recoveryAuthorityPublicKey ELSE controllerPublicKey
      /\ Mutation(r.sig.by, v)
  BY DeliverAccepted
<1>3. r.sig.by \in PublicKey /\ v \in Nat /\ TypeOK
  BY BoundAssumption DEF AuthInv, AuthTypeOK
<1>4. TypeOK' /\ version' = version + 1
  BY <1>2, <1>3, MutationTypeOK, MutationCounts
<1>5. e \in Execution
  BY <1>3, VisibleType DEF Execution, TypeOK
<1>6. /\ executed \in Seq(Execution)
      /\ Len(executed) = version
      /\ version \in Nat
  BY DEF AuthInv, AuthTypeOK, TypeOK
<1>7. /\ executed' \in Seq(Execution)
      /\ Len(executed') = version + 1
      /\ DOMAIN executed' = 1 .. version + 1
      /\ executed'[version + 1] = e
      /\ \A n \in 1 .. version : executed'[n] = executed[n]
      /\ DOMAIN executed = 1 .. version
  BY <1>1, <1>5, <1>6
<1>8. AuthTypeOK'
  <2>1. Execution' = Execution /\ VisibleState' = VisibleState
    BY <1>1 DEF Execution, VisibleState, Document
  <2> QED
    BY <1>1, <1>4, <1>6, <1>7, <2>1 DEF AuthInv, AuthTypeOK
<1>9. RequestsAreSigned'
  <2>1. id' = id
    BY <1>3, <1>4 DEF TypeOK
  <2>2. \A q \in requests : q.meant # version'
    BY <1>4, <1>6 DEF AuthInv, AuthTypeOK
  <2> QED
    BY <1>1, <2>1, <2>2 DEF AuthInv, RequestsAreSigned, Digest
<1>10. EachVersionOnce'
  BY <1>2, <1>6, <1>7 DEF AuthInv, EachVersionOnce
<1>11. ActsOnWhatTheSignerSaw'
  BY <1>2, <1>6, <1>7 DEF AuthInv, ActsOnWhatTheSignerSaw
<1>12. SignedByTheKeyInForce'
  <2>1. e.on[1] = controllerPublicKey
    BY DEF Visible
  <2>2. ASSUME NEW n \in 1 .. version + 1
        PROVE  LET x == executed'[n] IN
               /\ x.call = x.request.call
               /\ x.request.sig.by = IF x.call[1] = "recoverControllerKey"
                                     THEN x.recovery ELSE x.on[1]
    <3>1. CASE n = version + 1
      BY <3>1, <1>2, <1>7, <2>1
    <3>2. CASE n \in 1 .. version
      BY <3>2, <1>7 DEF AuthInv, SignedByTheKeyInForce
    <3> QED
      BY <3>1, <3>2, <1>6
  <2> QED
    BY <1>7, <2>2 DEF SignedByTheKeyInForce
<1> QED
  BY <1>8, <1>9, <1>10, <1>11, <1>12 DEF AuthInv

\* Every step keeps the invariant.
LEMMA NextAuthInv == AuthInv /\ [AuthNext]_authVars => AuthInv'
<1> SUFFICES ASSUME AuthInv, [AuthNext]_authVars PROVE AuthInv'
  OBVIOUS
<1>1. CASE AuthNext
  BY <1>1, SignAuthInv, DeliverAuthInv DEF AuthNext
<1>2. CASE UNCHANGED authVars
  BY <1>2 DEF authVars, ledger, identity, document, counters, status, AuthInv,
       AuthTypeOK, TypeOK, Execution, VisibleState, Document, RequestsAreSigned,
       Visible, Digest, EachVersionOnce, ActsOnWhatTheSignerSaw, SignedByTheKeyInForce
<1> QED
  BY <1>1, <1>2

\* The invariant holds whatever is signed and delivered.
THEOREM AuthorizationsCorrect == AuthSpec => []AuthInv
BY InitAuthInv, NextAuthInv, PTL DEF AuthSpec

\* An authorization acts at most once, for any number of deliveries.
THEOREM AuthorizationsActOnce == AuthSpec => []AtMostOnce
<1>1. AuthInv => AtMostOnce
  BY DEF AuthInv, EachVersionOnce, AtMostOnce, AuthTypeOK, TypeOK
<1> QED
  BY <1>1, AuthorizationsCorrect, PTL

\* An operation runs on the very state its signer saw.
THEOREM NoUpdateIsLost == AuthSpec => []ActsOnWhatTheSignerSaw
<1>1. AuthInv => ActsOnWhatTheSignerSaw
  BY DEF AuthInv
<1> QED
  BY <1>1, AuthorizationsCorrect, PTL

\* An operation is the one its signer signed, and its signer is in force.
THEOREM OnlyTheKeyInForceActs == AuthSpec => []SignedByTheKeyInForce
<1>1. AuthInv => SignedByTheKeyInForce
  BY DEF AuthInv
<1> QED
  BY <1>1, AuthorizationsCorrect, PTL

\* Types, and one execution per version.
THEOREM AuthorizationTypes == AuthSpec => []AuthTypeOK
<1>1. AuthInv => AuthTypeOK
  BY DEF AuthInv
<1> QED
  BY <1>1, AuthorizationsCorrect, PTL

\* With clients and network the contract is still the contract: whatever is
\* proved of Spec holds of its ledger.
THEOREM AuthorizationImplementsContract == AuthSpec => Spec
<1>1. AuthInv /\ [AuthNext]_authVars => [Next]_ledger
  <2> SUFFICES ASSUME AuthInv, AuthNext PROVE [Next]_ledger
    BY DEF authVars
  <2>1. ASSUME NEW k \in PublicKey, NEW call \in Call, Sign(k, call)
        PROVE  [Next]_ledger
    BY <2>1 DEF Sign
  <2>2. ASSUME NEW r \in requests, NEW call \in Call, NEW v \in 0 .. MaxVersion,
               Deliver(r, call, v)
        PROVE  Next
    <3>1. Mutation(r.sig.by, v)
      BY <2>2, DeliverAccepted
    <3>2. r.sig.by \in PublicKey /\ version < MaxVersion
      BY <2>2 DEF AuthInv, AuthTypeOK, Deliver
    <3> QED
      BY <3>1, <3>2 DEF Next
  <2> QED
    BY <2>1, <2>2 DEF AuthNext
<1>2. AuthInit => Init
  BY DEF AuthInit
<1> QED
  BY <1>1, <1>2, AuthorizationsCorrect, PTL DEF AuthSpec, Spec

=============================================================================

------------------------- MODULE DidContractProofs -------------------------
(***************************************************************************)
(* The ledger of DidContract keeps its promises for any sets of keys,      *)
(* methods, services, aliases and timestamps and any bound on the version. *)
(***************************************************************************)
EXTENDS ContractCalls, TLAPS

-----------------------------------------------------------------------------
(***************************************************************************)
(* Types.  One step per circuit; a mutation of the ledger writes one cell  *)
(* and the counters.                                                       *)
(***************************************************************************)
\* The initial ledger has the types of TypeOK.
LEMMA InitTypeOK == Init => TypeOK
<1> SUFFICES ASSUME Init PROVE TypeOK
  OBVIOUS
<1>1. /\ deactivated \in BOOLEAN
      /\ active \in BOOLEAN
      /\ version \in Nat
      /\ operationCount \in Nat
  BY DEF Init
<1>2. /\ verificationMethods \in [MethodId -> Method \cup {Absent}]
      /\ schnorrJubjubVerificationMethods \in [MethodId -> SchnorrKey \cup {Absent}]
      /\ services \in [ServiceId -> ServiceBody \cup {Absent}]
  BY DEF Init
<1>3. relations \in [Relation -> SUBSET MethodId]
  BY DEF Init
<1> QED
  BY <1>1, <1>2, <1>3 DEF Init, TypeOK

\* Whatever a circuit writes has the type of the cell it is written to.
LEMMA MutationTypeOK ==
  ASSUME NEW k \in PublicKey, NEW v \in Nat, TypeOK, Mutation(k, v)
  PROVE  TypeOK'
<1> USE DEF TypeOK, RecordUpdate, identity, document, status
<1>1. CASE RotateControllerKeyTx(k, v)
  BY <1>1 DEF RotateControllerKeyTx, RotateControllerKey
<1>2. CASE RecoverControllerKeyTx(k, v)
  BY <1>2 DEF RecoverControllerKeyTx, RecoverControllerKey
<1>3. CASE SetAlsoKnownAsTx(k, v)
  BY <1>3 DEF SetAlsoKnownAsTx, SetAlsoKnownAs
<1>4. CASE SetVerificationMethodTx(k, v)
  BY <1>4 DEF SetVerificationMethodTx, SetVerificationMethod
<1>5. CASE RemoveVerificationMethodTx(k, v)
  BY <1>5 DEF RemoveVerificationMethodTx, RemoveVerificationMethod
<1>6. CASE SetSchnorrJubjubVerificationMethodTx(k, v)
  BY <1>6 DEF SetSchnorrJubjubVerificationMethodTx, SetSchnorrJubjubVerificationMethod
<1>7. CASE RemoveSchnorrJubjubVerificationMethodTx(k, v)
  BY <1>7 DEF RemoveSchnorrJubjubVerificationMethodTx,
              RemoveSchnorrJubjubVerificationMethod
<1>8. CASE SetVerificationMethodRelationTx(k, v)
  BY <1>8 DEF SetVerificationMethodRelationTx, SetVerificationMethodRelation,
              InsertVerificationMethodRelation,
              RemoveVerificationMethodRelationFromLedger
<1>9. CASE SetServiceTx(k, v)
  BY <1>9 DEF SetServiceTx, SetService
<1>10. CASE RemoveServiceTx(k, v)
  BY <1>10 DEF RemoveServiceTx, RemoveService
<1>11. CASE DeactivateTx(k, v)
  <2>1. active' = FALSE /\ deactivated' = TRUE
    BY <1>11 DEF DeactivateTx, Deactivate
  <2>2. active' \in BOOLEAN /\ deactivated' \in BOOLEAN
    BY <2>1
  <2> QED
    BY <1>11, <2>2 DEF DeactivateTx, Deactivate
<1> QED
  BY <1>1, <1>2, <1>3, <1>4, <1>5, <1>6, <1>7, <1>8, <1>9, <1>10, <1>11
     DEF Mutation

\* Type correctness: every reachable ledger has the types of TypeOK.
THEOREM TypeCorrect == Spec => []TypeOK
<1>1. TypeOK /\ [Next]_ledger => TypeOK'
  <2> SUFFICES ASSUME TypeOK, [Next]_ledger PROVE TypeOK'
    OBVIOUS
  <2>1. CASE Next
    BY <2>1, MutationTypeOK, BoundAssumption DEF Next
  <2>2. CASE UNCHANGED ledger
    BY <2>2 DEF TypeOK, ledger, identity, document, counters, status
  <2> QED BY <2>1, <2>2
<1> QED
  BY InitTypeOK, <1>1, PTL DEF Spec

-----------------------------------------------------------------------------
(***************************************************************************)
(* The inductive invariant.  Its parts need each other: removing a method  *)
(* keeps key separation because the method is unreferenced, updating its   *)
(* key keeps it because every reference is checked, inserting a method     *)
(* keeps it because referential integrity says no relation names the new   *)
(* id yet.                                                                 *)
(***************************************************************************)
DocumentInv ==
    /\ RelationsReferToMethods
    /\ OneMapPerMethodId
    /\ KeyAgreementSeparation

\* No circuit but those of methods and relations can disturb DocumentInv.
LEMMA DocumentInvFrame ==
  ASSUME DocumentInv,
         UNCHANGED <<verificationMethods, schnorrJubjubVerificationMethods, relations>>
  PROVE  DocumentInv'
BY DEF DocumentInv, RelationsReferToMethods, OneMapPerMethodId,
       KeyAgreementSeparation, VerificationMethodExists

\* Inserting or updating a JWK method keeps the document consistent.
LEMMA SetVerificationMethodInv ==
  ASSUME TypeOK, DocumentInv,
         NEW i \in MethodId, NEW method \in Method, NEW m, NEW sig, NEW v,
         SetVerificationMethod(i, method, m, sig, v)
  PROVE  DocumentInv'
<1> USE DEF DocumentInv, SetVerificationMethod
<1>1. /\ verificationMethods' = [verificationMethods EXCEPT ![i] = method]
      /\ UNCHANGED <<schnorrJubjubVerificationMethods, relations>>
  OBVIOUS
<1>2. method # Absent
  BY AbsentAssumption
<1>3. verificationMethods'[i] = method
  BY <1>1 DEF TypeOK
<1>4. \A j \in MethodId \ {i} : verificationMethods'[j] = verificationMethods[j]
  BY <1>1 DEF TypeOK
<1>5. RelationsReferToMethods'
  BY <1>1, <1>2, <1>3, <1>4 DEF RelationsReferToMethods, VerificationMethodExists, TypeOK
<1>6. schnorrJubjubVerificationMethods[i] = Absent
  BY DEF OneMapPerMethodId, VerificationMethodExists
<1>7. OneMapPerMethodId'
  BY <1>1, <1>4, <1>6 DEF OneMapPerMethodId
<1>8. KeyAgreementSeparation'
  <2>1. CASE m = "Update"
    BY <2>1, <1>1, <1>2, <1>3, <1>4
       DEF KeyAgreementSeparation, AssertExistingVerificationMethodRelationsCompatible
  <2>2. CASE m = "Insert"
    <3>1. \A r \in Relation : i \notin relations[r]
      BY <2>2 DEF RelationsReferToMethods
    <3> QED
      BY <3>1, <1>1, <1>3, <1>4 DEF KeyAgreementSeparation, Relation
  <2> QED
    BY <2>1, <2>2
<1> QED
  BY <1>5, <1>7, <1>8

\* Removing a JWK method that no relation names keeps the document consistent.
LEMMA RemoveVerificationMethodInv ==
  ASSUME TypeOK, DocumentInv,
         NEW i \in MethodId, NEW sig, NEW v,
         RemoveVerificationMethod(i, sig, v)
  PROVE  DocumentInv'
<1> USE DEF DocumentInv, RemoveVerificationMethod
<1>1. /\ verificationMethods' = [verificationMethods EXCEPT ![i] = Absent]
      /\ UNCHANGED <<schnorrJubjubVerificationMethods, relations>>
  OBVIOUS
<1>2. verificationMethods'[i] = Absent
  BY <1>1 DEF TypeOK
<1>3. \A j \in MethodId \ {i} : verificationMethods'[j] = verificationMethods[j]
  BY <1>1 DEF TypeOK
<1>4. \A r \in Relation : i \notin relations[r]
  BY DEF AssertVerificationMethodIsNotReferenced
<1>5. RelationsReferToMethods'
  BY <1>1, <1>3, <1>4 DEF RelationsReferToMethods, VerificationMethodExists, TypeOK
<1>6. OneMapPerMethodId'
  BY <1>1, <1>2, <1>3 DEF OneMapPerMethodId
<1>7. KeyAgreementSeparation'
  BY <1>1, <1>2, <1>3, <1>4 DEF KeyAgreementSeparation, Relation
<1> QED
  BY <1>5, <1>6, <1>7

\* Inserting or updating a SchnorrJubjub method keeps the document consistent.
LEMMA SetSchnorrJubjubVerificationMethodInv ==
  ASSUME TypeOK, DocumentInv,
         NEW i \in MethodId, NEW key \in SchnorrKey, NEW m, NEW sig, NEW v,
         SetSchnorrJubjubVerificationMethod(i, key, m, sig, v)
  PROVE  DocumentInv'
<1> USE DEF DocumentInv, SetSchnorrJubjubVerificationMethod
<1>1. /\ schnorrJubjubVerificationMethods' =
             [schnorrJubjubVerificationMethods EXCEPT ![i] = key]
      /\ UNCHANGED <<verificationMethods, relations>>
  OBVIOUS
<1>2. /\ schnorrJubjubVerificationMethods'[i] = key
      /\ key # Absent
  BY <1>1, AbsentAssumption DEF TypeOK
<1>3. \A j \in MethodId \ {i} :
          schnorrJubjubVerificationMethods'[j] = schnorrJubjubVerificationMethods[j]
  BY <1>1 DEF TypeOK
<1>4. RelationsReferToMethods'
  BY <1>1, <1>2, <1>3 DEF RelationsReferToMethods, VerificationMethodExists, TypeOK
<1>5. verificationMethods[i] = Absent
  BY DEF OneMapPerMethodId, VerificationMethodExists
<1>6. OneMapPerMethodId'
  BY <1>1, <1>3, <1>5 DEF OneMapPerMethodId
<1>7. KeyAgreementSeparation'
  BY <1>1 DEF KeyAgreementSeparation
<1> QED
  BY <1>4, <1>6, <1>7

\* Removing a SchnorrJubjub method that no relation names keeps the document
\* consistent.
LEMMA RemoveSchnorrJubjubVerificationMethodInv ==
  ASSUME TypeOK, DocumentInv,
         NEW i \in MethodId, NEW sig, NEW v,
         RemoveSchnorrJubjubVerificationMethod(i, sig, v)
  PROVE  DocumentInv'
<1> USE DEF DocumentInv, RemoveSchnorrJubjubVerificationMethod
<1>1. /\ schnorrJubjubVerificationMethods' =
             [schnorrJubjubVerificationMethods EXCEPT ![i] = Absent]
      /\ UNCHANGED <<verificationMethods, relations>>
  OBVIOUS
<1>2. \A j \in MethodId \ {i} :
          schnorrJubjubVerificationMethods'[j] = schnorrJubjubVerificationMethods[j]
  BY <1>1 DEF TypeOK
<1>3. \A r \in Relation : i \notin relations[r]
  BY DEF AssertVerificationMethodIsNotReferenced
<1>4. RelationsReferToMethods'
  BY <1>1, <1>2, <1>3 DEF RelationsReferToMethods, VerificationMethodExists, TypeOK
<1>5. schnorrJubjubVerificationMethods'[i] = Absent
  BY <1>1 DEF TypeOK
<1>6. OneMapPerMethodId'
  BY <1>1, <1>2, <1>5 DEF OneMapPerMethodId
<1>7. KeyAgreementSeparation'
  BY <1>1 DEF KeyAgreementSeparation
<1> QED
  BY <1>4, <1>6, <1>7

\* Inserting into or removing from a relation keeps the document consistent.
LEMMA SetVerificationMethodRelationInv ==
  ASSUME TypeOK, DocumentInv,
         NEW r \in AnyRelation, NEW i \in MethodId, NEW m, NEW sig, NEW v,
         SetVerificationMethodRelation(r, i, m, sig, v)
  PROVE  DocumentInv'
<1> USE DEF DocumentInv, SetVerificationMethodRelation
<1>1. /\ UNCHANGED <<verificationMethods, schnorrJubjubVerificationMethods>>
      /\ VerificationMethodExists(i)
      /\ r \in Relation
  BY DEF AnyRelation
<1>2. \A q \in Relation \ {r} : relations'[q] = relations[q]
  BY <1>1 DEF InsertVerificationMethodRelation,
              RemoveVerificationMethodRelationFromLedger, TypeOK
<1>3. OneMapPerMethodId'
  BY <1>1 DEF OneMapPerMethodId
<1>4. CASE m = "Insert"
  <2>1. relations'[r] = relations[r] \cup {i}
    BY <1>1, <1>4 DEF InsertVerificationMethodRelation, TypeOK
  <2>2. RelationsReferToMethods'
    BY <1>1, <1>2, <2>1 DEF RelationsReferToMethods, VerificationMethodExists
  <2>3. AssertVerificationMethodRelationCompatible(r, i)
    BY <1>4
  <2>4. KeyAgreementSeparation'
    BY <1>1, <1>2, <2>1, <2>3
       DEF KeyAgreementSeparation, AssertVerificationMethodRelationCompatible,
           IsSigningVerificationMethodRelation, Relation, SigningRelation
  <2> QED
    BY <1>3, <2>2, <2>4
<1>5. CASE m = "Remove"
  <2>1. relations'[r] = relations[r] \ {i}
    BY <1>1, <1>5 DEF RemoveVerificationMethodRelationFromLedger, TypeOK
  <2>2. RelationsReferToMethods'
    BY <1>1, <1>2, <2>1 DEF RelationsReferToMethods, VerificationMethodExists
  <2>3. KeyAgreementSeparation'
    BY <1>1, <1>2, <2>1 DEF KeyAgreementSeparation, Relation
  <2> QED
    BY <1>3, <2>2, <2>3
<1> QED
  BY <1>4, <1>5

\* Every circuit keeps the document consistent.
LEMMA MutationDocumentInv ==
  ASSUME NEW k \in PublicKey, NEW v \in Nat, TypeOK, DocumentInv, Mutation(k, v)
  PROVE  DocumentInv'
<1> USE DEF document
<1>1. CASE RotateControllerKeyTx(k, v)
  BY <1>1, DocumentInvFrame DEF RotateControllerKeyTx, RotateControllerKey
<1>2. CASE RecoverControllerKeyTx(k, v)
  BY <1>2, DocumentInvFrame DEF RecoverControllerKeyTx, RecoverControllerKey
<1>3. CASE SetAlsoKnownAsTx(k, v)
  BY <1>3, DocumentInvFrame DEF SetAlsoKnownAsTx, SetAlsoKnownAs
<1>4. CASE SetVerificationMethodTx(k, v)
  BY <1>4, SetVerificationMethodInv DEF SetVerificationMethodTx
<1>5. CASE RemoveVerificationMethodTx(k, v)
  BY <1>5, RemoveVerificationMethodInv DEF RemoveVerificationMethodTx
<1>6. CASE SetSchnorrJubjubVerificationMethodTx(k, v)
  BY <1>6, SetSchnorrJubjubVerificationMethodInv
     DEF SetSchnorrJubjubVerificationMethodTx
<1>7. CASE RemoveSchnorrJubjubVerificationMethodTx(k, v)
  BY <1>7, RemoveSchnorrJubjubVerificationMethodInv
     DEF RemoveSchnorrJubjubVerificationMethodTx
<1>8. CASE SetVerificationMethodRelationTx(k, v)
  BY <1>8, SetVerificationMethodRelationInv DEF SetVerificationMethodRelationTx
<1>9. CASE SetServiceTx(k, v)
  BY <1>9, DocumentInvFrame DEF SetServiceTx, SetService
<1>10. CASE RemoveServiceTx(k, v)
  BY <1>10, DocumentInvFrame DEF RemoveServiceTx, RemoveService
<1>11. CASE DeactivateTx(k, v)
  BY <1>11, DocumentInvFrame DEF DeactivateTx, Deactivate
<1> QED
  BY <1>1, <1>2, <1>3, <1>4, <1>5, <1>6, <1>7, <1>8, <1>9, <1>10, <1>11
     DEF Mutation

-----------------------------------------------------------------------------
(***************************************************************************)
(* Every circuit, seen from the lifecycle, is an amendment of the document,*)
(* a handover of control or the deactivation.                              *)
(***************************************************************************)
\* A circuit runs on an active contract only, and counts itself.
LEMMA MutationCounts ==
  ASSUME NEW k \in PublicKey, NEW v \in Nat, Mutation(k, v)
  PROVE  /\ active
         /\ version' = version + 1
         /\ operationCount' = operationCount + 1
         /\ UNCHANGED recoveryAuthorityPublicKey
BY DEF Mutation, RotateControllerKeyTx, RotateControllerKey,
       RecoverControllerKeyTx, RecoverControllerKey, SetAlsoKnownAsTx, SetAlsoKnownAs,
       SetVerificationMethodTx, SetVerificationMethod,
       RemoveVerificationMethodTx, RemoveVerificationMethod,
       SetSchnorrJubjubVerificationMethodTx, SetSchnorrJubjubVerificationMethod,
       RemoveSchnorrJubjubVerificationMethodTx, RemoveSchnorrJubjubVerificationMethod,
       SetVerificationMethodRelationTx, SetVerificationMethodRelation,
       SetServiceTx, SetService, RemoveServiceTx, RemoveService,
       DeactivateTx, Deactivate, AssertControllerCanUpdate, AssertRecoveryCanUpdate,
       RecordUpdate, identity

\* A circuit leaves the controller and the status alone, or hands over to a
\* key that is neither of the two in office, or deactivates.
LEMMA MutationKinds ==
  ASSUME NEW k \in PublicKey, NEW v \in Nat, Mutation(k, v)
  PROVE  \/ UNCHANGED <<controllerPublicKey, status>>
         \/ /\ controllerPublicKey' \in PublicKey
            /\ controllerPublicKey' # controllerPublicKey
            /\ controllerPublicKey' # recoveryAuthorityPublicKey
            /\ UNCHANGED <<document, status>>
         \/ /\ active' = FALSE
            /\ deactivated' = TRUE
            /\ UNCHANGED <<controllerPublicKey, document>>
<1>1. CASE RotateControllerKeyTx(k, v)
  BY <1>1 DEF RotateControllerKeyTx, RotateControllerKey,
              AssertControllerPublicKeyChanges,
              AssertControllerPublicKeyDistinctFromRecoveryAuthority
<1>2. CASE RecoverControllerKeyTx(k, v)
  BY <1>2 DEF RecoverControllerKeyTx, RecoverControllerKey,
              AssertControllerPublicKeyChanges,
              AssertControllerPublicKeyDistinctFromRecoveryAuthority
<1>3. CASE DeactivateTx(k, v)
  BY <1>3 DEF DeactivateTx, Deactivate
<1>4. CASE ~ (\/ RotateControllerKeyTx(k, v)
              \/ RecoverControllerKeyTx(k, v)
              \/ DeactivateTx(k, v))
  BY <1>4 DEF Mutation, SetAlsoKnownAsTx, SetAlsoKnownAs,
       SetVerificationMethodTx, SetVerificationMethod,
       RemoveVerificationMethodTx, RemoveVerificationMethod,
       SetSchnorrJubjubVerificationMethodTx, SetSchnorrJubjubVerificationMethod,
       RemoveSchnorrJubjubVerificationMethodTx, RemoveSchnorrJubjubVerificationMethod,
       SetVerificationMethodRelationTx, SetVerificationMethodRelation,
       SetServiceTx, SetService, RemoveServiceTx, RemoveService
<1> QED
  BY <1>1, <1>2, <1>3, <1>4

-----------------------------------------------------------------------------
(***************************************************************************)
(* The invariant of the ledger and what follows from it.                   *)
(***************************************************************************)
LedgerInv ==
    /\ TypeOK
    /\ DocumentInv
    /\ ControllerIsNotRecoveryAuthority
    /\ CellsAgree

\* The initial ledger satisfies the invariant.
LEMMA InitLedgerInv == Init => LedgerInv
<1> SUFFICES ASSUME Init PROVE LedgerInv
  OBVIOUS
<1>1. DocumentInv
  BY DEF Init, DocumentInv, RelationsReferToMethods, OneMapPerMethodId,
         KeyAgreementSeparation, Relation, SigningRelation
<1>2. ControllerIsNotRecoveryAuthority
  BY DEF Init, ControllerIsNotRecoveryAuthority
<1>3. CellsAgree
  BY DEF Init, CellsAgree
<1> QED
  BY <1>1, <1>2, <1>3, InitTypeOK DEF LedgerInv

\* The status cells stay complementary whatever circuit runs.
LEMMA MutationCellsAgree ==
  ASSUME NEW k \in PublicKey, NEW v \in Nat, CellsAgree, Mutation(k, v)
  PROVE  CellsAgree'
<1>1. operationCount' = version'
  BY MutationCounts DEF CellsAgree
<1>2. CASE UNCHANGED status
  <2>1. deactivated' = deactivated /\ active' = active
    BY <1>2 DEF status
  <2>2. deactivated' = ~active'
    BY <2>1, Zenon DEF CellsAgree
  <2> QED
    BY <1>1, <2>2, Zenon DEF CellsAgree
<1>3. CASE active' = FALSE /\ deactivated' = TRUE
  <2>1. deactivated' = ~active'
    BY <1>3
  <2> QED
    BY <1>1, <2>1, Zenon DEF CellsAgree
<1>4. \/ UNCHANGED status
      \/ active' = FALSE /\ deactivated' = TRUE
  BY MutationKinds, Zenon
<1> QED
  BY <1>2, <1>3, <1>4

\* Every mutation keeps the invariant.
LEMMA MutationLedgerInv ==
  ASSUME NEW k \in PublicKey, NEW v \in Nat, LedgerInv, Mutation(k, v)
  PROVE  LedgerInv'
<1>1. TypeOK' /\ DocumentInv'
  BY MutationTypeOK, MutationDocumentInv DEF LedgerInv
<1>2. CellsAgree'
  BY MutationCellsAgree DEF LedgerInv
<1>3. ControllerIsNotRecoveryAuthority'
  BY MutationKinds, MutationCounts DEF LedgerInv, ControllerIsNotRecoveryAuthority
<1> QED
  BY <1>1, <1>2, <1>3 DEF LedgerInv

\* Every step keeps the invariant.
LEMMA NextLedgerInv == LedgerInv /\ [Next]_ledger => LedgerInv'
<1> SUFFICES ASSUME LedgerInv, [Next]_ledger PROVE LedgerInv'
  OBVIOUS
<1>1. CASE Next
  <2>1. PICK k \in PublicKey, v \in 0 .. MaxVersion : Mutation(k, v)
    BY <1>1 DEF Next
  <2>2. v \in Nat
    BY BoundAssumption
  <2> QED
    BY <2>1, <2>2, MutationLedgerInv
<1>2. CASE UNCHANGED ledger
  <2> USE <1>2 DEF ledger, identity, document, counters, status
  <2>1. TypeOK'
    BY DEF LedgerInv, TypeOK
  <2>2. DocumentInv'
    BY DocumentInvFrame DEF LedgerInv
  <2>3. ControllerIsNotRecoveryAuthority'
    BY DEF LedgerInv, ControllerIsNotRecoveryAuthority
  <2>4. CellsAgree'
    BY Zenon DEF LedgerInv, CellsAgree
  <2> QED
    BY <2>1, <2>2, <2>3, <2>4 DEF LedgerInv
<1> QED
  BY <1>1, <1>2

\* The invariant holds of every reachable ledger.
THEOREM LedgerCorrect == Spec => []LedgerInv
BY InitLedgerInv, NextLedgerInv, PTL DEF Spec

\* No relation ever names a verification method that is not stored.
THEOREM ReferentialIntegrity == Spec => []RelationsReferToMethods
<1>1. LedgerInv => RelationsReferToMethods
  BY DEF LedgerInv, DocumentInv
<1> QED
  BY <1>1, LedgerCorrect, PTL

\* No id is ever both a JWK and a SchnorrJubjub method.
THEOREM DisjointMaps == Spec => []OneMapPerMethodId
<1>1. LedgerInv => OneMapPerMethodId
  BY DEF LedgerInv, DocumentInv
<1> QED
  BY <1>1, LedgerCorrect, PTL

\* Key-agreement keys and signing keys never mix in the relations.
THEOREM KeySeparation == Spec => []KeyAgreementSeparation
<1>1. LedgerInv => KeyAgreementSeparation
  BY DEF LedgerInv, DocumentInv
<1> QED
  BY <1>1, LedgerCorrect, PTL

\* The recovery authority never becomes the controller.
THEOREM AuthoritySeparation == Spec => []ControllerIsNotRecoveryAuthority
<1>1. LedgerInv => ControllerIsNotRecoveryAuthority
  BY DEF LedgerInv
<1> QED
  BY <1>1, LedgerCorrect, PTL

\* The status cells and the counters never disagree.
THEOREM StatusAgreement == Spec => []CellsAgree
<1>1. LedgerInv => CellsAgree
  BY DEF LedgerInv
<1> QED
  BY <1>1, LedgerCorrect, PTL

\* No circuit runs on a deactivated contract.
THEOREM Finality == Spec => DeactivationIsFinal
<1>1. [Next]_ledger => [active]_ledger
  <2> SUFFICES ASSUME Next PROVE active
    OBVIOUS
  <2> QED
    BY MutationCounts, BoundAssumption DEF Next
<1> QED
  BY <1>1, PTL DEF Spec, DeactivationIsFinal

\* No two states of document, controller and status share a version.
THEOREM VersionsNameStates == Spec => VersionNamesState
<1>1. [Next]_ledger =>
        [version' = version + 1]_<<document, controllerPublicKey, status>>
  <2>1. ASSUME Next PROVE version' = version + 1
    BY <2>1, MutationCounts, BoundAssumption DEF Next
  <2>2. UNCHANGED ledger => UNCHANGED <<document, controllerPublicKey, status>>
    BY DEF ledger
  <2> QED
    BY <2>1, <2>2
<1> QED
  BY <1>1, PTL DEF Spec, VersionNamesState

-----------------------------------------------------------------------------
(***************************************************************************)
(* Refinement: the contract implements DidLifecycle.                       *)
(***************************************************************************)
\* A constructed contract is a DID at the start of its life.
LEMMA InitLifecycle == Init => Lifecycle!Init
BY DEF Init, Lifecycle!Init

\* A circuit is one step of the lifecycle.
LEMMA MutationLifecycle ==
  ASSUME NEW k \in PublicKey, NEW v \in Nat, Mutation(k, v)
  PROVE  Lifecycle!Next
<1>1. Lifecycle!TakesEffect
  BY MutationCounts DEF Lifecycle!TakesEffect
<1>2. CASE UNCHANGED <<controllerPublicKey, status>>
  BY <1>1, <1>2 DEF Lifecycle!Next, Lifecycle!Amend, status
<1>3. CASE /\ controllerPublicKey' \in PublicKey
           /\ controllerPublicKey' # controllerPublicKey
           /\ controllerPublicKey' # recoveryAuthorityPublicKey
           /\ UNCHANGED <<document, status>>
  <2>1. Lifecycle!Handover(controllerPublicKey')
    BY <1>1, <1>3 DEF Lifecycle!Handover, status
  <2> QED
    BY <1>3, <2>1 DEF Lifecycle!Next
<1>4. CASE /\ active' = FALSE
           /\ UNCHANGED <<controllerPublicKey, document>>
  BY <1>1, <1>4 DEF Lifecycle!Next, Lifecycle!Deactivate
<1> QED
  BY <1>2, <1>3, <1>4, MutationKinds

\* Every behaviour of the contract is a behaviour of the lifecycle.
THEOREM ImplementsLifecycle == Spec => LifecycleSpec
<1>1. [Next]_ledger => [Lifecycle!Next]_(Lifecycle!vars)
  <2>1. ASSUME Next PROVE Lifecycle!Next
    BY <2>1, MutationLifecycle, BoundAssumption DEF Next
  <2>2. UNCHANGED ledger => UNCHANGED Lifecycle!vars
    BY DEF ledger, identity, counters, status, Lifecycle!vars
  <2> QED
    BY <2>1, <2>2
<1> QED
  BY <1>1, InitLifecycle, PTL DEF Spec, LifecycleSpec, Lifecycle!Spec

-----------------------------------------------------------------------------
(***************************************************************************)
(* What it takes for a call to run: the version, and the signature of the  *)
(* key in force.  Used for every component that drives the contract.       *)
(***************************************************************************)
\* The arguments of an operation are those of its circuit.
LEMMA CallArguments ==
  ASSUME NEW call \in AnyCall
  PROVE  /\ call[1] \in {"rotateControllerKey", "recoverControllerKey"} =>
               call[2] \in PublicKey
         /\ call[1] = "setAlsoKnownAs" => call[2] \in Alias \X SetMutation
         /\ call[1] = "setVerificationMethod" =>
               call[2] \in MethodId \X Method \X MapMutation
         /\ call[1] \in {"removeVerificationMethod", "removeSchnorrJubjubVM"} =>
               call[2] \in MethodId
         /\ call[1] = "setSchnorrJubjubVM" =>
               call[2] \in MethodId \X SchnorrKey \X MapMutation
         /\ call[1] = "setVMRelation" =>
               call[2] \in AnyRelation \X MethodId \X SetMutation
         /\ call[1] = "setService" => call[2] \in ServiceId \X ServiceBody \X MapMutation
         /\ call[1] = "removeService" => call[2] \in ServiceId
         /\ call[1] = "deactivate" => call[2] = "no-args"
BY DEF AnyCall

\* An authorization that a circuit accepted is for the ledger's version and for
\* this very call, and signed by the recovery authority if the call is a
\* recovery, by the controller otherwise; and the ledger makes the mutation
\* that this signer and this version allow.
LEMMA CircuitAuthorized ==
  ASSUME NEW call \in AnyCall, NEW sig, NEW v, Circuit(call, sig, v)
  PROVE  LET k == IF call[1] = "recoverControllerKey"
                  THEN recoveryAuthorityPublicKey ELSE controllerPublicKey
         IN  /\ v = version
             /\ sig = Signature(k, Digest(v, call))
             /\ Mutation(k, v)
<1> DEFINE k == IF call[1] = "recoverControllerKey"
                THEN recoveryAuthorityPublicKey ELSE controllerPublicKey
<1> USE DEF SchnorrVerifyDigest, Digest, AssertControllerCanUpdate, AssertController
<1>1. CASE /\ call[1] = "rotateControllerKey"
           /\ RotateControllerKey(call[2], sig, v)
  <2>1. v = version /\ sig = Signature(k, Digest(v, call))
    BY <1>1 DEF RotateControllerKey, RotateControllerKeyDigest
  <2>2. RotateControllerKeyTx(k, v)
    BY <1>1, <2>1, CallArguments DEF RotateControllerKeyTx, RotateControllerKeyDigest
  <2> QED
    BY <2>1, <2>2 DEF Mutation
<1>2. CASE /\ call[1] = "recoverControllerKey"
           /\ RecoverControllerKey(call[2], sig, v)
  <2>1. v = version /\ sig = Signature(k, Digest(v, call))
    BY <1>2 DEF RecoverControllerKey, RecoverControllerKeyDigest, AssertRecoveryCanUpdate
  <2>2. RecoverControllerKeyTx(k, v)
    BY <1>2, <2>1, CallArguments DEF RecoverControllerKeyTx, RecoverControllerKeyDigest
  <2> QED
    BY <2>1, <2>2 DEF Mutation
<1>3. CASE /\ call[1] = "setAlsoKnownAs"
           /\ SetAlsoKnownAs(call[2][1], call[2][2], sig, v)
  <2>0. call[2] = <<call[2][1], call[2][2]>>
    BY <1>3, CallArguments
  <2>1. v = version /\ sig = Signature(k, Digest(v, call))
    BY <1>3, <2>0 DEF SetAlsoKnownAs, SetAlsoKnownAsDigest
  <2>2. SetAlsoKnownAsTx(k, v)
    BY <1>3, <2>0, <2>1, CallArguments
       DEF SetAlsoKnownAsTx, SetAlsoKnownAsDigest
  <2> QED
    BY <2>1, <2>2 DEF Mutation
<1>4. CASE /\ call[1] = "setVerificationMethod"
           /\ SetVerificationMethod(call[2][1], call[2][2], call[2][3], sig, v)
  <2>0. call[2] = <<call[2][1], call[2][2], call[2][3]>>
    BY <1>4, CallArguments
  <2>1. v = version /\ sig = Signature(k, Digest(v, call))
    BY <1>4, <2>0 DEF SetVerificationMethod, SetVerificationMethodDigest
  <2>2. SetVerificationMethodTx(k, v)
    BY <1>4, <2>0, <2>1, CallArguments
       DEF SetVerificationMethodTx, SetVerificationMethodDigest
  <2> QED
    BY <2>1, <2>2 DEF Mutation
<1>5. CASE /\ call[1] = "removeVerificationMethod"
           /\ RemoveVerificationMethod(call[2], sig, v)
  <2>1. v = version /\ sig = Signature(k, Digest(v, call))
    BY <1>5 DEF RemoveVerificationMethod, RemoveVerificationMethodDigest
  <2>2. RemoveVerificationMethodTx(k, v)
    BY <1>5, <2>1, CallArguments
       DEF RemoveVerificationMethodTx, RemoveVerificationMethodDigest
  <2> QED
    BY <2>1, <2>2 DEF Mutation
<1>6. CASE /\ call[1] = "setSchnorrJubjubVM"
           /\ SetSchnorrJubjubVerificationMethod(call[2][1], call[2][2], call[2][3], sig, v)
  <2>0. call[2] = <<call[2][1], call[2][2], call[2][3]>>
    BY <1>6, CallArguments
  <2>1. v = version /\ sig = Signature(k, Digest(v, call))
    BY <1>6, <2>0 DEF SetSchnorrJubjubVerificationMethod, SetSchnorrJubjubVerificationMethodDigest
  <2>2. SetSchnorrJubjubVerificationMethodTx(k, v)
    BY <1>6, <2>0, <2>1, CallArguments
       DEF SetSchnorrJubjubVerificationMethodTx, SetSchnorrJubjubVerificationMethodDigest
  <2> QED
    BY <2>1, <2>2 DEF Mutation
<1>7. CASE /\ call[1] = "removeSchnorrJubjubVM"
           /\ RemoveSchnorrJubjubVerificationMethod(call[2], sig, v)
  <2>1. v = version /\ sig = Signature(k, Digest(v, call))
    BY <1>7 DEF RemoveSchnorrJubjubVerificationMethod, RemoveSchnorrJubjubVerificationMethodDigest
  <2>2. RemoveSchnorrJubjubVerificationMethodTx(k, v)
    BY <1>7, <2>1, CallArguments
       DEF RemoveSchnorrJubjubVerificationMethodTx, RemoveSchnorrJubjubVerificationMethodDigest
  <2> QED
    BY <2>1, <2>2 DEF Mutation
<1>8. CASE /\ call[1] = "setVMRelation"
           /\ SetVerificationMethodRelation(call[2][1], call[2][2], call[2][3], sig, v)
  <2>0. call[2] = <<call[2][1], call[2][2], call[2][3]>>
    BY <1>8, CallArguments
  <2>1. v = version /\ sig = Signature(k, Digest(v, call))
    BY <1>8, <2>0 DEF SetVerificationMethodRelation, SetVerificationMethodRelationDigest
  <2>2. SetVerificationMethodRelationTx(k, v)
    BY <1>8, <2>0, <2>1, CallArguments
       DEF SetVerificationMethodRelationTx, SetVerificationMethodRelationDigest
  <2> QED
    BY <2>1, <2>2 DEF Mutation
<1>9. CASE /\ call[1] = "setService"
           /\ SetService(call[2][1], call[2][2], call[2][3], sig, v)
  <2>0. call[2] = <<call[2][1], call[2][2], call[2][3]>>
    BY <1>9, CallArguments
  <2>1. v = version /\ sig = Signature(k, Digest(v, call))
    BY <1>9, <2>0 DEF SetService, SetServiceDigest
  <2>2. SetServiceTx(k, v)
    BY <1>9, <2>0, <2>1, CallArguments
       DEF SetServiceTx, SetServiceDigest
  <2> QED
    BY <2>1, <2>2 DEF Mutation
<1>10. CASE /\ call[1] = "removeService"
           /\ RemoveService(call[2], sig, v)
  <2>1. v = version /\ sig = Signature(k, Digest(v, call))
    BY <1>10 DEF RemoveService, RemoveServiceDigest
  <2>2. RemoveServiceTx(k, v)
    BY <1>10, <2>1, CallArguments
       DEF RemoveServiceTx, RemoveServiceDigest
  <2> QED
    BY <2>1, <2>2 DEF Mutation
<1>11. CASE /\ call[1] = "deactivate"
            /\ Deactivate(sig, v)
  <2>1. v = version /\ sig = Signature(k, Digest(v, call))
    BY <1>11, CallArguments DEF Deactivate, DeactivateDigest
  <2>2. DeactivateTx(k, v)
    BY <1>11, <2>1, CallArguments DEF DeactivateTx, DeactivateDigest
  <2> QED
    BY <2>1, <2>2 DEF Mutation
<1> QED
  BY <1>1, <1>2, <1>3, <1>4, <1>5, <1>6, <1>7, <1>8, <1>9, <1>10, <1>11 DEF Circuit

=============================================================================

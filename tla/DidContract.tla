---------------------------- MODULE DidContract ----------------------------
(***************************************************************************)
(* The on-chain DID contract: the ledger cells of one deployed contract    *)
(* and the circuits that change them, as compiled into                     *)
(* midnight-did-runtime/src/contract/generated.rs.                         *)
(*                                                                         *)
(* A circuit runs as one transaction.  It reads the ledger, asserts, and   *)
(* writes; a failed assertion aborts the transaction and nothing is        *)
(* written.  So one action stands for one successful run of a circuit, and *)
(* a run that would abort is an action that is not enabled.                *)
(*                                                                         *)
(* The circuit's witnesses (the clock, the keys given to the constructor)  *)
(* are whatever the prover supplies: they are chosen by \E from the        *)
(* constants.  Hashes are injective: a digest is the tuple it is made of.  *)
(***************************************************************************)
EXTENDS Naturals, FiniteSets

CONSTANTS
    PublicKey,          \* JubjubPoints that can control or recover a DID
    ContractAddress,    \* the address the constructor stores in cell id
    MethodId,           \* ids under which verification methods are stored
    Method,             \* JWK verification methods, without their id
    SchnorrKey,         \* keys of SchnorrJubjub verification methods
    ServiceId,          \* ids under which services are stored
    ServiceBody,        \* type and endpoint of a service
    Alias,              \* alsoKnownAs values
    Timestamp,          \* answers of the current_timestamp witness
    Absent,             \* marks a map key that has no entry
    MaxVersion          \* bound: no circuit runs once version reaches it

VerificationMethodType == {"Undefined", "JsonWebKey"}
KeyType   == {"EC", "RSA", "oct", "OKP"}
CurveType == {"Ed25519", "X25519", "Jubjub", "P256", "Secp256k1",
              "BLS12381G1", "BLS12381G2"}

SigningRelation == {"Authentication", "AssertionMethod",
                    "CapabilityInvocation", "CapabilityDelegation"}
Relation        == SigningRelation \cup {"KeyAgreement"}
AnyRelation     == Relation \cup {"Undefined"}

MapMutation == {"Undefined", "Insert", "Update"}
SetMutation == {"Undefined", "Insert", "Remove"}

\* Of a method the circuits read type, key type and curve.
ASSUME MethodAssumption ==
    \A m \in Method : /\ m.typ \in VerificationMethodType
                      /\ m.kty \in KeyType
                      /\ m.crv \in CurveType
ASSUME AbsentAssumption ==
    Absent \notin Method \cup SchnorrKey \cup ServiceBody
ASSUME BoundAssumption == MaxVersion \in Nat

VARIABLES
    controllerPublicKey,
    recoveryAuthorityPublicKey,
    id,
    alsoKnownAs,
    version,
    created,
    updated,
    deactivated,
    active,
    operationCount,
    verificationMethods,
    schnorrJubjubVerificationMethods,
    relations,              \* the five relation sets, by name
    services

identity == <<recoveryAuthorityPublicKey, id, created>>
document == <<alsoKnownAs, verificationMethods, schnorrJubjubVerificationMethods,
              relations, services>>
counters == <<version, operationCount, updated>>
status   == <<deactivated, active>>
ledger   == <<controllerPublicKey, identity, document, counters, status>>

TypeOK ==
    /\ controllerPublicKey \in PublicKey
    /\ recoveryAuthorityPublicKey \in PublicKey
    /\ id = ContractAddress
    /\ alsoKnownAs \subseteq Alias
    /\ version \in Nat
    /\ created \in Timestamp
    /\ updated \in Timestamp
    /\ deactivated \in BOOLEAN
    /\ active \in BOOLEAN
    /\ operationCount \in Nat
    /\ verificationMethods \in [MethodId -> Method \cup {Absent}]
    /\ schnorrJubjubVerificationMethods \in [MethodId -> SchnorrKey \cup {Absent}]
    /\ relations \in [Relation -> SUBSET MethodId]
    /\ services \in [ServiceId -> ServiceBody \cup {Absent}]

-----------------------------------------------------------------------------
(***************************************************************************)
(* The constructor.                                                        *)
(***************************************************************************)
Init ==
    /\ controllerPublicKey \in PublicKey
    /\ recoveryAuthorityPublicKey \in PublicKey
    /\ controllerPublicKey # recoveryAuthorityPublicKey
    /\ id = ContractAddress
    /\ created \in Timestamp
    /\ updated = created
    /\ deactivated = FALSE
    /\ active = TRUE
    /\ version = 0
    /\ operationCount = 0
    /\ alsoKnownAs = {}
    /\ verificationMethods = [i \in MethodId |-> Absent]
    /\ schnorrJubjubVerificationMethods = [i \in MethodId |-> Absent]
    /\ relations = [r \in Relation |-> {}]
    /\ services = [i \in ServiceId |-> Absent]

-----------------------------------------------------------------------------
(***************************************************************************)
(* Authorization.  A digest names the contract, the version the signer saw,*)
(* the operation and its arguments; a signature names its signer and the   *)
(* digest.  The domain constant is the same in every digest and left out.  *)
(***************************************************************************)
\* Faulty variant: a digest that leaves the arguments out.
DigestWithoutArguments(contractId, expectedVersion, operation, args) ==
    <<contractId, expectedVersion, operation>>

ControllerAuthorizationDigest(contractId, expectedVersion, operation, args) ==
    <<contractId, expectedVersion, operation, args>>

Signature(signer, digest) == [by |-> signer, over |-> digest]

SchnorrVerifyDigest(digest, signature, publicKey) ==
    signature = Signature(publicKey, digest)

\* Faulty variant: the version is signed but not compared with the ledger's.
AssertControllerAtAnyVersion(signature, expectedVersion, digest) ==
    SchnorrVerifyDigest(digest, signature, controllerPublicKey)

AssertController(signature, expectedVersion, digest) ==
    /\ expectedVersion = version
    /\ SchnorrVerifyDigest(digest, signature, controllerPublicKey)

AssertControllerCanUpdate(signature, expectedVersion, digest) ==
    /\ AssertController(signature, expectedVersion, digest)
    /\ active

\* Faulty variants: the recovery path forgets the status or the version.
AssertRecoveryWhateverStatus(signature, expectedVersion, digest) ==
    /\ expectedVersion = version
    /\ SchnorrVerifyDigest(digest, signature, recoveryAuthorityPublicKey)

AssertRecoveryAtAnyVersion(signature, expectedVersion, digest) ==
    /\ SchnorrVerifyDigest(digest, signature, recoveryAuthorityPublicKey)
    /\ active

AssertRecoveryCanUpdate(signature, expectedVersion, digest) ==
    /\ expectedVersion = version
    /\ SchnorrVerifyDigest(digest, signature, recoveryAuthorityPublicKey)
    /\ active

AssertControllerPublicKeyChanges(newKey) == newKey # controllerPublicKey

\* Faulty variant: compares with the wrong cell.
AssertDistinctFromController(newKey) == newKey # controllerPublicKey

AssertControllerPublicKeyDistinctFromRecoveryAuthority(newKey) ==
    newKey # recoveryAuthorityPublicKey

\* Faulty variants: the counter is stamped instead of the clock, and an update
\* that is counted but does not move the version.
RecordUpdateStampingTheCounter ==
    /\ operationCount' = operationCount + 1
    /\ version' = version + 1
    /\ updated' = operationCount + 1

RecordUpdateWithoutVersion ==
    /\ operationCount' = operationCount + 1
    /\ updated' \in Timestamp
    /\ UNCHANGED version

\* The clock is a witness: nothing relates it to the previous value.
RecordUpdate ==
    /\ operationCount' = operationCount + 1
    /\ version' = version + 1
    /\ updated' \in Timestamp

-----------------------------------------------------------------------------
(***************************************************************************)
(* What the circuits ask of the maps and relations.                        *)
(***************************************************************************)
\* Faulty variant: looks into one of the two maps only.
JwkVerificationMethodExists(i) == verificationMethods[i] # Absent

VerificationMethodExists(i) ==
    \/ verificationMethods[i] # Absent
    \/ schnorrJubjubVerificationMethods[i] # Absent

VerificationMethodRelationMember(relation, i) ==
    relation \in Relation /\ i \in relations[relation]

IsSigningVerificationMethodRelation(relation) == relation \in SigningRelation

AssertMapMutationDefined(mutation) == mutation \in {"Insert", "Update"}

AssertSetMutationDefined(mutation) == mutation \in {"Insert", "Remove"}

AssertSupportedVerificationMethod(m) ==
    /\ m.typ = "JsonWebKey"
    /\ \/ /\ m.kty = "OKP"
          /\ m.crv \in {"Ed25519", "X25519", "BLS12381G1", "BLS12381G2"}
       \/ /\ m.kty = "EC"
          /\ m.crv \in {"P256", "Secp256k1"}

\* Faulty variant: forgets the fifth relation.
AssertNotReferencedForSigning(i) ==
    \A r \in SigningRelation : i \notin relations[r]

AssertVerificationMethodIsNotReferenced(i) ==
    \A r \in Relation : i \notin relations[r]

\* Inserting i into the relation: key agreement takes only X25519 JWKs, the
\* signing relations take everything else, SchnorrJubjub methods included.
AssertVerificationMethodRelationCompatible(relation, i) ==
    /\ relation = "KeyAgreement" =>
          /\ verificationMethods[i] # Absent
          /\ verificationMethods[i].crv = "X25519"
    /\ IsSigningVerificationMethodRelation(relation) =>
          (verificationMethods[i] # Absent => verificationMethods[i].crv # "X25519")

\* Faulty variant: only members of key agreement are looked at.
AssertExistingKeyAgreementCompatible(i, curve) ==
    i \in relations["KeyAgreement"] => curve = "X25519"

\* Replacing the key of i by one on `curve' must suit the relations i is in.
AssertExistingVerificationMethodRelationsCompatible(i, curve) ==
    /\ i \in relations["KeyAgreement"] => curve = "X25519"
    /\ (\E r \in SigningRelation : i \in relations[r]) => curve # "X25519"

InsertVerificationMethodRelation(relation, i) ==
    relations' = [relations EXCEPT ![relation] = @ \cup {i}]

RemoveVerificationMethodRelationFromLedger(relation, i) ==
    relations' = [relations EXCEPT ![relation] = @ \ {i}]

-----------------------------------------------------------------------------
(***************************************************************************)
(* The circuits.                                                           *)
(***************************************************************************)
RotateControllerKeyDigest(v, newKey) ==
    ControllerAuthorizationDigest(id, v, "rotateControllerKey", newKey)

RotateControllerKey(newKey, signature, v) ==
    /\ AssertControllerCanUpdate(signature, v, RotateControllerKeyDigest(v, newKey))
    /\ AssertControllerPublicKeyChanges(newKey)
    /\ AssertControllerPublicKeyDistinctFromRecoveryAuthority(newKey)
    /\ RecordUpdate
    /\ controllerPublicKey' = newKey
    /\ UNCHANGED <<identity, document, status>>

RecoverControllerKeyDigest(v, newKey) ==
    ControllerAuthorizationDigest(id, v, "recoverControllerKey", newKey)

\* Faulty variant: the ousted controller becomes the recovery authority.
RecoverSwappingAuthorities(newKey, signature, v) ==
    /\ AssertRecoveryCanUpdate(signature, v, RecoverControllerKeyDigest(v, newKey))
    /\ AssertControllerPublicKeyChanges(newKey)
    /\ AssertControllerPublicKeyDistinctFromRecoveryAuthority(newKey)
    /\ RecordUpdate
    /\ controllerPublicKey' = newKey
    /\ recoveryAuthorityPublicKey' = controllerPublicKey
    /\ UNCHANGED <<id, created, document, status>>

RecoverControllerKey(newKey, signature, v) ==
    /\ AssertRecoveryCanUpdate(signature, v, RecoverControllerKeyDigest(v, newKey))
    /\ AssertControllerPublicKeyChanges(newKey)
    /\ AssertControllerPublicKeyDistinctFromRecoveryAuthority(newKey)
    /\ RecordUpdate
    /\ controllerPublicKey' = newKey
    /\ UNCHANGED <<identity, document, status>>

SetAlsoKnownAsDigest(v, alias, mutation) ==
    ControllerAuthorizationDigest(id, v, "setAlsoKnownAs", <<alias, mutation>>)

SetAlsoKnownAs(alias, mutation, signature, v) ==
    /\ AssertControllerCanUpdate(signature, v, SetAlsoKnownAsDigest(v, alias, mutation))
    /\ AssertSetMutationDefined(mutation)
    /\ \/ /\ mutation = "Insert"
          /\ alias \notin alsoKnownAs
          /\ alsoKnownAs' = alsoKnownAs \cup {alias}
       \/ /\ mutation = "Remove"
          /\ alias \in alsoKnownAs
          /\ alsoKnownAs' = alsoKnownAs \ {alias}
    /\ RecordUpdate
    /\ UNCHANGED <<controllerPublicKey, identity, status, verificationMethods,
                   schnorrJubjubVerificationMethods, relations, services>>

SetVerificationMethodDigest(v, i, method, mutation) ==
    ControllerAuthorizationDigest(id, v, "setVerificationMethod", <<i, method, mutation>>)

SetVerificationMethod(i, method, mutation, signature, v) ==
    /\ AssertControllerCanUpdate(signature, v,
          SetVerificationMethodDigest(v, i, method, mutation))
    /\ AssertMapMutationDefined(mutation)
    /\ AssertSupportedVerificationMethod(method)
    /\ \/ /\ mutation = "Update"
          /\ verificationMethods[i] # Absent
          /\ AssertExistingVerificationMethodRelationsCompatible(i, method.crv)
       \/ /\ mutation = "Insert"
          /\ ~VerificationMethodExists(i)
    /\ verificationMethods' = [verificationMethods EXCEPT ![i] = method]
    /\ RecordUpdate
    /\ UNCHANGED <<controllerPublicKey, identity, status, alsoKnownAs,
                   schnorrJubjubVerificationMethods, relations, services>>

RemoveVerificationMethodDigest(v, i) ==
    ControllerAuthorizationDigest(id, v, "removeVerificationMethod", i)

RemoveVerificationMethod(i, signature, v) ==
    /\ AssertControllerCanUpdate(signature, v, RemoveVerificationMethodDigest(v, i))
    /\ verificationMethods[i] # Absent
    /\ AssertVerificationMethodIsNotReferenced(i)
    /\ RecordUpdate
    /\ verificationMethods' = [verificationMethods EXCEPT ![i] = Absent]
    /\ UNCHANGED <<controllerPublicKey, identity, status, alsoKnownAs,
                   schnorrJubjubVerificationMethods, relations, services>>

SetSchnorrJubjubVerificationMethodDigest(v, i, key, mutation) ==
    ControllerAuthorizationDigest(id, v, "setSchnorrJubjubVM", <<i, key, mutation>>)

SetSchnorrJubjubVerificationMethod(i, key, mutation, signature, v) ==
    /\ AssertControllerCanUpdate(signature, v,
          SetSchnorrJubjubVerificationMethodDigest(v, i, key, mutation))
    /\ AssertMapMutationDefined(mutation)
    /\ \/ /\ mutation = "Update"
          /\ schnorrJubjubVerificationMethods[i] # Absent
       \/ /\ mutation = "Insert"
          /\ ~VerificationMethodExists(i)
    /\ schnorrJubjubVerificationMethods' =
          [schnorrJubjubVerificationMethods EXCEPT ![i] = key]
    /\ RecordUpdate
    /\ UNCHANGED <<controllerPublicKey, identity, status, alsoKnownAs,
                   verificationMethods, relations, services>>

RemoveSchnorrJubjubVerificationMethodDigest(v, i) ==
    ControllerAuthorizationDigest(id, v, "removeSchnorrJubjubVM", i)

RemoveSchnorrJubjubVerificationMethod(i, signature, v) ==
    /\ AssertControllerCanUpdate(signature, v,
          RemoveSchnorrJubjubVerificationMethodDigest(v, i))
    /\ schnorrJubjubVerificationMethods[i] # Absent
    /\ AssertVerificationMethodIsNotReferenced(i)
    /\ RecordUpdate
    /\ schnorrJubjubVerificationMethods' =
          [schnorrJubjubVerificationMethods EXCEPT ![i] = Absent]
    /\ UNCHANGED <<controllerPublicKey, identity, status, alsoKnownAs,
                   verificationMethods, relations, services>>

SetVerificationMethodRelationDigest(v, relation, i, mutation) ==
    ControllerAuthorizationDigest(id, v, "setVMRelation", <<relation, i, mutation>>)

SetVerificationMethodRelation(relation, i, mutation, signature, v) ==
    /\ AssertControllerCanUpdate(signature, v,
          SetVerificationMethodRelationDigest(v, relation, i, mutation))
    /\ AssertSetMutationDefined(mutation)
    /\ VerificationMethodExists(i)
    /\ relation # "Undefined"
    /\ \/ /\ mutation = "Insert"
          /\ ~VerificationMethodRelationMember(relation, i)
          /\ AssertVerificationMethodRelationCompatible(relation, i)
          /\ InsertVerificationMethodRelation(relation, i)
       \/ /\ mutation = "Remove"
          /\ VerificationMethodRelationMember(relation, i)
          /\ RemoveVerificationMethodRelationFromLedger(relation, i)
    /\ RecordUpdate
    /\ UNCHANGED <<controllerPublicKey, identity, status, alsoKnownAs,
                   verificationMethods, schnorrJubjubVerificationMethods, services>>

SetServiceDigest(v, i, body, mutation) ==
    ControllerAuthorizationDigest(id, v, "setService", <<i, body, mutation>>)

SetService(i, body, mutation, signature, v) ==
    /\ AssertControllerCanUpdate(signature, v, SetServiceDigest(v, i, body, mutation))
    /\ AssertMapMutationDefined(mutation)
    /\ \/ mutation = "Update" /\ services[i] # Absent
       \/ mutation = "Insert" /\ services[i] = Absent
    /\ services' = [services EXCEPT ![i] = body]
    /\ RecordUpdate
    /\ UNCHANGED <<controllerPublicKey, identity, status, alsoKnownAs,
                   verificationMethods, schnorrJubjubVerificationMethods, relations>>

RemoveServiceDigest(v, i) ==
    ControllerAuthorizationDigest(id, v, "removeService", i)

RemoveService(i, signature, v) ==
    /\ AssertControllerCanUpdate(signature, v, RemoveServiceDigest(v, i))
    /\ services[i] # Absent
    /\ RecordUpdate
    /\ services' = [services EXCEPT ![i] = Absent]
    /\ UNCHANGED <<controllerPublicKey, identity, status, alsoKnownAs,
                   verificationMethods, schnorrJubjubVerificationMethods, relations>>

DeactivateDigest(v) ==
    ControllerAuthorizationDigest(id, v, "deactivate", "no-args")

\* Faulty variant: one of the two status cells is left behind.
DeactivateOneCell(signature, v) ==
    /\ AssertController(signature, v, DeactivateDigest(v))
    /\ active
    /\ RecordUpdate
    /\ active' = FALSE
    /\ UNCHANGED <<controllerPublicKey, identity, document, deactivated>>

Deactivate(signature, v) ==
    /\ AssertController(signature, v, DeactivateDigest(v))
    /\ active
    /\ RecordUpdate
    /\ active' = FALSE
    /\ deactivated' = TRUE
    /\ UNCHANGED <<controllerPublicKey, identity, document>>

-----------------------------------------------------------------------------
(***************************************************************************)
(* The most general use of the contract: any holder of a key signs any     *)
(* operation for any version it believes in, and submits it.               *)
(***************************************************************************)
RotateControllerKeyTx(k, v) ==
    \E new \in PublicKey :
        RotateControllerKey(new, Signature(k, RotateControllerKeyDigest(v, new)), v)

RecoverControllerKeyTx(k, v) ==
    \E new \in PublicKey :
        RecoverControllerKey(new, Signature(k, RecoverControllerKeyDigest(v, new)), v)

SetAlsoKnownAsTx(k, v) ==
    \E a \in Alias, m \in SetMutation :
        SetAlsoKnownAs(a, m, Signature(k, SetAlsoKnownAsDigest(v, a, m)), v)

SetVerificationMethodTx(k, v) ==
    \E i \in MethodId, method \in Method, m \in MapMutation :
        SetVerificationMethod(i, method, m,
            Signature(k, SetVerificationMethodDigest(v, i, method, m)), v)

RemoveVerificationMethodTx(k, v) ==
    \E i \in MethodId :
        RemoveVerificationMethod(i, Signature(k, RemoveVerificationMethodDigest(v, i)), v)

SetSchnorrJubjubVerificationMethodTx(k, v) ==
    \E i \in MethodId, key \in SchnorrKey, m \in MapMutation :
        SetSchnorrJubjubVerificationMethod(i, key, m,
            Signature(k, SetSchnorrJubjubVerificationMethodDigest(v, i, key, m)), v)

RemoveSchnorrJubjubVerificationMethodTx(k, v) ==
    \E i \in MethodId :
        RemoveSchnorrJubjubVerificationMethod(i,
            Signature(k, RemoveSchnorrJubjubVerificationMethodDigest(v, i)), v)

SetVerificationMethodRelationTx(k, v) ==
    \E r \in AnyRelation, i \in MethodId, m \in SetMutation :
        SetVerificationMethodRelation(r, i, m,
            Signature(k, SetVerificationMethodRelationDigest(v, r, i, m)), v)

SetServiceTx(k, v) ==
    \E i \in ServiceId, body \in ServiceBody, m \in MapMutation :
        SetService(i, body, m, Signature(k, SetServiceDigest(v, i, body, m)), v)

RemoveServiceTx(k, v) ==
    \E i \in ServiceId :
        RemoveService(i, Signature(k, RemoveServiceDigest(v, i)), v)

DeactivateTx(k, v) == Deactivate(Signature(k, DeactivateDigest(v)), v)

Mutation(k, v) ==
    \/ RotateControllerKeyTx(k, v)
    \/ RecoverControllerKeyTx(k, v)
    \/ SetAlsoKnownAsTx(k, v)
    \/ SetVerificationMethodTx(k, v)
    \/ RemoveVerificationMethodTx(k, v)
    \/ SetSchnorrJubjubVerificationMethodTx(k, v)
    \/ RemoveSchnorrJubjubVerificationMethodTx(k, v)
    \/ SetVerificationMethodRelationTx(k, v)
    \/ SetServiceTx(k, v)
    \/ RemoveServiceTx(k, v)
    \/ DeactivateTx(k, v)

Next ==
    /\ version < MaxVersion
    /\ \E k \in PublicKey, v \in 0 .. MaxVersion : Mutation(k, v)

Spec == Init /\ [][Next]_ledger

-----------------------------------------------------------------------------
(***************************************************************************)
(* What the contract promises about its ledger.                            *)
(***************************************************************************)
\* Referential integrity: an id in one of the five relation sets always names
\* a stored verification method.  The removal circuits check the relations,
\* the relation circuit checks the maps, and neither may be outrun by the
\* other; the resolver fails on a dangling reference (resolution.rs:78-191).
RelationsReferToMethods ==
    \A r \in Relation : \A i \in relations[r] : VerificationMethodExists(i)

\* An id is a JWK method or a SchnorrJubjub method, never both: the two maps
\* are separate ledger cells, and each insert circuit must look into both.
OneMapPerMethodId ==
    \A i \in MethodId :
        \/ verificationMethods[i] = Absent
        \/ schnorrJubjubVerificationMethods[i] = Absent

\* Key separation, whatever order methods and relations were inserted,
\* updated and removed in: key agreement holds X25519 methods only, and no
\* X25519 method is in a signing relation.
KeyAgreementSeparation ==
    \A i \in MethodId :
        /\ i \in relations["KeyAgreement"] =>
              /\ verificationMethods[i] # Absent
              /\ verificationMethods[i].crv = "X25519"
        /\ /\ verificationMethods[i] # Absent
           /\ verificationMethods[i].crv = "X25519"
           => \A r \in SigningRelation : i \notin relations[r]

\* The recovery authority stays a second, independent key: neither rotation
\* nor recovery makes it the controller key.
ControllerIsNotRecoveryAuthority ==
    controllerPublicKey # recoveryAuthorityPublicKey

\* The two status cells and the two counters, written by separate ledger
\* operations, never disagree; the resolver reads both status cells
\* (resolution.rs:194-210).
CellsAgree ==
    /\ deactivated = ~active
    /\ operationCount = version

\* Deactivation is final: once it is inactive nothing in the ledger moves.
DeactivationIsFinal == [][active]_ledger

\* Two different documents, controllers or statuses never carry the same
\* version: every step that changes one of them moves the version by one, so
\* versionId names one state and a signature for a version names it too.
VersionNamesState ==
    [][version' = version + 1]_<<document, controllerPublicKey, status>>

\* The contract implements the lifecycle of DidLifecycle: every circuit is one
\* amendment, handover or deactivation of an active DID, a handover never
\* touches the document or lets the recovery authority in, and the recovery
\* authority is the same for life.
Lifecycle == INSTANCE DidLifecycle WITH
    Key        <- PublicKey,
    controller <- controllerPublicKey,
    recovery   <- recoveryAuthorityPublicKey,
    doc        <- document

LifecycleSpec == Lifecycle!Spec

=============================================================================

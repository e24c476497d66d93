----------------------------- MODULE Resolution -----------------------------
(***************************************************************************)
(* From the values a caller has to the ledger and back: what the API makes *)
(* of ids, keys and services when it writes them, and what the resolver    *)
(* makes of the ledger (midnight-did-api/src/resolution.rs).  A caller may *)
(* spell one id in many ways; the document that is resolved has to be the  *)
(* one that was written, and one that the domain crate reads again.        *)
(*                                                                         *)
(* The operations are those of ApiOperations, here by one caller whose     *)
(* calls are all answered.                                                 *)
(***************************************************************************)
EXTENDS ApiOperations

CONSTANTS
    Name,               \* what follows the # of an id
    EmptyName,          \* nothing
    KeyName,            \* names of letters, digits and . - _ : % only
    TypeName,           \* names of service types
    BracketName,        \* those that begin with [
    DomainMethod,       \* JWK verification methods a caller can construct
    DomainCall          \* operations with their arguments as a caller has them

\* Spellings of an id: blank, #n, n, <this DID>#n, <another DID>#n,
\* <this DID>, /n or ?n, text#n, //n, and scheme:n.
RawForm == {"blank", "fragment", "bare", "didUrl", "foreignDidUrl", "did", "path",
            "prefixed", "network", "uri"}
RawId == [form : RawForm, name : Name]

\* What the API stores: #n, or #/n and #?n.
LedgerId == [form : {"fragment", "path"}, name : Name]

ASSUME NameAssumption ==
    /\ EmptyName \in Name \ KeyName
    /\ KeyName \subseteq Name
    /\ BracketName \subseteq TypeName

VARIABLES
    asked,              \* what each client asked for, in its own terms
    written             \* the document that the accepted calls should make

resolutionVars == <<apiVars, asked, written>>

\* The domain crate: documents, their validation and the normal form of
\* endpoints.  What follows the DID in an absolute id is a ledger id.
Domain == INSTANCE DidDocument WITH
    Did <- {ContractAddress}, NotDid <- Absent, Name <- LedgerId,
    EmptyName <- [form |-> "fragment", name |-> EmptyName],
    KeyName <- [form : {"fragment"}, name : KeyName],
    NewMethods <- {}, NewServices <- {}, RelationLists <- {}, Texts <- {},
    NoDocument <- Absent, MaxParts <- 0,
    read <- Absent, draft <- Absent, made <- Absent, by <- "none"

-----------------------------------------------------------------------------
(***************************************************************************)
(* Ids.                                                                    *)
(***************************************************************************)
\* Verification methods are constructed with a DID key id, services with a
\* DID URL or a relative reference; SchnorrJubjub methods with any text.
IsDidKeyId(raw) ==
    /\ raw.form \in {"fragment", "bare", "didUrl", "foreignDidUrl"}
    /\ raw.name \in KeyName

IsServiceId(raw) == raw.form \notin {"blank", "network", "uri"}

\* Faulty variant: the DID before the # is not compared.
BoundToAnySubject(raw) ==
    \/ raw.form \in {"fragment", "bare", "path", "prefixed"}
    \/ raw.form \in {"didUrl", "foreignDidUrl"} /\ raw.name # EmptyName

\* Whether normalize_bound_fragment_id accepts the text for this DID.
BoundToSubject(raw) ==
    \/ raw.form \in {"fragment", "bare", "path", "prefixed"}
    \/ raw.form = "didUrl" /\ raw.name # EmptyName

NormalizeBoundFragmentId(raw) ==
    [form |-> IF raw.form = "path" THEN "path" ELSE "fragment", name |-> raw.name]

-----------------------------------------------------------------------------
(***************************************************************************)
(* Keys and services.                                                      *)
(***************************************************************************)
\* What PublicKeyJwk::new lets through.  A coordinate of an EC key has 32
\* bytes and so is not empty.  "ext" is the names of the further members that a
\* key has, any but that of the private key.
ValidJwk(jwk) ==
    /\ jwk.kty = "OKP" =>
           jwk.crv \in {"Ed25519", "X25519", "BLS12381G1", "BLS12381G2"}
    /\ jwk.kty = "EC" => jwk.crv \in {"Jubjub", "P256", "Secp256k1"} /\ jwk.y # ""
    /\ jwk.kty = "OKP" <=> jwk.y = Absent
    /\ "d" \notin jwk.ext

ASSUME DomainMethodAssumption ==
    /\ DomainMethod \subseteq
           [typ : VerificationMethodType, kty : KeyType, crv : CurveType,
            y : STRING \cup {Absent}, ext : SUBSET STRING]
    /\ \A m \in DomainMethod : ValidJwk(m)

\* The ledger has no optional cells, so no y is an empty y, and it has none for
\* further members, which are lost.
PublicKeyJwkToLedger(m) ==
    [typ |-> m.typ, kty |-> m.kty, crv |-> m.crv,
     y |-> IF m.y = Absent THEN "" ELSE m.y]

LedgerMethod == {PublicKeyJwkToLedger(m) : m \in DomainMethod}

LedgerJwkToDomain(m) ==
    [typ |-> m.typ, kty |-> m.kty, crv |-> m.crv,
     y |-> IF m.y = "" THEN Absent ELSE m.y, ext |-> {}]

\* An OKP key must not have a y, and the JWK must be valid again.
LedgerJwkReads(m) == ValidJwk(LedgerJwkToDomain(m))

SchnorrJubjubPkToJwk(key) ==
    [typ |-> "JsonWebKey", kty |-> "EC", crv |-> "Jubjub", key |-> key]

\* One type is stored as it is, several as a JSON array.
ServiceTypeToLedger(type) == [json |-> Len(type.names) > 1, names |-> type.names]

ServiceTypeFits(type) == type.names # <<>> /\ IsInjective(type.names)

ParseServiceType(typ) ==
    [kind |-> IF typ.json THEN "Many" ELSE "One", names |-> typ.names]

\* Text that begins with [ is taken for JSON.
ServiceTypeReads(typ) == typ.json \/ Head(typ.names) \notin BracketName

\* Services as a caller has them.
DomainService ==
    {s \in [type : [kind : {"One", "Many"}, names : Seq(TypeName)],
            serviceEndpoint : Seq(Domain!EndpointEntry)] :
        s.type.kind = "One" => Len(s.type.names) = 1}

\* Faulty variant: a service is taken as it is given.
AsGiven(service) == service

\* Endpoints are normalized when a service is constructed, when it is written
\* and, since the resolver constructs one again, when it is read.
Normal(service) ==
    [service EXCEPT !.serviceEndpoint = Domain!NormalizeServiceEndpoint(@)]

ServiceToLedger(service) ==
    [typ |-> ServiceTypeToLedger(service.type),
     serviceEndpoint |-> Domain!NormalizeServiceEndpoint(service.serviceEndpoint)]

ParseLedgerService(i, body) ==
    Normal([id |-> i, type |-> ParseServiceType(body.typ),
            serviceEndpoint |-> body.serviceEndpoint])

-----------------------------------------------------------------------------
(***************************************************************************)
(* The resolver.  Ids are stored with their #, so the absolute id of i is  *)
(* the DID followed by i, and i stands for it here.                        *)
(***************************************************************************)
StoredMethods == {i \in MethodId : verificationMethods[i] # Absent}
StoredSchnorrMethods == {i \in MethodId : schnorrJubjubVerificationMethods[i] # Absent}
StoredServices == {i \in ServiceId : services[i] # Absent}

\* The fragment of a resolved id is a key fragment.
ResolvedIdReads(i) == i.form = "fragment" /\ i.name \in KeyName

\* One entry that cannot be read fails the whole resolution.
Resolves ==
    /\ \A i \in StoredMethods : LedgerJwkReads(verificationMethods[i])
    /\ \A i \in StoredMethods \cup StoredSchnorrMethods : ResolvedIdReads(i)
    /\ StoredMethods \cap StoredSchnorrMethods = {}
    /\ \A r \in Relation : relations[r] \subseteq StoredMethods \cup StoredSchnorrMethods
    /\ \A i \in StoredServices : ServiceTypeReads(services[i].typ)

LedgerStateToDidDocument ==
    [verificationMethod |->
         {[id |-> i, jwk |-> LedgerJwkToDomain(verificationMethods[i])] : i \in StoredMethods}
         \cup
         {[id |-> i, jwk |-> SchnorrJubjubPkToJwk(schnorrJubjubVerificationMethods[i])] :
              i \in StoredSchnorrMethods},
     relation |-> relations,
     service |-> {ParseLedgerService(i, services[i]) : i \in StoredServices},
     alsoKnownAs |-> alsoKnownAs]

\* The timestamps are in IsoTimestamp.
LedgerStateToMetadata ==
    [deactivated |-> deactivated \/ ~active, versionId |-> version]

-----------------------------------------------------------------------------
(***************************************************************************)
(* What callers ask for.                                                   *)
(***************************************************************************)
WritesMethod(call) == call[1] \in {"addVerificationMethod", "updateVerificationMethod"}
WritesSchnorr(call) ==
    call[1] \in {"addSchnorrJubjubVerificationMethod", "updateSchnorrJubjubVerificationMethod"}
RemovesMethod(call) ==
    call[1] \in {"removeVerificationMethod", "removeSchnorrJubjubVerificationMethod"}
ChangesRelation(call) ==
    call[1] \in {"addVerificationMethodRelation", "removeVerificationMethodRelation"}
WritesService(call) == call[1] \in {"addService", "updateService"}
NamesNothing(call) == call[1] \in {"addAlsoKnownAs", "removeAlsoKnownAs", "deactivate"}

\* The operations of the API but for patches, in a caller's terms.
DomainOperation ==
    ({"addVerificationMethod", "updateVerificationMethod"} \X (RawId \X DomainMethod))
    \cup ({"addSchnorrJubjubVerificationMethod", "updateSchnorrJubjubVerificationMethod"}
             \X (RawId \X SchnorrKey))
    \cup ({"removeVerificationMethod", "removeSchnorrJubjubVerificationMethod",
            "removeService"} \X RawId)
    \cup ({"addVerificationMethodRelation", "removeVerificationMethodRelation"}
             \X (AnyRelation \X RawId))
    \cup ({"addService", "updateService"} \X (RawId \X DomainService))
    \cup ({"addAlsoKnownAs", "removeAlsoKnownAs"} \X Alias)
    \cup {<<"deactivate", "no-args">>}

\* The id that a call names.
RawIdOf(call) ==
    CASE RemovesMethod(call) \/ call[1] = "removeService" -> call[2]
      [] ChangesRelation(call) -> call[2][2]
      [] OTHER -> call[2][1]

\* A caller can construct the value and the API can map it.
Maps(call) ==
    /\ ~NamesNothing(call) => BoundToSubject(RawIdOf(call))
    /\ WritesMethod(call) => IsDidKeyId(RawIdOf(call))
    /\ WritesService(call) =>
           IsServiceId(RawIdOf(call)) /\ ServiceTypeFits(call[2][2].type)

\* The operation with the arguments it has for the ledger.
ToLedger(call) ==
    LET i == NormalizeBoundFragmentId(RawIdOf(call)) IN
    CASE NamesNothing(call) -> call
      [] WritesMethod(call) -> <<call[1], <<i, PublicKeyJwkToLedger(call[2][2])>>>>
      [] WritesSchnorr(call) -> <<call[1], <<i, call[2][2]>>>>
      [] WritesService(call) -> <<call[1], <<i, ServiceToLedger(Normal(call[2][2]))>>>>
      [] ChangesRelation(call) -> <<call[1], <<call[2][1], i>>>>
      [] OTHER -> <<call[1], i>>

ASSUME DomainCallAssumption ==
    /\ DomainCall \subseteq DomainOperation
    /\ \A call \in DomainCall : Maps(call) => ToLedger(call) \in Operation

\* What a call writes can be read again.  Nothing checks it of the id of a
\* SchnorrJubjub method nor of a service type: a single type may begin with [,
\* and an array of one type comes back as a single type.
ReadsBack(call) ==
    /\ WritesSchnorr(call) => ResolvedIdReads(NormalizeBoundFragmentId(RawIdOf(call)))
    /\ WritesService(call) =>
           LET type == call[2][2].type IN
           /\ type.kind = "One" <=> Len(type.names) = 1
           /\ ServiceTypeReads(ServiceTypeToLedger(type))

-----------------------------------------------------------------------------
(***************************************************************************)
(* What a caller means, and what that makes of the document.  An entry     *)
(* goes by its fragment, alone, with its #, or after a text that is not    *)
(* another DID; or by its path.  A text by which nothing of this DID goes  *)
(* means none of its entries.                                              *)
(***************************************************************************)
Spellings(i) ==
    [form : IF i.form = "path" THEN {"path"} ELSE {"bare", "fragment", "didUrl", "prefixed"},
     name : {i.name}]

Meant(raw) == {i \in LedgerId : raw \in Spellings(i)}

\* The entries that are not meant.
Except(entries, ids) == {e \in entries : e.id \notin ids}

\* A key as it comes back: its further members are not kept.
Kept(m) == [m EXCEPT !.ext = {}]

\* The document d after a call that succeeded.
After(d, call) ==
    CASE call[1] = "addAlsoKnownAs" -> [d EXCEPT !.alsoKnownAs = @ \cup {call[2]}]
      [] call[1] = "removeAlsoKnownAs" -> [d EXCEPT !.alsoKnownAs = @ \ {call[2]}]
      [] call[1] = "deactivate" -> d
      [] OTHER ->
         LET ids == Meant(RawIdOf(call)) IN
         CASE WritesMethod(call) ->
                 [d EXCEPT !.verificationMethod =
                     Except(@, ids) \cup {[id |-> i, jwk |-> Kept(call[2][2])] : i \in ids}]
           [] WritesSchnorr(call) ->
                 [d EXCEPT !.verificationMethod =
                     Except(@, ids)
                         \cup {[id |-> i, jwk |-> SchnorrJubjubPkToJwk(call[2][2])] : i \in ids}]
           [] RemovesMethod(call) ->
                 [d EXCEPT !.verificationMethod = Except(@, ids),
                           !.relation = [r \in Relation |-> @[r] \ ids]]
           [] call[1] = "addVerificationMethodRelation" ->
                 [d EXCEPT !.relation[call[2][1]] = @ \cup ids]
           [] call[1] = "removeVerificationMethodRelation" ->
                 [d EXCEPT !.relation[call[2][1]] = @ \ ids]
           [] WritesService(call) ->
                 [d EXCEPT !.service =
                     Except(@, ids) \cup
                         {[id |-> i, type |-> call[2][2].type,
                           serviceEndpoint |-> Normal(call[2][2]).serviceEndpoint] : i \in ids}]
           [] call[1] = "removeService" -> [d EXCEPT !.service = Except(@, ids)]

-----------------------------------------------------------------------------
ResolutionInit ==
    /\ ApiInit
    /\ asked = [c \in Client |-> Absent]
    /\ written =
          [document |-> [verificationMethod |-> {}, relation |-> [r \in Relation |-> {}],
                         service |-> {}, alsoKnownAs |-> {}],
           metadata |-> [deactivated |-> FALSE, versionId |-> 0]]

Ask(c, call) ==
    /\ \/ Maps(call) /\ ApiCall(c, ToLedger(call))
       \/ ~Maps(call) /\ Refuse(c, call)
    /\ asked' = [asked EXCEPT ![c] = IF calls'[c].at \in Ended THEN Absent ELSE call]
    /\ UNCHANGED written

\* One more transaction: a removal has taken the method out of one more
\* relation, or an operation is complete.
AcceptCall(c) ==
    /\ Accept(c)
    /\ \/ /\ calls'[c].at = "ok"
          /\ written' =
                [document |-> After(written.document, asked[c]),
                 metadata |-> [deactivated |-> asked[c][1] = "deactivate",
                               versionId |-> written.metadata.versionId + 1]]
          /\ asked' = [asked EXCEPT ![c] = Absent]
       \/ /\ calls'[c].at = "submit"
          /\ LET relation == Head(calls[c].todo)[2][1]
                 ids == Meant(RawIdOf(asked[c]))
             IN  written' = [written EXCEPT !.document.relation[relation] = @ \ ids,
                                            !.metadata.versionId = @ + 1]
          /\ UNCHANGED asked

RejectCall(c) ==
    /\ Reject(c)
    /\ asked' = [asked EXCEPT ![c] = Absent]
    /\ UNCHANGED written

ResolutionNext ==
    \E c \in Client :
        \/ \E call \in DomainCall : Ask(c, call)
        \/ Submit(c) /\ UNCHANGED <<asked, written>>
        \/ AcceptCall(c)
        \/ RejectCall(c)

ResolutionSpec == ResolutionInit /\ [][ResolutionNext]_resolutionVars

-----------------------------------------------------------------------------
(***************************************************************************)
(* The resolved document as a value of the domain crate: absolute ids for  *)
(* methods and services, fragments for references, in some order.          *)
(***************************************************************************)
AbsoluteId(i) == [form |-> "absolute", did |-> ContractAddress, name |-> i]

DomainJwk(jwk) ==
    [kty |-> jwk.kty, crv |-> jwk.crv, x |-> "canonical",
     y |-> IF "y" \in DOMAIN jwk /\ jwk.y = Absent THEN "none" ELSE "canonical",
     d |-> FALSE]

LedgerRelation ==
    [authentication |-> "Authentication", assertionMethod |-> "AssertionMethod",
     keyAgreement |-> "KeyAgreement", capabilityInvocation |-> "CapabilityInvocation",
     capabilityDelegation |-> "CapabilityDelegation"]

MapRelation(ids) == {[form |-> "fragment", did |-> Absent, name |-> i] : i \in ids}

DomainDocument ==
    LET d == LedgerStateToDidDocument IN
    [id |-> ContractAddress,
     verificationMethod |->
        SetToSeq({[id |-> AbsoluteId(m.id), controller |-> ContractAddress,
                   jwk |-> DomainJwk(m.jwk)] : m \in d.verificationMethod}),
     relation |->
        [r \in Domain!Relationship |-> SetToSeq(MapRelation(d.relation[LedgerRelation[r]]))],
     service |->
        SetToSeq({[id |-> AbsoluteId(s.id), typed |-> TRUE,
                   serviceEndpoint |-> s.serviceEndpoint] : s \in d.service})]

-----------------------------------------------------------------------------
\* Whatever the caller's spelling of the ids, the document that is resolved
\* is the one its calls have made so far: no method, relation or service is
\* lost, doubled, renamed or somebody else's, types and endpoints come back as
\* they were written, keys come back with the type, curve and coordinates they
\* were written with but without any further member, and the metadata count
\* the transactions and say whether the DID is deactivated
\* (ledger_state_to_did_document, ledger_state_to_metadata).
ResolvesAsWritten ==
    /\ Resolves
    /\ LedgerStateToDidDocument = written.document
    /\ LedgerStateToMetadata = written.metadata

\* A resolved document, sent as JSON to somebody else, is read there
\* (parse_did_document) exactly if no service was given one endpoint twice:
\* the resolver assembles documents without DidDocument::validate, and
\* nothing on the way to the ledger compares endpoints.
ResolvedCanBeParsed ==
    Domain!Parses(DomainDocument)
        <=> \A s \in written.document.service : IsInjective(s.serviceEndpoint)

\* What the API writes, the resolver can read.
WhatIsWrittenResolves == Resolves

=============================================================================

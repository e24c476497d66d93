---------------------------- MODULE DidDocument ----------------------------
(***************************************************************************)
(* DID documents of the domain crate (domain/did_document.rs): the builder *)
(* and create_did_document, by which a program makes one, and              *)
(* parse_did_document, by which it reads one.  Parts of a document that    *)
(* was read may go into one that is made.                                  *)
(*                                                                         *)
(* One id can be spelled in three ways, #n, n and <did>#n, and one URI in  *)
(* many, so that what is equal as text and what is the same are two        *)
(* things.  A key is what PublicKeyJwk checks of it.                       *)
(***************************************************************************)
EXTENDS Naturals, Sequences, FiniteSets, Functions

CONSTANTS
    Did,            \* DIDs
    NotDid,         \* text that is no DID
    Name,           \* what follows the # of an id
    EmptyName,      \* nothing
    KeyName,        \* names of letters, digits and . - _ : % only
    NewMethods, NewServices, RelationLists,     \* what a program puts in
    Texts,          \* the documents that a program gets as JSON
    NoDocument,
    MaxParts        \* bound: methods, services and relations in a draft

ASSUME NameAssumption == KeyName \subseteq Name /\ EmptyName \in Name \ KeyName
ASSUME NotDidAssumption == NotDid \notin Did

Relationship ==
    {"authentication", "assertionMethod", "keyAgreement",
     "capabilityInvocation", "capabilityDelegation"}

-----------------------------------------------------------------------------
(***************************************************************************)
(* Ids.  A DID without # is an absolute id with the empty name.            *)
(***************************************************************************)
DidText == Did \cup {NotDid}

IdText ==
    [form : {"fragment", "bare"}, did : {NotDid}, name : Name]
    \cup [form : {"absolute"}, did : Did, name : Name]

IsDidUrl(id) == id.form = "absolute"

IsRelativeReference(id) ==
    \/ id.form = "fragment"
    \/ id.form = "bare" /\ id.name # EmptyName

IsDidKeyId(id) == (IsDidUrl(id) \/ IsRelativeReference(id)) /\ id.name \in KeyName

\* Faulty variant: ids are compared as they are spelled.
AsSpelled(did, id) == id

Canonicalize(did, id) ==
    IF IsDidUrl(id) THEN id ELSE [form |-> "absolute", did |-> did, name |-> id.name]

-----------------------------------------------------------------------------
(***************************************************************************)
(* Keys: x and y are canonical base64url of the right length, or not; `d'  *)
(* says whether there is a private part.                                   *)
(***************************************************************************)
OkpCurve == {"Ed25519", "X25519", "BLS12381G1", "BLS12381G2"}
EcCurve == {"Jubjub", "P256", "Secp256k1"}

Jwk == [kty : {"EC", "RSA", "oct", "OKP"}, crv : OkpCurve \cup EcCurve,
        x : {"canonical", "other"}, y : {"none", "canonical", "other"}, d : BOOLEAN]

\* The length that x must have depends on the curve, and for the two BLS
\* curves on the key type; that of y on the key type.
XHasLength(jwk) == jwk.crv \in {"BLS12381G1", "BLS12381G2"} => jwk.kty = "OKP"

ValidJwk(jwk) ==
    /\ ~jwk.d
    /\ jwk.kty = "OKP" => jwk.crv \in OkpCurve
    /\ jwk.kty = "EC" => jwk.crv \in EcCurve
    /\ jwk.kty = "OKP" <=> jwk.y = "none"
    /\ XHasLength(jwk) => jwk.x = "canonical"
    /\ jwk.kty = "EC" => jwk.y = "canonical"

-----------------------------------------------------------------------------
(***************************************************************************)
(* URIs: whether letters of the scheme or the host are capitals, the port, *)
(* the path ("/p" is any longer one), and a query or fragment that may end *)
(* with a slash.                                                           *)
(***************************************************************************)
KnownScheme == {"http", "https", "ws", "wss"}

Uri == [scheme : KnownScheme \cup {"urn"}, parses : BOOLEAN, capitals : BOOLEAN,
        port : {"none", "default", "other"}, path : {"", "/", "/p"},
        tail : {"", "?q", "?q/"}]

EndsWithSlash(uri) == uri.tail = "?q/" \/ (uri.tail = "" /\ uri.path = "/")

NormalizeUriString(uri) ==
    IF uri.scheme \notin KnownScheme \/ ~uri.parses THEN uri
    ELSE [uri EXCEPT
             !.capitals = FALSE,
             !.port = IF @ = "default" THEN "none" ELSE @,
             !.path = IF @ = "/p" THEN @ ELSE IF EndsWithSlash(uri) THEN "/" ELSE ""]

\* A single endpoint is an array of one here; an object has one URI inside.
EndpointEntry == [kind : {"uri", "object"}, uri : Uri]

NormalizeServiceEndpoint(endpoint) ==
    [n \in DOMAIN endpoint |-> [endpoint[n] EXCEPT !.uri = NormalizeUriString(@)]]

-----------------------------------------------------------------------------
(***************************************************************************)
(* Methods, services, documents.                                           *)
(***************************************************************************)
VerificationMethod == [id : IdText, controller : DidText, jwk : Jwk]
Service == [id : IdText, typed : BOOLEAN, serviceEndpoint : Seq(EndpointEntry)]

Document ==
    [id : DidText, verificationMethod : Seq(VerificationMethod),
     relation : [Relationship -> Seq(IdText)], service : Seq(Service)]

ASSUME InputAssumption ==
    /\ NewMethods \subseteq VerificationMethod
    /\ NewServices \subseteq Service
    /\ RelationLists \subseteq Seq(IdText)
    /\ Texts \subseteq Document
    /\ NoDocument \notin Document

ValidMethod(m) == IsDidKeyId(m.id) /\ m.controller \in Did /\ ValidJwk(m.jwk)

ValidService(s) == (IsDidUrl(s.id) \/ IsRelativeReference(s.id)) /\ s.typed

NormalService(s) ==
    [s EXCEPT !.serviceEndpoint = NormalizeServiceEndpoint(@)]

WithNormalizedServiceEndpoints(d) ==
    [d EXCEPT !.service = [n \in DOMAIN @ |-> NormalService(@[n])]]

MethodIds(d) == [n \in DOMAIN d.verificationMethod |-> d.verificationMethod[n].id]
ServiceIds(d) == [n \in DOMAIN d.service |-> d.service[n].id]

Canonical(did, ids) == [n \in DOMAIN ids |-> Canonicalize(did, ids[n])]

\* Faulty variant: looks for equal endpoints before they are normalized.
ValidateAsGiven(d) ==
    LET methods == Canonical(d.id, MethodIds(d)) IN
    /\ IsInjective(methods)
    /\ \A r \in Relationship :
          LET members == Canonical(d.id, d.relation[r]) IN
          IsInjective(members) /\ Range(members) \subseteq Range(methods)
    /\ IsInjective(ServiceIds(d))
    /\ \A n \in DOMAIN d.service : IsInjective(d.service[n].serviceEndpoint)

\* DidDocument::validate.  Methods and references are compared by canonical
\* id, services by the text of their ids; neither they nor the subject are
\* checked in themselves.
Validate(d) ==
    LET methods == Canonical(d.id, MethodIds(d)) IN
    /\ IsInjective(methods)
    /\ \A r \in Relationship :
          LET members == Canonical(d.id, d.relation[r]) IN
          IsInjective(members) /\ Range(members) \subseteq Range(methods)
    /\ IsInjective(ServiceIds(d))
    /\ \A n \in DOMAIN d.service :
          IsInjective(NormalizeServiceEndpoint(d.service[n].serviceEndpoint))

\* DidDocumentBuilder::build screens by the text of the ids first.
Builds(d) ==
    /\ d.id \in Did
    /\ IsInjective(MethodIds(d))
    /\ IsInjective(ServiceIds(d))
    /\ \A r \in Relationship : Range(d.relation[r]) \subseteq Range(MethodIds(d))
    /\ Validate(d)

\* Faulty variant: the subject is taken as it is.
CreatesForAnySubject(d) == Validate(d)

Creates(d) == d.id \in Did /\ Validate(d)

\* Faulty variant: keys are read like the other parts.
DeserializesAnyKey(d) == DOMAIN d.verificationMethod \subseteq Nat

\* Of the parts of a text only the keys are checked when they are read.
Deserializes(d) == \A n \in DOMAIN d.verificationMethod : ValidJwk(d.verificationMethod[n].jwk)

Parses(d) == Deserializes(d) /\ Validate(d)

-----------------------------------------------------------------------------
VARIABLES
    read,       \* the document read last, or NoDocument
    draft,      \* what the builder has, or NoDocument
    made,       \* the document made from the draft, or NoDocument
    by          \* what made it

vars == <<read, draft, made, by>>

Empty(did) ==
    [id |-> did, verificationMethod |-> <<>>,
     relation |-> [r \in Relationship |-> <<>>], service |-> <<>>]

Init ==
    /\ read = NoDocument
    /\ draft = NoDocument
    /\ made = NoDocument
    /\ by = "none"

New(did) ==
    /\ draft = NoDocument
    /\ draft' = Empty(did)
    /\ made' = NoDocument
    /\ by' = "none"
    /\ UNCHANGED read

HasRoom ==
    Len(draft.verificationMethod) + Len(draft.service)
        + Cardinality({r \in Relationship : draft.relation[r] # <<>>}) < MaxParts

\* What VerificationMethod::new, Service::new and DidKeyId::parse let through,
\* and the parts of the document that was read.
Methods ==
    {m \in NewMethods : ValidMethod(m)}
    \cup (IF read = NoDocument THEN {} ELSE Range(read.verificationMethod))

Services ==
    {NormalService(s) : s \in {t \in NewServices : ValidService(t)}}
    \cup (IF read = NoDocument THEN {} ELSE Range(read.service))

References ==
    {ids \in RelationLists : \A id \in Range(ids) : IsDidKeyId(id)}
    \cup (IF read = NoDocument THEN {} ELSE Range(read.relation))

AddVerificationMethod(m) ==
    /\ draft # NoDocument /\ HasRoom
    /\ draft' = [draft EXCEPT !.verificationMethod = Append(@, m)]
    /\ UNCHANGED <<read, made, by>>

AddService(s) ==
    /\ draft # NoDocument /\ HasRoom
    /\ draft' = [draft EXCEPT !.service = Append(@, s)]
    /\ UNCHANGED <<read, made, by>>

SetRelation(r, ids) ==
    /\ draft # NoDocument /\ HasRoom
    /\ draft' = [draft EXCEPT !.relation[r] = ids]
    /\ UNCHANGED <<read, made, by>>

\* The draft is used up, whether there is a document or an error.
Finish(accepts, name) ==
    /\ draft # NoDocument
    /\ draft' = NoDocument
    /\ \/ /\ accepts
          /\ made' = WithNormalizedServiceEndpoints(draft)
          /\ by' = name
       \/ /\ ~accepts
          /\ UNCHANGED <<made, by>>
    /\ UNCHANGED read

Build == Finish(Builds(draft), "build")
CreateDidDocument == Finish(Creates(draft), "create")

ParseDidDocument(text) ==
    /\ draft = NoDocument
    /\ Parses(text)
    /\ read' = WithNormalizedServiceEndpoints(text)
    /\ UNCHANGED <<draft, made, by>>

Next ==
    \/ \E did \in DidText : New(did)
    \/ \E m \in Methods : AddVerificationMethod(m)
    \/ \E s \in Services : AddService(s)
    \/ \E r \in Relationship : \E ids \in References : SetRelation(r, ids)
    \/ Build
    \/ CreateDidDocument
    \/ \E text \in Texts : ParseDidDocument(text)

Spec == Init /\ [][Next]_vars

-----------------------------------------------------------------------------
TypeOK ==
    /\ read \in Document \cup {NoDocument}
    /\ draft \in Document \cup {NoDocument}
    /\ made \in Document \cup {NoDocument}
    /\ by \in {"none", "build", "create"}
    /\ made = NoDocument <=> by = "none"
    /\ made # NoDocument => made.id \in Did

Accepted == {read, made} \ {NoDocument}

\* What an id names in a document of this subject, however it is spelled.
Names(did, id) == <<IF id.form = "absolute" THEN id.did ELSE did, id.name>>

\* In a document that was made or read, however its ids are spelled, every
\* reference names one method and no relation names a method twice
\* (DidDocument::validate, did_document.rs:995-1000).
ReferencesNameOneMethod ==
    \A d \in Accepted : \A r \in Relationship : \A k \in DOMAIN d.relation[r] :
        LET name == Names(d.id, d.relation[r][k]) IN
        /\ \E n \in DOMAIN d.verificationMethod :
              \A m \in DOMAIN d.verificationMethod :
                 Names(d.id, d.verificationMethod[m].id) = name <=> m = n
        /\ \A j \in DOMAIN d.relation[r] :
              Names(d.id, d.relation[r][j]) = name => j = k

\* A document that was accepted is accepted again, as it is: written out and
\* read, and, if its subject is a DID, put together from its parts.
AcceptedAgain ==
    \A d \in Accepted :
        /\ Parses(d)
        /\ d.id \in Did => Creates(d)
        /\ WithNormalizedServiceEndpoints(d) = d

\* No document has a key that PublicKeyJwk::new would refuse, wherever the
\* document comes from ("JSON-loaded values cannot be in an invalid state",
\* did_document.rs:425-427).
KeysAreValid ==
    \A d \in Accepted : \A n \in DOMAIN d.verificationMethod :
        LET jwk == d.verificationMethod[n].jwk IN
        /\ ~jwk.d
        /\ jwk.kty = "OKP" => jwk.crv \in OkpCurve /\ jwk.y = "none"
        /\ jwk.kty = "EC" => jwk.crv \in EcCurve /\ jwk.y = "canonical"
        /\ jwk.kty \in {"EC", "OKP"} => jwk.x = "canonical"

\* build checks methods and services "defensively" once more
\* (did_document.rs:1535-1536): those it returns are valid.
PartsAreRechecked ==
    by = "build" =>
        /\ \A m \in Range(made.verificationMethod) : ValidMethod(m)
        /\ \A s \in Range(made.service) : ValidService(s)

=============================================================================

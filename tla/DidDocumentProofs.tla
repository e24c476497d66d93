------------------------- MODULE DidDocumentProofs -------------------------
(***************************************************************************)
(* What DidDocument promises, for all DIDs, names, inputs and texts.       *)
(*                                                                         *)
(* Everything accepted has passed Validate and been normalized, so the     *)
(* proofs need that normalizing is idempotent and that it leaves alone     *)
(* what Validate looks at, except endpoints, which Validate normalizes     *)
(* itself.                                                                 *)
(***************************************************************************)
EXTENDS DidDocument, TLAPS

-----------------------------------------------------------------------------
(***************************************************************************)
(* Normalization.                                                          *)
(***************************************************************************)
LEMMA NormalizingUris ==
    ASSUME NEW u \in Uri
    PROVE  /\ NormalizeUriString(u) \in Uri
           /\ NormalizeUriString(NormalizeUriString(u)) = NormalizeUriString(u)
<1>1. CASE u.scheme \notin KnownScheme \/ ~u.parses
  BY <1>1 DEF NormalizeUriString
<1>2. CASE u.scheme \in KnownScheme /\ u.parses
  <2> DEFINE port == IF u.port = "default" THEN "none" ELSE u.port
             path == IF u.path = "/p" THEN u.path
                     ELSE IF EndsWithSlash(u) THEN "/" ELSE ""
             v == [u EXCEPT !.capitals = FALSE, !.port = port, !.path = path]
  <2>1. NormalizeUriString(u) = v
    BY <1>2 DEF NormalizeUriString, Uri
  <2>2. v \in Uri
    BY DEF Uri
  <2>3. /\ v.scheme = u.scheme /\ v.parses = u.parses /\ v.capitals = FALSE
        /\ v.port = port /\ v.path = path /\ v.tail = u.tail
    BY DEF Uri
  <2>4. port # "default" /\ (port = "default" => "none" = port)
    BY DEF Uri
  <2>5. path = IF path = "/p" THEN path ELSE IF EndsWithSlash(v) THEN "/" ELSE ""
    BY <2>3 DEF Uri, EndsWithSlash
  <2>6. NormalizeUriString(v) =
            [v EXCEPT !.capitals = FALSE,
                      !.port = IF v.port = "default" THEN "none" ELSE v.port,
                      !.path = IF v.path = "/p" THEN v.path
                               ELSE IF EndsWithSlash(v) THEN "/" ELSE ""]
    BY <1>2, <2>3 DEF NormalizeUriString
  <2>7. NormalizeUriString(v) = [v EXCEPT !.capitals = v.capitals, !.port = v.port,
                                          !.path = v.path]
    BY <2>3, <2>4, <2>5, <2>6
  <2>8. NormalizeUriString(v) = v
    <3> HIDE DEF v, port, path
    <3>1. [v EXCEPT !.capitals = v.capitals, !.port = v.port, !.path = v.path] = v
      BY <2>2 DEF Uri
    <3> QED
      BY <2>7, <3>1
  <2>9. QED  BY <2>1, <2>2, <2>8
<1>3. QED  BY <1>1, <1>2

LEMMA NormalizingEndpoints ==
    ASSUME NEW e \in Seq(EndpointEntry)
    PROVE  /\ NormalizeServiceEndpoint(e) \in Seq(EndpointEntry)
           /\ NormalizeServiceEndpoint(NormalizeServiceEndpoint(e))
                  = NormalizeServiceEndpoint(e)
<1> DEFINE f == NormalizeServiceEndpoint(e)
<1>1. \A n \in DOMAIN e : e[n] \in EndpointEntry
  OBVIOUS
<1>2. DOMAIN f = DOMAIN e
  BY DEF NormalizeServiceEndpoint
<1>3. \A n \in DOMAIN e : f[n] = [e[n] EXCEPT !.uri = NormalizeUriString(e[n].uri)]
  BY DEF NormalizeServiceEndpoint
<1>4. \A n \in DOMAIN e :
          /\ f[n] \in EndpointEntry
          /\ f[n].uri = NormalizeUriString(e[n].uri)
  <2> SUFFICES ASSUME NEW n \in DOMAIN e
               PROVE  /\ f[n] \in EndpointEntry
                      /\ f[n].uri = NormalizeUriString(e[n].uri)
    OBVIOUS
  <2> DEFINE uri == NormalizeUriString(e[n].uri)
  <2>1. e[n] \in EndpointEntry /\ e[n].uri \in Uri
    BY <1>1 DEF EndpointEntry
  <2>2. uri \in Uri
    BY <2>1, NormalizingUris
  <2>3. f[n] = [e[n] EXCEPT !.uri = uri]
    BY <1>3
  <2> HIDE DEF f, uri
  <2>4. f[n] \in EndpointEntry /\ f[n].uri = uri
    BY <2>1, <2>2, <2>3 DEF EndpointEntry
  <2> QED
    BY <2>4 DEF uri
<1>5. f \in Seq(EndpointEntry)
  <2>1. DOMAIN f = 1 .. Len(e) /\ Len(e) \in Nat
    BY <1>2
  <2>2. f = [n \in 1 .. Len(e) |-> f[n]]
    BY <2>1 DEF NormalizeServiceEndpoint
  <2>3. QED  BY <1>2, <1>4, <2>1, <2>2
<1>6. \A n \in DOMAIN f : NormalizeUriString(f[n].uri) = f[n].uri
  <2>1. SUFFICES ASSUME NEW n \in DOMAIN f
                 PROVE  NormalizeUriString(f[n].uri) = f[n].uri
    OBVIOUS
  <2>2. e[n].uri \in Uri
    BY <1>1, <1>2 DEF EndpointEntry
  <2>3. QED  BY <1>2, <1>4, <2>2, NormalizingUris
<1>7. \A n \in DOMAIN f : [f[n] EXCEPT !.uri = NormalizeUriString(f[n].uri)] = f[n]
  BY <1>2, <1>4, <1>6 DEF EndpointEntry
<1>8. NormalizeServiceEndpoint(f) = [n \in DOMAIN f |-> f[n]]
  BY <1>7 DEF NormalizeServiceEndpoint
<1>9. f = [n \in DOMAIN f |-> f[n]]
  BY <1>2 DEF NormalizeServiceEndpoint
<1>10. QED  BY <1>5, <1>8, <1>9

LEMMA NormalizingServices ==
    ASSUME NEW s \in Service
    PROVE  /\ NormalService(s) \in Service
           /\ NormalService(NormalService(s)) = NormalService(s)
           /\ NormalService(s).id = s.id
           /\ NormalService(s).serviceEndpoint = NormalizeServiceEndpoint(s.serviceEndpoint)
<1> DEFINE e == s.serviceEndpoint
           t == NormalService(s)
<1>1. e \in Seq(EndpointEntry)
  BY DEF Service
<1>2. t = [s EXCEPT !.serviceEndpoint = NormalizeServiceEndpoint(e)]
  BY DEF NormalService
<1>3. /\ t \in Service /\ t.id = s.id
      /\ t.serviceEndpoint = NormalizeServiceEndpoint(e)
  BY <1>1, <1>2, NormalizingEndpoints DEF Service
<1>4. NormalService(t) = [t EXCEPT !.serviceEndpoint = NormalizeServiceEndpoint(t.serviceEndpoint)]
  BY DEF NormalService
<1>5. NormalizeServiceEndpoint(t.serviceEndpoint) = t.serviceEndpoint
  BY <1>1, <1>3, NormalizingEndpoints
<1>6. NormalService(t) = t
  BY <1>3, <1>4, <1>5 DEF Service
<1>7. QED  BY <1>3, <1>6

LEMMA NormalizingDocuments ==
    ASSUME NEW d \in Document
    PROVE  LET w == WithNormalizedServiceEndpoints(d) IN
           /\ w \in Document
           /\ WithNormalizedServiceEndpoints(w) = w
           /\ w.id = d.id
           /\ w.verificationMethod = d.verificationMethod
           /\ w.relation = d.relation
           /\ w.service = [n \in DOMAIN d.service |-> NormalService(d.service[n])]
<1> DEFINE s == d.service
           t == [n \in DOMAIN s |-> NormalService(s[n])]
           w == WithNormalizedServiceEndpoints(d)
<1>1. s \in Seq(Service) /\ \A n \in DOMAIN s : s[n] \in Service
  BY DEF Document
<1>2. \A n \in DOMAIN s : t[n] \in Service /\ NormalService(t[n]) = t[n]
  BY <1>1, NormalizingServices
<1>3. t \in Seq(Service)
  <2>1. DOMAIN s = 1 .. Len(s) /\ Len(s) \in Nat
    BY <1>1
  <2>2. t \in [1 .. Len(s) -> Service]
    BY <1>2, <2>1
  <2>3. QED  BY <2>1, <2>2
<1>4. w = [d EXCEPT !.service = t]
  BY DEF WithNormalizedServiceEndpoints
<1>5. /\ w \in Document /\ w.id = d.id /\ w.verificationMethod = d.verificationMethod
      /\ w.relation = d.relation /\ w.service = t
  BY <1>3, <1>4 DEF Document
<1>6. [n \in DOMAIN t |-> NormalService(t[n])] = t
  BY <1>2
<1>7. WithNormalizedServiceEndpoints(w) = [w EXCEPT !.service = t]
  BY <1>5, <1>6 DEF WithNormalizedServiceEndpoints
<1>8. WithNormalizedServiceEndpoints(w) = w
  BY <1>5, <1>7 DEF Document
<1>9. QED  BY <1>5, <1>8

\* What has passed Validate passes it when normalized.
LEMMA ValidStaysValid ==
    ASSUME NEW d \in Document, Validate(d)
    PROVE  Validate(WithNormalizedServiceEndpoints(d))
<1> DEFINE w == WithNormalizedServiceEndpoints(d)
<1>1. /\ w.id = d.id /\ w.verificationMethod = d.verificationMethod
      /\ w.relation = d.relation
      /\ w.service = [n \in DOMAIN d.service |-> NormalService(d.service[n])]
  BY NormalizingDocuments
<1>2. \A n \in DOMAIN d.service : d.service[n] \in Service
  BY DEF Document
<1>3. MethodIds(w) = MethodIds(d)
  BY <1>1 DEF MethodIds
<1>4. ServiceIds(w) = ServiceIds(d)
  BY <1>1, <1>2, NormalizingServices DEF ServiceIds
<1>5. ASSUME NEW n \in DOMAIN w.service
      PROVE  NormalizeServiceEndpoint(w.service[n].serviceEndpoint)
                 = NormalizeServiceEndpoint(d.service[n].serviceEndpoint)
  <2>1. /\ n \in DOMAIN d.service
        /\ w.service[n].serviceEndpoint
               = NormalizeServiceEndpoint(d.service[n].serviceEndpoint)
    BY <1>1, <1>2, NormalizingServices
  <2>2. d.service[n].serviceEndpoint \in Seq(EndpointEntry)
    BY <1>2, <2>1 DEF Service
  <2>3. QED  BY <2>1, <2>2, NormalizingEndpoints
<1>6. DOMAIN w.service = DOMAIN d.service
  BY <1>1
<1>7. QED  BY <1>1, <1>3, <1>4, <1>5, <1>6 DEF Validate

-----------------------------------------------------------------------------
(***************************************************************************)
(* The inductive invariant.  Keys are valid in the draft already; what is  *)
(* accepted has been validated and normalized.                             *)
(***************************************************************************)
Sound(d) ==
    /\ Validate(d)
    /\ Deserializes(d)
    /\ WithNormalizedServiceEndpoints(d) = d

Inv ==
    /\ TypeOK
    /\ draft # NoDocument => Deserializes(draft)
    /\ \A d \in Accepted : Sound(d)

LEMMA AcceptedIsSound ==
    ASSUME NEW d \in Document, Validate(d), Deserializes(d)
    PROVE  LET w == WithNormalizedServiceEndpoints(d) IN
           w \in Document /\ w.id = d.id /\ Sound(w)
<1> DEFINE w == WithNormalizedServiceEndpoints(d)
<1>1. Deserializes(w)
  BY NormalizingDocuments DEF Deserializes
<1>2. QED  BY <1>1, NormalizingDocuments, ValidStaysValid DEF Sound

LEMMA PartsHaveTheirTypes ==
    ASSUME Inv
    PROVE  /\ Methods \subseteq {m \in VerificationMethod : ValidJwk(m.jwk)}
           /\ Services \subseteq Service
           /\ References \subseteq Seq(IdText)
<1>1. CASE read = NoDocument
  <2>1. Services \subseteq Service
    BY <1>1, InputAssumption, NormalizingServices DEF Services
  <2>2. QED  BY <1>1, <2>1, InputAssumption DEF Methods, References, ValidMethod
<1>2. CASE read # NoDocument
  <2>1. read \in Document /\ Deserializes(read)
    BY <1>2 DEF Inv, TypeOK, Accepted, Sound
  <2>2. \A n \in DOMAIN read.verificationMethod :
            read.verificationMethod[n] \in VerificationMethod /\ ValidJwk(read.verificationMethod[n].jwk)
    BY <2>1 DEF Document, Deserializes
  <2>3. \A n \in DOMAIN read.service : read.service[n] \in Service
    BY <2>1 DEF Document
  <2>4. \A r \in DOMAIN read.relation : read.relation[r] \in Seq(IdText)
    BY <2>1 DEF Document
  <2>5. Range(read.verificationMethod) \subseteq {m \in VerificationMethod : ValidJwk(m.jwk)}
    BY <2>2 DEF Range
  <2>6. Range(read.service) \subseteq Service
    BY <2>3 DEF Range
  <2>7. Range(read.relation) \subseteq Seq(IdText)
    BY <2>4 DEF Range
  <2>8. \A t \in NewServices : NormalService(t) \in Service
    BY InputAssumption, NormalizingServices
  <2>9. QED
    BY <1>2, <2>5, <2>6, <2>7, <2>8, InputAssumption
       DEF Methods, Services, References, ValidMethod
<1>3. QED  BY <1>1, <1>2

LEMMA InitInv == Init => Inv
BY InputAssumption DEF Init, Inv, TypeOK, Accepted

LEMMA FinishInv ==
    ASSUME Inv, NEW accepts \in BOOLEAN, NEW name \in {"build", "create"},
           Finish(accepts, name), accepts => Creates(draft)
    PROVE  Inv'
<1>1. draft # NoDocument /\ draft \in Document /\ Deserializes(draft)
  BY DEF Inv, TypeOK, Finish
<1>2. read' = read /\ draft' = NoDocument
  BY DEF Finish
<1>3. CASE accepts
  <2> DEFINE w == WithNormalizedServiceEndpoints(draft)
  <2>1. made' = w /\ by' = name
    BY <1>3 DEF Finish
  <2>2. w \in Document /\ w.id \in Did /\ Sound(w)
    BY <1>1, <1>3, AcceptedIsSound DEF Creates
  <2>3. w # NoDocument
    BY <2>2, InputAssumption
  <2>4. TypeOK'
    BY <1>2, <2>1, <2>2, <2>3 DEF Inv, TypeOK
  <2>5. \A d \in Accepted' : Sound(d)
    BY <1>2, <2>1, <2>2 DEF Inv, Accepted
  <2>6. QED  BY <1>2, <2>4, <2>5 DEF Inv, Sound
<1>4. CASE ~accepts
  BY <1>2, <1>4 DEF Finish, Inv, TypeOK, Accepted
<1>5. QED  BY <1>3, <1>4

LEMMA NextInv == Inv /\ [Next]_vars => Inv'
<1> SUFFICES ASSUME Inv, [Next]_vars PROVE Inv'
  OBVIOUS
<1>1. ASSUME NEW did \in DidText, New(did) PROVE Inv'
  <2>1. Empty(did) \in Document /\ Deserializes(Empty(did))
    BY DEF Empty, Document, Deserializes
  <2>2. TypeOK'
    BY <1>1, <2>1 DEF New, Inv, TypeOK
  <2>3. Accepted' \subseteq Accepted
    BY <1>1 DEF New, Accepted
  <2>4. QED  BY <1>1, <2>1, <2>2, <2>3 DEF New, Inv
<1>2. ASSUME NEW m \in Methods, AddVerificationMethod(m) PROVE Inv'
  <2>1. /\ draft \in Document /\ Deserializes(draft)
        /\ m \in VerificationMethod /\ ValidJwk(m.jwk)
    BY <1>2, PartsHaveTheirTypes DEF AddVerificationMethod, Inv, TypeOK
  <2>2. Append(draft.verificationMethod, m) \in Seq(VerificationMethod)
    BY <2>1 DEF Document
  <2>3. draft' \in Document
    BY <1>2, <2>1, <2>2 DEF AddVerificationMethod, Document
  <2>4. draft'.verificationMethod = Append(draft.verificationMethod, m)
    BY <1>2, <2>1 DEF AddVerificationMethod, Document
  <2>5. Deserializes(draft')
    BY <2>1, <2>4 DEF Document, Deserializes
  <2>6. Accepted' = Accepted
    BY <1>2 DEF AddVerificationMethod, Accepted
  <2>7. QED  BY <1>2, <2>3, <2>5, <2>6 DEF AddVerificationMethod, Inv, TypeOK
<1>3. ASSUME NEW s \in Services, AddService(s) PROVE Inv'
  <2>1. draft \in Document /\ Deserializes(draft) /\ s \in Service
    BY <1>3, PartsHaveTheirTypes DEF AddService, Inv, TypeOK
  <2>2. Append(draft.service, s) \in Seq(Service)
    BY <2>1 DEF Document
  <2>3. draft' \in Document /\ draft'.verificationMethod = draft.verificationMethod
    BY <1>3, <2>1, <2>2 DEF AddService, Document
  <2>4. Deserializes(draft')
    BY <2>1, <2>3 DEF Deserializes
  <2>5. Accepted' = Accepted
    BY <1>3 DEF AddService, Accepted
  <2>6. QED  BY <1>3, <2>3, <2>4, <2>5 DEF AddService, Inv, TypeOK
<1>4. ASSUME NEW r \in Relationship, NEW ids \in References, SetRelation(r, ids)
      PROVE  Inv'
  <2>1. draft \in Document /\ Deserializes(draft) /\ ids \in Seq(IdText)
    BY <1>4, PartsHaveTheirTypes DEF SetRelation, Inv, TypeOK
  <2>2. draft' \in Document /\ draft'.verificationMethod = draft.verificationMethod
    BY <1>4, <2>1 DEF SetRelation, Document
  <2>3. Deserializes(draft')
    BY <2>1, <2>2 DEF Deserializes
  <2>4. Accepted' = Accepted
    BY <1>4 DEF SetRelation, Accepted
  <2>5. QED  BY <1>4, <2>2, <2>3, <2>4 DEF SetRelation, Inv, TypeOK
<1>5. ASSUME Build PROVE Inv'
  <2>1. Builds(draft) \in BOOLEAN /\ (Builds(draft) => Creates(draft))
    BY DEF Builds, Creates
  <2>2. QED  BY <1>5, <2>1, FinishInv DEF Build
<1>6. ASSUME CreateDidDocument PROVE Inv'
  <2>1. Creates(draft) \in BOOLEAN
    BY DEF Creates
  <2>2. QED  BY <1>6, <2>1, FinishInv DEF CreateDidDocument
<1>7. ASSUME NEW text \in Texts, ParseDidDocument(text) PROVE Inv'
  <2> DEFINE w == WithNormalizedServiceEndpoints(text)
  <2>1. text \in Document /\ Validate(text) /\ Deserializes(text)
    BY <1>7, InputAssumption DEF ParseDidDocument, Parses
  <2>2. w \in Document /\ Sound(w)
    BY <2>1, AcceptedIsSound
  <2>3. TypeOK'
    BY <1>7, <2>2 DEF ParseDidDocument, Inv, TypeOK
  <2>4. Accepted' \subseteq Accepted \cup {w}
    BY <1>7 DEF ParseDidDocument, Accepted
  <2>5. QED  BY <1>7, <2>2, <2>3, <2>4 DEF ParseDidDocument, Inv
<1>8. CASE UNCHANGED vars
  BY <1>8 DEF vars, Inv, TypeOK, Accepted
<1>9. QED  BY <1>1, <1>2, <1>3, <1>4, <1>5, <1>6, <1>7, <1>8 DEF Next

LEMMA InvHolds == Spec => []Inv
BY InitInv, NextInv, PTL DEF Spec

-----------------------------------------------------------------------------
(***************************************************************************)
(* The theorems.                                                           *)
(***************************************************************************)
\* Whatever is put into the builder and read from JSON, documents and drafts
\* have the shape that the types give them, and what is made has a DID for
\* its subject (DidString::parse in build and create_did_document).
THEOREM TypesAreKept == Spec => []TypeOK
<1>1. Inv => TypeOK
  BY DEF Inv
<1>2. QED  BY <1>1, InvHolds, PTL

\* Ids are the same id exactly if validate's canonical forms are equal.
LEMMA CanonicalFormsAreNames ==
    ASSUME NEW did, NEW i \in IdText, NEW j \in IdText
    PROVE  Canonicalize(did, i) = Canonicalize(did, j) <=> Names(did, i) = Names(did, j)
<1>1. \A k \in IdText :
          /\ k.form = "absolute" => Canonicalize(did, k) = [form |-> "absolute", did |-> k.did, name |-> k.name]
          /\ k.form # "absolute" => Canonicalize(did, k) = [form |-> "absolute", did |-> did, name |-> k.name]
  BY DEF Canonicalize, IsDidUrl, IdText
<1> DEFINE text(k) == IF k.form = "absolute" THEN k.did ELSE did
<1>2. \A k \in IdText :
          /\ Canonicalize(did, k) = [form |-> "absolute", did |-> text(k), name |-> k.name]
          /\ Names(did, k) = <<text(k), k.name>>
  BY <1>1 DEF Names
<1> HIDE DEF text
<1>3. QED  BY <1>2

\* Validate does what it is for: each reference of a document that passes it
\* names one method, however the ids are spelled, and none is there twice.
LEMMA ValidReferences ==
    ASSUME NEW d \in Document, Validate(d),
           NEW r \in Relationship, NEW k \in DOMAIN d.relation[r]
    PROVE  LET name == Names(d.id, d.relation[r][k]) IN
           /\ \E n \in DOMAIN d.verificationMethod :
                 \A m \in DOMAIN d.verificationMethod :
                    Names(d.id, d.verificationMethod[m].id) = name <=> m = n
           /\ \A j \in DOMAIN d.relation[r] :
                 Names(d.id, d.relation[r][j]) = name => j = k
<1> DEFINE ids == MethodIds(d)
           members == d.relation[r]
           name == Names(d.id, members[k])
<1>1. /\ DOMAIN ids = DOMAIN d.verificationMethod
      /\ \A n \in DOMAIN ids : ids[n] = d.verificationMethod[n].id /\ ids[n] \in IdText
  <2>1. \A n \in DOMAIN d.verificationMethod : d.verificationMethod[n] \in VerificationMethod
    BY DEF Document
  <2>2. \A n \in DOMAIN d.verificationMethod : d.verificationMethod[n].id \in IdText
    BY <2>1 DEF VerificationMethod
  <2>3. QED  BY <2>2 DEF MethodIds
<1>2. \A j \in DOMAIN members : members[j] \in IdText
  BY DEF Document
<1>3. /\ IsInjective(Canonical(d.id, ids))
      /\ IsInjective(Canonical(d.id, members))
      /\ Range(Canonical(d.id, members)) \subseteq Range(Canonical(d.id, ids))
  BY DEF Validate
<1>4. \A n, m \in DOMAIN ids :
          Canonicalize(d.id, ids[n]) = Canonicalize(d.id, ids[m]) => n = m
  BY <1>3 DEF IsInjective, Canonical
<1>5. \A n, m \in DOMAIN members :
          Canonicalize(d.id, members[n]) = Canonicalize(d.id, members[m]) => n = m
  BY <1>3 DEF IsInjective, Canonical
<1>6. PICK n \in DOMAIN ids : Canonicalize(d.id, ids[n]) = Canonicalize(d.id, members[k])
  BY <1>3 DEF Range, Canonical
<1>7. \A m \in DOMAIN ids : Names(d.id, ids[m]) = name <=> m = n
  <2>1. ASSUME NEW m \in DOMAIN ids
        PROVE  Names(d.id, ids[m]) = name
                   <=> Canonicalize(d.id, ids[m]) = Canonicalize(d.id, members[k])
    BY <1>1, <1>2, CanonicalFormsAreNames
  <2>2. QED  BY <1>4, <1>6, <2>1
<1>8. \A j \in DOMAIN members : Names(d.id, members[j]) = name => j = k
  BY <1>2, <1>5, CanonicalFormsAreNames
<1>9. QED  BY <1>1, <1>7, <1>8

\* Every reference of an accepted document names one method.
THEOREM ReferencesAreSound == Spec => []ReferencesNameOneMethod
<1>1. Inv => ReferencesNameOneMethod
  <2> SUFFICES ASSUME Inv, NEW d \in Accepted
               PROVE  \A r \in Relationship : \A k \in DOMAIN d.relation[r] :
                         LET name == Names(d.id, d.relation[r][k]) IN
                         /\ \E n \in DOMAIN d.verificationMethod :
                               \A m \in DOMAIN d.verificationMethod :
                                  Names(d.id, d.verificationMethod[m].id) = name <=> m = n
                         /\ \A j \in DOMAIN d.relation[r] :
                               Names(d.id, d.relation[r][j]) = name => j = k
    BY DEF ReferencesNameOneMethod
  <2>1. d \in Document /\ Validate(d)
    BY DEF Inv, TypeOK, Accepted, Sound
  <2>2. QED  BY <2>1, ValidReferences
<1>2. QED  BY <1>1, InvHolds, PTL

\* An accepted document is in normal form and stays acceptable: writing it
\* out and reading it, or making it again, gives the same document.
THEOREM AcceptingIsStable == Spec => []AcceptedAgain
<1>1. Inv => AcceptedAgain
  BY DEF Inv, AcceptedAgain, Sound, Parses, Creates
<1>2. QED  BY <1>1, InvHolds, PTL

\* No way into a document leads round the checks of PublicKeyJwk.
THEOREM NoOtherKeys == Spec => []KeysAreValid
<1>1. Inv => KeysAreValid
  <2> SUFFICES ASSUME Inv, NEW d \in Accepted, NEW n \in DOMAIN d.verificationMethod
               PROVE  LET jwk == d.verificationMethod[n].jwk IN
                      /\ ~jwk.d
                      /\ jwk.kty = "OKP" => jwk.crv \in OkpCurve /\ jwk.y = "none"
                      /\ jwk.kty = "EC" => jwk.crv \in EcCurve /\ jwk.y = "canonical"
                      /\ jwk.kty \in {"EC", "OKP"} => jwk.x = "canonical"
    BY DEF KeysAreValid
  <2> DEFINE jwk == d.verificationMethod[n].jwk
  <2>1. ValidJwk(jwk)
    BY DEF Inv, Sound, Deserializes
  <2> HIDE DEF jwk
  <2>2. jwk.kty \in {"EC", "OKP"} => XHasLength(jwk)
    BY <2>1 DEF ValidJwk, XHasLength, EcCurve
  <2>3. QED  BY <2>1, <2>2 DEF ValidJwk, jwk
<1>2. QED  BY <1>1, InvHolds, PTL

=============================================================================

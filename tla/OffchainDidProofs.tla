------------------------- MODULE OffchainDidProofs --------------------------
(***************************************************************************)
(* Off-chain DIDs keep their promises for any states, any frames of other  *)
(* programs, any texts and any limits of a state's lists.                  *)
(***************************************************************************)
EXTENDS OffchainDid, FiniteSetTheorems, TLAPS

-----------------------------------------------------------------------------
(***************************************************************************)
(* The tables of either direction are inverse to one another, and so are   *)
(* the chunks of a state that can be made and the state of its chunks.     *)
(***************************************************************************)
\* A set of relationships is found again in its mask.
LEMMA MaskInverts ==
  ASSUME NEW rs \in SUBSET Relationship
  PROVE  MaskToRelationships(RelationshipsToMask(rs)) = rs
<1> DEFINE mask == RelationshipsToMask(rs)
           flag(r, bit) == IF r \in rs THEN bit ELSE 0
<1>1. mask = flag("authentication", 1) + flag("assertionMethod", 2)
               + flag("keyAgreement", 4) + flag("capabilityInvocation", 8)
               + flag("capabilityDelegation", 16)
  BY DEF RelationshipsToMask
<1> HIDE DEF mask
<1>2. (mask \div 1) % 2 = 1 <=> "authentication" \in rs
  BY <1>1
<1>3. (mask \div 2) % 2 = 1 <=> "assertionMethod" \in rs
  BY <1>1
<1>4. (mask \div 4) % 2 = 1 <=> "keyAgreement" \in rs
  BY <1>1
<1>5. (mask \div 8) % 2 = 1 <=> "capabilityInvocation" \in rs
  BY <1>1
<1>6. (mask \div 16) % 2 = 1 <=> "capabilityDelegation" \in rs
  BY <1>1
<1>7. \A r \in Relationship : (mask \div BitOf[r]) % 2 = 1 <=> r \in rs
  BY <1>2, <1>3, <1>4, <1>5, <1>6 DEF BitOf, Relationship
<1> QED
  BY <1>7 DEF MaskToRelationships, mask

\* The kind of a key that has one says what the key is, but for its coordinates
\* and its further members.
LEMMA KindInverts ==
  ASSUME NEW jwk \in Jwk, KeyKindFromJwk(jwk) # 0
  PROVE  LET kind == KeyKindFromJwk(jwk)
         IN  /\ kind \in DOMAIN OfKeyKind
             /\ HasY(kind) => jwk.y # NoY
             /\ JwkFromKeyKind(kind, jwk.x, jwk.y) = [jwk EXCEPT !.ext = {}]
<1> DEFINE kind == KeyKindFromJwk(jwk)
<1>1. [jwk EXCEPT !.ext = {}]
        = [kty |-> jwk.kty, crv |-> jwk.crv, x |-> jwk.x, y |-> jwk.y, ext |-> {}]
  BY DEF Jwk
<1>2. /\ kind \in 1 .. 7
      /\ OfKeyKind[kind] = <<jwk.kty, jwk.crv>>
      /\ HasY(kind) <=> jwk.kty = "EC"
      /\ jwk.kty \in {"EC", "OKP"}
  BY DEF KeyKindFromJwk, OfKeyKind, HasY, Jwk
<1>3. jwk.kty = "OKP" <=> jwk.y = NoY
  BY DEF Jwk
<1> QED
  BY <1>1, <1>2, <1>3 DEF JwkFromKeyKind, OfKeyKind

\* The chunks of a state are those of a state, namely of what they carry of it.
LEMMA ChunksInvert ==
  ASSUME NEW s \in State, ValidateStateShape(s)
  PROVE  HasState(ToChunks(s)) /\ FromChunks(ToChunks(s)) = Carried(s)
<1> DEFINE w == ToChunks(s)
<1>1. s = [version |-> s.version, aka |-> s.aka, method |-> s.method, service |-> s.service]
  BY DEF State
<1>2. s.method \in Seq(Method)
  BY DEF State
<1>3. /\ w.version = s.version /\ w.aka = s.aka /\ w.service = s.service
      /\ DOMAIN w.method = DOMAIN s.method
      /\ \A i \in DOMAIN s.method :
           w.method[i] = [id   |-> s.method[i].id,
                          kind |-> KeyKindFromJwk(s.method[i].jwk),
                          x    |-> s.method[i].jwk.x,
                          y    |-> s.method[i].jwk.y,
                          mask |-> RelationshipsToMask(s.method[i].relationships)]
  BY DEF ToChunks
<1> HIDE DEF w
<1>4. ASSUME NEW i \in DOMAIN s.method
      PROVE  /\ w.method[i].kind \in DOMAIN OfKeyKind
             /\ HasY(w.method[i].kind) => w.method[i].y # NoY
             /\ [id  |-> w.method[i].id,
                 jwk |-> JwkFromKeyKind(w.method[i].kind, w.method[i].x, w.method[i].y),
                 relationships |-> MaskToRelationships(w.method[i].mask)]
                  = [s.method[i] EXCEPT !.jwk.ext = {}]
  <2> DEFINE m == s.method[i]
  <2>1. /\ m = [id |-> m.id, jwk |-> m.jwk, relationships |-> m.relationships]
        /\ m.jwk \in Jwk
        /\ m.relationships \in SUBSET Relationship
    <3>1. m \in Method
      BY <1>2
    <3> HIDE DEF m
    <3> QED
      BY <3>1 DEF Method
  <2>2. KeyKindFromJwk(m.jwk) # 0
    BY DEF ValidateStateShape
  <2>3. MaskToRelationships(RelationshipsToMask(m.relationships)) = m.relationships
    BY <2>1, MaskInverts
  <2>4. /\ KeyKindFromJwk(m.jwk) \in DOMAIN OfKeyKind
        /\ HasY(KeyKindFromJwk(m.jwk)) => m.jwk.y # NoY
        /\ JwkFromKeyKind(KeyKindFromJwk(m.jwk), m.jwk.x, m.jwk.y)
             = [m.jwk EXCEPT !.ext = {}]
    BY <2>1, <2>2, KindInverts
  <2>5. w.method[i] = [id |-> m.id, kind |-> KeyKindFromJwk(m.jwk),
                       x |-> m.jwk.x, y |-> m.jwk.y,
                       mask |-> RelationshipsToMask(m.relationships)]
    BY <1>3
  <2> HIDE DEF m
  <2>6. /\ w.method[i].id = m.id
        /\ w.method[i].kind = KeyKindFromJwk(m.jwk)
        /\ w.method[i].x = m.jwk.x /\ w.method[i].y = m.jwk.y
        /\ w.method[i].mask = RelationshipsToMask(m.relationships)
    BY <2>5
  <2>7. [m EXCEPT !.jwk.ext = {}]
          = [id |-> m.id, jwk |-> [m.jwk EXCEPT !.ext = {}], relationships |-> m.relationships]
    BY <2>1
  <2> QED
    BY <2>3, <2>4, <2>6, <2>7 DEF m
<1>5. HasState(w)
  BY <1>3, <1>4 DEF HasState
<1>6. FromChunks(w).method
        = [i \in DOMAIN s.method |-> [s.method[i] EXCEPT !.jwk.ext = {}]]
  BY <1>3, <1>4 DEF FromChunks
<1>7. FromChunks(w) = Carried(s)
  <2> DEFINE f == [i \in DOMAIN s.method |-> [s.method[i] EXCEPT !.jwk.ext = {}]]
  <2>1. FromChunks(w) = [version |-> s.version, aka |-> s.aka, service |-> s.service, method |-> f]
    BY <1>3, <1>6 DEF FromChunks
  <2>2. Carried(s) = [s EXCEPT !.method = f]
    BY DEF Carried
  <2> HIDE DEF f
  <2> QED
    BY <1>1, <2>1, <2>2
<1> QED
  BY <1>5, <1>7 DEF w

\* Further members make no difference to whether a state is valid.
LEMMA CarriedIsValid ==
  ASSUME NEW s \in State, ValidateStateShape(s)
  PROVE  ValidateStateShape(Carried(s))
<1> DEFINE c == Carried(s)
<1>1. /\ s.method \in Seq(Method)
      /\ s = [version |-> s.version, aka |-> s.aka, method |-> s.method, service |-> s.service]
  BY DEF State
<1>2. /\ c.version = s.version /\ c.aka = s.aka /\ c.service = s.service
      /\ c.method = [i \in DOMAIN s.method |-> [s.method[i] EXCEPT !.jwk.ext = {}]]
  <2> DEFINE f == [i \in DOMAIN s.method |-> [s.method[i] EXCEPT !.jwk.ext = {}]]
  <2>1. c = [s EXCEPT !.method = f]
    BY DEF Carried
  <2> HIDE DEF c, f
  <2>2. /\ c.version = s.version /\ c.aka = s.aka /\ c.service = s.service
        /\ c.method = f
    BY <1>1, <2>1
  <2> QED
    BY <2>2 DEF f
<1>3. DOMAIN c.method = DOMAIN s.method /\ Len(c.method) = Len(s.method)
  BY <1>1, <1>2
<1>4. ASSUME NEW i \in DOMAIN s.method
      PROVE  /\ c.method[i].id = s.method[i].id
             /\ KeyKindFromJwk(c.method[i].jwk) = KeyKindFromJwk(s.method[i].jwk)
  <2>1. s.method[i] \in Method
    BY <1>1
  <2>2. c.method[i] = [s.method[i] EXCEPT !.jwk.ext = {}]
    BY <1>2
  <2> HIDE DEF c
  <2>3. /\ c.method[i].id = s.method[i].id
        /\ c.method[i].jwk = [s.method[i].jwk EXCEPT !.ext = {}]
    BY <2>1, <2>2 DEF Method
  <2>4. s.method[i].jwk \in Jwk
    BY <2>1 DEF Method
  <2>5. /\ c.method[i].jwk.kty = s.method[i].jwk.kty
        /\ c.method[i].jwk.crv = s.method[i].jwk.crv
    BY <2>3, <2>4 DEF Jwk
  <2> QED
    BY <2>3, <2>5 DEF KeyKindFromJwk
<1> HIDE DEF c
<1> QED
  BY <1>2, <1>3, <1>4 DEF ValidateStateShape, c

\* What is carried once is carried whole from then on.
LEMMA CarriedTwice ==
  ASSUME NEW w
  PROVE  Carried(FromChunks(w)) = FromChunks(w)
<1> DEFINE s == FromChunks(w)
           f == [i \in DOMAIN s.method |-> [s.method[i] EXCEPT !.jwk.ext = {}]]
<1>1. s.method = [i \in DOMAIN w.method |-> s.method[i]]
  BY DEF FromChunks
<1>2. ASSUME NEW i \in DOMAIN w.method
      PROVE  [s.method[i] EXCEPT !.jwk.ext = {}] = s.method[i]
  <2>1. s.method[i] = [id  |-> w.method[i].id,
                       jwk |-> JwkFromKeyKind(w.method[i].kind, w.method[i].x, w.method[i].y),
                       relationships |-> MaskToRelationships(w.method[i].mask)]
    BY DEF FromChunks
  <2> QED
    BY <2>1 DEF JwkFromKeyKind
<1>3. f = s.method
  BY <1>1, <1>2
<1>4. s = [version |-> s.version, aka |-> s.aka, service |-> s.service, method |-> s.method]
  BY DEF FromChunks
<1>5. Carried(s) = [s EXCEPT !.method = f]
  BY DEF Carried
<1> HIDE DEF s, f
<1>6. [s EXCEPT !.method = f] = s
  BY <1>3, <1>4
<1> QED
  BY <1>5, <1>6 DEF s

-----------------------------------------------------------------------------
(***************************************************************************)
(* The inductive invariant: where every DID that was made or accepted      *)
(* comes from.  It holds by what the actions check, and it is all that is  *)
(* known of a DID later.                                                   *)
(***************************************************************************)
IsMade(m) ==
    \E s \in States :
        /\ ValidateStateShape(s)
        /\ m.state = s /\ m.text \in {ShortForm(s), LongForm(s)}

IsAccepted(g) ==
    /\ g.text \in Texts
    /\ ParseLongForm(g.text)
    /\ Decodes(g.text.tail[1])
    /\ g.state = DecodeState(g.text.tail[1])

Origins ==
    /\ \A m \in made : IsMade(m)
    /\ \A g \in got : IsAccepted(g)

Bounded ==
    /\ IsFiniteSet(made) /\ Cardinality(made) <= MaxTexts
    /\ IsFiniteSet(got) /\ Cardinality(got) <= MaxTexts

IInv == Origins /\ Bounded

LEMMA InitIInv == Init => IInv
BY FS_EmptySet, BoundAssumption DEF Init, IInv, Origins, Bounded

\* One more element goes beyond no bound that was not yet reached.
LEMMA AddOne ==
  ASSUME NEW S, NEW x, IsFiniteSet(S), Cardinality(S) < MaxTexts
  PROVE  IsFiniteSet(S \cup {x}) /\ Cardinality(S \cup {x}) <= MaxTexts
<1>1. Cardinality(S) \in Nat
  BY FS_CardinalityType
<1>2. /\ IsFiniteSet(S \cup {x})
      /\ Cardinality(S \cup {x}) = Cardinality(S)
           \/ Cardinality(S \cup {x}) = Cardinality(S) + 1
  BY FS_AddElement
<1> QED
  BY <1>1, <1>2, BoundAssumption

LEMMA NextIInv == IInv /\ [Next]_vars => IInv'
<1> SUFFICES ASSUME IInv, [Next]_vars PROVE IInv'
  OBVIOUS
<1> USE DEF IInv, Origins, Bounded
<1>1. ASSUME NEW s \in States, MakeShort(s) PROVE IInv'
  <2>1. IsMade([text |-> ShortForm(s), state |-> s])
    BY <1>1 DEF MakeShort, IsMade
  <2> QED
    BY <1>1, <2>1, AddOne DEF MakeShort
<1>2. ASSUME NEW s \in States, MakeLong(s) PROVE IInv'
  <2>1. IsMade([text |-> LongForm(s), state |-> s])
    BY <1>2 DEF MakeLong, IsMade
  <2> QED
    BY <1>2, <2>1, AddOne DEF MakeLong
<1>3. ASSUME NEW t \in Texts, Read(t) PROVE IInv'
  <2>1. IsAccepted([text |-> t, state |-> DecodeState(t.tail[1])])
    BY <1>3 DEF Read, IsAccepted
  <2> QED
    BY <1>3, <2>1, AddOne DEF Read
<1>4. CASE UNCHANGED vars
  BY <1>4 DEF vars
<1> QED
  BY <1>1, <1>2, <1>3, <1>4 DEF Next

THEOREM OffchainDidsCorrect == Spec => []IInv
BY InitIInv, NextIInv, PTL DEF Spec

-----------------------------------------------------------------------------
(***************************************************************************)
(* What the invariant says of a single DID.                                *)
(***************************************************************************)
LEMMA MadeFields ==
  ASSUME NEW m, IsMade(m)
  PROVE  /\ m.state \in States /\ ValidateStateShape(m.state)
         /\ m.text.network = "offchain" /\ m.text.hex = "lower"
         /\ m.text.id = ToChunks(m.state)
         /\ m.text.tail \in {<<>>, <<EncodeBase64Url(ToChunks(m.state))>>}
BY DEF IsMade, ShortForm, LongForm, CreateMidnightDidString, BytesToStateHash, EncodeState

\* An accepted text is the one long form of its frame, to the letter.
LEMMA AcceptedFields ==
  ASSUME NEW g, IsAccepted(g)
  PROVE  /\ g.text = [network |-> "offchain", id |-> g.text.id, hex |-> "lower",
                      tail |-> <<EncodeBase64Url(g.text.id)>>]
         /\ g.text.network = "offchain" /\ g.text.hex = "lower"
         /\ g.text.tail = <<EncodeBase64Url(g.text.id)>>
         /\ g.text.id \in Chunks
         /\ g.state = FromChunks(g.text.id) /\ ValidateStateShape(g.state)
<1> DEFINE t == g.text
           p == t.tail[1]
<1>1. t \in Text
  BY TextAssumption DEF IsAccepted
<1>2. /\ t = [network |-> t.network, id |-> t.id, hex |-> t.hex, tail |-> t.tail]
      /\ t.id \in Chunks \cup {Junk}
      /\ t.tail \in Seq(Payload)
  <2> HIDE DEF t
  <2> QED
    BY <1>1 DEF Text
<1>3. /\ t.network = "offchain" /\ t.hex = "lower" /\ Len(t.tail) = 1
      /\ FromBase64Url(p) /\ p.frame = t.id
  BY DEF IsAccepted, ParseLongForm, BytesToStateHash
<1>4. p = EncodeBase64Url(t.id)
  BY <1>3 DEF FromBase64Url
<1>5. t.tail = <<p>>
  <2> HIDE DEF t
  <2> QED
    BY <1>2, <1>3
<1>6. /\ p.frame # Junk /\ g.state = FromChunks(p.frame) /\ ValidateStateShape(g.state)
  BY DEF IsAccepted, Decodes, DecodeState
<1> QED
  BY <1>2, <1>3, <1>4, <1>5, <1>6

-----------------------------------------------------------------------------
(***************************************************************************)
(* The properties.                                                         *)
(***************************************************************************)
\* DIDs keep their types: they are off-chain DIDs in lower case and hashes of
\* frames, and their tails are frames, never more than one.
THEOREM OffchainTypes == Spec => []TypeOK
<1>1. IInv => TypeOK
  <2> SUFFICES ASSUME IInv PROVE TypeOK
    OBVIOUS
  <2>1. ASSUME NEW m \in made
        PROVE  /\ m.text.network = "offchain" /\ m.text.hex = "lower"
               /\ m.text.id \in Chunks \cup {Junk}
               /\ \A i \in DOMAIN m.text.tail : m.text.tail[i].frame \in Chunks
               /\ Len(m.text.tail) <= 1
               /\ m.state \in States
    <3>1. IsMade(m)
      BY DEF IInv, Origins
    <3>2. ToChunks(m.state) \in Chunks
      BY <3>1, MadeFields DEF Chunks
    <3>3. CASE m.text.tail = <<>>
      BY <3>1, <3>2, <3>3, MadeFields
    <3>4. CASE m.text.tail = <<EncodeBase64Url(ToChunks(m.state))>>
      <4>1. /\ DOMAIN m.text.tail = {1} /\ Len(m.text.tail) = 1
            /\ m.text.tail[1].frame = ToChunks(m.state)
        BY <3>4 DEF EncodeBase64Url
      <4> QED
        BY <3>1, <3>2, <4>1, MadeFields
    <3> QED
      BY <3>1, <3>3, <3>4, MadeFields
  <2>2. ASSUME NEW g \in got
        PROVE  /\ g.text.network = "offchain" /\ g.text.hex = "lower"
               /\ g.text.id \in Chunks \cup {Junk}
               /\ \A i \in DOMAIN g.text.tail : g.text.tail[i].frame \in Chunks
               /\ Len(g.text.tail) <= 1
    <3>1. IsAccepted(g)
      BY DEF IInv, Origins
    <3>2. /\ g.text.network = "offchain" /\ g.text.hex = "lower"
          /\ g.text.id \in Chunks
          /\ g.text.tail = <<EncodeBase64Url(g.text.id)>>
      BY <3>1, AcceptedFields
    <3>3. /\ DOMAIN g.text.tail = {1} /\ Len(g.text.tail) = 1
          /\ g.text.tail[1].frame = g.text.id
      BY <3>2 DEF EncodeBase64Url
    <3> QED
      BY <3>2, <3>3
  <2> QED
    BY <2>1, <2>2 DEF TypeOK, IInv, Bounded
<1> QED
  BY <1>1, OffchainDidsCorrect, PTL

\* Every long form that was made is accepted, and its reader gets the state that
\* it was made of, but for the further members of keys.
THEOREM LongFormsCanBeRead == Spec => []MadeCanBeRead
<1>1. IInv => MadeCanBeRead
  <2> SUFFICES ASSUME IInv, NEW m \in made, m.text.tail # <<>>
               PROVE  /\ ParseLongForm(m.text)
                      /\ Decodes(m.text.tail[1])
                      /\ DecodeState(m.text.tail[1]) = Carried(m.state)
    BY DEF MadeCanBeRead
  <2> DEFINE w == ToChunks(m.state)
  <2>1. IsMade(m)
    BY DEF IInv, Origins
  <2>2. /\ m.state \in State /\ ValidateStateShape(m.state)
        /\ w \in Chunks
    BY <2>1, MadeFields, StateAssumption DEF Chunks
  <2>3. HasState(w) /\ FromChunks(w) = Carried(m.state) /\ w # Junk
          /\ ValidateStateShape(FromChunks(w))
    BY <2>2, ChunksInvert, CarriedIsValid, JunkAssumption
  <2>4. /\ m.text.network = "offchain" /\ m.text.hex = "lower" /\ m.text.id = w
        /\ m.text.tail = <<EncodeBase64Url(w)>>
    BY <2>1, MadeFields
  <2> HIDE DEF w
  <2>5. /\ FromBase64Url(EncodeBase64Url(w)) /\ IsBase64UrlSegment(EncodeBase64Url(w))
        /\ EncodeBase64Url(w).frame = w
    BY DEF FromBase64Url, IsBase64UrlSegment, EncodeBase64Url
  <2>6. ParseMidnightDidString(m.text)
    BY <2>4, <2>5 DEF ParseMidnightDidString, MidnightNetwork
  <2>7. ParseLongForm(m.text)
    BY <2>4, <2>5, <2>6 DEF ParseLongForm, BytesToStateHash
  <2> QED
    BY <2>3, <2>4, <2>5, <2>7 DEF Decodes, DecodeState
<1> QED
  BY <1>1, OffchainDidsCorrect, PTL

\* No text that bears the name of a DID, made or accepted, gives another state
\* than that of the DID, without the further members of its keys.
THEOREM NamesDetermineStates == Spec => []OneStatePerDid
<1>1. IInv => OneStatePerDid
  <2> SUFFICES ASSUME IInv, NEW m \in made \cup got, NEW g \in got,
                      m.text.id = g.text.id
               PROVE  g.state = Carried(m.state)
    BY DEF OneStatePerDid, ParseMidnightDid
  <2>1. g.state = FromChunks(g.text.id)
    BY AcceptedFields DEF IInv, Origins
  <2>2. Carried(m.state) = FromChunks(m.text.id)
    <3>1. CASE m \in made
      <4>1. IsMade(m)
        BY <3>1 DEF IInv, Origins
      <4>2. m.state \in State /\ ValidateStateShape(m.state)
        BY <4>1, MadeFields, StateAssumption
      <4> QED
        BY <4>1, <4>2, MadeFields, ChunksInvert
    <3>2. CASE m \in got
      BY <3>2, AcceptedFields, CarriedTwice DEF IInv, Origins
    <3> QED
      BY <3>1, <3>2
  <2> QED
    BY <2>1, <2>2
<1> QED
  BY <1>1, OffchainDidsCorrect, PTL

\* Two accepted texts that name one DID are one text.
THEOREM TextsAreCanonical == Spec => []OneTextPerDid
<1>1. IInv => OneTextPerDid
  <2> SUFFICES ASSUME IInv, NEW g \in got, NEW h \in got,
                      ParseMidnightDid(g.text) = ParseMidnightDid(h.text)
               PROVE  g.text = h.text
    BY DEF OneTextPerDid
  <2>1. IsAccepted(g) /\ IsAccepted(h)
    BY DEF IInv, Origins
  <2>2. g.text.id = h.text.id
    BY DEF ParseMidnightDid
  <2> QED
    BY <2>1, <2>2, AcceptedFields
<1> QED
  BY <1>1, OffchainDidsCorrect, PTL

\* Every state that a reader gets is valid, whoever wrote the frame.
THEOREM AcceptedStatesAreValid == Spec => []ReadCanBeMade
<1>1. IInv => ReadCanBeMade
  BY AcceptedFields DEF IInv, Origins, ReadCanBeMade
<1> QED
  BY <1>1, OffchainDidsCorrect, PTL

=============================================================================

---------------------------- MODULE OffchainDid -----------------------------
(***************************************************************************)
(* Off-chain DIDs (method/offchain.rs, method/midnight_did.rs).  Such a    *)
(* DID is the hash of a state; its long form carries the state along, so   *)
(* that whoever reads it needs no chain.  Holders make DIDs, readers take  *)
(* long forms from anywhere, and all that protects a reader is what these  *)
(* functions check.                                                        *)
(*                                                                         *)
(* A text is what stands between its colons.  Hex and base64url are taken  *)
(* as the forms in which a value may be spelled; a frame is the chunks     *)
(* that it holds (module Mod1Frame), and hashes do not collide.            *)
(***************************************************************************)
EXTENDS Integers, Sequences, FiniteSets

CONSTANTS
    States,         \* the states that holders make DIDs of
    ForeignWires,   \* the chunks that other programs put into their frames
    Texts,          \* the texts that readers get
    MAX_ALSO_KNOWN_AS, MAX_VERIFICATION_METHODS, MAX_SERVICES,
    Junk,           \* bytes that are no frame
    NoY,            \* a key without y coordinate, and the chunk for it
    MaxTexts        \* bound: DIDs made, and texts read

MidnightNetwork ==
    {"undeployed", "devnet", "testnet", "mainnet", "preview", "preprod", "offchain"}

Relationship ==
    {"authentication", "assertionMethod", "keyAgreement",
     "capabilityInvocation", "capabilityDelegation"}

\* What PublicKeyJwk::new lets through of keys: the curves of a key type, a y for
\* every type but OKP, and further members of any name but that of the private
\* key.  "ext" is the names of those.
Jwk ==
    {jwk \in [kty : {"EC", "RSA", "oct", "OKP"},
               crv : {"Ed25519", "X25519", "Jubjub", "P256", "Secp256k1",
                      "BLS12381G1", "BLS12381G2"},
               x : STRING, y : STRING \cup {NoY}, ext : SUBSET STRING] :
        /\ "d" \notin jwk.ext
        /\ jwk.kty = "OKP" => jwk.crv \in {"Ed25519", "X25519", "BLS12381G1", "BLS12381G2"}
        /\ jwk.kty = "EC" => jwk.crv \in {"Jubjub", "P256", "Secp256k1"}
        /\ jwk.kty = "OKP" <=> jwk.y = NoY}

\* A key id is a spelling ("#n", "#" or "n") and a name.
Id == [spelling : {"#n", "#", "n"}, name : STRING]

\* OffchainVerificationMethod and OffchainMidnightDidState.
Method == [id : Id, jwk : Jwk, relationships : SUBSET Relationship]

State ==
    [version : Nat, aka : Seq(STRING), method : Seq(Method),
     service : Seq([id : Id, type : STRING, endpoint : STRING])]

ASSUME StateAssumption == States \subseteq State
ASSUME BoundAssumption == MaxTexts \in Nat

VARIABLES
    made,   \* the DIDs made so far, each with its state
    got     \* the long forms that were accepted, with what was read from them

vars == <<made, got>>

Init == made = {} /\ got = {}

(***************************************************************************)
(* Key kinds and masks.  Each has a table for either direction.            *)
(***************************************************************************)
KeyKindFromJwk(jwk) ==
    CASE <<jwk.kty, jwk.crv>> = <<"EC", "Jubjub">>      -> 1
      [] <<jwk.kty, jwk.crv>> = <<"OKP", "Ed25519">>    -> 2
      [] <<jwk.kty, jwk.crv>> = <<"EC", "P256">>        -> 3
      [] <<jwk.kty, jwk.crv>> = <<"OKP", "X25519">>     -> 4
      [] <<jwk.kty, jwk.crv>> = <<"EC", "Secp256k1">>   -> 5
      [] <<jwk.kty, jwk.crv>> = <<"OKP", "BLS12381G1">> -> 6
      [] <<jwk.kty, jwk.crv>> = <<"OKP", "BLS12381G2">> -> 7
      [] OTHER                                          -> 0

OfKeyKind ==
    << <<"EC", "Jubjub">>, <<"OKP", "Ed25519">>, <<"EC", "P256">>,
       <<"OKP", "X25519">>, <<"EC", "Secp256k1">>, <<"OKP", "BLS12381G1">>,
       <<"OKP", "BLS12381G2">> >>

HasY(kind) == kind \in {1, 3, 5}

\* Whatever further members the key had are gone.
JwkFromKeyKind(kind, x, y) ==
    [kty |-> OfKeyKind[kind][1], crv |-> OfKeyKind[kind][2], x |-> x,
     y |-> IF HasY(kind) THEN y ELSE NoY, ext |-> {}]

RelationshipsToMask(rs) ==
    LET Flag(r, bit) == IF r \in rs THEN bit ELSE 0
    IN  Flag("authentication", 1) + Flag("assertionMethod", 2)
          + Flag("keyAgreement", 4) + Flag("capabilityInvocation", 8)
          + Flag("capabilityDelegation", 16)

\* Faulty variant: two bits are read the wrong way round.
BitOfSwapped ==
    [authentication |-> 1, assertionMethod |-> 4, keyAgreement |-> 2,
     capabilityInvocation |-> 8, capabilityDelegation |-> 16]

BitOf ==
    [authentication |-> 1, assertionMethod |-> 2, keyAgreement |-> 4,
     capabilityInvocation |-> 8, capabilityDelegation |-> 16]

MaskToRelationships(mask) ==
    {r \in Relationship : (mask \div BitOf[r]) % 2 = 1}

(***************************************************************************)
(* States and their chunks.  CompactValueCodec is a trait, and the one     *)
(* implementation in this repository only fails.  A real one is external,  *)
(* and is written here from what is provided for it: it stores a key as    *)
(* its kind and coordinates and relations as their mask, and reads both    *)
(* with the tables of the other direction.                                 *)
(***************************************************************************)
ToChunks(s) ==
    [version |-> s.version, aka |-> s.aka, service |-> s.service,
     method |-> [i \in DOMAIN s.method |->
         [id   |-> s.method[i].id,
          kind |-> KeyKindFromJwk(s.method[i].jwk),
          x    |-> s.method[i].jwk.x,
          y    |-> s.method[i].jwk.y,
          mask |-> RelationshipsToMask(s.method[i].relationships)]]]

\* A kind that is unknown, or an EC key without y, is an error.
HasState(w) ==
    \A i \in DOMAIN w.method :
        /\ w.method[i].kind \in DOMAIN OfKeyKind
        /\ HasY(w.method[i].kind) => w.method[i].y # NoY

FromChunks(w) ==
    [version |-> w.version, aka |-> w.aka, service |-> w.service,
     method |-> [i \in DOMAIN w.method |->
         [id  |-> w.method[i].id,
          jwk |-> JwkFromKeyKind(w.method[i].kind, w.method[i].x, w.method[i].y),
          relationships |-> MaskToRelationships(w.method[i].mask)]]]

IsFragment(id) == id.spelling \in {"#n", "#"}

ValidateStateShape(s) ==
    /\ s.version # 0
    /\ Len(s.aka) <= MAX_ALSO_KNOWN_AS
    /\ Len(s.method) \in 1 .. MAX_VERIFICATION_METHODS
    /\ Len(s.service) <= MAX_SERVICES
    /\ \A i \in DOMAIN s.method :
         /\ IsFragment(s.method[i].id)
         /\ KeyKindFromJwk(s.method[i].jwk) # 0
    /\ \A i \in DOMAIN s.service :
         /\ IsFragment(s.service[i].id)
         /\ s.service[i].type # "" /\ s.service[i].endpoint # ""

(***************************************************************************)
(* base64url, the hash, and texts.                                         *)
(***************************************************************************)
\* A payload spells a frame in a form: the canonical one, one whose unused
\* bits are not zero, or with characters or a length that base64url has not.
EncodeBase64Url(frame) == [frame |-> frame, form |-> "canonical"]

IsBase64UrlSegment(p) == p.form \in {"canonical", "unused bits"}

\* Faulty variant: the decoded bytes are not encoded again and compared, and
\* the decoder is one that lets unused bits pass.
FromBase64UrlLenient(p) == IsBase64UrlSegment(p)

FromBase64Url(p) == IsBase64UrlSegment(p) /\ EncodeBase64Url(p.frame) = p

BytesToStateHash(frame) == frame

\* Hex is spelled in lower case, in mixed case, or is not 64 digits.
\* Faulty variant: in upper case.
CreateMidnightDidStringUpper(id, network) ==
    [network |-> network, id |-> id, hex |-> "mixed", tail |-> <<>>]

CreateMidnightDidString(id, network) ==
    [network |-> network, id |-> id, hex |-> "lower", tail |-> <<>>]

ParseMidnightDidString(t) ==
    /\ Len(t.tail) <= IF t.network = "offchain" THEN 1 ELSE 0
    /\ t.network \in MidnightNetwork
    /\ t.hex \in {"lower", "mixed"}
    /\ t.network = "offchain" =>
         /\ t.hex = "lower"
         /\ \A i \in DOMAIN t.tail : IsBase64UrlSegment(t.tail[i])

ParseMidnightDid(t) == <<t.network, t.id>>

(***************************************************************************)
(* Encoding and decoding a state, making and reading its DID.              *)
(***************************************************************************)
EncodeState(s) == EncodeBase64Url(ToChunks(s))

\* Faulty variant: the state that was read is not validated.
DecodesUnvalidated(p) ==
    FromBase64Url(p) /\ p.frame # Junk /\ HasState(p.frame)

DecodeState(p) == FromChunks(p.frame)

Decodes(p) ==
    /\ FromBase64Url(p)
    /\ p.frame # Junk
    /\ HasState(p.frame)
    /\ ValidateStateShape(DecodeState(p))

ShortForm(s) ==
    CreateMidnightDidString(BytesToStateHash(ToChunks(s)), "offchain")

LongForm(s) == [ShortForm(s) EXCEPT !.tail = <<EncodeState(s)>>]

\* Faulty variant: the state is not held against the hash.
ParseLongFormUnhashed(t) ==
    /\ ParseMidnightDidString(t)
    /\ t.network = "offchain"
    /\ Len(t.tail) = 1
    /\ FromBase64Url(t.tail[1])

ParseLongForm(t) ==
    /\ ParseMidnightDidString(t)
    /\ t.network = "offchain"
    /\ Len(t.tail) = 1
    /\ t.hex = "lower"
    /\ FromBase64Url(t.tail[1])
    /\ BytesToStateHash(t.tail[1].frame) = t.id

\* The document's relations name methods by id.  An id without a fragment is
\* no key id, and the projection fails.
Projects(s) == \A i \in DOMAIN s.method : s.method[i].id.spelling = "#n"

Project(did, s) ==
    [id |-> did,
     method |-> [i \in DOMAIN s.method |->
         [id |-> s.method[i].id, controller |-> did, jwk |-> s.method[i].jwk]],
     relation |-> [r \in Relationship |->
         {s.method[i].id : i \in {j \in DOMAIN s.method : r \in s.method[j].relationships}}],
     service |-> s.service,
     aka |-> s.aka]

\* All the frames there are, and the texts that can be built from them.
Chunks == {ToChunks(s) : s \in States} \cup ForeignWires

Payload == [frame : Chunks \cup {Junk}, form : STRING]

Text == [network : STRING, id : Chunks \cup {Junk}, hex : STRING, tail : Seq(Payload)]

ASSUME JunkAssumption == Junk \notin Chunks
ASSUME TextAssumption == Texts \subseteq Text

MakeShort(s) ==
    /\ Cardinality(made) < MaxTexts
    /\ ValidateStateShape(s)
    /\ made' = made \cup {[text |-> ShortForm(s), state |-> s]}
    /\ UNCHANGED got

MakeLong(s) ==
    /\ Cardinality(made) < MaxTexts
    /\ ValidateStateShape(s)
    /\ ParseMidnightDidString(LongForm(s))
    /\ made' = made \cup {[text |-> LongForm(s), state |-> s]}
    /\ UNCHANGED got

\* What is refused changes nothing.
Read(t) ==
    /\ Cardinality(got) < MaxTexts
    /\ ParseLongForm(t)
    /\ Decodes(t.tail[1])
    /\ got' = got \cup {[text |-> t, state |-> DecodeState(t.tail[1])]}
    /\ UNCHANGED made

Next ==
    \/ \E s \in States : MakeShort(s) \/ MakeLong(s)
    \/ \E t \in Texts : Read(t)

Spec == Init /\ [][Next]_vars

(***************************************************************************)
(* Properties.                                                             *)
(***************************************************************************)
TypeOK ==
    /\ \A m \in made \cup got :
         /\ m.text.network = "offchain" /\ m.text.hex = "lower"
         /\ m.text.id \in Chunks \cup {Junk}
         /\ \A i \in DOMAIN m.text.tail : m.text.tail[i].frame \in Chunks
         /\ Len(m.text.tail) <= 1
    /\ \A m \in made : m.state \in States
    /\ Cardinality(made) <= MaxTexts /\ Cardinality(got) <= MaxTexts

\* What a DID carries of a state: everything but the further members of keys.
\* States that differ in nothing else have one DID.
Carried(s) ==
    [s EXCEPT !.method = [i \in DOMAIN s.method |-> [s.method[i] EXCEPT !.jwk.ext = {}]]]

\* A long form that was made is accepted by a reader, who gets the state it
\* was made of, and a document with the same keys in the same relations, except
\* that no key has further members any more.
MadeCanBeRead ==
    \A m \in made : m.text.tail # <<>> =>
        /\ ParseLongForm(m.text)
        /\ Decodes(m.text.tail[1])
        /\ LET s == DecodeState(m.text.tail[1])
           IN  /\ s = Carried(m.state)
               /\ Projects(m.state) => Project(m.text, s) = Project(m.text, Carried(m.state))

\* Whoever knows a DID, long or short, gets from no text that bears its name
\* another state than what it carries of the one it was made of.
OneStatePerDid ==
    \A m \in made \cup got, g \in got :
        ParseMidnightDid(m.text) = ParseMidnightDid(g.text) => g.state = Carried(m.state)

\* One DID has one long form: texts may be compared as texts.
OneTextPerDid ==
    \A g, h \in got : ParseMidnightDid(g.text) = ParseMidnightDid(h.text) => g.text = h.text

\* What a reader accepts from other programs is a state that a holder could
\* have made a DID of.
ReadCanBeMade == \A g \in got : ValidateStateShape(g.state)

=============================================================================

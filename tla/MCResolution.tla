---------------------------- MODULE MCResolution ----------------------------
(***************************************************************************)
(* Instances of Resolution for TLC.                                        *)
(***************************************************************************)
EXTENDS Resolution

CONSTANTS n1, t1, t2, s1, a1

Raw(form, name) == [form |-> form, name |-> name]

Jwk(kty, crv, y, ext) ==
    [typ |-> "JsonWebKey", kty |-> kty, crv |-> crv, y |-> y, ext |-> ext]

\* Keys with and without further members.
Ed     == Jwk("OKP", "Ed25519", Absent, {"kid"})
P256   == Jwk("EC", "P256", "y", {"kid", "alg"})
Jubjub == Jwk("EC", "Jubjub", "y", {})

MCDomainMethod == {Ed, P256, Jubjub}

\* One place in three spellings: as it is, with a default port, with a slash.
Place(capitals, port, path) ==
    [kind |-> "uri",
     uri |-> [scheme |-> "https", parses |-> TRUE, capitals |-> capitals, port |-> port,
              path |-> path, tail |-> ""]]

Plain == Place(FALSE, "none", "")
Shout == Place(TRUE, "default", "")
Slash == Place(FALSE, "none", "/")

OneType   == [type |-> [kind |-> "One", names |-> <<t1>>], serviceEndpoint |-> <<Shout, Slash>>]
TwoTypes  == [type |-> [kind |-> "Many", names |-> <<t1, t2>>], serviceEndpoint |-> <<Plain, Shout>>]
SameTwice == [type |-> [kind |-> "Many", names |-> <<t1, t1>>], serviceEndpoint |-> <<Plain>>]

MCServiceBody == {ServiceToLedger(s) : s \in {OneType, TwoTypes, SameTwice}}

\* Every spelling of one name, and the spellings of nothing.
MCRawId ==
    {Raw(f, n1) : f \in RawForm \ {"blank", "did"}}
    \cup {Raw(f, EmptyName) : f \in {"blank", "did", "didUrl"}}

\* Spellings that a SchnorrJubjub method can have besides those of a key id.
AnyText == MCRawId \cup {Raw("fragment", EmptyName)}
KeyText == {raw \in MCRawId : raw.form # "path"}

Calls(schnorrId) ==
    {<<"addVerificationMethod", <<raw, m>>>> : raw \in MCRawId, m \in {Ed, Jubjub}}
    \cup {<<"updateVerificationMethod", <<Raw("didUrl", n1), P256>>>>}
    \cup {<<"addSchnorrJubjubVerificationMethod", <<raw, s1>>>> : raw \in schnorrId}
    \cup {<<"removeVerificationMethod", raw>> : raw \in MCRawId}
    \cup {<<"removeSchnorrJubjubVerificationMethod", Raw("bare", n1)>>}
    \cup {<<name, <<"Authentication", raw>>>> :
              name \in {"addVerificationMethodRelation", "removeVerificationMethodRelation"},
              raw \in MCRawId}
    \cup {<<"addService", <<raw, s>>>> : raw \in MCRawId, s \in {OneType, SameTwice}}
    \cup {<<"updateService", <<Raw("fragment", n1), TwoTypes>>>>}
    \cup {<<"removeService", raw>> : raw \in MCRawId}
    \cup {<<"addAlsoKnownAs", a1>>, <<"removeAlsoKnownAs", a1>>, <<"deactivate", "no-args">>}

MCDomainCall == Calls(KeyText)

ASSUME ReadableAssumption == \A call \in MCDomainCall : Maps(call) => ReadsBack(call)

AnyDomainCall == Calls(AnyText)

MCOperation ==
    {ToLedger(call) : call \in {d \in AnyDomainCall : Maps(d)}}

=============================================================================

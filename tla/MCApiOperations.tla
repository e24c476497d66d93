-------------------------- MODULE MCApiOperations --------------------------
(***************************************************************************)
(* Instances of ApiOperations for TLC.                                     *)
(***************************************************************************)
EXTENDS ApiOperations

CONSTANTS m1, s1, svc, body, a1, bad

Ed == [typ |-> "JsonWebKey", kty |-> "OKP", crv |-> "Ed25519"]
X  == [typ |-> "JsonWebKey", kty |-> "OKP", crv |-> "X25519"]
Jubjub == [typ |-> "JsonWebKey", kty |-> "EC", crv |-> "Jubjub"]

MCMethod == {Ed, X, Jubjub}

\* Adds an alias and takes it back, adds a service and updates it.
MCPatch ==
    [alsoKnownAsAdded |-> <<a1>>, alsoKnownAsRemoved |-> <<a1>>,
     servicesAdded |-> << <<svc, body>> >>, servicesUpdated |-> << <<svc, body>> >>,
     servicesRemoved |-> <<>>]

\* Its second alias is not a URI.
BadPatch == [MCPatch EXCEPT !.alsoKnownAsAdded = <<a1, bad>>]

EmptyPatch ==
    [alsoKnownAsAdded |-> <<>>, alsoKnownAsRemoved |-> <<>>, servicesAdded |-> <<>>,
     servicesUpdated |-> <<>>, servicesRemoved |-> <<>>]

MethodOperations ==
    {<<"addVerificationMethod", <<m1, m>>>> : m \in {Ed, X}}
    \cup {<<"removeVerificationMethod", m1>>}
    \cup ({"addVerificationMethodRelation", "removeVerificationMethodRelation"}
             \X ({"Authentication", "KeyAgreement", "CapabilityDelegation"} \X {m1}))

AllOperations ==
    MethodOperations
    \cup {<<"addVerificationMethod", <<m1, Jubjub>>>>}
    \cup {<<"updateVerificationMethod", <<m1, X>>>>}
    \cup ({"addSchnorrJubjubVerificationMethod", "updateSchnorrJubjubVerificationMethod"}
             \X {<<m1, s1>>})
    \cup {<<"removeSchnorrJubjubVerificationMethod", m1>>}
    \cup ({"addAlsoKnownAs", "removeAlsoKnownAs"} \X {a1})
    \cup ({"addService", "updateService"} \X {<<svc, body>>})
    \cup {<<"removeService", svc>>, <<"deactivate", "no-args">>}
    \cup ({"applyPatch"} \X {MCPatch, BadPatch, EmptyPatch})

=============================================================================

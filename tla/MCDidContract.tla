--------------------------- MODULE MCDidContract ---------------------------
(***************************************************************************)
(* Instances of DidContract for TLC.                                       *)
(***************************************************************************)
EXTENDS DidContract, TLC

\* One supported signing key, one key-agreement key, and two that
\* assert_supported_verification_method refuses: a Jubjub curve in a JWK and
\* an undefined method type.
MCMethod ==
    { [typ |-> "JsonWebKey", kty |-> "OKP", crv |-> "Ed25519"],
      [typ |-> "JsonWebKey", kty |-> "OKP", crv |-> "X25519"],
      [typ |-> "JsonWebKey", kty |-> "EC",  crv |-> "Jubjub"],
      [typ |-> "Undefined",  kty |-> "EC",  crv |-> "P256"] }

\* No circuit names a particular key or method id.
MCSymmetry == Permutations(PublicKey) \cup Permutations(MethodId)

=============================================================================

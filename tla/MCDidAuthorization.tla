------------------------ MODULE MCDidAuthorization -------------------------
(***************************************************************************)
(* An instance of DidAuthorization for TLC: every kind of operation, one   *)
(* value of each, so that documents and controllers can return to what     *)
(* they were.                                                              *)
(***************************************************************************)
EXTENDS DidAuthorization, TLC

CONSTANTS m1, s1, svc, body, a1

MCMethod == {[typ |-> "JsonWebKey", kty |-> "OKP", crv |-> "Ed25519"]}

MCCall ==
    ({"rotateControllerKey", "recoverControllerKey"} \X PublicKey)
    \cup ({"setAlsoKnownAs"} \X ({a1} \X {"Insert", "Remove"}))
    \cup ({"setVerificationMethod"} \X ({m1} \X MCMethod \X {"Insert"}))
    \cup {<<"setSchnorrJubjubVM", <<m1, s1, "Insert">>>>}
    \cup ({"removeVerificationMethod", "removeSchnorrJubjubVM"} \X {m1})
    \cup ({"setVMRelation"} \X ({"Authentication"} \X {m1} \X {"Insert", "Remove"}))
    \cup {<<"setService", <<svc, body, "Insert">>>>, <<"removeService", svc>>}
    \cup {<<"deactivate", "no-args">>}

MCSymmetry == Permutations(PublicKey)

=============================================================================

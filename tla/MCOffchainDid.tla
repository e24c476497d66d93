--------------------------- MODULE MCOffchainDid ----------------------------
(***************************************************************************)
(* Values of OffchainDid for TLC: states at the limits, a key of every     *)
(* kind, relations in several combinations, states that differ in the      *)
(* further members of a key alone; frames of other programs with masks,    *)
(* kinds and versions that this one does not write; and texts that combine *)
(* every frame with every hash, network and spelling.                      *)
(***************************************************************************)
EXTENDS OffchainDid

MCId == [spelling |-> "#n", name |-> "a"]
MCOther == [spelling |-> "#n", name |-> "b"]
MCBare == [spelling |-> "n", name |-> "a"]
MCHash == [spelling |-> "#", name |-> ""]

MCMethod(id, kind, rs) ==
    [id |-> id, jwk |-> JwkFromKeyKind(kind, "x", "y"), relationships |-> rs]

MCState(ms) == [version |-> 1, aka |-> <<>>, method |-> ms, service |-> <<>>]

MCService(id, type) == [id |-> id, type |-> type, endpoint |-> "e"]

MCAuth == MCMethod(MCId, 2, {"authentication", "assertionMethod"})
MCAgree == MCMethod(MCOther, 4, {"keyAgreement", "capabilityDelegation"})
MCInvoke == MCMethod(MCOther, 3, {"capabilityInvocation"})

MCStates ==
    {MCState(<<MCAuth>>), MCState(<<MCAuth, MCAgree>>), MCState(<<MCInvoke>>)}
      \cup {MCState(<<MCMethod(MCId, k, {"capabilityDelegation"})>>) : k \in {1, 5, 6, 7}}
      \cup {MCState(<<>>), MCState(<<MCAuth, MCAgree, MCInvoke>>),
            MCState(<<MCMethod(MCBare, 2, {})>>), MCState(<<MCMethod(MCHash, 2, {})>>),
            MCState(<<[MCMethod(MCId, 3, {}) EXCEPT !.jwk.kty = "RSA"]>>)}
      \cup {MCState(<<[MCAuth EXCEPT !.jwk.ext = {"kid"}]>>),
            MCState(<<[MCAuth EXCEPT !.jwk.ext = {"kid", "alg"}], MCAgree>>)}
      \cup {[MCState(<<MCAuth>>) EXCEPT !.version = 0],
            [MCState(<<MCAuth>>) EXCEPT !.aka = <<"u">>],
            [MCState(<<MCAuth>>) EXCEPT !.aka = <<"u", "v">>],
            [MCState(<<MCAuth>>) EXCEPT !.service = <<MCService(MCId, "t")>>],
            [MCState(<<MCAuth>>) EXCEPT !.service = <<MCService(MCId, "")>>],
            [MCState(<<MCAuth>>) EXCEPT !.service = <<MCService(MCId, "t"), MCService(MCOther, "t")>>]}

MCWire == ToChunks(MCState(<<MCAuth>>))

MCForeignWires ==
    {[MCWire EXCEPT !.method[1].mask = 35],
     [MCWire EXCEPT !.method[1].y = "y"],
     [MCWire EXCEPT !.method[1].kind = 8],
     [MCWire EXCEPT !.method[1].kind = 3],
     [MCWire EXCEPT !.version = 0],
     [MCWire EXCEPT !.method = <<>>],
     [MCWire EXCEPT !.method = <<@[1], @[1], @[1]>>]}

MCFrames ==
    {ToChunks(s) : s \in {MCState(<<MCAuth>>), MCState(<<MCAuth, MCAgree>>), MCState(<<MCInvoke>>)}}
      \cup MCForeignWires \cup {Junk}

MCPayloads == [frame : MCFrames, form : {"canonical", "unused bits", "not base64url"}]

MCTexts ==
    [network : {"offchain", "devnet", "unknown"}, id : MCFrames,
     hex : {"lower", "mixed", "not hex"},
     tail : {<<>>} \cup {<<p>> : p \in MCPayloads} \cup {<<p, p>> : p \in {EncodeBase64Url(MCWire)}}]

=============================================================================

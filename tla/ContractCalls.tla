--------------------------- MODULE ContractCalls ---------------------------
(***************************************************************************)
(* Calls of the contract as values: what Contract<B> puts in an envelope   *)
(* (DidContractCall) and the circuit that an envelope makes the chain run. *)
(* A call is its name in the authorization digest and its arguments.       *)
(***************************************************************************)
EXTENDS DidContract

\* Every mutating call.
AnyCall ==
    ({"rotateControllerKey", "recoverControllerKey"} \X PublicKey)
    \cup ({"setAlsoKnownAs"} \X (Alias \X SetMutation))
    \cup ({"setVerificationMethod"} \X (MethodId \X Method \X MapMutation))
    \cup ({"setSchnorrJubjubVM"} \X (MethodId \X SchnorrKey \X MapMutation))
    \cup ({"removeVerificationMethod", "removeSchnorrJubjubVM"} \X MethodId)
    \cup ({"setVMRelation"} \X (AnyRelation \X MethodId \X SetMutation))
    \cup ({"setService"} \X (ServiceId \X ServiceBody \X MapMutation))
    \cup ({"removeService"} \X ServiceId)
    \cup {<<"deactivate", "no-args">>}

Digest(v, call) == ControllerAuthorizationDigest(id, v, call[1], call[2])

\* The circuit that `call' names, with its arguments.
Circuit(call, signature, v) ==
    LET op == call[1]
        args == call[2]
    IN  \/ /\ op = "rotateControllerKey"
           /\ RotateControllerKey(args, signature, v)
        \/ /\ op = "recoverControllerKey"
           /\ RecoverControllerKey(args, signature, v)
        \/ /\ op = "setAlsoKnownAs"
           /\ SetAlsoKnownAs(args[1], args[2], signature, v)
        \/ /\ op = "setVerificationMethod"
           /\ SetVerificationMethod(args[1], args[2], args[3], signature, v)
        \/ /\ op = "removeVerificationMethod"
           /\ RemoveVerificationMethod(args, signature, v)
        \/ /\ op = "setSchnorrJubjubVM"
           /\ SetSchnorrJubjubVerificationMethod(args[1], args[2], args[3], signature, v)
        \/ /\ op = "removeSchnorrJubjubVM"
           /\ RemoveSchnorrJubjubVerificationMethod(args, signature, v)
        \/ /\ op = "setVMRelation"
           /\ SetVerificationMethodRelation(args[1], args[2], args[3], signature, v)
        \/ /\ op = "setService"
           /\ SetService(args[1], args[2], args[3], signature, v)
        \/ /\ op = "removeService"
           /\ RemoveService(args, signature, v)
        \/ /\ op = "deactivate"
           /\ Deactivate(signature, v)

=============================================================================

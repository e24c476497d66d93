------------------------- MODULE DidAuthorization --------------------------
(***************************************************************************)
(* The contract of DidContract with its clients and the network between.   *)
(* A client that holds a key reads the ledger, signs one operation for the *)
(* version it read, and hands the authorization to the network.  The       *)
(* network runs circuits with any authorization it was ever handed: late,  *)
(* early, again, in any order, with other arguments or under another       *)
(* version than were signed.  Reading, signing and the network are outside *)
(* this repository (LiveBackend is a stub); the digests and the circuits   *)
(* are in generated.rs.                                                    *)
(***************************************************************************)
EXTENDS ContractCalls, Sequences

CONSTANTS
    Call,               \* the operations clients want
    MaxRequests         \* bound on the authorizations ever signed

ASSUME CallAssumption == Call \subseteq AnyCall

VARIABLES
    requests,   \* authorizations signed: signature, call, state it was meant for
    executed    \* the circuits that ran, in order, and on what

authVars == <<ledger, requests, executed>>

\* What a client sees of the contract when it decides on an operation.
Visible == <<controllerPublicKey, document, status>>

AuthInit ==
    /\ Init
    /\ requests = {}
    /\ executed = <<>>

\* Some holder of k signs `call' for the contract it sees.
Sign(k, call) ==
    /\ Cardinality(requests) < MaxRequests
    /\ requests' = requests \cup
           {[sig |-> Signature(k, Digest(version, call)), call |-> call,
             meant |-> version, saw |-> Visible]}
    /\ UNCHANGED <<ledger, executed>>

\* The network runs a circuit under the authorization of r.
Deliver(r, call, v) ==
    /\ version < MaxVersion
    /\ Circuit(call, r.sig, v)
    /\ executed' = Append(executed,
           [request |-> r, call |-> call, on |-> Visible,
            recovery |-> recoveryAuthorityPublicKey])
    /\ UNCHANGED requests

AuthNext ==
    \/ \E k \in PublicKey, call \in Call : Sign(k, call)
    \/ \E r \in requests, call \in Call, v \in 0 .. MaxVersion : Deliver(r, call, v)

AuthSpec == AuthInit /\ [][AuthNext]_authVars

-----------------------------------------------------------------------------
(***************************************************************************)
(* What authorizations promise.                                            *)
(***************************************************************************)
Document ==
    (SUBSET Alias) \X [MethodId -> Method \cup {Absent}]
    \X [MethodId -> SchnorrKey \cup {Absent}]
    \X [Relation -> SUBSET MethodId] \X [ServiceId -> ServiceBody \cup {Absent}]

VisibleState == PublicKey \X Document \X (BOOLEAN \X BOOLEAN)

Execution == [request : requests, call : Call, on : VisibleState, recovery : PublicKey]

\* Every request was signed for a version that has been, and every version
\* has one execution that led to the next.
AuthTypeOK ==
    /\ TypeOK
    /\ \A r \in requests :
          /\ r.sig.by \in PublicKey
          /\ r.call \in Call
          /\ r.meant \in 0 .. version
          /\ r.saw \in VisibleState
    /\ executed \in Seq(Execution)
    /\ Len(executed) = version

\* An authorization acts once: however often it is delivered, and although
\* the controller key and the document may return to what they were when it
\* was signed, it is never accepted again.
AtMostOnce ==
    \A m, n \in DOMAIN executed :
        executed[m].request = executed[n].request => m = n

\* No lost update: an operation runs only on the state its signer saw.  Two
\* clients that read the same state cannot both succeed, and a late operation
\* never overwrites what happened meanwhile.
ActsOnWhatTheSignerSaw ==
    \A n \in DOMAIN executed : executed[n].on = executed[n].request.saw

\* What runs is what was signed, by the key in force at that moment: the
\* recovery authority for a recovery, the controller for everything else.  A
\* key that lost control has no say left, whatever it signed before.
SignedByTheKeyInForce ==
    \A n \in DOMAIN executed :
        LET e == executed[n] IN
        /\ e.call = e.request.call
        /\ e.request.sig.by = IF e.call[1] = "recoverControllerKey"
                              THEN e.recovery ELSE e.on[1]

=============================================================================

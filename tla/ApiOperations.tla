--------------------------- MODULE ApiOperations ---------------------------
(***************************************************************************)
(* The document operations of midnight-did-api over the contract: several  *)
(* callers, each on a device that holds the controller key, each running   *)
(* one operation at a time.  An operation reads a snapshot (or none),      *)
(* decides on a list of calls, and submits them one by one; it stops at    *)
(* the first error.  Nothing holds the ledger still in between.            *)
(*                                                                         *)
(* Submitting signs a call for the version the ledger has then, and the    *)
(* chain answers later; signing and proving are behind Backend::submit_tx, *)
(* outside this repository.  Rotation and recovery of the controller key   *)
(* are in ControllerKeys; here the key stays.                              *)
(***************************************************************************)
EXTENDS ContractCalls, SequencesExt

CONSTANTS
    Client,             \* callers of the API
    Persistent,         \* callers that repeat a failed removal until it succeeds
    Operation,          \* the operations they may call: name and arguments
    Malformed           \* aliases that are no URIs, service ids of other DIDs

Patch ==
    [alsoKnownAsAdded : Seq(Alias), alsoKnownAsRemoved : Seq(Alias),
     servicesAdded : Seq(ServiceId \X ServiceBody),
     servicesUpdated : Seq(ServiceId \X ServiceBody),
     servicesRemoved : Seq(ServiceId)]

\* Every document operation of the API.
AnyOperation ==
    ({"addVerificationMethod", "updateVerificationMethod"} \X (MethodId \X Method))
    \cup ({"addSchnorrJubjubVerificationMethod", "updateSchnorrJubjubVerificationMethod"}
             \X (MethodId \X SchnorrKey))
    \cup ({"removeVerificationMethod", "removeSchnorrJubjubVerificationMethod"}
             \X MethodId)
    \cup ({"addVerificationMethodRelation", "removeVerificationMethodRelation"}
             \X (AnyRelation \X MethodId))
    \cup ({"addAlsoKnownAs", "removeAlsoKnownAs"} \X Alias)
    \cup ({"addService", "updateService"} \X (ServiceId \X ServiceBody))
    \cup ({"removeService"} \X ServiceId)
    \cup {<<"deactivate", "no-args">>}
    \cup ({"applyPatch"} \X Patch)

ASSUME PersistentAssumption == Persistent \subseteq Client
ASSUME OperationAssumption == Operation \subseteq AnyOperation
ASSUME MalformedAssumption == Malformed \subseteq Alias \cup ServiceId

VARIABLE calls          \* the operation each client runs, or ran last

apiVars == <<ledger, calls>>

Ended == {"idle", "ok", "refused", "rejected", "lost"}

RemovalOf(i) ==
    {<<"removeVerificationMethod", i>>, <<"removeSchnorrJubjubVerificationMethod", i>>}

\* Failed removals are what a persistent caller has to repeat.
ToRepeat(c, op, outcome) ==
    /\ c \in Persistent
    /\ outcome \in {"rejected", "lost"}
    /\ \E i \in MethodId : op \in RemovalOf(i)

\* An operation over with `outcome'.  `alone' is the version the ledger has if
\* nobody else wrote since the operation began and `goal' the document it
\* then leaves behind (0 and Absent for operations of one call); both are
\* kept for the properties only.
Over(c, op, outcome) ==
    [at |-> outcome, op |-> IF ToRepeat(c, op, outcome) THEN op ELSE Absent,
     todo |-> <<>>, signed |-> 0, alone |-> 0, goal |-> Absent]

ApiInit ==
    /\ Init
    /\ calls = [c \in Client |-> Over(c, Absent, "idle")]

-----------------------------------------------------------------------------
(***************************************************************************)
(* What every operation does: begin with a list of calls, or be refused    *)
(* before anything is submitted; then submit, call by call.                *)
(***************************************************************************)
\* At the bound only failed removals are begun again: MaxVersion also says
\* that, in the long run, callers stop disturbing a removal.
MayBegin(c, op) ==
    /\ calls[c].at \in Ended
    /\ \/ calls[c].op = Absent /\ version < MaxVersion
       \/ calls[c].op = op

Begin(c, op, todo, goal) ==
    /\ MayBegin(c, op)
    /\ calls' = [calls EXCEPT ![c] =
           [at |-> "submit", op |-> op, todo |-> todo, signed |-> 0,
            alone |-> IF goal = Absent THEN 0 ELSE version, goal |-> goal]]
    /\ UNCHANGED ledger

Refuse(c, op) ==
    /\ MayBegin(c, op)
    /\ calls' = [calls EXCEPT ![c] = Over(c, op, "refused")]
    /\ UNCHANGED ledger

BeginSingle(c, op, call) == Begin(c, op, <<call>>, Absent)

\* Arguments are converted call by call, each just before its submission.
Converts(call) ==
    /\ call[1] \in {"setAlsoKnownAs", "setService"} => call[2][1] \notin Malformed
    /\ call[1] = "removeService" => call[2] \notin Malformed

FailToConvert(c) ==
    /\ calls[c].at = "submit"
    /\ ~Converts(Head(calls[c].todo))
    /\ calls' = [calls EXCEPT ![c] = Over(c, @.op, "refused")]
    /\ UNCHANGED ledger

Submit(c) ==
    /\ calls[c].at = "submit"
    /\ Converts(Head(calls[c].todo))
    /\ calls' = [calls EXCEPT ![c] =
           [at |-> "sent", op |-> @.op, todo |-> @.todo, signed |-> version,
            alone |-> @.alone, goal |-> @.goal]]
    /\ UNCHANGED ledger

Run(c) ==
    LET call == Head(calls[c].todo) IN
    Circuit(call, Signature(controllerPublicKey, Digest(calls[c].signed, call)),
            calls[c].signed)

Accept(c) ==
    /\ calls[c].at = "sent"
    /\ Run(c)
    /\ calls' = [calls EXCEPT ![c] =
           IF Len(@.todo) = 1 THEN Over(c, @.op, "ok")
           ELSE [at |-> "submit", op |-> @.op, todo |-> Tail(@.todo), signed |-> 0,
                 alone |-> @.alone + 1, goal |-> @.goal]]

\* An assertion of the circuit fails, the version first of all.
CanRun(c) == ENABLED Run(c)

Reject(c) ==
    /\ calls[c].at = "sent"
    /\ ~CanRun(c)
    /\ calls' = [calls EXCEPT ![c] = Over(c, @.op, "rejected")]
    /\ UNCHANGED ledger

\* The backend reports an error that says nothing about the transaction.
LoseCall(c) ==
    /\ calls[c].at = "sent"
    /\ calls' = [calls EXCEPT ![c] = Over(c, @.op, "lost")]
    /\ UNCHANGED ledger

LoseAnswer(c) ==
    /\ calls[c].at = "sent"
    /\ Run(c)
    /\ calls' = [calls EXCEPT ![c] = Over(c, @.op, "lost")]

-----------------------------------------------------------------------------
(***************************************************************************)
(* Verification methods and their relations.                               *)
(***************************************************************************)
AssertMidnightKeyProfile(method) ==
    \/ method.kty = "OKP" /\ method.crv \in {"Ed25519", "X25519", "BLS12381G1", "BLS12381G2"}
    \/ method.kty = "EC" /\ method.crv \in {"P256", "Secp256k1"}

VerificationMethodToLedger(method) ==
    method.typ = "JsonWebKey" /\ AssertMidnightKeyProfile(method)

WriteVerificationMethod(c, op, i, method, mutation) ==
    \/ /\ VerificationMethodToLedger(method)
       /\ BeginSingle(c, op, <<"setVerificationMethod", <<i, method, mutation>>>>)
    \/ /\ ~VerificationMethodToLedger(method)
       /\ Refuse(c, op)

RelationCall(relation, i, mutation) ==
    <<"setVMRelation", <<relation, i, mutation>>>>

AddVerificationMethodRelation(c, op, relation, i) ==
    \/ /\ ~VerificationMethodRelationMember(relation, i)
       /\ BeginSingle(c, op, RelationCall(relation, i, "Insert"))
    \/ /\ VerificationMethodRelationMember(relation, i)
       /\ Refuse(c, op)

RemoveVerificationMethodRelation(c, op, relation, i) ==
    \/ /\ VerificationMethodRelationMember(relation, i)
       /\ BeginSingle(c, op, RelationCall(relation, i, "Remove"))
    \/ /\ ~VerificationMethodRelationMember(relation, i)
       /\ Refuse(c, op)

\* The call that takes i out of the relation, if the snapshot has it there.
PurgeFrom(relation, i) ==
    IF i \in relations[relation] THEN <<RelationCall(relation, i, "Remove")>> ELSE <<>>

\* Faulty variant: purges the signing relations only.
PurgeFromSigningRelations(i) ==
    PurgeFrom("Authentication", i) \o PurgeFrom("AssertionMethod", i)
    \o PurgeFrom("CapabilityInvocation", i) \o PurgeFrom("CapabilityDelegation", i)

PurgeVerificationMethodFromAllRelations(i) ==
    PurgeFrom("Authentication", i) \o PurgeFrom("AssertionMethod", i)
    \o PurgeFrom("KeyAgreement", i) \o PurgeFrom("CapabilityInvocation", i)
    \o PurgeFrom("CapabilityDelegation", i)

Purged(i) == [r \in Relation |-> relations[r] \ {i}]

\* Faulty variant: removes the method before its references.
RemoveMethodFirst(c, op, i) ==
    Begin(c, op,
          <<<<"removeVerificationMethod", i>>>> \o PurgeVerificationMethodFromAllRelations(i),
          IF verificationMethods[i] # Absent
          THEN <<alsoKnownAs, [verificationMethods EXCEPT ![i] = Absent],
                 schnorrJubjubVerificationMethods, Purged(i), services>>
          ELSE Absent)

ApiRemoveVerificationMethod(c, op, i) ==
    Begin(c, op,
          Append(PurgeVerificationMethodFromAllRelations(i), <<"removeVerificationMethod", i>>),
          IF verificationMethods[i] # Absent
          THEN <<alsoKnownAs, [verificationMethods EXCEPT ![i] = Absent],
                 schnorrJubjubVerificationMethods, Purged(i), services>>
          ELSE Absent)

ApiRemoveSchnorrJubjubVerificationMethod(c, op, i) ==
    Begin(c, op,
          Append(PurgeVerificationMethodFromAllRelations(i), <<"removeSchnorrJubjubVM", i>>),
          IF schnorrJubjubVerificationMethods[i] # Absent
          THEN <<alsoKnownAs, verificationMethods,
                 [schnorrJubjubVerificationMethods EXCEPT ![i] = Absent],
                 Purged(i), services>>
          ELSE Absent)

-----------------------------------------------------------------------------
(***************************************************************************)
(* Patches: aliases added, aliases removed, services added, updated,       *)
(* removed, in this order.                                                 *)
(***************************************************************************)
Each(call(_), s) == [n \in DOMAIN s |-> call(s[n])]

AddAlias(a)    == <<"setAlsoKnownAs", <<a, "Insert">>>>
RemoveAlias(a) == <<"setAlsoKnownAs", <<a, "Remove">>>>
AddService(s)    == <<"setService", <<s[1], s[2], "Insert">>>>
UpdateService(s) == <<"setService", <<s[1], s[2], "Update">>>>
DropService(i)   == <<"removeService", i>>

PatchCalls(patch) ==
    Each(AddAlias, patch.alsoKnownAsAdded)
    \o Each(RemoveAlias, patch.alsoKnownAsRemoved)
    \o Each(AddService, patch.servicesAdded)
    \o Each(UpdateService, patch.servicesUpdated)
    \o Each(DropService, patch.servicesRemoved)

Ids(written) == {s[1] : s \in ToSet(written)}

\* A patch fits the document if it adds what is not there, and changes and
\* removes what is there or what it adds itself, each thing once.
PatchFits(patch) ==
    LET present == {i \in ServiceId : services[i] # Absent}
        added   == Ids(patch.servicesAdded)
    IN  /\ \A call \in ToSet(PatchCalls(patch)) : Converts(call)
        /\ IsInjective(patch.alsoKnownAsAdded)
        /\ IsInjective(patch.alsoKnownAsRemoved)
        /\ ToSet(patch.alsoKnownAsAdded) \cap alsoKnownAs = {}
        /\ ToSet(patch.alsoKnownAsRemoved) \subseteq
               alsoKnownAs \cup ToSet(patch.alsoKnownAsAdded)
        /\ Cardinality(added) = Len(patch.servicesAdded)
        /\ added \cap present = {}
        /\ Ids(patch.servicesUpdated) \subseteq present \cup added
        /\ IsInjective(patch.servicesRemoved)
        /\ ToSet(patch.servicesRemoved) \subseteq present \cup added

\* What the last of the writes to service i leaves there.
LastWritten(writes, i, before) ==
    LET own == {n \in DOMAIN writes : writes[n][1] = i}
    IN  IF own = {} THEN before ELSE writes[Max(own)][2]

PatchedServices(patch) ==
    [i \in ServiceId |->
        IF i \in ToSet(patch.servicesRemoved) THEN Absent
        ELSE LastWritten(patch.servicesAdded \o patch.servicesUpdated, i, services[i])]

ApplyPatch(c, op, patch) ==
    \/ /\ PatchCalls(patch) # <<>>
       /\ Begin(c, op, PatchCalls(patch),
              IF PatchFits(patch)
              THEN << (alsoKnownAs \cup ToSet(patch.alsoKnownAsAdded))
                          \ ToSet(patch.alsoKnownAsRemoved),
                      verificationMethods, schnorrJubjubVerificationMethods,
                      relations, PatchedServices(patch) >>
              ELSE Absent)
    \/ /\ PatchCalls(patch) = <<>>
       /\ MayBegin(c, op)
       /\ calls' = [calls EXCEPT ![c] = Over(c, op, "ok")]
       /\ UNCHANGED ledger

-----------------------------------------------------------------------------
ApiCall(c, op) ==
    LET name == op[1]
        args == op[2]
    IN  \/ /\ name = "addVerificationMethod"
           /\ WriteVerificationMethod(c, op, args[1], args[2], "Insert")
        \/ /\ name = "updateVerificationMethod"
           /\ WriteVerificationMethod(c, op, args[1], args[2], "Update")
        \/ /\ name = "removeVerificationMethod"
           /\ ApiRemoveVerificationMethod(c, op, args)
        \/ /\ name = "addSchnorrJubjubVerificationMethod"
           /\ BeginSingle(c, op, <<"setSchnorrJubjubVM", <<args[1], args[2], "Insert">>>>)
        \/ /\ name = "updateSchnorrJubjubVerificationMethod"
           /\ BeginSingle(c, op, <<"setSchnorrJubjubVM", <<args[1], args[2], "Update">>>>)
        \/ /\ name = "removeSchnorrJubjubVerificationMethod"
           /\ ApiRemoveSchnorrJubjubVerificationMethod(c, op, args)
        \/ /\ name = "addVerificationMethodRelation"
           /\ AddVerificationMethodRelation(c, op, args[1], args[2])
        \/ /\ name = "removeVerificationMethodRelation"
           /\ RemoveVerificationMethodRelation(c, op, args[1], args[2])
        \/ /\ name = "addAlsoKnownAs"
           /\ BeginSingle(c, op, AddAlias(args))
        \/ /\ name = "removeAlsoKnownAs"
           /\ BeginSingle(c, op, RemoveAlias(args))
        \/ /\ name = "addService"
           /\ BeginSingle(c, op, AddService(args))
        \/ /\ name = "updateService"
           /\ BeginSingle(c, op, UpdateService(args))
        \/ /\ name = "removeService"
           /\ BeginSingle(c, op, DropService(args))
        \/ /\ name = "deactivate"
           /\ BeginSingle(c, op, <<"deactivate", "no-args">>)
        \/ /\ name = "applyPatch"
           /\ ApplyPatch(c, op, args)

ApiNext ==
    \E c \in Client :
        \/ \E op \in Operation : ApiCall(c, op)
        \/ FailToConvert(c)
        \/ Submit(c)
        \/ Accept(c)
        \/ Reject(c)
        \/ LoseCall(c)
        \/ LoseAnswer(c)

ApiSpec == ApiInit /\ [][ApiNext]_apiVars

\* A persistent caller's task is polled, the chain answers it, and does not
\* lose its calls for ever; and it calls a failed removal again.
ApiFairness ==
    \A c \in Persistent :
        /\ WF_apiVars(FailToConvert(c) \/ Submit(c))
        /\ WF_apiVars(Reject(c))
        /\ SF_apiVars(Accept(c))
        /\ WF_apiVars(calls[c].op # Absent /\ ApiCall(c, calls[c].op))

ApiFairSpec == ApiSpec /\ ApiFairness

-----------------------------------------------------------------------------
(***************************************************************************)
(* What the operations promise.                                            *)
(***************************************************************************)
\* An operation under way has calls left, all of them calls the contract has,
\* and has not made more of them than the version counts.
ApiTypeOK ==
    /\ TypeOK
    /\ \A c \in Client :
          /\ calls[c].at \in Ended \cup {"submit", "sent"}
          /\ calls[c].at \notin Ended =>
                /\ calls[c].op \in Operation
                /\ calls[c].todo # <<>>
                /\ calls[c].alone \in 0 .. version
          /\ calls[c].todo \in Seq(AnyCall)
          /\ calls[c].signed \in 0 .. version

\* Removals and patches are several transactions, but one that nobody
\* disturbs goes through as if it were one: its snapshot suffices, no
\* call of its list stands in the way of a later one, and what it leaves is
\* what was asked for.
AtomicWhenAlone ==
    [][\A c \in Client :
          /\ calls[c].at = "sent"
          /\ calls'[c].at \in {"ok", "rejected"}
          /\ calls[c].goal # Absent
          /\ calls[c].alone = version
          /\ active
          => calls'[c].at = "ok" /\ document' = calls[c].goal]_apiVars

\* When a removal returns Ok the id is in neither map and in none of the
\* five relations, whatever others inserted since the snapshot it purged by.
RemovedMeansGone ==
    [][\A c \in Client : \A i \in MethodId :
          /\ calls[c].op \in RemovalOf(i)
          /\ calls[c].at = "sent"
          /\ calls'[c].at = "ok"
          => /\ verificationMethods'[i] = Absent
             /\ schnorrJubjubVerificationMethods'[i] = Absent
             /\ \A r \in Relation : i \notin relations'[r]]_apiVars

\* A removal whose caller repeats it after every failure ends: with Ok, or
\* because the method has gone or the DID is deactivated.  New references,
\* stale snapshots and lost answers delay it, half-purged relations do not
\* stop it.
RemovalEnds ==
    \A c \in Persistent : \A i \in MethodId :
        (calls[c].op = <<"removeVerificationMethod", i>>)
            ~> (calls[c].at = "ok" \/ verificationMethods[i] = Absent \/ ~active)

=============================================================================

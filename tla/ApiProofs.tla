----------------------------- MODULE ApiProofs ------------------------------
(***************************************************************************)
(* The operations of the API keep the contract's promises in every state   *)
(* between their transactions, for any number of clients and operations; a *)
(* removal that succeeds leaves nothing behind, and no removal and no      *)
(* patch that nobody disturbs meets an assertion that fails or leaves what *)
(* nobody asked for; and what the resolver makes of the ledger is          *)
(* the document that was written.                                          *)
(***************************************************************************)
EXTENDS Resolution, DidContractProofs, SequenceTheorems, FiniteSetTheorems,
        WellFoundedInduction

-----------------------------------------------------------------------------
(***************************************************************************)
(* Every operation submits calls that the contract has.                    *)
(***************************************************************************)
\* The calls that take i out of the relations, and the call that an operation
\* is for, whatever has to be done before it.
PurgesOf(i) == {RelationCall(r, i, "Remove") : r \in Relation}

RemovalName == {"removeVerificationMethod", "removeSchnorrJubjubVerificationMethod"}

FinalCall(op) ==
    CASE op[1] = "addVerificationMethod" ->
            <<"setVerificationMethod", <<op[2][1], op[2][2], "Insert">>>>
      [] op[1] = "updateVerificationMethod" ->
            <<"setVerificationMethod", <<op[2][1], op[2][2], "Update">>>>
      [] op[1] = "addSchnorrJubjubVerificationMethod" ->
            <<"setSchnorrJubjubVM", <<op[2][1], op[2][2], "Insert">>>>
      [] op[1] = "updateSchnorrJubjubVerificationMethod" ->
            <<"setSchnorrJubjubVM", <<op[2][1], op[2][2], "Update">>>>
      [] op[1] = "removeSchnorrJubjubVerificationMethod" ->
            <<"removeSchnorrJubjubVM", op[2]>>
      [] op[1] = "addVerificationMethodRelation" ->
            RelationCall(op[2][1], op[2][2], "Insert")
      [] op[1] = "removeVerificationMethodRelation" ->
            RelationCall(op[2][1], op[2][2], "Remove")
      [] op[1] = "addAlsoKnownAs" -> AddAlias(op[2])
      [] op[1] = "removeAlsoKnownAs" -> RemoveAlias(op[2])
      [] op[1] = "addService" -> AddService(op[2])
      [] op[1] = "updateService" -> UpdateService(op[2])
      [] op[1] = "removeService" -> DropService(op[2])
      [] op[1] \in {"removeVerificationMethod", "deactivate"} -> op

\* A list of calls that ends with this call and purges before it.
Planned(op, todo) ==
    /\ todo[Len(todo)] = FinalCall(op)
    /\ \A n \in 1 .. Len(todo) :
          n # Len(todo) => op[1] \in RemovalName /\ todo[n] \in PurgesOf(op[2])

\* The record of an operation that has begun.
Begun(op, todo, goal) ==
    [at |-> "submit", op |-> op, todo |-> todo, signed |-> 0,
     alone |-> IF goal = Absent THEN 0 ELSE version, goal |-> goal]

LEMMA PurgeCalls ==
  ASSUME NEW i \in MethodId
  PROVE  /\ PurgeVerificationMethodFromAllRelations(i) \in Seq(PurgesOf(i))
         /\ PurgesOf(i) \subseteq AnyCall
<1>1. ASSUME NEW r \in Relation PROVE PurgeFrom(r, i) \in Seq(PurgesOf(i))
  <2>1. RelationCall(r, i, "Remove") \in PurgesOf(i)
    BY DEF PurgesOf
  <2> QED
    BY <2>1 DEF PurgeFrom
<1>2. /\ PurgeFrom("Authentication", i) \in Seq(PurgesOf(i))
      /\ PurgeFrom("AssertionMethod", i) \in Seq(PurgesOf(i))
      /\ PurgeFrom("KeyAgreement", i) \in Seq(PurgesOf(i))
      /\ PurgeFrom("CapabilityInvocation", i) \in Seq(PurgesOf(i))
      /\ PurgeFrom("CapabilityDelegation", i) \in Seq(PurgesOf(i))
  BY <1>1 DEF Relation, SigningRelation
<1>3. PurgesOf(i) \subseteq AnyCall
  BY DEF PurgesOf, RelationCall, AnyCall, AnyRelation, SetMutation
<1> QED
  BY <1>2, <1>3 DEF PurgeVerificationMethodFromAllRelations

\* What Append makes of a plan's purges.
LEMMA PurgesThenRemoval ==
  ASSUME NEW i \in MethodId, NEW call \in AnyCall
  PROVE  LET todo == Append(PurgeVerificationMethodFromAllRelations(i), call)
         IN  /\ todo \in Seq(AnyCall)
             /\ todo # <<>>
             /\ todo[Len(todo)] = call
             /\ \A n \in 1 .. Len(todo) : n # Len(todo) => todo[n] \in PurgesOf(i)
<1> DEFINE purges == PurgeVerificationMethodFromAllRelations(i)
           todo == Append(purges, call)
<1>1. purges \in Seq(PurgesOf(i)) /\ purges \in Seq(AnyCall)
  <2>1. purges \in Seq(PurgesOf(i)) /\ PurgesOf(i) \subseteq AnyCall
    BY PurgeCalls
  <2> HIDE DEF purges
  <2> QED
    BY <2>1
<1> HIDE DEF purges
<1>2. todo \in Seq(AnyCall) /\ Len(todo) = Len(purges) + 1 /\ Len(purges) \in Nat
  BY <1>1
<1>3. todo[Len(todo)] = call /\ todo # <<>>
  BY <1>1
<1>4. ASSUME NEW n \in 1 .. Len(todo), n # Len(todo) PROVE todo[n] \in PurgesOf(i)
  <2>1. n \in 1 .. Len(purges)
    BY <1>2, <1>4
  <2>2. todo[n] = purges[n]
    BY <1>1, <2>1
  <2> QED
    BY <1>1, <2>1, <2>2
<1> QED
  BY <1>2, <1>3, <1>4 DEF purges

\* An operation of a single caller's choosing, a patch apart, begins with such
\* a list or is refused.
LEMMA ApiCallPlans ==
  ASSUME NEW c \in Client, NEW op \in Operation, ApiCall(c, op), op[1] # "applyPatch"
  PROVE  /\ UNCHANGED ledger
         /\ \/ \E todo \in Seq(AnyCall) : \E goal :
                   /\ todo # <<>>
                   /\ Planned(op, todo)
                   /\ op[1] \notin RemovalName => goal = Absent
                   /\ calls' = [calls EXCEPT ![c] = Begun(op, todo, goal)]
            \/ calls' = [calls EXCEPT ![c] = Over(c, op, "refused")]
<1> DEFINE Single(call) ==
              /\ UNCHANGED ledger
              /\ call \in AnyCall
              /\ call = FinalCall(op)
              /\ calls' = [calls EXCEPT ![c] = Begun(op, <<call>>, Absent)]
           Refused ==
              /\ UNCHANGED ledger
              /\ calls' = [calls EXCEPT ![c] = Over(c, op, "refused")]
<1> USE OperationAssumption
<1>1. CASE op[1] \notin RemovalName
  <2>1. (\E call : Single(call)) \/ Refused
    <3>0. \/ op[1] \in {"addVerificationMethod", "updateVerificationMethod"}
          \/ op[1] \in {"addSchnorrJubjubVerificationMethod",
                        "updateSchnorrJubjubVerificationMethod"}
          \/ op[1] \in {"addVerificationMethodRelation", "removeVerificationMethodRelation"}
          \/ op[1] \in {"addAlsoKnownAs", "removeAlsoKnownAs"}
          \/ op[1] \in {"addService", "updateService", "removeService"}
          \/ op[1] = "deactivate"
      BY <1>1 DEF ApiCall, RemovalName
    <3> USE DEF BeginSingle, Begin, Begun, Refuse, AnyOperation, AnyCall,
                MapMutation, SetMutation, FinalCall
    <3>1. CASE op[1] \in {"addVerificationMethod", "updateVerificationMethod"}
      BY <3>1 DEF ApiCall, WriteVerificationMethod
    <3>2. CASE op[1] \in {"addSchnorrJubjubVerificationMethod",
                          "updateSchnorrJubjubVerificationMethod"}
      BY <3>2 DEF ApiCall
    <3>3. CASE op[1] \in {"addVerificationMethodRelation",
                          "removeVerificationMethodRelation"}
      BY <3>3 DEF ApiCall, AddVerificationMethodRelation,
                  RemoveVerificationMethodRelation, RelationCall
    <3>4. CASE op[1] \in {"addAlsoKnownAs", "removeAlsoKnownAs"}
      BY <3>4 DEF ApiCall, AddAlias, RemoveAlias
    <3>5. CASE op[1] \in {"addService", "updateService", "removeService"}
      BY <3>5 DEF ApiCall, AddService, UpdateService, DropService
    <3>6. CASE op[1] = "deactivate"
      BY <3>6 DEF ApiCall
    <3> HIDE DEF Single, Refused
    <3> QED
      BY <3>0, <3>1, <3>2, <3>3, <3>4, <3>5, <3>6
  <2>2. ASSUME NEW call, Single(call)
        PROVE  <<call>> \in Seq(AnyCall) /\ <<call>> # <<>> /\ Planned(op, <<call>>)
    BY <2>2 DEF Planned
  <2>3. ASSUME NEW call, Single(call)
        PROVE  /\ UNCHANGED ledger
               /\ \E todo \in Seq(AnyCall) : \E goal :
                     /\ todo # <<>>
                     /\ Planned(op, todo)
                     /\ op[1] \notin RemovalName => goal = Absent
                     /\ calls' = [calls EXCEPT ![c] = Begun(op, todo, goal)]
    <3>1. calls' = [calls EXCEPT ![c] = Begun(op, <<call>>, Absent)] /\ UNCHANGED ledger
      BY <2>3
    <3> HIDE DEF Single
    <3> QED
      BY <2>2, <2>3, <3>1
  <2> HIDE DEF Single
  <2> QED
    BY <2>1, <2>3
<1>2. CASE op[1] \in RemovalName
  <2> DEFINE call == FinalCall(op)
             todo == Append(PurgeVerificationMethodFromAllRelations(op[2]), call)
  <2>1. op[2] \in MethodId /\ op = <<op[1], op[2]>>
    BY <1>2 DEF AnyOperation, RemovalName
  <2>2. call \in AnyCall
    BY <1>2, <2>1 DEF FinalCall, RemovalName, AnyCall
  <2>3. todo \in Seq(AnyCall) /\ todo # <<>> /\ Planned(op, todo)
    BY <1>2, <2>1, <2>2, PurgesThenRemoval DEF Planned
  <2>4. UNCHANGED ledger /\ \E goal : calls' = [calls EXCEPT ![c] = Begun(op, todo, goal)]
    <3>1. CASE op[1] = "removeVerificationMethod"
      <4>1. call = <<"removeVerificationMethod", op[2]>>
        BY <2>1, <3>1 DEF FinalCall
      <4>2. ApiRemoveVerificationMethod(c, op, op[2])
        BY <3>1 DEF ApiCall
      <4> QED
        BY <4>1, <4>2 DEF ApiRemoveVerificationMethod, Begin, Begun
    <3>2. CASE op[1] = "removeSchnorrJubjubVerificationMethod"
      <4>1. call = <<"removeSchnorrJubjubVM", op[2]>>
        BY <3>2 DEF FinalCall
      <4>2. ApiRemoveSchnorrJubjubVerificationMethod(c, op, op[2])
        BY <3>2 DEF ApiCall
      <4> QED
        BY <4>1, <4>2 DEF ApiRemoveSchnorrJubjubVerificationMethod, Begin, Begun
    <3> QED
      BY <1>2, <3>1, <3>2 DEF RemovalName
  <2> HIDE DEF todo
  <2> QED
    BY <1>2, <2>3, <2>4
<1> QED
  BY <1>1, <1>2

LEMMA PatchCallsType ==
  ASSUME NEW patch \in Patch
  PROVE  PatchCalls(patch) \in Seq(AnyCall)
<1>1. Each(AddAlias, patch.alsoKnownAsAdded) \in Seq(AnyCall)
  BY DEF Each, AddAlias, Patch, AnyCall, SetMutation
<1>2. Each(RemoveAlias, patch.alsoKnownAsRemoved) \in Seq(AnyCall)
  BY DEF Each, RemoveAlias, Patch, AnyCall, SetMutation
<1>3. Each(AddService, patch.servicesAdded) \in Seq(AnyCall)
  BY DEF Each, AddService, Patch, AnyCall, MapMutation
<1>4. Each(UpdateService, patch.servicesUpdated) \in Seq(AnyCall)
  BY DEF Each, UpdateService, Patch, AnyCall, MapMutation
<1>5. Each(DropService, patch.servicesRemoved) \in Seq(AnyCall)
  BY DEF Each, DropService, Patch, AnyCall
<1> QED
  BY <1>1, <1>2, <1>3, <1>4, <1>5 DEF PatchCalls

-----------------------------------------------------------------------------
(***************************************************************************)
(* The inductive invariant.  The removal itself is the last call of the    *)
(* list, whatever has been purged before.                                  *)
(***************************************************************************)
Fields ==
    calls = [c \in Client |->
                [at |-> calls[c].at, op |-> calls[c].op, todo |-> calls[c].todo,
                 signed |-> calls[c].signed, alone |-> calls[c].alone,
                 goal |-> calls[c].goal]]

RemovalComesLast ==
    \A c \in Client : \A i \in MethodId :
        /\ calls[c].at \notin Ended
        /\ calls[c].op \in RemovalOf(i)
        => calls[c].todo[Len(calls[c].todo)] = FinalCall(calls[c].op)

ApiInv ==
    /\ LedgerInv
    /\ ApiTypeOK
    /\ Fields
    /\ RemovalComesLast

\* An operation begins with a list of calls, its removal last, or is over at
\* once; the ledger stays.
LEMMA ApiCallStep ==
  ASSUME NEW c \in Client, NEW op \in Operation, ApiCall(c, op)
  PROVE  /\ UNCHANGED ledger
         /\ \/ \E todo \in Seq(AnyCall) : \E goal :
                   /\ todo # <<>>
                   /\ \A i \in MethodId :
                         op \in RemovalOf(i) => todo[Len(todo)] = FinalCall(op)
                   /\ calls' = [calls EXCEPT ![c] = Begun(op, todo, goal)]
            \/ \E outcome \in {"ok", "refused"} :
                   calls' = [calls EXCEPT ![c] = Over(c, op, outcome)]
<1> USE OperationAssumption
<1>1. CASE op[1] # "applyPatch"
  BY <1>1, ApiCallPlans DEF Planned
<1>2. CASE op[1] = "applyPatch"
  <2>1. op[2] \in Patch /\ ApplyPatch(c, op, op[2])
    BY <1>2 DEF ApiCall, AnyOperation
  <2>2. ~ \E i \in MethodId : op \in RemovalOf(i)
    BY <1>2 DEF RemovalOf
  <2>3. CASE PatchCalls(op[2]) # <<>>
    <3>1. \E goal : calls' = [calls EXCEPT ![c] = Begun(op, PatchCalls(op[2]), goal)]
      BY <2>1, <2>3 DEF ApplyPatch, Begin, Begun
    <3>2. UNCHANGED ledger
      BY <2>1, <2>3 DEF ApplyPatch, Begin
    <3> QED
      BY <2>1, <2>2, <2>3, <3>1, <3>2, PatchCallsType
  <2>4. CASE PatchCalls(op[2]) = <<>>
    BY <2>1, <2>4 DEF ApplyPatch
  <2> QED
    BY <2>3, <2>4
<1> QED
  BY <1>1, <1>2

\* A call that runs is a mutation signed by the controller.
LEMMA RunMutates ==
  ASSUME ApiInv, NEW c \in Client, calls[c].at = "sent", Run(c)
  PROVE  \E k \in PublicKey, v \in Nat : Mutation(k, v)
<1> DEFINE call == Head(calls[c].todo)
           sig  == Signature(controllerPublicKey, Digest(calls[c].signed, call))
           k    == IF call[1] = "recoverControllerKey"
                   THEN recoveryAuthorityPublicKey ELSE controllerPublicKey
<1>1. call \in AnyCall /\ calls[c].signed \in Nat
  BY DEF ApiInv, ApiTypeOK, Ended, LedgerInv, TypeOK
<1>2. Circuit(call, sig, calls[c].signed)
  BY DEF Run
<1>3. k \in PublicKey
  BY DEF ApiInv, LedgerInv, TypeOK
<1> HIDE DEF call, sig, k
<1>4. Mutation(k, calls[c].signed)
  BY <1>1, <1>2, CircuitAuthorized DEF k
<1> QED
  BY <1>1, <1>3, <1>4

\* The ledger keeps its invariant and its version moves by one.
LEMMA RunStep ==
  ASSUME ApiInv, NEW c \in Client, calls[c].at = "sent", Run(c)
  PROVE  LedgerInv' /\ version' = version + 1
<1>1. PICK k \in PublicKey, v \in Nat : Mutation(k, v)
  BY RunMutates
<1>2. [Mutation(k, v)]_ledger
  BY <1>1
<1> QED
  BY <1>1, MutationLedgerInv, MutationCounts DEF ApiInv

LEMMA InitApiInv == ApiInit => ApiInv
<1> SUFFICES ASSUME ApiInit PROVE ApiInv
  OBVIOUS
<1> USE DEF ApiInit, Over
<1>1. LedgerInv
  BY InitLedgerInv
<1>2. ApiTypeOK
  <2>1. version = 0 /\ TypeOK
    BY <1>1 DEF Init, LedgerInv
  <2>2. ASSUME NEW c \in Client
        PROVE  calls[c].at = "idle" /\ calls[c].todo = <<>> /\ calls[c].signed = 0
    OBVIOUS
  <2>3. "idle" \in Ended
    BY DEF Ended
  <2> HIDE DEF ApiInit, Over
  <2>4. <<>> \in Seq(AnyCall) /\ 0 \in 0 .. version
    BY <2>1
  <2>5. ASSUME NEW c \in Client
        PROVE  /\ calls[c].at \in Ended \cup {"submit", "sent"}
               /\ calls[c].at \notin Ended =>
                     /\ calls[c].op \in Operation
                     /\ calls[c].todo # <<>>
                     /\ calls[c].alone \in 0 .. version
               /\ calls[c].todo \in Seq(AnyCall)
               /\ calls[c].signed \in 0 .. version
    BY <2>2, <2>3, <2>4
  <2> QED
    BY <2>1, <2>5 DEF ApiTypeOK
<1>3. Fields
  BY DEF Fields
<1>4. RemovalComesLast
  BY DEF RemovalComesLast, Ended
<1> QED
  BY <1>1, <1>2, <1>3, <1>4 DEF ApiInv

\* Beginning an operation, and every other step that leaves the ledger alone,
\* is told from the record it writes.
LEMMA CallFrame ==
  ASSUME ApiInv, NEW c \in Client, NEW r,
         calls' = [calls EXCEPT ![c] = r],
         LedgerInv', version' \in Nat, version' >= version,
         r = [at |-> r.at, op |-> r.op, todo |-> r.todo, signed |-> r.signed,
              alone |-> r.alone, goal |-> r.goal],
         r.at \in Ended \cup {"submit", "sent"},
         r.todo \in Seq(AnyCall),
         r.signed \in 0 .. version',
         r.at \notin Ended =>
             /\ r.op \in Operation
             /\ r.todo # <<>>
             /\ r.alone \in 0 .. version'
             /\ \A i \in MethodId :
                   r.op \in RemovalOf(i) => r.todo[Len(r.todo)] = FinalCall(r.op)
  PROVE  ApiInv'
<1> USE DEF ApiInv
<1>1. DOMAIN calls = Client
  BY DEF Fields
<1>2. calls'[c] = r /\ \A d \in Client \ {c} : calls'[d] = calls[d]
  BY <1>1
<1>3. Fields'
  BY <1>1, <1>2 DEF Fields
<1>4. version \in Nat
  BY DEF LedgerInv, TypeOK
<1>5. ApiTypeOK'
  <2>1. TypeOK'
    BY DEF LedgerInv
  <2>2. ASSUME NEW d \in Client
        PROVE  /\ calls'[d].at \in Ended \cup {"submit", "sent"}
               /\ calls'[d].at \notin Ended =>
                     /\ calls'[d].op \in Operation
                     /\ calls'[d].todo # <<>>
                     /\ calls'[d].alone \in 0 .. version'
               /\ calls'[d].todo \in Seq(AnyCall)
               /\ calls'[d].signed \in 0 .. version'
    BY <1>2, <1>4 DEF ApiTypeOK
  <2> QED
    BY <2>1, <2>2 DEF ApiTypeOK
<1>6. RemovalComesLast'
  BY <1>2 DEF RemovalComesLast
<1> QED
  BY <1>3, <1>5, <1>6

LEMMA AboveOne ==
  ASSUME NEW n \in Nat, n # 0, n # 1
  PROVE  n > 1
OBVIOUS

LEMMA TailFacts ==
  ASSUME NEW S, NEW s \in Seq(S), s # <<>>, Len(s) # 1
  PROVE  /\ Tail(s) \in Seq(S)
         /\ Tail(s) # <<>>
         /\ Tail(s)[Len(Tail(s))] = s[Len(s)]
<1>1. Len(s) \in Nat /\ Len(s) > 1
  <2>1. Len(s) \in Nat
    BY LenProperties
  <2>2. Len(s) # 0
    BY EmptySeq
  <2> DEFINE n == Len(s)
  <2>3. n \in Nat /\ n # 0 /\ n # 1
    BY <2>1, <2>2
  <2> HIDE DEF n
  <2>4. n > 1
    BY <2>3, AboveOne
  <2> QED
    BY <2>3, <2>4 DEF n
<1>2. /\ Tail(s) \in Seq(S)
      /\ Len(Tail(s)) = Len(s) - 1
      /\ \A i \in 1 .. Len(Tail(s)) : Tail(s)[i] = s[i + 1]
  BY HeadTailProperties
<1>3. /\ Len(s) - 1 \in 1 .. Len(Tail(s))
      /\ (Len(s) - 1) + 1 = Len(s)
  BY <1>1, <1>2
<1>4. Tail(s)[Len(s) - 1] = s[Len(s)]
  BY <1>2, <1>3, Zenon
<1>5. Tail(s) # <<>>
  <2>1. Len(<<>>) = 0
    BY EmptySeq
  <2> DEFINE n == Len(s)
             t == Tail(s)
  <2>2. n \in Nat /\ n > 1 /\ Len(t) = n - 1
    BY <1>1, <1>2
  <2> HIDE DEF n
  <2>3. n - 1 # 0
    BY <2>2
  <2>4. Len(t) # 0
    BY <2>2, <2>3
  <2> HIDE DEF t
  <2>5. t # <<>>
    BY <2>1, <2>4, Zenon
  <2> QED
    BY <2>5 DEF t
<1> QED
  BY <1>2, <1>4, <1>5

LEMMA OverFrame ==
  ASSUME ApiInv, NEW c \in Client, NEW op, NEW outcome \in Ended,
         calls' = [calls EXCEPT ![c] = Over(c, op, outcome)],
         LedgerInv', version' \in Nat, version' >= version
  PROVE  ApiInv'
<1> DEFINE r == Over(c, op, outcome)
<1>1. /\ r = [at |-> r.at, op |-> r.op, todo |-> r.todo, signed |-> r.signed,
             alone |-> r.alone, goal |-> r.goal]
      /\ r.at = outcome
      /\ r.todo = <<>>
      /\ r.signed = 0
  BY DEF Over
<1> HIDE DEF r
<1>2. calls' = [calls EXCEPT ![c] = r]
  BY DEF r
<1>3. r.todo \in Seq(AnyCall) /\ r.signed \in 0 .. version'
  BY <1>1
<1> QED
  BY <1>1, <1>2, <1>3, CallFrame

LEMMA NextApiInv == ApiInv /\ [ApiNext]_apiVars => ApiInv'
<1> SUFFICES ASSUME ApiInv, [ApiNext]_apiVars PROVE ApiInv'
  OBVIOUS
<1>0. version \in Nat
  BY DEF ApiInv, LedgerInv, TypeOK
<1>a. ASSUME UNCHANGED ledger
      PROVE  LedgerInv' /\ version' = version /\ version' \in Nat /\ version' >= version
  BY <1>0, <1>a, NextLedgerInv DEF ApiInv, ledger, counters
<1>b. ASSUME NEW c \in Client, Run(c), calls[c].at = "sent"
      PROVE  /\ LedgerInv' /\ version' = version + 1
             /\ version' \in Nat /\ version' >= version
  BY <1>0, <1>b, RunStep
<1>c. {"ok", "refused", "rejected", "lost"} \subseteq Ended
  BY DEF Ended
<1>1. ASSUME NEW c \in Client, NEW op \in Operation, ApiCall(c, op) PROVE ApiInv'
  <2>1. UNCHANGED ledger
    BY <1>1, ApiCallStep
  <2>2. CASE \E todo \in Seq(AnyCall) : \E goal :
                /\ todo # <<>>
                /\ \A i \in MethodId :
                      op \in RemovalOf(i) => todo[Len(todo)] = FinalCall(op)
                /\ calls' = [calls EXCEPT ![c] = Begun(op, todo, goal)]
    <3>0. PICK todo \in Seq(AnyCall) : \E goal :
              /\ todo # <<>>
              /\ \A i \in MethodId :
                    op \in RemovalOf(i) => todo[Len(todo)] = FinalCall(op)
              /\ calls' = [calls EXCEPT ![c] = Begun(op, todo, goal)]
      BY <2>2
    <3>1. PICK goal :
              /\ todo # <<>>
              /\ \A i \in MethodId :
                    op \in RemovalOf(i) => todo[Len(todo)] = FinalCall(op)
              /\ calls' = [calls EXCEPT ![c] = Begun(op, todo, goal)]
      BY <3>0
    <3> DEFINE r == Begun(op, todo, goal)
    <3>2. /\ r = [at |-> r.at, op |-> r.op, todo |-> r.todo, signed |-> r.signed,
                 alone |-> r.alone, goal |-> r.goal]
          /\ r.at = "submit" /\ r.op = op /\ r.todo = todo
          /\ r.signed = 0 /\ r.alone \in {0, version}
      BY DEF Begun
    <3>3. calls' = [calls EXCEPT ![c] = r]
      BY <3>1
    <3> HIDE DEF r
    <3>4. r.signed \in 0 .. version' /\ r.alone \in 0 .. version'
      BY <1>0, <1>a, <2>1, <3>2
    <3> QED
      BY <1>a, <2>1, <3>1, <3>2, <3>3, <3>4, CallFrame
  <2>3. CASE \E outcome \in {"ok", "refused"} :
                calls' = [calls EXCEPT ![c] = Over(c, op, outcome)]
    BY <1>a, <1>c, <2>1, <2>3, OverFrame
  <2> QED
    BY <1>1, <2>2, <2>3, ApiCallStep
<1>2. ASSUME NEW c \in Client, Submit(c) PROVE ApiInv'
  <2> DEFINE r == [at |-> "sent", op |-> calls[c].op, todo |-> calls[c].todo,
                   signed |-> version, alone |-> calls[c].alone, goal |-> calls[c].goal]
  <2>1. calls' = [calls EXCEPT ![c] = r] /\ UNCHANGED ledger
    BY <1>2 DEF Submit, ApiInv, Fields
  <2>3. r = [at |-> "sent", op |-> calls[c].op, todo |-> calls[c].todo,
             signed |-> version, alone |-> calls[c].alone, goal |-> calls[c].goal]
    OBVIOUS
  <2> HIDE DEF r
  <2>4. /\ calls[c].at \notin Ended
        /\ calls[c].todo \in Seq(AnyCall)
        /\ calls[c].todo # <<>>
        /\ calls[c].op \in Operation
        /\ calls[c].alone \in 0 .. version
    BY <1>2 DEF Submit, ApiInv, ApiTypeOK, Ended
  <2>5. \A i \in MethodId : calls[c].op \in RemovalOf(i) =>
            calls[c].todo[Len(calls[c].todo)] = FinalCall(calls[c].op)
    BY <2>4 DEF ApiInv, RemovalComesLast
  <2>6. version \in 0 .. version' /\ calls[c].alone \in 0 .. version'
    BY <1>0, <1>a, <2>1, <2>4
  <2> QED
    BY <1>a, <2>1, <2>3, <2>4, <2>5, <2>6, CallFrame
<1>3. ASSUME NEW c \in Client, Accept(c) PROVE ApiInv'
  <2>1. /\ LedgerInv' /\ version' = version + 1
        /\ version' \in Nat /\ version' >= version
    BY <1>3, <1>b DEF Accept
  <2>2. CASE Len(calls[c].todo) = 1
    <3>1. calls' = [calls EXCEPT ![c] = Over(c, calls[c].op, "ok")]
      BY <1>3, <2>2 DEF Accept
    <3> QED
      BY <1>c, <2>1, <3>1, OverFrame
  <2>3. CASE Len(calls[c].todo) # 1
    <3> DEFINE r == [at |-> "submit", op |-> calls[c].op, todo |-> Tail(calls[c].todo),
                     signed |-> 0, alone |-> calls[c].alone + 1, goal |-> calls[c].goal]
    <3>1. calls' = [calls EXCEPT ![c] = r]
      BY <1>3, <2>3 DEF Accept, ApiInv, Fields
    <3>2. /\ calls[c].todo \in Seq(AnyCall)
          /\ calls[c].todo # <<>>
          /\ calls[c].op \in Operation
          /\ calls[c].alone \in 0 .. version
      BY <1>3 DEF Accept, ApiInv, ApiTypeOK, Ended
    <3>3. /\ Tail(calls[c].todo) \in Seq(AnyCall)
          /\ Tail(calls[c].todo) # <<>>
          /\ Tail(calls[c].todo)[Len(Tail(calls[c].todo))]
                 = calls[c].todo[Len(calls[c].todo)]
      BY <2>3, <3>2, TailFacts
    <3>4. \A i \in MethodId : calls[c].op \in RemovalOf(i) =>
              Tail(calls[c].todo)[Len(Tail(calls[c].todo))] = FinalCall(calls[c].op)
      BY <1>3, <3>3 DEF Accept, ApiInv, RemovalComesLast, Ended
    <3>5. calls[c].alone + 1 \in 0 .. version' /\ 0 \in 0 .. version'
      BY <1>0, <2>1, <3>2
    <3> QED
      BY <2>1, <3>1, <3>2, <3>3, <3>4, <3>5, CallFrame
  <2> QED
    BY <2>2, <2>3
<1>4. ASSUME NEW c \in Client, FailToConvert(c) \/ Reject(c) \/ LoseCall(c) PROVE ApiInv'
  <2>1. \E outcome \in {"refused", "rejected", "lost"} :
            calls' = [calls EXCEPT ![c] = Over(c, calls[c].op, outcome)]
    BY <1>4 DEF FailToConvert, Reject, LoseCall
  <2>2. UNCHANGED ledger
    BY <1>4 DEF FailToConvert, Reject, LoseCall
  <2> QED
    BY <1>a, <1>c, <2>1, <2>2, OverFrame
<1>5. ASSUME NEW c \in Client, LoseAnswer(c) PROVE ApiInv'
  <2>1. LedgerInv' /\ version' \in Nat /\ version' >= version
    BY <1>5, <1>b DEF LoseAnswer
  <2>2. calls' = [calls EXCEPT ![c] = Over(c, calls[c].op, "lost")]
    BY <1>5 DEF LoseAnswer
  <2> QED
    BY <1>c, <2>1, <2>2, OverFrame
<1>6. ASSUME UNCHANGED apiVars PROVE ApiInv'
  <2>1. UNCHANGED ledger /\ UNCHANGED calls
    BY <1>6 DEF apiVars
  <2>2. LedgerInv' /\ version' = version
    BY <1>a, <2>1
  <2>3. TypeOK'
    BY <2>2 DEF LedgerInv
  <2> QED
    BY <2>1, <2>2, <2>3 DEF ApiInv, ApiTypeOK, Fields, RemovalComesLast
<1> QED
  BY <1>1, <1>2, <1>3, <1>4, <1>5, <1>6 DEF ApiNext

-----------------------------------------------------------------------------
(***************************************************************************)
(* What follows.                                                           *)
(***************************************************************************)
\* The invariant holds of every reachable state.
THEOREM ApiCorrect == ApiSpec => []ApiInv
BY InitApiInv, NextApiInv, PTL DEF ApiSpec

\* Operations under way are well formed, and never ahead of the version.
THEOREM ApiTypes == ApiSpec => []ApiTypeOK
<1>1. ApiInv => ApiTypeOK
  BY DEF ApiInv
<1> QED
  BY ApiCorrect, <1>1, PTL

\* Between the transactions of a removal or a patch, and after one that
\* failed half-way, no relation names a method that is not stored.
THEOREM ApiReferentialIntegrity == ApiSpec => []RelationsReferToMethods
<1>1. ApiInv => RelationsReferToMethods
  BY DEF ApiInv, LedgerInv, DocumentInv
<1> QED
  BY ApiCorrect, <1>1, PTL

\* With several clients, operations of several calls, and answers that are
\* lost, a step changes the ledger by one circuit or not at all.
LEMMA ApiStepMutates ==
  ASSUME ApiInv, [ApiNext]_apiVars
  PROVE  UNCHANGED ledger \/ \E k \in PublicKey, v \in Nat : Mutation(k, v)
<1>1. ASSUME NEW c \in Client, NEW op \in Operation, ApiCall(c, op) PROVE UNCHANGED ledger
  BY <1>1, ApiCallStep
<1>2. ASSUME NEW c \in Client, FailToConvert(c) \/ Submit(c) \/ Reject(c) \/ LoseCall(c)
      PROVE  UNCHANGED ledger
  BY <1>2 DEF FailToConvert, Submit, Reject, LoseCall
<1>3. ASSUME NEW c \in Client, Accept(c) \/ LoseAnswer(c)
      PROVE  \E k \in PublicKey, v \in Nat : Mutation(k, v)
  BY <1>3, RunMutates DEF Accept, LoseAnswer
<1>4. CASE UNCHANGED apiVars
  BY <1>4 DEF apiVars
<1> QED
  BY <1>1, <1>2, <1>3, <1>4 DEF ApiNext

\* The contract as the API drives it still implements the lifecycle.
THEOREM ApiImplementsLifecycle == ApiSpec => LifecycleSpec
<1>1. ApiInv /\ [ApiNext]_apiVars => [Lifecycle!Next]_(Lifecycle!vars)
  <2>1. UNCHANGED ledger => UNCHANGED Lifecycle!vars
    BY DEF ledger, identity, counters, status, Lifecycle!vars
  <2> QED
    BY <2>1, ApiStepMutates, MutationLifecycle
<1>2. ApiInit => Lifecycle!Init
  BY InitLifecycle DEF ApiInit
<1> QED
  BY <1>1, <1>2, ApiCorrect, PTL DEF ApiSpec, LifecycleSpec, Lifecycle!Spec

\* No operation changes a deactivated DID, whenever it began.
THEOREM ApiFinality == ApiSpec => DeactivationIsFinal
<1>1. ApiInv /\ [ApiNext]_apiVars => [active]_ledger
  BY ApiStepMutates, MutationCounts
<1> QED
  BY <1>1, ApiCorrect, PTL DEF ApiSpec, DeactivationIsFinal

\* A submission is answered, or lost.
LEMMA SentStep ==
  ASSUME ApiInv, [ApiNext]_apiVars, NEW c \in Client,
         calls[c].at = "sent", calls'[c].at # "sent"
  PROVE  Accept(c) \/ Reject(c) \/ LoseCall(c) \/ LoseAnswer(c)
<1>1. DOMAIN calls = Client
  BY DEF ApiInv, Fields
<1>2. ~ UNCHANGED apiVars
  BY DEF apiVars
<1>3. ASSUME NEW d \in Client, d # c,
             \E r : calls' = [calls EXCEPT ![d] = r]
      PROVE  FALSE
  BY <1>1, <1>3
<1>4. PICK d \in Client :
          \/ \E op \in Operation : ApiCall(d, op)
          \/ FailToConvert(d) \/ Submit(d) \/ Accept(d)
          \/ Reject(d) \/ LoseCall(d) \/ LoseAnswer(d)
  BY <1>2 DEF ApiNext
<1>5. \E r : calls' = [calls EXCEPT ![d] = r]
  <2>1. ASSUME NEW op \in Operation, ApiCall(d, op)
        PROVE  \E r : calls' = [calls EXCEPT ![d] = r]
    BY <2>1, ApiCallStep
  <2>2. CASE Accept(d)
    <3>1. calls' = [calls EXCEPT ![d] =
              IF Len(calls[d].todo) = 1 THEN Over(d, calls[d].op, "ok")
              ELSE [at |-> "submit", op |-> calls[d].op, todo |-> Tail(calls[d].todo),
                    signed |-> 0, alone |-> calls[d].alone + 1,
                    goal |-> calls[d].goal]]
      BY <2>2, <1>1 DEF Accept
    <3> QED
      BY <3>1
  <2>3. CASE Submit(d)
    <3>1. calls' = [calls EXCEPT ![d] =
              [at |-> "sent", op |-> calls[d].op, todo |-> calls[d].todo,
               signed |-> version, alone |-> calls[d].alone, goal |-> calls[d].goal]]
      BY <2>3, <1>1 DEF Submit
    <3> QED
      BY <3>1
  <2>4. CASE FailToConvert(d) \/ Reject(d) \/ LoseCall(d) \/ LoseAnswer(d)
    BY <2>4 DEF FailToConvert, Reject, LoseCall, LoseAnswer
  <2> QED
    BY <1>4, <2>1, <2>2, <2>3, <2>4
<1>6. d = c
  BY <1>3, <1>5
<1>7. ~ (\E op \in Operation : ApiCall(c, op))
  <2>1. ASSUME NEW op \in Operation, ApiCall(c, op) PROVE calls[c].at \in Ended
    BY <2>1 DEF ApiCall, WriteVerificationMethod, BeginSingle, Begin, Refuse, MayBegin,
         ApiRemoveVerificationMethod, ApiRemoveSchnorrJubjubVerificationMethod,
         AddVerificationMethodRelation, RemoveVerificationMethodRelation, ApplyPatch
  <2> QED
    BY <2>1 DEF Ended
<1>8. ~ (FailToConvert(c) \/ Submit(c))
  BY DEF FailToConvert, Submit
<1> QED
  BY <1>4, <1>6, <1>7, <1>8

\* A submission ends with Ok only when the last call of its list is accepted.
LEMMA OkIsAccepted ==
  ASSUME ApiInv, [ApiNext]_apiVars, NEW c \in Client,
         calls[c].at = "sent", calls'[c].at = "ok"
  PROVE  Accept(c) /\ Len(calls[c].todo) = 1
<1>1. DOMAIN calls = Client
  BY DEF ApiInv, Fields
<1>2. ~ (Reject(c) \/ LoseCall(c) \/ LoseAnswer(c))
  BY <1>1 DEF Reject, LoseCall, LoseAnswer, Over
<1>3. Accept(c)
  BY <1>2, SentStep
<1>4. Len(calls[c].todo) = 1
  BY <1>1, <1>3 DEF Accept, ApiInv, Fields
<1> QED
  BY <1>3, <1>4

\* It ends with Rejected only when an assertion of the circuit fails.
LEMMA RejectedIsRefused ==
  ASSUME ApiInv, [ApiNext]_apiVars, NEW c \in Client,
         calls[c].at = "sent", calls'[c].at = "rejected"
  PROVE  ~ CanRun(c)
<1>1. DOMAIN calls = Client
  BY DEF ApiInv, Fields
<1>2. ~ (LoseCall(c) \/ LoseAnswer(c))
  BY <1>1 DEF LoseCall, LoseAnswer, Over
<1>3. ~ Accept(c)
  <2>1. Accept(c) => calls'[c].at \in {"ok", "submit"}
    BY <1>1 DEF Accept, Over
  <2> QED
    BY <2>1
<1>4. Reject(c)
  BY <1>2, <1>3, SentStep
<1> QED
  BY <1>4 DEF Reject

\* The step that ends a removal of i with Ok leaves i in neither map and in
\* no relation.
LEMMA RemovalStep ==
  ASSUME ApiInv, [ApiNext]_apiVars, ApiInv',
         NEW c \in Client, NEW i \in MethodId,
         calls[c].op \in RemovalOf(i), calls[c].at = "sent", calls'[c].at = "ok"
  PROVE  /\ verificationMethods'[i] = Absent
         /\ schnorrJubjubVerificationMethods'[i] = Absent
         /\ \A r \in Relation : i \notin relations'[r]
<1>1. Accept(c) /\ Len(calls[c].todo) = 1
  BY OkIsAccepted
<1>2. /\ calls[c].todo \in Seq(AnyCall)
       /\ Head(calls[c].todo) = FinalCall(calls[c].op)
  BY <1>1 DEF ApiInv, ApiTypeOK, RemovalComesLast, Ended
<1> DEFINE sig == Signature(controllerPublicKey,
                            Digest(calls[c].signed, FinalCall(calls[c].op)))
<1>3. Circuit(FinalCall(calls[c].op), sig, calls[c].signed)
  BY <1>1, <1>2 DEF Accept, Run
<1> HIDE DEF sig
<1>4. \/ RemoveVerificationMethod(i, sig, calls[c].signed)
       \/ RemoveSchnorrJubjubVerificationMethod(i, sig, calls[c].signed)
  <2>1. FinalCall(calls[c].op) \in {<<"removeVerificationMethod", i>>,
                                     <<"removeSchnorrJubjubVM", i>>}
    <3>1. CASE calls[c].op = <<"removeVerificationMethod", i>>
      BY <3>1 DEF FinalCall
    <3>2. CASE calls[c].op = <<"removeSchnorrJubjubVerificationMethod", i>>
      BY <3>2 DEF FinalCall
    <3> QED
      BY <3>1, <3>2 DEF RemovalOf
  <2> DEFINE call == FinalCall(calls[c].op)
             signed == calls[c].signed
  <2> HIDE DEF call, signed
  <2>2. call \in {<<"removeVerificationMethod", i>>, <<"removeSchnorrJubjubVM", i>>}
    BY <2>1 DEF call
  <2>3. Circuit(call, sig, signed)
    BY <1>3 DEF call, signed
  <2> QED
    BY <2>2, <2>3 DEF Circuit, signed
<1>5. TypeOK /\ OneMapPerMethodId
  BY DEF ApiInv, LedgerInv, DocumentInv
<1> QED
  BY <1>4, <1>5
     DEF RemoveVerificationMethod, RemoveSchnorrJubjubVerificationMethod,
         AssertVerificationMethodIsNotReferenced, OneMapPerMethodId, TypeOK

\* A removal that returns Ok has removed, for any number of clients that
\* insert, update and relate methods at the same time.
THEOREM RemovalsRemove == ApiSpec => RemovedMeansGone
<1>1. ApiInv /\ ApiInv' /\ [ApiNext]_apiVars =>
        [\A c \in Client : \A i \in MethodId :
            /\ calls[c].op \in RemovalOf(i)
            /\ calls[c].at = "sent"
            /\ calls'[c].at = "ok"
            => /\ verificationMethods'[i] = Absent
               /\ schnorrJubjubVerificationMethods'[i] = Absent
               /\ \A r \in Relation : i \notin relations'[r]]_apiVars
  BY RemovalStep
<1> QED
  BY <1>1, ApiCorrect, PTL DEF ApiSpec, RemovedMeansGone

-----------------------------------------------------------------------------
(***************************************************************************)
(* Removals that nobody disturbs.  The invariant says what is left to do:  *)
(* the purges of exactly the relations that still hold the id, each once,  *)
(* and then the removal.  So no purge and no removal meets an assertion    *)
(* that fails, and together they leave the document without the method.    *)
(***************************************************************************)
Holding(i) == {r \in Relation : i \in relations[r]}

\* The calls of s take i out of the relations of R, each once.
Lists(s, i, R) ==
    /\ s \in Seq(PurgesOf(i))
    /\ R \subseteq Relation
    /\ \A r \in Relation :
          r \in R <=> \E n \in 1 .. Len(s) : s[n] = RelationCall(r, i, "Remove")
    /\ \A m, n \in 1 .. Len(s) : s[m] = s[n] => m = n

Stands(op) ==
    IF op[1] = "removeVerificationMethod"
    THEN verificationMethods[op[2]] # Absent
    ELSE schnorrJubjubVerificationMethods[op[2]] # Absent

\* The document without the method that op removes.
Without(op) ==
    IF op[1] = "removeVerificationMethod"
    THEN <<alsoKnownAs, [verificationMethods EXCEPT ![op[2]] = Absent],
           schnorrJubjubVerificationMethods, Purged(op[2]), services>>
    ELSE <<alsoKnownAs, verificationMethods,
           [schnorrJubjubVerificationMethods EXCEPT ![op[2]] = Absent],
           Purged(op[2]), services>>

\* A removal under way, of a method that was there, after whose snapshot only
\* its own calls have been accepted.
Undisturbed(c) ==
    /\ calls[c].at \notin Ended
    /\ calls[c].op[1] \in RemovalName
    /\ calls[c].goal # Absent
    /\ calls[c].alone = version

LeftToDo(c, op) ==
    /\ calls[c].goal = Without(op)
    /\ Stands(op)
    /\ \E s : /\ Lists(s, op[2], Holding(op[2]))
              /\ calls[c].todo = Append(s, FinalCall(op))
    /\ calls[c].at = "sent" => calls[c].signed = version

UndisturbedInv ==
    \A c \in Client : \A op \in Operation :
        Undisturbed(c) /\ calls[c].op = op => LeftToDo(c, op)

\* Lists of purges.
LEMMA PurgesDiffer ==
  ASSUME NEW i, NEW q, NEW r, RelationCall(q, i, "Remove") = RelationCall(r, i, "Remove")
  PROVE  q = r
BY DEF RelationCall

LEMMA PurgeFromLists ==
  ASSUME NEW i \in MethodId, NEW r \in Relation
  PROVE  Lists(PurgeFrom(r, i), i, Holding(i) \cap {r})
<1>1. CASE i \in relations[r]
  <2> DEFINE call == RelationCall(r, i, "Remove")
  <2>1. PurgeFrom(r, i) = <<call>> /\ Holding(i) \cap {r} = {r}
    BY <1>1 DEF PurgeFrom, Holding
  <2>2. call \in PurgesOf(i)
    BY DEF PurgesOf
  <2>3. \A q \in Relation : q = r <=> call = RelationCall(q, i, "Remove")
    BY PurgesDiffer
  <2> HIDE DEF call
  <2>4. /\ <<call>> \in Seq(PurgesOf(i))
        /\ Len(<<call>>) = 1
        /\ \A n \in 1 .. Len(<<call>>) : n = 1 /\ <<call>>[n] = call
    BY <2>2
  <2>5. Lists(<<call>>, i, {r})
    BY <2>3, <2>4 DEF Lists
  <2> QED
    BY <2>1, <2>5
<1>2. CASE i \notin relations[r]
  <2>1. PurgeFrom(r, i) = <<>> /\ Holding(i) \cap {r} = {}
    BY <1>2 DEF PurgeFrom, Holding
  <2>2. <<>> \in Seq(PurgesOf(i)) /\ 1 .. Len(<<>>) = {}
    OBVIOUS
  <2>3. Lists(<<>>, i, {})
    BY <2>2 DEF Lists
  <2> QED
    BY <2>1, <2>3
<1> QED
  BY <1>1, <1>2

LEMMA ListsConcat ==
  ASSUME NEW i, NEW s, NEW t, NEW Q, NEW R,
         Lists(s, i, Q), Lists(t, i, R), Q \cap R = {}
  PROVE  Lists(s \o t, i, Q \cup R)
<1> DEFINE u == s \o t
           k == Len(s)
           l == Len(t)
<1>1. s \in Seq(PurgesOf(i)) /\ t \in Seq(PurgesOf(i))
  BY DEF Lists
<1>2. /\ u \in Seq(PurgesOf(i))
      /\ Len(u) = k + l
      /\ \A n \in 1 .. k + l : u[n] = IF n <= k THEN s[n] ELSE t[n - k]
  BY <1>1, ConcatProperties
<1>3. k \in Nat /\ l \in Nat
  BY <1>1
<1>4. /\ \A m, n \in 1 .. k : s[m] = s[n] => m = n
      /\ \A m, n \in 1 .. l : t[m] = t[n] => m = n
      /\ \A r \in Relation : r \in Q <=> \E n \in 1 .. k : s[n] = RelationCall(r, i, "Remove")
      /\ \A r \in Relation : r \in R <=> \E n \in 1 .. l : t[n] = RelationCall(r, i, "Remove")
      /\ Q \cup R \subseteq Relation
  BY DEF Lists
<1>5. \A m \in 1 .. k : \A n \in 1 .. l : s[m] # t[n]
  <2> SUFFICES ASSUME NEW m \in 1 .. k, NEW n \in 1 .. l, s[m] = t[n] PROVE FALSE
    OBVIOUS
  <2>1. s[m] \in PurgesOf(i)
    BY <1>1
  <2>2. PICK r \in Relation : s[m] = RelationCall(r, i, "Remove")
    BY <2>1 DEF PurgesOf
  <2>3. r \in Q /\ r \in R
    BY <1>4, <2>2
  <2> QED
    BY <2>3
<1> HIDE DEF u, k, l
<1>6. \A m \in 1 .. k : m \in 1 .. k + l /\ u[m] = s[m]
  BY <1>2, <1>3
<1>7. \A n \in 1 .. l : n + k \in 1 .. k + l /\ u[n + k] = t[n]
  <2> SUFFICES ASSUME NEW n \in 1 .. l PROVE n + k \in 1 .. k + l /\ u[n + k] = t[n]
    OBVIOUS
  <2>1. n + k \in 1 .. k + l /\ ~(n + k <= k) /\ (n + k) - k = n
    BY <1>3
  <2>2. u[n + k] = t[(n + k) - k]
    BY <1>2, <2>1
  <2> QED
    BY <2>1, <2>2
<1>8. ASSUME NEW n \in 1 .. k + l, n \notin 1 .. k
      PROVE  n - k \in 1 .. l /\ (n - k) + k = n
  BY <1>3, <1>8
<1>9. ASSUME NEW r \in Relation
      PROVE  r \in Q \cup R <=> \E n \in 1 .. k + l : u[n] = RelationCall(r, i, "Remove")
  <2>1. ASSUME r \in Q PROVE \E n \in 1 .. k + l : u[n] = RelationCall(r, i, "Remove")
    BY <1>4, <1>6, <2>1
  <2>2. ASSUME r \in R PROVE \E n \in 1 .. k + l : u[n] = RelationCall(r, i, "Remove")
    BY <1>4, <1>7, <2>2
  <2>3. ASSUME NEW n \in 1 .. k + l, u[n] = RelationCall(r, i, "Remove")
        PROVE  r \in Q \cup R
    <3>1. CASE n \in 1 .. k
      BY <1>4, <1>6, <2>3, <3>1
    <3>2. CASE n \notin 1 .. k
      <4>1. n - k \in 1 .. l /\ t[n - k] = u[n]
        BY <1>7, <1>8, <3>2
      <4> QED
        BY <1>4, <2>3, <4>1
    <3> QED
      BY <3>1, <3>2
  <2> QED
    BY <2>1, <2>2, <2>3
<1>10. ASSUME NEW m \in 1 .. k + l, NEW n \in 1 .. k + l, u[m] = u[n] PROVE m = n
  <2>1. CASE m \in 1 .. k /\ n \in 1 .. k
    BY <1>4, <1>6, <1>10, <2>1
  <2>2. CASE m \notin 1 .. k /\ n \notin 1 .. k
    <3>1. /\ m - k \in 1 .. l /\ t[m - k] = u[m]
          /\ n - k \in 1 .. l /\ t[n - k] = u[n]
      BY <1>7, <1>8, <2>2
    <3>2. m - k = n - k
      BY <1>4, <1>10, <3>1
    <3> QED
      BY <1>3, <3>2
  <2>3. CASE m \in 1 .. k /\ n \notin 1 .. k
    BY <1>5, <1>6, <1>7, <1>8, <1>10, <2>3
  <2>4. CASE m \notin 1 .. k /\ n \in 1 .. k
    BY <1>5, <1>6, <1>7, <1>8, <1>10, <2>4
  <2> QED
    BY <2>1, <2>2, <2>3, <2>4
<1>11. Len(u) = k + l /\ u \in Seq(PurgesOf(i))
  BY <1>2
<1>12. Lists(u, i, Q \cup R)
  BY <1>4, <1>9, <1>10, <1>11 DEF Lists
<1> QED
  BY <1>12 DEF u

\* The list with which a removal begins.
LEMMA PurgesList ==
  ASSUME NEW i \in MethodId
  PROVE  Lists(PurgeVerificationMethodFromAllRelations(i), i, Holding(i))
<1> DEFINE L(r) == PurgeFrom(r, i)
           H(R) == Holding(i) \cap R
<1> HIDE DEF L, H
<1>1. \A r \in Relation : Lists(L(r), i, H({r}))
  BY PurgeFromLists DEF L, H
<1>2. ASSUME NEW s, NEW Q, NEW r \in Relation, r \notin Q, Lists(s, i, H(Q))
      PROVE  Lists(s \o L(r), i, H(Q \cup {r}))
  <2>1. H(Q) \cap H({r}) = {} /\ H(Q) \cup H({r}) = H(Q \cup {r})
    BY <1>2 DEF H
  <2> QED
    BY <1>1, <1>2, <2>1, ListsConcat
<1> DEFINE a == "Authentication"
           b == "AssertionMethod"
           k == "KeyAgreement"
           e == "CapabilityInvocation"
           f == "CapabilityDelegation"
<1>3. a \in Relation /\ b \in Relation /\ k \in Relation /\ e \in Relation /\ f \in Relation
  BY DEF Relation, SigningRelation
<1>4. Lists(L(a) \o L(b), i, H({a} \cup {b}))
  BY <1>1, <1>2, <1>3
<1>5. Lists((L(a) \o L(b)) \o L(k), i, H({a} \cup {b} \cup {k}))
  BY <1>2, <1>3, <1>4
<1>6. Lists(((L(a) \o L(b)) \o L(k)) \o L(e), i, H({a} \cup {b} \cup {k} \cup {e}))
  BY <1>2, <1>3, <1>5
<1>7. Lists((((L(a) \o L(b)) \o L(k)) \o L(e)) \o L(f), i,
            H({a} \cup {b} \cup {k} \cup {e} \cup {f}))
  BY <1>2, <1>3, <1>6
<1>8. H({a} \cup {b} \cup {k} \cup {e} \cup {f}) = Holding(i)
  BY DEF H, Holding, Relation, SigningRelation
<1> QED
  BY <1>7, <1>8 DEF PurgeVerificationMethodFromAllRelations, L

\* What is left of a list when its first call has been made.
LEMMA ListsTail ==
  ASSUME NEW i, NEW s, NEW R, Lists(s, i, R), s # <<>>
  PROVE  \E q \in R : /\ Head(s) = RelationCall(q, i, "Remove")
                      /\ Lists(Tail(s), i, R \ {q})
<1>1. s \in Seq(PurgesOf(i)) /\ R \subseteq Relation
  BY DEF Lists
<1> DEFINE k == Len(s)
           t == Tail(s)
<1>2. k \in Nat /\ k # 0
  BY <1>1, EmptySeq
<1>3. /\ t \in Seq(PurgesOf(i))
      /\ Len(t) = k - 1
      /\ \A n \in 1 .. Len(t) : t[n] = s[n + 1]
      /\ Head(s) = s[1]
  BY <1>1, HeadTailProperties
<1>4. 1 \in 1 .. k
  BY <1>2
<1>5. s[1] \in PurgesOf(i)
  BY <1>1, <1>4
<1>6. PICK q \in Relation : s[1] = RelationCall(q, i, "Remove")
  BY <1>5 DEF PurgesOf
<1>7. q \in R
  BY <1>4, <1>6 DEF Lists
<1>8. \A n \in 1 .. Len(t) : n + 1 \in 1 .. k /\ n + 1 # 1
  BY <1>2, <1>3
<1>9. \A m \in 1 .. k : m # 1 => m - 1 \in 1 .. Len(t) /\ (m - 1) + 1 = m
  BY <1>2, <1>3
<1>10. /\ \A m, n \in 1 .. k : s[m] = s[n] => m = n
       /\ \A r \in Relation : r \in R <=> \E n \in 1 .. k : s[n] = RelationCall(r, i, "Remove")
  BY DEF Lists
<1> HIDE DEF k, t
<1>11. ASSUME NEW r \in Relation
       PROVE  r \in R \ {q} <=> \E n \in 1 .. Len(t) : t[n] = RelationCall(r, i, "Remove")
  <2>1. ASSUME r \in R, r # q PROVE \E n \in 1 .. Len(t) : t[n] = RelationCall(r, i, "Remove")
    <3>1. PICK m \in 1 .. k : s[m] = RelationCall(r, i, "Remove")
      BY <1>10, <2>1
    <3>2. m # 1
      BY <1>6, <2>1, <3>1, PurgesDiffer
    <3>3. m - 1 \in 1 .. Len(t) /\ t[m - 1] = s[m]
      BY <1>3, <1>9, <3>2
    <3> QED
      BY <3>1, <3>3
  <2>2. ASSUME NEW n \in 1 .. Len(t), t[n] = RelationCall(r, i, "Remove")
        PROVE  r \in R /\ r # q
    <3>1. n + 1 \in 1 .. k /\ n + 1 # 1 /\ s[n + 1] = RelationCall(r, i, "Remove")
      BY <1>3, <1>8, <2>2
    <3> QED
      BY <1>4, <1>6, <1>10, <3>1
  <2> QED
    BY <2>1, <2>2
<1>12. ASSUME NEW m \in 1 .. Len(t), NEW n \in 1 .. Len(t), t[m] = t[n] PROVE m = n
  <2>1. m + 1 = n + 1
    BY <1>3, <1>8, <1>10, <1>12
  <2>2. m \in Int /\ n \in Int
    BY <1>12
  <2> QED
    BY <2>1, <2>2
<1>13. Lists(t, i, R \ {q})
  BY <1>1, <1>3, <1>11, <1>12 DEF Lists
<1> QED
  BY <1>3, <1>6, <1>7, <1>13 DEF t

\* A removal begins with this list, and with what it leads to for a goal.
LEMMA RemovalBegins ==
  ASSUME NEW c \in Client, NEW op \in Operation, op[1] \in RemovalName, ApiCall(c, op)
  PROVE  /\ op[2] \in MethodId
         /\ calls' = [calls EXCEPT ![c] =
               Begun(op,
                     Append(PurgeVerificationMethodFromAllRelations(op[2]), FinalCall(op)),
                     IF Stands(op) THEN Without(op) ELSE Absent)]
<1>1. op[2] \in MethodId /\ op = <<op[1], op[2]>>
  BY OperationAssumption DEF AnyOperation, RemovalName
<1>2. CASE op[1] = "removeVerificationMethod"
  <2>1. FinalCall(op) = <<"removeVerificationMethod", op[2]>>
    BY <1>1, <1>2 DEF FinalCall
  <2>2. ApiRemoveVerificationMethod(c, op, op[2])
    BY <1>2 DEF ApiCall
  <2> QED
    BY <1>1, <1>2, <2>1, <2>2
       DEF ApiRemoveVerificationMethod, Begin, Begun, Stands, Without
<1>3. CASE op[1] = "removeSchnorrJubjubVerificationMethod"
  <2>1. FinalCall(op) = <<"removeSchnorrJubjubVM", op[2]>>
    BY <1>3 DEF FinalCall
  <2>2. ApiRemoveSchnorrJubjubVerificationMethod(c, op, op[2])
    BY <1>3 DEF ApiCall
  <2> QED
    BY <1>1, <1>3, <2>1, <2>2
       DEF ApiRemoveSchnorrJubjubVerificationMethod, Begin, Begun, Stands, Without
<1> QED
  BY <1>1, <1>2, <1>3 DEF RemovalName

\* What the document says of a removal changes only with the document.
LEMMA DocumentFrame ==
  ASSUME NEW op, UNCHANGED ledger
  PROVE  /\ Without(op)' = Without(op)
         /\ Stands(op)' <=> Stands(op)
         /\ Holding(op[2])' = Holding(op[2])
         /\ version' = version
BY DEF Without, Stands, Holding, Purged, ledger, document, counters

\* A step of one client's leaves the others undisturbed only if it leaves the
\* ledger alone.
LEMMA UndisturbedFrame ==
  ASSUME ApiInv, UndisturbedInv, NEW c \in Client,
         \E r : calls' = [calls EXCEPT ![c] = r],
         UNCHANGED ledger \/ version' > version,
         \A op \in Operation : Undisturbed(c)' /\ calls'[c].op = op => LeftToDo(c, op)'
  PROVE  UndisturbedInv'
<1>1. DOMAIN calls = Client
  BY DEF ApiInv, Fields
<1>2. \A d \in Client \ {c} : calls'[d] = calls[d]
  BY <1>1
<1>3. ASSUME NEW d \in Client, NEW op \in Operation, d # c, Undisturbed(d)',
             calls'[d].op = op
      PROVE  LeftToDo(d, op)'
  <2>1. calls'[d] = calls[d] /\ calls[d].alone = version' /\ calls[d].at \notin Ended
    BY <1>2, <1>3 DEF Undisturbed
  <2>2. calls[d].alone \in 0 .. version /\ version \in Nat
    BY <2>1 DEF ApiInv, ApiTypeOK, TypeOK
  <2>3. ~(version' > version)
    BY <2>1, <2>2
  <2>4. UNCHANGED ledger
    BY <2>3
  <2>5. Undisturbed(d) /\ calls[d].op = op
    BY <1>3, <2>1, <2>4 DEF Undisturbed, ledger, counters
  <2>6. LeftToDo(d, op)
    BY <2>5 DEF UndisturbedInv
  <2> QED
    BY <2>1, <2>4, <2>6, DocumentFrame DEF LeftToDo
<1> QED
  BY <1>3 DEF UndisturbedInv

\* A purge that is accepted takes one relation off the list and leaves the
\* goal where it was.
LEMMA PurgeStep ==
  ASSUME ApiInv, NEW c \in Client, NEW op \in Operation, calls[c].op = op, Accept(c),
         Undisturbed(c), LeftToDo(c, op), Len(calls[c].todo) # 1
  PROVE  /\ Without(op)' = Without(op)
         /\ Stands(op)'
         /\ \E s : /\ Lists(s, op[2], Holding(op[2])')
                   /\ Tail(calls[c].todo) = Append(s, FinalCall(op))
<1> DEFINE todo == calls[c].todo
           i    == op[2]
           sig  == Signature(controllerPublicKey, Digest(calls[c].signed, Head(todo)))
<1>1. op[1] \in RemovalName /\ i \in MethodId
  <2>1. op[1] \in RemovalName
    BY DEF Undisturbed
  <2> QED
    BY <2>1, OperationAssumption DEF AnyOperation, RemovalName
<1>2. PICK s : Lists(s, i, Holding(i)) /\ todo = Append(s, FinalCall(op))
  BY DEF LeftToDo
<1>3. s \in Seq(PurgesOf(i))
  BY <1>2 DEF Lists
<1>4. /\ Head(todo) = IF s = <<>> THEN FinalCall(op) ELSE Head(s)
      /\ Tail(todo) = IF s = <<>> THEN <<>> ELSE Append(Tail(s), FinalCall(op))
  BY <1>2, <1>3, HeadTailAppend
<1>5. s # <<>>
  <2>1. s = <<>> => Len(todo) = 1
    BY <1>2
  <2> QED
    BY <2>1
<1>6. PICK q \in Holding(i) : /\ Head(s) = RelationCall(q, i, "Remove")
                              /\ Lists(Tail(s), i, Holding(i) \ {q})
  BY <1>2, <1>5, ListsTail
<1>7. Circuit(RelationCall(q, i, "Remove"), sig, calls[c].signed)
  BY <1>4, <1>5, <1>6 DEF Accept, Run
<1>8. q \in Relation /\ i \in relations[q]
  BY <1>6 DEF Holding
<1> HIDE DEF sig
<1>9. SetVerificationMethodRelation(q, i, "Remove", sig, calls[c].signed)
  BY <1>7 DEF Circuit, RelationCall
<1>10. /\ relations' = [relations EXCEPT ![q] = @ \ {i}]
       /\ UNCHANGED <<alsoKnownAs, verificationMethods,
                      schnorrJubjubVerificationMethods, services>>
  BY <1>9 DEF SetVerificationMethodRelation, RemoveVerificationMethodRelationFromLedger
<1>11. DOMAIN relations = Relation
  BY DEF ApiInv, LedgerInv, TypeOK
<1>12. Holding(i)' = Holding(i) \ {q} /\ Purged(i)' = Purged(i)
  BY <1>8, <1>10, <1>11 DEF Holding, Purged
<1>13. Without(op)' = Without(op) /\ Stands(op)'
  BY <1>10, <1>12 DEF Without, Stands, LeftToDo
<1> QED
  BY <1>4, <1>5, <1>6, <1>12, <1>13

LEMMA NextUndisturbed ==
  ASSUME ApiInv, UndisturbedInv, [ApiNext]_apiVars
  PROVE  UndisturbedInv'
<1>0. DOMAIN calls = Client /\ version \in Nat
  BY DEF ApiInv, Fields, ApiTypeOK, TypeOK
<1>b. ASSUME NEW c \in Client, NEW op, NEW outcome \in Ended,
             calls' = [calls EXCEPT ![c] = Over(c, op, outcome)],
             UNCHANGED ledger \/ version' > version
      PROVE  UndisturbedInv'
  <2>1. calls'[c].at \in Ended
    BY <1>0, <1>b DEF Over
  <2>2. ~Undisturbed(c)'
    BY <2>1 DEF Undisturbed
  <2>3. \E r : calls' = [calls EXCEPT ![c] = r]
    BY <1>b
  <2> QED
    BY <1>b, <2>2, <2>3, UndisturbedFrame
<1>c. ASSUME NEW c \in Client, calls[c].at = "sent", Run(c)
      PROVE  version' > version /\ version' = version + 1
  BY <1>0, <1>c, RunStep
<1>d. {"ok", "refused", "rejected", "lost"} \subseteq Ended
  BY DEF Ended
<1>1. ASSUME NEW c \in Client, NEW op \in Operation, ApiCall(c, op) PROVE UndisturbedInv'
  <2>1. /\ UNCHANGED ledger
        /\ \/ \E todo : \E goal : calls' = [calls EXCEPT ![c] = Begun(op, todo, goal)]
           \/ \E outcome \in {"ok", "refused"} :
                 calls' = [calls EXCEPT ![c] = Over(c, op, outcome)]
    BY <1>1, ApiCallStep
  <2>2. CASE op[1] \in RemovalName
    <3> DEFINE goal == IF Stands(op) THEN Without(op) ELSE Absent
               s    == PurgeVerificationMethodFromAllRelations(op[2])
               r    == Begun(op, Append(s, FinalCall(op)), goal)
    <3>1. op[2] \in MethodId /\ calls' = [calls EXCEPT ![c] = r]
      BY <1>1, <2>2, RemovalBegins
    <3>2. /\ r.at = "submit" /\ r.op = op /\ r.goal = goal
          /\ r.todo = Append(s, FinalCall(op))
      BY DEF Begun
    <3>3. Lists(s, op[2], Holding(op[2]))
      BY <3>1, PurgesList
    <3> HIDE DEF r, s
    <3>4. calls'[c] = r /\ \E t : calls' = [calls EXCEPT ![c] = t]
      BY <1>0, <3>1
    <3>5. ASSUME Undisturbed(c)' PROVE LeftToDo(c, op)'
      <4>1. calls'[c].goal # Absent
        BY <3>5 DEF Undisturbed
      <4>2. Stands(op) /\ goal = Without(op)
        BY <3>2, <3>4, <4>1
      <4> QED
        BY <2>1, <3>2, <3>3, <3>4, <4>2, DocumentFrame DEF LeftToDo
    <3> QED
      BY <2>1, <3>2, <3>4, <3>5, UndisturbedFrame
  <2>3. ASSUME NEW todo, NEW goal, op[1] \notin RemovalName,
               calls' = [calls EXCEPT ![c] = Begun(op, todo, goal)]
        PROVE  UndisturbedInv'
    <3>1. calls'[c].op = op /\ \E r : calls' = [calls EXCEPT ![c] = r]
      BY <1>0, <2>3 DEF Begun
    <3>2. ~Undisturbed(c)'
      BY <2>3, <3>1 DEF Undisturbed
    <3> QED
      BY <2>1, <3>1, <3>2, UndisturbedFrame
  <2> QED
    BY <1>b, <1>d, <2>1, <2>2, <2>3
<1>2. ASSUME NEW c \in Client, Submit(c) PROVE UndisturbedInv'
  <2> DEFINE r == [at |-> "sent", op |-> calls[c].op, todo |-> calls[c].todo,
                   signed |-> version, alone |-> calls[c].alone, goal |-> calls[c].goal]
  <2>1. calls' = [calls EXCEPT ![c] = r] /\ UNCHANGED ledger /\ calls[c].at \notin Ended
    BY <1>0, <1>2 DEF Submit, Ended
  <2>2. /\ r.op = calls[c].op /\ r.todo = calls[c].todo /\ r.alone = calls[c].alone
        /\ r.goal = calls[c].goal /\ r.signed = version
    OBVIOUS
  <2> HIDE DEF r
  <2>3. calls'[c] = r /\ \E t : calls' = [calls EXCEPT ![c] = t]
    BY <1>0, <2>1
  <2>4. ASSUME NEW op \in Operation, Undisturbed(c)', calls'[c].op = op
        PROVE  LeftToDo(c, op)'
    <3>1. Undisturbed(c) /\ calls[c].op = op
      BY <2>1, <2>2, <2>3, <2>4 DEF Undisturbed, ledger, counters
    <3>2. LeftToDo(c, op)
      BY <3>1 DEF UndisturbedInv
    <3> QED
      BY <2>1, <2>2, <2>3, <3>2, DocumentFrame DEF LeftToDo
  <2> QED
    BY <2>1, <2>3, <2>4, UndisturbedFrame
<1>3. ASSUME NEW c \in Client, Accept(c) PROVE UndisturbedInv'
  <2>1. version' > version /\ version' = version + 1
    BY <1>c, <1>3 DEF Accept
  <2>2. CASE Len(calls[c].todo) = 1
    <3>1. calls' = [calls EXCEPT ![c] = Over(c, calls[c].op, "ok")]
      BY <1>0, <1>3, <2>2 DEF Accept
    <3> QED
      BY <1>b, <1>d, <2>1, <3>1
  <2>3. CASE Len(calls[c].todo) # 1
    <3> DEFINE r == [at |-> "submit", op |-> calls[c].op, todo |-> Tail(calls[c].todo),
                     signed |-> 0, alone |-> calls[c].alone + 1, goal |-> calls[c].goal]
    <3>1. calls' = [calls EXCEPT ![c] = r]
      BY <1>0, <1>3, <2>3 DEF Accept
    <3>2. /\ r.at = "submit" /\ r.op = calls[c].op /\ r.todo = Tail(calls[c].todo)
          /\ r.alone = calls[c].alone + 1 /\ r.goal = calls[c].goal
      OBVIOUS
    <3> HIDE DEF r
    <3>3. calls'[c] = r /\ \E t : calls' = [calls EXCEPT ![c] = t]
      BY <1>0, <3>1
    <3>4. calls[c].at \notin Ended
      BY <1>3 DEF Accept, Ended
    <3>5. calls[c].alone \in 0 .. version
      BY <3>4 DEF ApiInv, ApiTypeOK
    <3>6. ASSUME NEW op \in Operation, Undisturbed(c)', calls'[c].op = op
          PROVE  LeftToDo(c, op)'
      <4>1. calls[c].alone + 1 = version + 1
        BY <2>1, <3>2, <3>3, <3>6 DEF Undisturbed
      <4>2. calls[c].alone = version
        BY <1>0, <3>5, <4>1
      <4>3. Undisturbed(c) /\ calls[c].op = op
        BY <3>2, <3>3, <3>4, <3>6, <4>2 DEF Undisturbed
      <4>4. LeftToDo(c, op)
        BY <4>3 DEF UndisturbedInv
      <4>5. /\ Without(op)' = Without(op)
            /\ Stands(op)'
            /\ \E s : /\ Lists(s, op[2], Holding(op[2])')
                      /\ Tail(calls[c].todo) = Append(s, FinalCall(op))
        BY <1>3, <2>3, <4>3, <4>4, PurgeStep
      <4> QED
        BY <3>2, <3>3, <4>4, <4>5 DEF LeftToDo
    <3> QED
      BY <2>1, <3>3, <3>6, UndisturbedFrame
  <2> QED
    BY <2>2, <2>3
<1>4. ASSUME NEW c \in Client, FailToConvert(c) \/ Reject(c) \/ LoseCall(c)
      PROVE  UndisturbedInv'
  <2>1. \E outcome \in {"refused", "rejected", "lost"} :
            calls' = [calls EXCEPT ![c] = Over(c, calls[c].op, outcome)]
    BY <1>4, <1>0 DEF FailToConvert, Reject, LoseCall
  <2>2. UNCHANGED ledger
    BY <1>4 DEF FailToConvert, Reject, LoseCall
  <2> QED
    BY <1>b, <1>d, <2>1, <2>2
<1>5. ASSUME NEW c \in Client, LoseAnswer(c) PROVE UndisturbedInv'
  <2>1. version' > version
    BY <1>c, <1>5 DEF LoseAnswer
  <2>2. calls' = [calls EXCEPT ![c] = Over(c, calls[c].op, "lost")]
    BY <1>0, <1>5 DEF LoseAnswer
  <2> QED
    BY <1>b, <1>d, <2>1, <2>2
<1>6. ASSUME UNCHANGED apiVars PROVE UndisturbedInv'
  <2>1. UNCHANGED ledger /\ UNCHANGED calls
    BY <1>6 DEF apiVars
  <2> QED
    BY <2>1, DocumentFrame DEF UndisturbedInv, Undisturbed, LeftToDo
<1> QED
  BY <1>1, <1>2, <1>3, <1>4, <1>5, <1>6 DEF ApiNext

LEMMA InitUndisturbed == ApiInit => UndisturbedInv
BY DEF ApiInit, Over, Ended, UndisturbedInv, Undisturbed

\* What an undisturbed removal has left to do is what the ledger still holds.
THEOREM UndisturbedCorrect == ApiSpec => [](ApiInv /\ UndisturbedInv)
BY InitApiInv, NextApiInv, InitUndisturbed, NextUndisturbed, PTL DEF ApiSpec

\* What the circuit of a client's next call asserts, for calls of removals and
\* of patches.
Admitted(c) ==
    LET call   == Head(calls[c].todo)
        digest == Digest(calls[c].signed, call)
    IN  /\ AssertControllerCanUpdate(Signature(controllerPublicKey, digest),
                                     calls[c].signed, digest)
        /\ \/ /\ call[1] = "setVMRelation"
              /\ call[2][3] = "Remove"
              /\ VerificationMethodExists(call[2][2])
              /\ VerificationMethodRelationMember(call[2][1], call[2][2])
           \/ /\ call[1] = "removeVerificationMethod"
              /\ verificationMethods[call[2]] # Absent
              /\ AssertVerificationMethodIsNotReferenced(call[2])
           \/ /\ call[1] = "removeSchnorrJubjubVM"
              /\ schnorrJubjubVerificationMethods[call[2]] # Absent
              /\ AssertVerificationMethodIsNotReferenced(call[2])
           \/ /\ call[1] = "setAlsoKnownAs"
              /\ \/ call[2][2] = "Insert" /\ call[2][1] \notin alsoKnownAs
                 \/ call[2][2] = "Remove" /\ call[2][1] \in alsoKnownAs
           \/ /\ call[1] = "setService"
              /\ \/ call[2][3] = "Insert" /\ services[call[2][1]] = Absent
                 \/ call[2][3] = "Update" /\ services[call[2][1]] # Absent
           \/ /\ call[1] = "removeService"
              /\ services[call[2]] # Absent

\* What the circuit then writes.
Writes(call) ==
    /\ RecordUpdate
    /\ relations' = IF call[1] = "setVMRelation"
                    THEN [relations EXCEPT ![call[2][1]] = @ \ {call[2][2]}]
                    ELSE relations
    /\ verificationMethods' = IF call[1] = "removeVerificationMethod"
                              THEN [verificationMethods EXCEPT ![call[2]] = Absent]
                              ELSE verificationMethods
    /\ schnorrJubjubVerificationMethods' =
          IF call[1] = "removeSchnorrJubjubVM"
          THEN [schnorrJubjubVerificationMethods EXCEPT ![call[2]] = Absent]
          ELSE schnorrJubjubVerificationMethods
    /\ alsoKnownAs' = IF call[1] # "setAlsoKnownAs" THEN alsoKnownAs
                      ELSE IF call[2][2] = "Insert" THEN alsoKnownAs \cup {call[2][1]}
                      ELSE alsoKnownAs \ {call[2][1]}
    /\ services' = IF call[1] = "setService"
                   THEN [services EXCEPT ![call[2][1]] = call[2][2]]
                   ELSE IF call[1] = "removeService"
                   THEN [services EXCEPT ![call[2]] = Absent]
                   ELSE services
    /\ UNCHANGED <<controllerPublicKey, identity, status>>

\* Nothing but these assertions stands between the call and its effect.
LEMMA AdmittedRuns ==
  ASSUME NEW c \in Client, Head(calls[c].todo) \in AnyCall, Admitted(c),
         Writes(Head(calls[c].todo))
  PROVE  Run(c)
<1> DEFINE call == Head(calls[c].todo)
           v    == calls[c].signed
           sig  == Signature(controllerPublicKey, Digest(v, call))
<1>1. /\ AssertControllerCanUpdate(sig, v, Digest(v, call))
      /\ call \in AnyCall
  BY DEF Admitted
<1>2. Digest(v, call) = ControllerAuthorizationDigest(id, v, call[1], call[2])
  BY DEF Digest
<1> HIDE DEF sig
<1>3. CASE call[1] = "setVMRelation"
  <2>1. call[2] \in AnyRelation \X MethodId \X SetMutation
    BY <1>1, <1>3 DEF AnyCall
  <2>2. SetVerificationMethodRelation(call[2][1], call[2][2], call[2][3], sig, v)
    <3>1. call[2] = <<call[2][1], call[2][2], call[2][3]>>
      BY <2>1
    <3>2. AssertControllerCanUpdate(sig, v,
             SetVerificationMethodRelationDigest(v, call[2][1], call[2][2], call[2][3]))
      BY <1>1, <1>2, <1>3, <3>1 DEF SetVerificationMethodRelationDigest
    <3>3. /\ call[2][3] = "Remove"
          /\ VerificationMethodExists(call[2][2])
          /\ VerificationMethodRelationMember(call[2][1], call[2][2])
      BY <1>3 DEF Admitted
    <3>4. call[2][1] # "Undefined"
      BY <3>3 DEF VerificationMethodRelationMember, Relation, SigningRelation
    <3>5. /\ relations' = [relations EXCEPT ![call[2][1]] = @ \ {call[2][2]}]
          /\ UNCHANGED <<verificationMethods, schnorrJubjubVerificationMethods,
                         alsoKnownAs, services>>
          /\ RecordUpdate /\ UNCHANGED <<controllerPublicKey, identity, status>>
      BY <1>3 DEF Writes
    <3>6. /\ AssertSetMutationDefined(call[2][3])
          /\ RemoveVerificationMethodRelationFromLedger(call[2][1], call[2][2])
      BY <3>3, <3>5 DEF AssertSetMutationDefined, RemoveVerificationMethodRelationFromLedger
    <3> DEFINE r == call[2][1]
               i == call[2][2]
    <3>7. SetVerificationMethodRelation(r, i, "Remove", sig, v)
      <4>1. /\ AssertControllerCanUpdate(sig, v,
                  SetVerificationMethodRelationDigest(v, r, i, "Remove"))
            /\ AssertSetMutationDefined("Remove")
            /\ VerificationMethodExists(i) /\ VerificationMethodRelationMember(r, i)
            /\ r # "Undefined" /\ RemoveVerificationMethodRelationFromLedger(r, i)
        BY <3>2, <3>3, <3>4, <3>6
      <4>2. /\ RecordUpdate
            /\ UNCHANGED <<controllerPublicKey, identity, status, alsoKnownAs,
                           verificationMethods, schnorrJubjubVerificationMethods, services>>
        BY <3>5
      <4> HIDE DEF r, i
      <4> QED
        BY <4>1, <4>2, Zenon DEF SetVerificationMethodRelation
    <3> QED
      BY <3>3, <3>7
  <2> QED
    BY <1>3, <2>2 DEF Run, Circuit, sig
<1>4. CASE call[1] = "removeVerificationMethod"
  <2>1. AssertControllerCanUpdate(sig, v, RemoveVerificationMethodDigest(v, call[2]))
    BY <1>1, <1>2, <1>4 DEF RemoveVerificationMethodDigest
  <2>2. /\ verificationMethods[call[2]] # Absent
        /\ AssertVerificationMethodIsNotReferenced(call[2])
    BY <1>4 DEF Admitted
  <2>3. /\ verificationMethods' = [verificationMethods EXCEPT ![call[2]] = Absent]
        /\ UNCHANGED <<schnorrJubjubVerificationMethods, relations, alsoKnownAs, services>>
        /\ RecordUpdate /\ UNCHANGED <<controllerPublicKey, identity, status>>
    BY <1>4 DEF Writes
  <2>4. RemoveVerificationMethod(call[2], sig, v)
    BY <2>1, <2>2, <2>3 DEF RemoveVerificationMethod
  <2> QED
    BY <1>4, <2>4 DEF Run, Circuit, sig
<1>5. CASE call[1] = "removeSchnorrJubjubVM"
  <2>1. AssertControllerCanUpdate(sig, v,
           RemoveSchnorrJubjubVerificationMethodDigest(v, call[2]))
    BY <1>1, <1>2, <1>5 DEF RemoveSchnorrJubjubVerificationMethodDigest
  <2>2. /\ schnorrJubjubVerificationMethods[call[2]] # Absent
        /\ AssertVerificationMethodIsNotReferenced(call[2])
    BY <1>5 DEF Admitted
  <2>3. /\ schnorrJubjubVerificationMethods' =
              [schnorrJubjubVerificationMethods EXCEPT ![call[2]] = Absent]
        /\ UNCHANGED <<verificationMethods, relations, alsoKnownAs, services>>
        /\ RecordUpdate /\ UNCHANGED <<controllerPublicKey, identity, status>>
    BY <1>5 DEF Writes
  <2>4. RemoveSchnorrJubjubVerificationMethod(call[2], sig, v)
    BY <2>1, <2>2, <2>3 DEF RemoveSchnorrJubjubVerificationMethod
  <2> QED
    BY <1>5, <2>4 DEF Run, Circuit, sig
<1>6. CASE call[1] = "setAlsoKnownAs"
  <2>1. call[2] \in Alias \X SetMutation
    BY <1>1, <1>6 DEF AnyCall
  <2>2. SetAlsoKnownAs(call[2][1], call[2][2], sig, v)
    <3>1. call[2] = <<call[2][1], call[2][2]>>
      BY <2>1
    <3>2. AssertControllerCanUpdate(sig, v, SetAlsoKnownAsDigest(v, call[2][1], call[2][2]))
      BY <1>1, <1>2, <1>6, <3>1 DEF SetAlsoKnownAsDigest
    <3>3. \/ call[2][2] = "Insert" /\ call[2][1] \notin alsoKnownAs
          \/ call[2][2] = "Remove" /\ call[2][1] \in alsoKnownAs
      BY <1>6 DEF Admitted
    <3>4. /\ alsoKnownAs' = IF call[2][2] = "Insert" THEN alsoKnownAs \cup {call[2][1]}
                            ELSE alsoKnownAs \ {call[2][1]}
          /\ UNCHANGED <<verificationMethods, schnorrJubjubVerificationMethods,
                         relations, services>>
          /\ RecordUpdate /\ UNCHANGED <<controllerPublicKey, identity, status>>
      BY <1>6 DEF Writes
    <3> QED
      BY <3>2, <3>3, <3>4 DEF SetAlsoKnownAs, AssertSetMutationDefined
  <2> QED
    BY <1>6, <2>2 DEF Run, Circuit, sig
<1>7. CASE call[1] = "setService"
  <2>1. call[2] \in ServiceId \X ServiceBody \X MapMutation
    BY <1>1, <1>7 DEF AnyCall
  <2>2. SetService(call[2][1], call[2][2], call[2][3], sig, v)
    <3>1. call[2] = <<call[2][1], call[2][2], call[2][3]>>
      BY <2>1
    <3>2. AssertControllerCanUpdate(sig, v,
             SetServiceDigest(v, call[2][1], call[2][2], call[2][3]))
      BY <1>1, <1>2, <1>7, <3>1 DEF SetServiceDigest
    <3>3. \/ call[2][3] = "Insert" /\ services[call[2][1]] = Absent
          \/ call[2][3] = "Update" /\ services[call[2][1]] # Absent
      BY <1>7 DEF Admitted
    <3>4. /\ services' = [services EXCEPT ![call[2][1]] = call[2][2]]
          /\ UNCHANGED <<verificationMethods, schnorrJubjubVerificationMethods,
                         relations, alsoKnownAs>>
          /\ RecordUpdate /\ UNCHANGED <<controllerPublicKey, identity, status>>
      BY <1>7 DEF Writes
    <3> QED
      BY <3>2, <3>3, <3>4 DEF SetService, AssertMapMutationDefined
  <2> QED
    BY <1>7, <2>2 DEF Run, Circuit, sig
<1>8. CASE call[1] = "removeService"
  <2>1. AssertControllerCanUpdate(sig, v, RemoveServiceDigest(v, call[2]))
    BY <1>1, <1>2, <1>8 DEF RemoveServiceDigest
  <2>2. services[call[2]] # Absent
    BY <1>8 DEF Admitted
  <2>3. /\ services' = [services EXCEPT ![call[2]] = Absent]
        /\ UNCHANGED <<verificationMethods, schnorrJubjubVerificationMethods,
                       relations, alsoKnownAs>>
        /\ RecordUpdate /\ UNCHANGED <<controllerPublicKey, identity, status>>
    BY <1>8 DEF Writes
  <2>4. RemoveService(call[2], sig, v)
    BY <2>1, <2>2, <2>3 DEF RemoveService
  <2> QED
    BY <1>8, <2>4 DEF Run, Circuit, sig
<1> QED
  BY <1>3, <1>4, <1>5, <1>6, <1>7, <1>8 DEF Admitted

LEMMA UndisturbedAdmitted ==
  ASSUME ApiInv, UndisturbedInv, NEW c \in Client,
         Undisturbed(c), calls[c].at = "sent", active
  PROVE  Admitted(c)
<1>1. calls[c].op \in Operation
  BY DEF ApiInv, ApiTypeOK, Ended
<1> SUFFICES ASSUME NEW op \in Operation, calls[c].op = op PROVE Admitted(c)
  BY <1>1
<1> DEFINE call   == Head(calls[c].todo)
           digest == Digest(calls[c].signed, call)
           i      == op[2]
<1>2. LeftToDo(c, op) /\ op[1] \in RemovalName
  BY DEF UndisturbedInv, Undisturbed
<1>3. i \in MethodId
  BY <1>2, OperationAssumption DEF AnyOperation, RemovalName
<1>4. AssertControllerCanUpdate(Signature(controllerPublicKey, digest),
                                calls[c].signed, digest)
  BY <1>2 DEF LeftToDo, AssertControllerCanUpdate, AssertController, SchnorrVerifyDigest
<1>5. PICK s : Lists(s, i, Holding(i)) /\ calls[c].todo = Append(s, FinalCall(op))
  BY <1>2 DEF LeftToDo
<1>6. s \in Seq(PurgesOf(i))
  BY <1>5 DEF Lists
<1>7. call = IF s = <<>> THEN FinalCall(op) ELSE Head(s)
  BY <1>5, <1>6, HeadTailAppend
<1> HIDE DEF call, digest
<1>8. CASE s # <<>>
  <2>0. PICK q \in Holding(i) : Head(s) = RelationCall(q, i, "Remove")
    <3>1. Lists(s, i, Holding(i))
      BY <1>5
    <3> HIDE DEF i
    <3> QED
      BY <1>8, <3>1, ListsTail
  <2>1. call = RelationCall(q, i, "Remove")
    BY <1>7, <1>8, <2>0
  <2>2. /\ call[1] = "setVMRelation" /\ call[2][1] = q
        /\ call[2][2] = i /\ call[2][3] = "Remove"
    BY <2>1 DEF RelationCall
  <2>3. VerificationMethodExists(i) /\ VerificationMethodRelationMember(q, i)
    BY <1>2 DEF LeftToDo, Stands, VerificationMethodExists,
                VerificationMethodRelationMember, Holding
  <2> QED
    BY <1>4, <2>2, <2>3 DEF Admitted, call, digest
<1>9. CASE s = <<>>
  <2>1. AssertVerificationMethodIsNotReferenced(i)
    <3>1. ASSUME NEW r \in Relation, i \in relations[r] PROVE FALSE
      <4>1. r \in Holding(i)
        BY <3>1 DEF Holding
      <4>2. \E n \in 1 .. Len(s) : s[n] = RelationCall(r, i, "Remove")
        BY <1>5, <4>1 DEF Lists
      <4> QED
        BY <1>9, <4>2
    <3> QED
      BY <3>1 DEF AssertVerificationMethodIsNotReferenced
  <2>2. CASE op[1] = "removeVerificationMethod"
    <3>1. call[1] = "removeVerificationMethod" /\ call[2] = i
      BY <1>7, <1>9, <2>2 DEF FinalCall
    <3> QED
      BY <1>2, <1>4, <2>1, <2>2, <3>1 DEF Admitted, LeftToDo, Stands, call, digest
  <2>3. CASE op[1] = "removeSchnorrJubjubVerificationMethod"
    <3>1. call[1] = "removeSchnorrJubjubVM" /\ call[2] = i
      BY <1>7, <1>9, <2>3 DEF FinalCall
    <3> QED
      BY <1>2, <1>4, <2>1, <2>3, <3>1 DEF Admitted, LeftToDo, Stands, call, digest
  <2> QED
    BY <1>2, <2>2, <2>3 DEF RemovalName
<1> QED
  BY <1>8, <1>9

LEMMA UndisturbedEnds ==
  ASSUME ApiInv, UndisturbedInv, [ApiNext]_apiVars, NEW c \in Client,
         Undisturbed(c), calls[c].at = "sent", calls'[c].at = "ok"
  PROVE  document' = calls[c].goal
<1>1. calls[c].op \in Operation
  BY DEF ApiInv, ApiTypeOK, Ended
<1> SUFFICES ASSUME NEW op \in Operation, calls[c].op = op
             PROVE  document' = calls[c].goal
  BY <1>1
<1> DEFINE i   == op[2]
           sig == Signature(controllerPublicKey, Digest(calls[c].signed, FinalCall(op)))
<1>2. LeftToDo(c, op) /\ op[1] \in RemovalName
  BY DEF UndisturbedInv, Undisturbed
<1>3. i \in MethodId /\ op = <<op[1], i>>
  BY <1>2, OperationAssumption DEF AnyOperation, RemovalName
<1>4. Accept(c) /\ Len(calls[c].todo) = 1
  BY OkIsAccepted
<1>5. Head(calls[c].todo) = FinalCall(op)
  <2>1. PICK s : s \in Seq(PurgesOf(i)) /\ calls[c].todo = Append(s, FinalCall(op))
    BY <1>2 DEF LeftToDo, Lists
  <2>2. s = <<>>
    <3>1. Len(Append(s, FinalCall(op))) = Len(s) + 1 /\ Len(s) \in Nat
      BY <2>1
    <3>2. Len(Append(s, FinalCall(op))) = 1
      BY <1>4, <2>1, Zenon
    <3>3. Len(s) = 0
      BY <3>1, <3>2
    <3> QED
      BY <2>1, <3>3, EmptySeq
  <2> QED
    BY <2>1, <2>2, HeadTailAppend
<1>6. Circuit(FinalCall(op), sig, calls[c].signed)
  BY <1>4, <1>5 DEF Accept, Run
<1> HIDE DEF sig
<1>7. ASSUME AssertVerificationMethodIsNotReferenced(i) PROVE Purged(i) = relations
  BY <1>7 DEF AssertVerificationMethodIsNotReferenced, Purged, ApiInv, LedgerInv, TypeOK
<1>8. CASE op[1] = "removeVerificationMethod"
  <2>1. FinalCall(op) = <<"removeVerificationMethod", i>>
    BY <1>3, <1>8 DEF FinalCall
  <2>2. RemoveVerificationMethod(i, sig, calls[c].signed)
    BY <1>6, <2>1 DEF Circuit
  <2> QED
    BY <1>2, <1>7, <1>8, <2>2 DEF RemoveVerificationMethod, LeftToDo, Without, document
<1>9. CASE op[1] = "removeSchnorrJubjubVerificationMethod"
  <2>1. FinalCall(op) = <<"removeSchnorrJubjubVM", i>>
    BY <1>9 DEF FinalCall
  <2>2. RemoveSchnorrJubjubVerificationMethod(i, sig, calls[c].signed)
    BY <1>6, <2>1 DEF Circuit
  <2> QED
    BY <1>2, <1>7, <1>9, <2>2
       DEF RemoveSchnorrJubjubVerificationMethod, LeftToDo, Without, document
<1> QED
  BY <1>2, <1>8, <1>9 DEF RemovalName

\* Of a removal that nobody disturbs, while the DID is active, every call meets
\* a ledger on which its circuit asserts nothing false: the signature is for the
\* present version, the reference to purge is there, the method is there, and
\* when its turn comes no reference is left.
THEOREM UndisturbedRemovalsAreAdmitted ==
  ApiSpec => [](\A c \in Client :
                   Undisturbed(c) /\ calls[c].at = "sent" /\ active => Admitted(c))
<1>1. ApiInv /\ UndisturbedInv =>
        \A c \in Client : Undisturbed(c) /\ calls[c].at = "sent" /\ active => Admitted(c)
  BY UndisturbedAdmitted
<1> QED
  BY <1>1, UndisturbedCorrect, PTL

\* A removal that nobody disturbed and that returns Ok leaves the document of
\* its snapshot without the method and its references, and otherwise as it was.
THEOREM UndisturbedRemovalsRemove ==
  ApiSpec => [][\A c \in Client :
                   Undisturbed(c) /\ calls[c].at = "sent" /\ calls'[c].at = "ok"
                   => document' = calls[c].goal]_apiVars
<1>1. ApiInv /\ UndisturbedInv /\ [ApiNext]_apiVars =>
        [\A c \in Client :
            Undisturbed(c) /\ calls[c].at = "sent" /\ calls'[c].at = "ok"
            => document' = calls[c].goal]_apiVars
  BY UndisturbedEnds
<1> QED
  BY <1>1, UndisturbedCorrect, PTL DEF ApiSpec

-----------------------------------------------------------------------------
\* Numbers: there is a least one, and of those up to some bound a greatest.
LEMMA LeastExists ==
  ASSUME NEW T, T \subseteq Nat, T # {}
  PROVE  \E x \in T : \A y \in T : x <= y
<1> DEFINE R == OpToRel(<, Nat)
<1>0. IsWellFoundedOn(R, Nat)
  BY NatLessThanWellFounded
<1>1. \A x, y \in Nat : ~ (<<y, x>> \in R) => x <= y
  BY DEF OpToRel
<1> HIDE DEF R
<1>2. PICK x \in T : \A y \in T : ~ (<<y, x>> \in R)
  BY <1>0, WFMin
<1>3. \A y \in T : x <= y
  BY <1>1, <1>2
<1> QED
  BY <1>3

LEMMA GreatestIs ==
  ASSUME NEW k \in Nat, NEW T, T \subseteq 1 .. k, T # {}
  PROVE  Max(T) \in T /\ \A y \in T : Max(T) >= y
<1> DEFINE S == {k - n : n \in T}
<1>1. \A n \in T : n \in 1 .. k /\ k - n \in Nat
  OBVIOUS
<1>2. S \subseteq Nat /\ S # {}
  BY <1>1
<1>3. PICK x \in S : \A y \in S : x <= y
  <2> HIDE DEF S
  <2> QED
    BY <1>2, LeastExists
<1>4. PICK n \in T : x = k - n
  BY <1>3
<1>5. ASSUME NEW m \in T PROVE n >= m
  <2>1. k - n <= k - m
    BY <1>3, <1>4
  <2>2. n \in 1 .. k /\ m \in 1 .. k
    BY <1>1
  <2> QED
    BY <2>1, <2>2
<1>6. \E z \in T : \A y \in T : z >= y
  BY <1>5
<1> QED
  BY <1>6 DEF Max

\* The greatest of one more number.
LEMMA GreatestOf ==
  ASSUME NEW k \in Nat, NEW T, T \subseteq 1 .. k, NEW n \in T, \A y \in T : n >= y
  PROVE  Max(T) = n
<1>1. Max(T) \in T /\ Max(T) >= n
  BY GreatestIs
<1>2. n >= Max(T)
  BY <1>1
<1>3. n \in 1 .. k /\ Max(T) \in 1 .. k
  BY <1>1
<1> QED
  BY <1>1, <1>2, <1>3

-----------------------------------------------------------------------------
(***************************************************************************)
(* Patches that nobody disturbs.  The calls of a patch write cells, one    *)
(* alias or one service each.                                              *)
(***************************************************************************)
Cell == ({"alias"} \X Alias) \cup ({"service"} \X ServiceId)

PatchCall ==
    {AddAlias(a) : a \in Alias} \cup {RemoveAlias(a) : a \in Alias}
    \cup {AddService(s) : s \in ServiceId \X ServiceBody}
    \cup {UpdateService(s) : s \in ServiceId \X ServiceBody}
    \cup {DropService(i) : i \in ServiceId}

\* The cell that a call writes, what it leaves there, and whether it is for an
\* empty cell.
CellOf(call) ==
    CASE call[1] = "setAlsoKnownAs" -> <<"alias", call[2][1]>>
      [] call[1] = "setService"     -> <<"service", call[2][1]>>
      [] call[1] = "removeService"  -> <<"service", call[2]>>

LeftBy(call) ==
    CASE call[1] = "setAlsoKnownAs" ->
            IF call[2][2] = "Insert" THEN {call[2][1]} ELSE {}
      [] call[1] = "setService"     -> {call[2][2]}
      [] call[1] = "removeService"  -> {}

Adds(call) ==
    CASE call[1] = "setAlsoKnownAs" -> call[2][2] = "Insert"
      [] call[1] = "setService"     -> call[2][3] = "Insert"
      [] call[1] = "removeService"  -> FALSE

\* The cells of a document with these aliases and services.
Cells(aliases, f) ==
    [x \in Cell |-> IF x[1] = "alias" THEN {x[2]} \cap aliases ELSE {f[x[2]]} \ {Absent}]

\* The calls of s can be run one after the other, W[n] being the cells after
\* the first n of them: what they add is not there, what they change is.
Executes(s, W) ==
    /\ s \in Seq(PatchCall)
    /\ \A n \in 1 .. Len(s) :
          /\ Adds(s[n]) <=> W[n - 1][CellOf(s[n])] = {}
          /\ W[n] = [W[n - 1] EXCEPT ![CellOf(s[n])] = LeftBy(s[n])]

LEMMA AliasCalls ==
  ASSUME NEW a \in Alias
  PROVE  /\ AddAlias(a) \in PatchCall /\ CellOf(AddAlias(a)) = <<"alias", a>>
         /\ LeftBy(AddAlias(a)) = {a} /\ Adds(AddAlias(a))
         /\ RemoveAlias(a) \in PatchCall /\ CellOf(RemoveAlias(a)) = <<"alias", a>>
         /\ LeftBy(RemoveAlias(a)) = {} /\ ~ Adds(RemoveAlias(a))
         /\ <<"alias", a>> \in Cell
<1>1. AddAlias(a) \in PatchCall /\ RemoveAlias(a) \in PatchCall /\ <<"alias", a>> \in Cell
  BY DEF PatchCall, Cell
<1> QED
  BY <1>1 DEF AddAlias, RemoveAlias, CellOf, LeftBy, Adds

LEMMA ServiceCalls ==
  ASSUME NEW s \in ServiceId \X ServiceBody
  PROVE  /\ AddService(s) \in PatchCall /\ CellOf(AddService(s)) = <<"service", s[1]>>
         /\ LeftBy(AddService(s)) = {s[2]} /\ Adds(AddService(s))
         /\ UpdateService(s) \in PatchCall /\ CellOf(UpdateService(s)) = <<"service", s[1]>>
         /\ LeftBy(UpdateService(s)) = {s[2]} /\ ~ Adds(UpdateService(s))
         /\ <<"service", s[1]>> \in Cell
<1>1. /\ AddService(s) \in PatchCall /\ UpdateService(s) \in PatchCall
      /\ <<"service", s[1]>> \in Cell
  BY DEF PatchCall, Cell
<1> QED
  BY <1>1 DEF AddService, UpdateService, CellOf, LeftBy, Adds

LEMMA DropCalls ==
  ASSUME NEW i \in ServiceId
  PROVE  /\ DropService(i) \in PatchCall /\ CellOf(DropService(i)) = <<"service", i>>
         /\ LeftBy(DropService(i)) = {} /\ ~ Adds(DropService(i))
         /\ <<"service", i>> \in Cell
<1>1. DropService(i) \in PatchCall /\ <<"service", i>> \in Cell
  BY DEF PatchCall, Cell
<1> QED
  BY <1>1 DEF DropService, CellOf, LeftBy, Adds

LEMMA PatchCallCell ==
  ASSUME NEW call \in PatchCall
  PROVE  CellOf(call) \in Cell
<1>1. CASE \E a \in Alias : call = AddAlias(a) \/ call = RemoveAlias(a)
  BY <1>1, AliasCalls
<1>2. CASE \E s \in ServiceId \X ServiceBody : call = AddService(s) \/ call = UpdateService(s)
  BY <1>2, ServiceCalls
<1>3. CASE \E i \in ServiceId : call = DropService(i)
  BY <1>3, DropCalls
<1> QED
  BY <1>1, <1>2, <1>3 DEF PatchCall

\* The rest of the calls, when the first has been made.
LEMMA ExecutesTail ==
  ASSUME NEW s, NEW W, Executes(s, W), s # <<>>
  PROVE  LET V == [n \in 0 .. Len(s) - 1 |-> W[n + 1]]
         IN  /\ Executes(Tail(s), V)
             /\ Len(Tail(s)) = Len(s) - 1
             /\ V[0] = [W[0] EXCEPT ![CellOf(Head(s))] = LeftBy(Head(s))]
             /\ V[Len(s) - 1] = W[Len(s)]
             /\ Adds(Head(s)) <=> W[0][CellOf(Head(s))] = {}
             /\ Head(s) \in PatchCall
<1> DEFINE k == Len(s)
           t == Tail(s)
           V == [n \in 0 .. k - 1 |-> W[n + 1]]
<1>1. s \in Seq(PatchCall) /\ k \in Nat /\ k # 0
  BY EmptySeq DEF Executes
<1>2. /\ t \in Seq(PatchCall) /\ Len(t) = k - 1
      /\ \A n \in 1 .. Len(t) : t[n] = s[n + 1]
      /\ Head(s) = s[1]
  BY <1>1, HeadTailProperties
<1>3. \A n \in 1 .. k : /\ Adds(s[n]) <=> W[n - 1][CellOf(s[n])] = {}
                       /\ W[n] = [W[n - 1] EXCEPT ![CellOf(s[n])] = LeftBy(s[n])]
  BY DEF Executes
<1>4. 1 \in 1 .. k /\ s[1] \in PatchCall
  BY <1>1
<1> HIDE DEF k, t
<1>5. V[0] = W[1] /\ V[k - 1] = W[k]
  BY <1>1
<1>6. ASSUME NEW n \in 1 .. k - 1
      PROVE  /\ Adds(t[n]) <=> V[n - 1][CellOf(t[n])] = {}
             /\ V[n] = [V[n - 1] EXCEPT ![CellOf(t[n])] = LeftBy(t[n])]
  <2>1. n + 1 \in 1 .. k /\ (n + 1) - 1 = n /\ t[n] = s[n + 1]
    BY <1>1, <1>2
  <2>2. V[n] = W[n + 1] /\ V[n - 1] = W[n]
    BY <1>1
  <2> HIDE DEF V
  <2>3. /\ Adds(s[n + 1]) <=> W[n][CellOf(s[n + 1])] = {}
        /\ W[n + 1] = [W[n] EXCEPT ![CellOf(s[n + 1])] = LeftBy(s[n + 1])]
    BY <1>3, <2>1
  <2> QED
    BY <2>1, <2>2, <2>3
<1> HIDE DEF V
<1>7. Executes(t, V)
  BY <1>2, <1>6 DEF Executes
<1>8. W[1] = [W[0] EXCEPT ![CellOf(s[1])] = LeftBy(s[1])] /\ (Adds(s[1]) <=> W[0][CellOf(s[1])] = {})
  <2>1. 1 - 1 = 0
    OBVIOUS
  <2> QED
    BY <1>3, <1>4, <2>1
<1> QED
  BY <1>2, <1>4, <1>5, <1>7, <1>8 DEF V, k, t

\* The cells after so many calls of s: what the last that wrote one left there.
CellsAfter(s, K) ==
    [k \in 0 .. Len(s) |-> [x \in Cell |->
        LET own == {m \in 1 .. k : CellOf(s[m]) = x}
        IN  IF own = {} THEN K[x] ELSE LeftBy(s[Max(own)])]]

LEMMA CellsAfterAre ==
  ASSUME NEW s, NEW K, NEW k \in 0 .. Len(s), Len(s) \in Nat, NEW x \in Cell
  PROVE  LET W == CellsAfter(s, K)
         IN  /\ (\A m \in 1 .. k : CellOf(s[m]) # x) => W[k][x] = K[x]
             /\ \A n \in 1 .. k :
                   CellOf(s[n]) = x /\ (\A m \in 1 .. k : m > n => CellOf(s[m]) # x)
                   => W[k][x] = LeftBy(s[n])
<1> DEFINE W == CellsAfter(s, K)
           own == {m \in 1 .. k : CellOf(s[m]) = x}
<1>1. W[k][x] = IF own = {} THEN K[x] ELSE LeftBy(s[Max(own)])
  BY DEF CellsAfter
<1>2. ASSUME NEW n \in 1 .. k, CellOf(s[n]) = x,
             \A m \in 1 .. k : m > n => CellOf(s[m]) # x
      PROVE  Max(own) = n /\ own # {}
  <2>1. k \in Nat /\ own \subseteq 1 .. k /\ n \in own
    BY <1>2
  <2>2. \A m \in own : n >= m
    BY <1>2
  <2> HIDE DEF own
  <2> QED
    BY <2>1, <2>2, GreatestOf
<1>3. (\A m \in 1 .. k : CellOf(s[m]) # x) => own = {}
  OBVIOUS
<1> HIDE DEF own, W
<1> QED
  BY <1>1, <1>2, <1>3 DEF W

LEMMA CellsAfterEach ==
  ASSUME NEW s \in Seq(PatchCall), NEW K, K = [x \in Cell |-> K[x]]
  PROVE  LET W == CellsAfter(s, K)
         IN  /\ W[0] = K
             /\ \A n \in 1 .. Len(s) :
                   W[n] = [W[n - 1] EXCEPT ![CellOf(s[n])] = LeftBy(s[n])]
<1> DEFINE W == CellsAfter(s, K)
           l == Len(s)
<1>1. l \in Nat /\ \A n \in 1 .. l : CellOf(s[n]) \in Cell
  BY PatchCallCell
<1>2. \A k \in 0 .. l : W[k] = [x \in Cell |-> W[k][x]]
  BY DEF CellsAfter
<1> HIDE DEF W
<1>3. W[0] = K
  <2>1. ASSUME NEW x \in Cell PROVE W[0][x] = K[x]
    <3>1. 0 \in 0 .. l /\ \A m \in 1 .. 0 : CellOf(s[m]) # x
      BY <1>1
    <3> QED
      BY <1>1, <3>1, CellsAfterAre DEF W
  <2>2. W[0] = [x \in Cell |-> W[0][x]]
    <3>1. 0 \in 0 .. l
      BY <1>1
    <3> QED
      BY <1>2, <3>1
  <2> QED
    BY <2>1, <2>2
<1>4. ASSUME NEW n \in 1 .. l
      PROVE  W[n] = [W[n - 1] EXCEPT ![CellOf(s[n])] = LeftBy(s[n])]
  <2>1. n \in 0 .. l /\ n - 1 \in 0 .. l /\ n \in 1 .. n
        /\ (\A m \in 1 .. n - 1 : m \in 1 .. n /\ m # n)
        /\ (\A m \in 1 .. n : m # n => m \in 1 .. n - 1)
        /\ (\A m \in 1 .. n : ~ (m > n))
    BY <1>1
  <2>2. W[n][CellOf(s[n])] = LeftBy(s[n])
    BY <1>1, <2>1, CellsAfterAre DEF W
  <2>3. ASSUME NEW x \in Cell, x # CellOf(s[n]) PROVE W[n][x] = W[n - 1][x]
    <3>1. CASE \A m \in 1 .. n - 1 : CellOf(s[m]) # x
      <4>1. W[n - 1][x] = K[x]
        BY <1>1, <2>1, <3>1, CellsAfterAre DEF W
      <4>2. \A m \in 1 .. n : CellOf(s[m]) # x
        BY <2>1, <2>3, <3>1
      <4>3. W[n][x] = K[x]
        BY <1>1, <2>1, <4>2, CellsAfterAre DEF W
      <4> QED
        BY <4>1, <4>3
    <3>2. CASE ~ (\A m \in 1 .. n - 1 : CellOf(s[m]) # x)
      <4> DEFINE own == {m \in 1 .. n - 1 : CellOf(s[m]) = x}
                 j == Max(own)
      <4>1. own \subseteq 1 .. n - 1 /\ own # {} /\ n - 1 \in Nat
        BY <1>1, <3>2
      <4> HIDE DEF own
      <4>2. j \in own /\ \A m \in own : j >= m
        BY <4>1, GreatestIs
      <4> HIDE DEF j
      <4>3. j \in 1 .. n - 1 /\ CellOf(s[j]) = x
        BY <4>2 DEF own
      <4>4. \A m \in 1 .. n - 1 : m > j => CellOf(s[m]) # x
        <5> SUFFICES ASSUME NEW m \in 1 .. n - 1, m > j, CellOf(s[m]) = x PROVE FALSE
          OBVIOUS
        <5>1. j >= m
          BY <4>2 DEF own
        <5>2. j \in 1 .. n - 1
          BY <4>3
        <5> QED
          BY <5>1, <5>2
      <4>5. \A m \in 1 .. n : m > j => CellOf(s[m]) # x
        BY <2>1, <2>3, <4>4
      <4>6. j \in 1 .. n
        BY <2>1, <4>3
      <4>7. W[n - 1][x] = LeftBy(s[j])
        BY <1>1, <2>1, <4>3, <4>4, CellsAfterAre DEF W
      <4>8. W[n][x] = LeftBy(s[j])
        BY <1>1, <2>1, <4>3, <4>5, <4>6, CellsAfterAre DEF W
      <4> QED
        BY <4>7, <4>8
    <3> QED
      BY <3>1, <3>2
  <2>4. W[n] = [x \in Cell |-> W[n][x]] /\ W[n - 1] = [x \in Cell |-> W[n - 1][x]]
    BY <1>2, <2>1
  <2> QED
    BY <1>1, <2>2, <2>3, <2>4
<1> QED
  BY <1>3, <1>4 DEF W, l

LEMMA SeqOfEach ==
  ASSUME NEW S, NEW T, NEW s \in Seq(S), NEW f, f = [n \in DOMAIN s |-> f[n]],
         \A n \in DOMAIN s : f[n] \in T
  PROVE  f \in Seq(T) /\ Len(f) = Len(s)
<1>1. DOMAIN s = 1 .. Len(s) /\ Len(s) \in Nat
  OBVIOUS
<1> QED
  BY <1>1

LEMMA ConcatIs ==
  ASSUME NEW S, NEW s \in Seq(S), NEW t \in Seq(S), NEW k \in Nat, Len(s) = k
  PROVE  /\ s \o t \in Seq(S)
         /\ Len(s \o t) = k + Len(t)
         /\ Len(t) \in Nat /\ k + Len(t) \in Nat
         /\ \A n \in 1 .. k + Len(t) : (s \o t)[n] = IF n <= k THEN s[n] ELSE t[n - k]
<1> DEFINE u == s \o t
           l == Len(t)
<1>1. u \in Seq(S) /\ Len(u) = Len(s) + l /\ l \in Nat
  BY ConcatProperties, LenProperties
<1>2. \A n \in 1 .. Len(s) + l : u[n] = IF n <= Len(s) THEN s[n] ELSE t[n - Len(s)]
  BY ConcatProperties
<1>3. k + l \in Nat
  BY <1>1
<1> HIDE DEF u, l
<1>4. /\ u \in Seq(S) /\ Len(u) = k + l
      /\ \A n \in 1 .. k + l : u[n] = IF n <= k THEN s[n] ELSE t[n - k]
  BY <1>1, <1>2
<1> QED
  BY <1>1, <1>3, <1>4 DEF u, l

\* The calls of a patch, part by part.
LEMMA PatchParts ==
  ASSUME NEW p \in Patch
  PROVE  LET s == PatchCalls(p)
             a == Len(p.alsoKnownAsAdded)
             b == a + Len(p.alsoKnownAsRemoved)
             c == b + Len(p.servicesAdded)
             d == c + Len(p.servicesUpdated)
             e == d + Len(p.servicesRemoved)
         IN  /\ s \in Seq(PatchCall) /\ Len(s) = e
             /\ \A n \in 1 .. e :
                   s[n] = IF n <= a THEN AddAlias(p.alsoKnownAsAdded[n])
                          ELSE IF n <= b THEN RemoveAlias(p.alsoKnownAsRemoved[n - a])
                          ELSE IF n <= c THEN AddService(p.servicesAdded[n - b])
                          ELSE IF n <= d THEN UpdateService(p.servicesUpdated[n - c])
                          ELSE DropService(p.servicesRemoved[n - d])
<1> DEFINE A == Each(AddAlias, p.alsoKnownAsAdded)
           B == Each(RemoveAlias, p.alsoKnownAsRemoved)
           C == Each(AddService, p.servicesAdded)
           D == Each(UpdateService, p.servicesUpdated)
           E == Each(DropService, p.servicesRemoved)
<1>1. /\ A \in Seq(PatchCall) /\ Len(A) = Len(p.alsoKnownAsAdded)
      /\ \A n \in 1 .. Len(A) : A[n] = AddAlias(p.alsoKnownAsAdded[n])
  <2>1. p.alsoKnownAsAdded \in Seq(Alias)
    BY DEF Patch
  <2>2. A = [n \in DOMAIN p.alsoKnownAsAdded |-> AddAlias(p.alsoKnownAsAdded[n])]
    BY DEF Each
  <2>3. ASSUME NEW n \in DOMAIN p.alsoKnownAsAdded PROVE AddAlias(p.alsoKnownAsAdded[n]) \in PatchCall
    <3>1. p.alsoKnownAsAdded[n] \in Alias
      BY <2>1
    <3> QED
      BY <3>1, AliasCalls
  <2>4. DOMAIN p.alsoKnownAsAdded = 1 .. Len(p.alsoKnownAsAdded)
    BY <2>1
  <2> HIDE DEF A
  <2> QED
    BY <2>1, <2>2, <2>3, <2>4, SeqOfEach
<1>2. /\ B \in Seq(PatchCall) /\ Len(B) = Len(p.alsoKnownAsRemoved)
      /\ \A n \in 1 .. Len(B) : B[n] = RemoveAlias(p.alsoKnownAsRemoved[n])
  <2>1. p.alsoKnownAsRemoved \in Seq(Alias)
    BY DEF Patch
  <2>2. B = [n \in DOMAIN p.alsoKnownAsRemoved |-> RemoveAlias(p.alsoKnownAsRemoved[n])]
    BY DEF Each
  <2>3. ASSUME NEW n \in DOMAIN p.alsoKnownAsRemoved PROVE RemoveAlias(p.alsoKnownAsRemoved[n]) \in PatchCall
    <3>1. p.alsoKnownAsRemoved[n] \in Alias
      BY <2>1
    <3> QED
      BY <3>1, AliasCalls
  <2>4. DOMAIN p.alsoKnownAsRemoved = 1 .. Len(p.alsoKnownAsRemoved)
    BY <2>1
  <2> HIDE DEF B
  <2> QED
    BY <2>1, <2>2, <2>3, <2>4, SeqOfEach
<1>3. /\ C \in Seq(PatchCall) /\ Len(C) = Len(p.servicesAdded)
      /\ \A n \in 1 .. Len(C) : C[n] = AddService(p.servicesAdded[n])
  <2>1. p.servicesAdded \in Seq(ServiceId \X ServiceBody)
    BY DEF Patch
  <2>2. C = [n \in DOMAIN p.servicesAdded |-> AddService(p.servicesAdded[n])]
    BY DEF Each
  <2>3. ASSUME NEW n \in DOMAIN p.servicesAdded PROVE AddService(p.servicesAdded[n]) \in PatchCall
    <3>1. p.servicesAdded[n] \in ServiceId \X ServiceBody
      BY <2>1
    <3> QED
      BY <3>1, ServiceCalls
  <2>4. DOMAIN p.servicesAdded = 1 .. Len(p.servicesAdded)
    BY <2>1
  <2> HIDE DEF C
  <2> QED
    BY <2>1, <2>2, <2>3, <2>4, SeqOfEach
<1>4. /\ D \in Seq(PatchCall) /\ Len(D) = Len(p.servicesUpdated)
      /\ \A n \in 1 .. Len(D) : D[n] = UpdateService(p.servicesUpdated[n])
  <2>1. p.servicesUpdated \in Seq(ServiceId \X ServiceBody)
    BY DEF Patch
  <2>2. D = [n \in DOMAIN p.servicesUpdated |-> UpdateService(p.servicesUpdated[n])]
    BY DEF Each
  <2>3. ASSUME NEW n \in DOMAIN p.servicesUpdated PROVE UpdateService(p.servicesUpdated[n]) \in PatchCall
    <3>1. p.servicesUpdated[n] \in ServiceId \X ServiceBody
      BY <2>1
    <3> QED
      BY <3>1, ServiceCalls
  <2>4. DOMAIN p.servicesUpdated = 1 .. Len(p.servicesUpdated)
    BY <2>1
  <2> HIDE DEF D
  <2> QED
    BY <2>1, <2>2, <2>3, <2>4, SeqOfEach
<1>5. /\ E \in Seq(PatchCall) /\ Len(E) = Len(p.servicesRemoved)
      /\ \A n \in 1 .. Len(E) : E[n] = DropService(p.servicesRemoved[n])
  <2>1. p.servicesRemoved \in Seq(ServiceId)
    BY DEF Patch
  <2>2. E = [n \in DOMAIN p.servicesRemoved |-> DropService(p.servicesRemoved[n])]
    BY DEF Each
  <2>3. ASSUME NEW n \in DOMAIN p.servicesRemoved PROVE DropService(p.servicesRemoved[n]) \in PatchCall
    <3>1. p.servicesRemoved[n] \in ServiceId
      BY <2>1
    <3> QED
      BY <3>1, DropCalls
  <2>4. DOMAIN p.servicesRemoved = 1 .. Len(p.servicesRemoved)
    BY <2>1
  <2> HIDE DEF E
  <2> QED
    BY <2>1, <2>2, <2>3, <2>4, SeqOfEach
<1>6. PatchCalls(p) = A \o B \o C \o D \o E
  BY DEF PatchCalls
<1> HIDE DEF A, B, C, D, E
<1> DEFINE a == Len(A)
           b == a + Len(B)
           c == b + Len(C)
           d == c + Len(D)
           e == d + Len(E)
           s == A \o B \o C \o D \o E
<1>11. a \in Nat /\ b \in Nat /\ c \in Nat /\ d \in Nat /\ e \in Nat
  <2>1. /\ Len(A) \in Nat /\ Len(B) \in Nat /\ Len(C) \in Nat
        /\ Len(D) \in Nat /\ Len(E) \in Nat
    BY <1>1, <1>2, <1>3, <1>4, <1>5, LenProperties
  <2> QED
    BY <2>1
<1>7. /\ A \o B \in Seq(PatchCall) /\ Len(A \o B) = b
      /\ \A n \in 1 .. b : (A \o B)[n] = IF n <= a THEN A[n] ELSE B[n - a]
  <2>1. A \in Seq(PatchCall) /\ B \in Seq(PatchCall) /\ Len(A) = a /\ a \in Nat
    BY <1>1, <1>2, <1>11
  <2> HIDE DEF a
  <2> QED
    BY <2>1, ConcatIs
<1>8. /\ A \o B \o C \in Seq(PatchCall) /\ Len(A \o B \o C) = c
      /\ \A n \in 1 .. c : (A \o B \o C)[n] = IF n <= b THEN (A \o B)[n] ELSE C[n - b]
  <2> DEFINE AB == A \o B
  <2>1. AB \in Seq(PatchCall) /\ C \in Seq(PatchCall) /\ Len(AB) = b /\ b \in Nat
    BY <1>3, <1>7, <1>11
  <2> HIDE DEF b, AB
  <2>2. /\ AB \o C \in Seq(PatchCall) /\ Len(AB \o C) = c
        /\ \A n \in 1 .. c : (AB \o C)[n] = IF n <= b THEN AB[n] ELSE C[n - b]
    BY <2>1, ConcatIs
  <2> QED
    BY <2>2 DEF AB
<1>9. /\ A \o B \o C \o D \in Seq(PatchCall) /\ Len(A \o B \o C \o D) = d
      /\ \A n \in 1 .. d :
            (A \o B \o C \o D)[n] = IF n <= c THEN (A \o B \o C)[n] ELSE D[n - c]
  <2> DEFINE ABC == A \o B \o C
  <2>1. ABC \in Seq(PatchCall) /\ D \in Seq(PatchCall) /\ Len(ABC) = c /\ c \in Nat
    BY <1>4, <1>8, <1>11
  <2> HIDE DEF c, ABC
  <2>2. /\ ABC \o D \in Seq(PatchCall) /\ Len(ABC \o D) = d
        /\ \A n \in 1 .. d : (ABC \o D)[n] = IF n <= c THEN ABC[n] ELSE D[n - c]
    BY <2>1, ConcatIs
  <2> QED
    BY <2>2 DEF ABC
<1>10. /\ s \in Seq(PatchCall) /\ Len(s) = e
       /\ \A n \in 1 .. e : s[n] = IF n <= d THEN (A \o B \o C \o D)[n] ELSE E[n - d]
  <2> DEFINE R == A \o B \o C \o D
  <2>1. R \in Seq(PatchCall) /\ E \in Seq(PatchCall) /\ Len(R) = d /\ d \in Nat
    BY <1>5, <1>9, <1>11
  <2> HIDE DEF d, R
  <2>2. /\ R \o E \in Seq(PatchCall) /\ Len(R \o E) = e
        /\ \A n \in 1 .. e : (R \o E)[n] = IF n <= d THEN R[n] ELSE E[n - d]
    BY <2>1, ConcatIs
  <2> QED
    BY <2>2 DEF R
<1> HIDE DEF s
<1>12. ASSUME NEW n \in 1 .. e
       PROVE  s[n] = IF n <= a THEN AddAlias(p.alsoKnownAsAdded[n])
                     ELSE IF n <= b THEN RemoveAlias(p.alsoKnownAsRemoved[n - a])
                     ELSE IF n <= c THEN AddService(p.servicesAdded[n - b])
                     ELSE IF n <= d THEN UpdateService(p.servicesUpdated[n - c])
                     ELSE DropService(p.servicesRemoved[n - d])
  <2>0. /\ Len(A) \in Nat /\ Len(B) \in Nat /\ Len(C) \in Nat
        /\ Len(D) \in Nat /\ Len(E) \in Nat /\ n \in Nat \ {0} /\ n <= e
    <3>1. /\ Len(A) \in Nat /\ Len(B) \in Nat /\ Len(C) \in Nat
          /\ Len(D) \in Nat /\ Len(E) \in Nat
      BY <1>1, <1>2, <1>3, <1>4, <1>5, LenProperties
    <3> HIDE DEF e
    <3>2. n \in Nat \ {0} /\ n <= e
      BY <1>11
    <3> QED
      BY <3>1, <3>2
  <2>1. CASE n <= a
    <3>1. /\ n \in 1 .. a /\ n \in 1 .. b /\ n \in 1 .. c /\ n \in 1 .. d
          /\ n <= b /\ n <= c /\ n <= d
      BY <2>0, <2>1
    <3> HIDE DEF a, b, c, d
    <3>2. s[n] = A[n]
      BY <1>7, <1>8, <1>9, <1>10, <2>1, <3>1
    <3> QED
      BY <1>1, <2>1, <3>1, <3>2 DEF a
  <2>2. CASE ~ (n <= a) /\ n <= b
    <3>1. /\ n - a \in 1 .. Len(B) /\ n \in 1 .. b /\ n \in 1 .. c /\ n \in 1 .. d
          /\ n <= c /\ n <= d
      BY <2>0, <2>2
    <3> HIDE DEF a, b, c, d
    <3>2. s[n] = B[n - a]
      BY <1>7, <1>8, <1>9, <1>10, <2>2, <3>1
    <3> QED
      BY <1>2, <2>2, <3>1, <3>2
  <2>3. CASE ~ (n <= a) /\ ~ (n <= b) /\ n <= c
    <3>1. n - b \in 1 .. Len(C) /\ n \in 1 .. c /\ n \in 1 .. d /\ n <= d
      BY <2>0, <2>3
    <3> HIDE DEF a, b, c, d
    <3>2. s[n] = C[n - b]
      BY <1>8, <1>9, <1>10, <2>3, <3>1
    <3> QED
      BY <1>3, <2>3, <3>1, <3>2
  <2>4. CASE ~ (n <= a) /\ ~ (n <= b) /\ ~ (n <= c) /\ n <= d
    <3>1. n - c \in 1 .. Len(D) /\ n \in 1 .. d
      BY <2>0, <2>4
    <3> HIDE DEF a, b, c, d
    <3>2. s[n] = D[n - c]
      BY <1>9, <1>10, <2>4, <3>1
    <3> QED
      BY <1>4, <2>4, <3>1, <3>2
  <2>5. CASE ~ (n <= a) /\ ~ (n <= b) /\ ~ (n <= c) /\ ~ (n <= d)
    <3>1. n - d \in 1 .. Len(E)
      BY <2>0, <2>5
    <3> HIDE DEF a, b, c, d
    <3>2. s[n] = E[n - d]
      BY <1>10, <2>5
    <3> QED
      BY <1>5, <2>5, <3>1, <3>2
  <2> QED
    BY <2>1, <2>2, <2>3, <2>4, <2>5
<1>13. s = PatchCalls(p)
  BY <1>6 DEF s
<1> QED
  BY <1>1, <1>2, <1>3, <1>4, <1>5, <1>10, <1>12, <1>13

\* The part of a patch that its n-th call belongs to.
PartOf(p, n) ==
    LET a == Len(p.alsoKnownAsAdded)
        b == a + Len(p.alsoKnownAsRemoved)
        c == b + Len(p.servicesAdded)
        d == c + Len(p.servicesUpdated)
    IN  CASE n <= a -> 1
          [] n > a /\ n <= b -> 2
          [] n > b /\ n <= c -> 3
          [] n > c /\ n <= d -> 4
          [] n > d -> 5

\* Part by part, the cell a call is for and what it leaves there.
LEMMA PatchCallAt ==
  ASSUME NEW p \in Patch, NEW n \in 1 .. Len(PatchCalls(p))
  PROVE  LET call == PatchCalls(p)[n]
             a == Len(p.alsoKnownAsAdded)
             b == a + Len(p.alsoKnownAsRemoved)
             c == b + Len(p.servicesAdded)
             d == c + Len(p.servicesUpdated)
         IN  /\ PartOf(p, n) \in 1 .. 5
             /\ PartOf(p, n) = 1 =>
                   /\ n \in 1 .. a /\ p.alsoKnownAsAdded[n] \in Alias
                   /\ CellOf(call) = <<"alias", p.alsoKnownAsAdded[n]>>
                   /\ LeftBy(call) = {p.alsoKnownAsAdded[n]} /\ Adds(call)
             /\ PartOf(p, n) = 2 =>
                   /\ n - a \in 1 .. Len(p.alsoKnownAsRemoved)
                   /\ p.alsoKnownAsRemoved[n - a] \in Alias
                   /\ CellOf(call) = <<"alias", p.alsoKnownAsRemoved[n - a]>>
                   /\ LeftBy(call) = {} /\ ~ Adds(call)
             /\ PartOf(p, n) = 3 =>
                   /\ n - b \in 1 .. Len(p.servicesAdded)
                   /\ p.servicesAdded[n - b] \in ServiceId \X ServiceBody
                   /\ CellOf(call) = <<"service", p.servicesAdded[n - b][1]>>
                   /\ LeftBy(call) = {p.servicesAdded[n - b][2]} /\ Adds(call)
             /\ PartOf(p, n) = 4 =>
                   /\ n - c \in 1 .. Len(p.servicesUpdated)
                   /\ p.servicesUpdated[n - c] \in ServiceId \X ServiceBody
                   /\ CellOf(call) = <<"service", p.servicesUpdated[n - c][1]>>
                   /\ LeftBy(call) = {p.servicesUpdated[n - c][2]} /\ ~ Adds(call)
             /\ PartOf(p, n) = 5 =>
                   /\ n - d \in 1 .. Len(p.servicesRemoved)
                   /\ p.servicesRemoved[n - d] \in ServiceId
                   /\ CellOf(call) = <<"service", p.servicesRemoved[n - d]>>
                   /\ LeftBy(call) = {} /\ ~ Adds(call)
<1> DEFINE call == PatchCalls(p)[n]
           la == Len(p.alsoKnownAsAdded)
           lb == Len(p.alsoKnownAsRemoved)
           lc == Len(p.servicesAdded)
           ld == Len(p.servicesUpdated)
           le == Len(p.servicesRemoved)
           a == la
           b == a + lb
           c == b + lc
           d == c + ld
           e == d + le
<1>1. /\ p.alsoKnownAsAdded \in Seq(Alias) /\ p.alsoKnownAsRemoved \in Seq(Alias)
      /\ p.servicesAdded \in Seq(ServiceId \X ServiceBody)
      /\ p.servicesUpdated \in Seq(ServiceId \X ServiceBody)
      /\ p.servicesRemoved \in Seq(ServiceId)
  BY DEF Patch
<1>2. la \in Nat /\ lb \in Nat /\ lc \in Nat /\ ld \in Nat /\ le \in Nat
  BY <1>1, LenProperties
<1>3. /\ n \in 1 .. e
      /\ call = IF n <= a THEN AddAlias(p.alsoKnownAsAdded[n])
                ELSE IF n <= b THEN RemoveAlias(p.alsoKnownAsRemoved[n - a])
                ELSE IF n <= c THEN AddService(p.servicesAdded[n - b])
                ELSE IF n <= d THEN UpdateService(p.servicesUpdated[n - c])
                ELSE DropService(p.servicesRemoved[n - d])
  BY PatchParts
<1>4. /\ \A k \in 1 .. la : p.alsoKnownAsAdded[k] \in Alias
      /\ \A k \in 1 .. lb : p.alsoKnownAsRemoved[k] \in Alias
      /\ \A k \in 1 .. lc : p.servicesAdded[k] \in ServiceId \X ServiceBody
      /\ \A k \in 1 .. ld : p.servicesUpdated[k] \in ServiceId \X ServiceBody
      /\ \A k \in 1 .. le : p.servicesRemoved[k] \in ServiceId
  BY <1>1, ElementOfSeq
<1> DEFINE part == PartOf(p, n)
           First == /\ n \in 1 .. a /\ p.alsoKnownAsAdded[n] \in Alias
                    /\ CellOf(call) = <<"alias", p.alsoKnownAsAdded[n]>>
                    /\ LeftBy(call) = {p.alsoKnownAsAdded[n]} /\ Adds(call)
           Second == /\ n - a \in 1 .. lb
                     /\ p.alsoKnownAsRemoved[n - a] \in Alias
                     /\ CellOf(call) = <<"alias", p.alsoKnownAsRemoved[n - a]>>
                     /\ LeftBy(call) = {} /\ ~ Adds(call)
           Third == /\ n - b \in 1 .. lc
                    /\ p.servicesAdded[n - b] \in ServiceId \X ServiceBody
                    /\ CellOf(call) = <<"service", p.servicesAdded[n - b][1]>>
                    /\ LeftBy(call) = {p.servicesAdded[n - b][2]} /\ Adds(call)
           Fourth == /\ n - c \in 1 .. ld
                     /\ p.servicesUpdated[n - c] \in ServiceId \X ServiceBody
                     /\ CellOf(call) = <<"service", p.servicesUpdated[n - c][1]>>
                     /\ LeftBy(call) = {p.servicesUpdated[n - c][2]} /\ ~ Adds(call)
           Fifth == /\ n - d \in 1 .. le
                    /\ p.servicesRemoved[n - d] \in ServiceId
                    /\ CellOf(call) = <<"service", p.servicesRemoved[n - d]>>
                    /\ LeftBy(call) = {} /\ ~ Adds(call)
           Claim == /\ part \in 1 .. 5
                    /\ part = 1 => First
                    /\ part = 2 => Second
                    /\ part = 3 => Third
                    /\ part = 4 => Fourth
                    /\ part = 5 => Fifth
<1>5. part = CASE n <= a -> 1
          [] n > a /\ n <= b -> 2
          [] n > b /\ n <= c -> 3
          [] n > c /\ n <= d -> 4
          [] n > d -> 5
  BY DEF PartOf
<1> HIDE DEF call, part, la, lb, lc, ld, le
<1>0. n \in Nat \ {0} /\ n <= e
  BY <1>2, <1>3
<1>6. ASSUME n <= a PROVE Claim
  <2>1. part = 1 /\ n \in 1 .. a /\ call = AddAlias(p.alsoKnownAsAdded[n])
    BY <1>0, <1>2, <1>3, <1>5, <1>6
  <2>2. p.alsoKnownAsAdded[n] \in Alias
    BY <1>4, <2>1
  <2>3. /\ CellOf(call) = <<"alias", p.alsoKnownAsAdded[n]>>
        /\ LeftBy(call) = {p.alsoKnownAsAdded[n]} /\ Adds(call)
    BY <2>1, <2>2, AliasCalls
  <2>4. First
    BY <2>1, <2>2, <2>3
  <2> HIDE DEF First
  <2> QED
    BY <2>1, <2>4
<1>7. ASSUME n > a /\ n <= b PROVE Claim
  <2>1. n - a \in 1 .. lb
    BY <1>0, <1>2, <1>7
  <2>2. part = 2 /\ call = RemoveAlias(p.alsoKnownAsRemoved[n - a])
    BY <1>0, <1>2, <1>3, <1>5, <1>7
  <2>3. p.alsoKnownAsRemoved[n - a] \in Alias
    BY <1>4, <2>1
  <2>4. /\ CellOf(call) = <<"alias", p.alsoKnownAsRemoved[n - a]>>
        /\ LeftBy(call) = {} /\ ~ Adds(call)
    BY <2>2, <2>3, AliasCalls
  <2>5. Second
    BY <2>1, <2>2, <2>3, <2>4
  <2> HIDE DEF Second
  <2> QED
    BY <2>2, <2>5
<1>8. ASSUME n > b /\ n <= c PROVE Claim
  <2>1. n - b \in 1 .. lc
    BY <1>0, <1>2, <1>8
  <2>2. part = 3 /\ call = AddService(p.servicesAdded[n - b])
    BY <1>0, <1>2, <1>3, <1>5, <1>8
  <2>3. p.servicesAdded[n - b] \in ServiceId \X ServiceBody
    BY <1>4, <2>1
  <2>4. /\ CellOf(call) = <<"service", p.servicesAdded[n - b][1]>>
        /\ LeftBy(call) = {p.servicesAdded[n - b][2]} /\ Adds(call)
    BY <2>2, <2>3, ServiceCalls
  <2>5. Third
    BY <2>1, <2>2, <2>3, <2>4
  <2> HIDE DEF Third
  <2> QED
    BY <2>2, <2>5
<1>9. ASSUME n > c /\ n <= d PROVE Claim
  <2>1. n - c \in 1 .. ld
    BY <1>0, <1>2, <1>9
  <2>2. part = 4 /\ call = UpdateService(p.servicesUpdated[n - c])
    BY <1>0, <1>2, <1>3, <1>5, <1>9
  <2>3. p.servicesUpdated[n - c] \in ServiceId \X ServiceBody
    BY <1>4, <2>1
  <2>4. /\ CellOf(call) = <<"service", p.servicesUpdated[n - c][1]>>
        /\ LeftBy(call) = {p.servicesUpdated[n - c][2]} /\ ~ Adds(call)
    BY <2>2, <2>3, ServiceCalls
  <2>5. Fourth
    BY <2>1, <2>2, <2>3, <2>4
  <2> HIDE DEF Fourth
  <2> QED
    BY <2>2, <2>5
<1>10. ASSUME n > d PROVE Claim
  <2>1. n - d \in 1 .. le
    BY <1>0, <1>2, <1>10
  <2>2. part = 5 /\ call = DropService(p.servicesRemoved[n - d])
    BY <1>0, <1>2, <1>3, <1>5, <1>10
  <2>3. p.servicesRemoved[n - d] \in ServiceId
    BY <1>4, <2>1
  <2>4. /\ CellOf(call) = <<"service", p.servicesRemoved[n - d]>>
        /\ LeftBy(call) = {} /\ ~ Adds(call)
    BY <2>2, <2>3, DropCalls
  <2>5. Fifth
    BY <2>1, <2>2, <2>3, <2>4
  <2> HIDE DEF Fifth
  <2> QED
    BY <2>2, <2>5
<1>11. n <= a \/ (n > a /\ n <= b) \/ (n > b /\ n <= c) \/ (n > c /\ n <= d) \/ n > d
  BY <1>0, <1>2
<1>12. Claim
  <2> HIDE DEF Claim
  <2> QED
    BY <1>6, <1>7, <1>8, <1>9, <1>10, <1>11
<1> QED
  BY <1>12 DEF part, call, la, lb, lc, ld, le

\* Later calls belong to the same part or to a later one, and every member of
\* a part has its call.
LEMMA PartsInOrder ==
  ASSUME NEW p \in Patch
  PROVE  LET a == Len(p.alsoKnownAsAdded)
             b == a + Len(p.alsoKnownAsRemoved)
             c == b + Len(p.servicesAdded)
             d == c + Len(p.servicesUpdated)
             e == d + Len(p.servicesRemoved)
         IN  /\ Len(PatchCalls(p)) = e
             /\ \A m, n \in 1 .. e : m <= n => PartOf(p, m) <= PartOf(p, n)
             /\ \A k \in 1 .. a : k \in 1 .. e /\ PartOf(p, k) = 1
             /\ \A k \in 1 .. Len(p.alsoKnownAsRemoved) :
                   a + k \in 1 .. e /\ PartOf(p, a + k) = 2 /\ (a + k) - a = k
             /\ \A k \in 1 .. Len(p.servicesAdded) :
                   b + k \in 1 .. e /\ PartOf(p, b + k) = 3 /\ (b + k) - b = k
             /\ \A k \in 1 .. Len(p.servicesUpdated) :
                   c + k \in 1 .. e /\ PartOf(p, c + k) = 4 /\ (c + k) - c = k
             /\ \A k \in 1 .. Len(p.servicesRemoved) :
                   d + k \in 1 .. e /\ PartOf(p, d + k) = 5 /\ (d + k) - d = k
<1> DEFINE la == Len(p.alsoKnownAsAdded)
           lb == Len(p.alsoKnownAsRemoved)
           lc == Len(p.servicesAdded)
           ld == Len(p.servicesUpdated)
           le == Len(p.servicesRemoved)
           a == la
           b == a + lb
           c == b + lc
           d == c + ld
           e == d + le
           part(n) == PartOf(p, n)
<1>1. /\ p.alsoKnownAsAdded \in Seq(Alias) /\ p.alsoKnownAsRemoved \in Seq(Alias)
      /\ p.servicesAdded \in Seq(ServiceId \X ServiceBody)
      /\ p.servicesUpdated \in Seq(ServiceId \X ServiceBody)
      /\ p.servicesRemoved \in Seq(ServiceId)
  BY DEF Patch
<1>2. la \in Nat /\ lb \in Nat /\ lc \in Nat /\ ld \in Nat /\ le \in Nat
  BY <1>1, LenProperties
<1>3. Len(PatchCalls(p)) = e
  BY PatchParts
<1>4. \A n : part(n) = CASE n <= a -> 1
          [] n > a /\ n <= b -> 2
          [] n > b /\ n <= c -> 3
          [] n > c /\ n <= d -> 4
          [] n > d -> 5
  BY DEF PartOf
<1> HIDE DEF part, la, lb, lc, ld, le
<1>5. ASSUME NEW m \in 1 .. e, NEW n \in 1 .. e, m <= n PROVE part(m) <= part(n)
  BY <1>2, <1>4, <1>5
<1>6. \A k \in 1 .. a : k \in 1 .. e /\ part(k) = 1
  BY <1>2, <1>4
<1>7. \A k \in 1 .. lb : a + k \in 1 .. e /\ part(a + k) = 2 /\ (a + k) - a = k
  BY <1>2, <1>4
<1>8. \A k \in 1 .. lc : b + k \in 1 .. e /\ part(b + k) = 3 /\ (b + k) - b = k
  BY <1>2, <1>4
<1>9. \A k \in 1 .. ld : c + k \in 1 .. e /\ part(c + k) = 4 /\ (c + k) - c = k
  BY <1>2, <1>4
<1>10. \A k \in 1 .. le : d + k \in 1 .. e /\ part(d + k) = 5 /\ (d + k) - d = k
  BY <1>2, <1>4
<1> QED
  BY <1>3, <1>5, <1>6, <1>7, <1>8, <1>9, <1>10 DEF part, la, lb, lc, ld, le

\* In a patch that fits, two calls for one cell in one part are updates; what is
\* added is not there, and what is changed is there or added before.
LEMMA FittingParts ==
  ASSUME NEW p \in Patch, PatchFits(p), NEW n \in 1 .. Len(PatchCalls(p))
  PROVE  LET s == PatchCalls(p)
             K == Cells(alsoKnownAs, services)
         IN  /\ CellOf(s[n]) \in Cell
             /\ \A m \in 1 .. Len(s) :
                   /\ CellOf(s[m]) = CellOf(s[n])
                   /\ PartOf(p, m) = PartOf(p, n)
                   /\ PartOf(p, n) # 4
                   => m = n
             /\ PartOf(p, n) \in {1, 3} => K[CellOf(s[n])] = {}
             /\ PartOf(p, n) \in {2, 4, 5} /\ K[CellOf(s[n])] = {} =>
                   \E m \in 1 .. Len(s) : /\ PartOf(p, m) \in {1, 3}
                                          /\ PartOf(p, m) < PartOf(p, n)
                                          /\ CellOf(s[m]) = CellOf(s[n])
<1> DEFINE s == PatchCalls(p)
           K == Cells(alsoKnownAs, services)
           part(m) == PartOf(p, m)
           la == Len(p.alsoKnownAsAdded)
           lb == Len(p.alsoKnownAsRemoved)
           lc == Len(p.servicesAdded)
           ld == Len(p.servicesUpdated)
           le == Len(p.servicesRemoved)
           a == la
           b == a + lb
           c == b + lc
           d == c + ld
           e == d + le
           added == p.alsoKnownAsAdded
           removed == p.alsoKnownAsRemoved
           placed == p.servicesAdded
           changed == p.servicesUpdated
           dropped == p.servicesRemoved
           present == {i \in ServiceId : services[i] # Absent}
<1>1. /\ added \in Seq(Alias) /\ removed \in Seq(Alias)
      /\ placed \in Seq(ServiceId \X ServiceBody)
      /\ changed \in Seq(ServiceId \X ServiceBody)
      /\ dropped \in Seq(ServiceId)
  BY DEF Patch
<1>2. la \in Nat /\ lb \in Nat /\ lc \in Nat /\ ld \in Nat /\ le \in Nat
  BY <1>1, LenProperties
<1>3. Len(s) = e /\ n \in 1 .. e
  BY PartsInOrder
<1>4. /\ \A m, k \in 1 .. la : added[m] = added[k] => m = k
      /\ \A m, k \in 1 .. lb : removed[m] = removed[k] => m = k
      /\ \A m, k \in 1 .. le : dropped[m] = dropped[k] => m = k
  <2>1. IsInjective(added) /\ IsInjective(removed) /\ IsInjective(dropped)
    BY DEF PatchFits
  <2>2. DOMAIN added = 1 .. la /\ DOMAIN removed = 1 .. lb /\ DOMAIN dropped = 1 .. le
    BY <1>1
  <2> QED
    BY <2>1, <2>2 DEF IsInjective
<1>5. \A m, k \in 1 .. lc : placed[m][1] = placed[k][1] => m = k
  <2> DEFINE f == [m \in 1 .. lc |-> placed[m][1]]
  <2>1. Ids(placed) = {placed[m][1] : m \in 1 .. lc}
    BY <1>1 DEF Ids, ToSet
  <2>2. f \in Surjection(1 .. lc, Ids(placed))
    <3>1. f \in [1 .. lc -> Ids(placed)]
      BY <2>1
    <3>2. \A y \in Ids(placed) : \E m \in 1 .. lc : f[m] = y
      BY <2>1
    <3> QED
      BY <3>1, <3>2 DEF Surjection
  <2>3. IsFiniteSet(1 .. lc) /\ Cardinality(1 .. lc) = lc
    <3> HIDE DEF lc
    <3>1. 1 \in Int /\ lc \in Int /\ lc >= 0
      BY <1>2
    <3>2. /\ IsFiniteSet(1 .. lc)
          /\ Cardinality(1 .. lc) = IF 1 > lc THEN 0 ELSE lc - 1 + 1
      BY <3>1, FS_Interval
    <3>3. (IF 1 > lc THEN 0 ELSE lc - 1 + 1) = lc
      BY <3>1
    <3> QED
      BY <3>2, <3>3
  <2>4. Cardinality(Ids(placed)) = lc
    BY DEF PatchFits
  <2>5. f \in Injection(1 .. lc, Ids(placed))
    <3> HIDE DEF f, lc, placed
    <3> QED
      BY <2>2, <2>3, <2>4, FS_SurjSameCardinalityImpliesInj
  <2>6. \A m, k \in 1 .. lc : f[m] = f[k] => m = k
    BY <2>5 DEF Injection, IsInjective
  <2> QED
    BY <2>6
<1>6. /\ \A k \in 1 .. la : added[k] \notin alsoKnownAs
      /\ \A k \in 1 .. lb : \/ removed[k] \in alsoKnownAs
                             \/ \E m \in 1 .. la : added[m] = removed[k]
  <2>1. ToSet(added) = {added[k] : k \in 1 .. la} /\ ToSet(removed) = {removed[k] : k \in 1 .. lb}
    BY <1>1 DEF ToSet
  <2>2. /\ ToSet(added) \cap alsoKnownAs = {}
        /\ ToSet(removed) \subseteq alsoKnownAs \cup ToSet(added)
    BY DEF PatchFits
  <2> HIDE DEF added, removed, la, lb
  <2> QED
    BY <2>1, <2>2
<1>7. /\ \A k \in 1 .. lc : services[placed[k][1]] = Absent
      /\ \A k \in 1 .. ld : \/ services[changed[k][1]] # Absent
                             \/ \E m \in 1 .. lc : placed[m][1] = changed[k][1]
      /\ \A k \in 1 .. le : \/ services[dropped[k]] # Absent
                             \/ \E m \in 1 .. lc : placed[m][1] = dropped[k]
  <2>1. /\ Ids(placed) = {placed[k][1] : k \in 1 .. lc}
        /\ Ids(changed) = {changed[k][1] : k \in 1 .. ld}
        /\ ToSet(dropped) = {dropped[k] : k \in 1 .. le}
    <3>1. Ids(placed) = {placed[k][1] : k \in 1 .. lc}
      BY <1>1 DEF Ids, ToSet
    <3>2. Ids(changed) = {changed[k][1] : k \in 1 .. ld}
      BY <1>1 DEF Ids, ToSet
    <3>3. ToSet(dropped) = {dropped[k] : k \in 1 .. le}
      BY <1>1 DEF ToSet
    <3> QED
      BY <3>1, <3>2, <3>3
  <2>2. /\ Ids(placed) \cap present = {}
        /\ Ids(changed) \subseteq present \cup Ids(placed)
        /\ ToSet(dropped) \subseteq present \cup Ids(placed)
    BY DEF PatchFits
  <2>3. \A k \in 1 .. lc : placed[k][1] \in ServiceId
    BY <1>1
  <2> HIDE DEF placed, changed, dropped, lc, ld, le
  <2> QED
    BY <2>1, <2>2, <2>3
<1>8. /\ \A x \in Alias : /\ K[<<"alias", x>>] = {} <=> x \notin alsoKnownAs
                          /\ <<"alias", x>> \in Cell
      /\ \A i \in ServiceId : /\ K[<<"service", i>>] = {} <=> services[i] = Absent
                              /\ <<"service", i>> \in Cell
  <2>1. /\ \A x \in Alias : K[<<"alias", x>>] = {x} \cap alsoKnownAs /\ <<"alias", x>> \in Cell
        /\ \A i \in ServiceId : /\ K[<<"service", i>>] = {services[i]} \ {Absent}
                                /\ <<"service", i>> \in Cell
    BY DEF Cells, Cell
  <2> HIDE DEF K
  <2> QED
    BY <2>1
<1> DEFINE At(m) ==
             /\ part(m) \in 1 .. 5
             /\ part(m) = 1 => /\ m \in 1 .. la /\ added[m] \in Alias
                              /\ CellOf(s[m]) = <<"alias", added[m]>>
             /\ part(m) = 2 => /\ m - a \in 1 .. lb /\ removed[m - a] \in Alias
                              /\ CellOf(s[m]) = <<"alias", removed[m - a]>>
             /\ part(m) = 3 => /\ m - b \in 1 .. lc
                              /\ placed[m - b] \in ServiceId \X ServiceBody
                              /\ CellOf(s[m]) = <<"service", placed[m - b][1]>>
             /\ part(m) = 4 => /\ m - c \in 1 .. ld
                              /\ changed[m - c] \in ServiceId \X ServiceBody
                              /\ CellOf(s[m]) = <<"service", changed[m - c][1]>>
             /\ part(m) = 5 => /\ m - d \in 1 .. le /\ dropped[m - d] \in ServiceId
                              /\ CellOf(s[m]) = <<"service", dropped[m - d]>>
<1>9. ASSUME NEW m \in 1 .. Len(s) PROVE At(m)
  BY PatchCallAt
<1>10. /\ \A k \in 1 .. la : k \in 1 .. e /\ part(k) = 1
       /\ \A k \in 1 .. lc : b + k \in 1 .. e /\ part(b + k) = 3 /\ (b + k) - b = k
  BY PartsInOrder
<1> HIDE DEF s, K, part, la, lb, lc, ld, le, added, removed, placed, changed, dropped
<1>11. \A m \in 1 .. e : At(m)
  <2> HIDE DEF At, e
  <2> QED
    BY <1>3, <1>9
<1>12. CellOf(s[n]) \in Cell
  <2>1. At(n)
    BY <1>3, <1>11
  <2>2. part(n) = 1 \/ part(n) = 2 \/ part(n) = 3 \/ part(n) = 4 \/ part(n) = 5
    BY <2>1
  <2> QED
    BY <1>8, <2>1, <2>2
<1>13. ASSUME NEW m \in 1 .. Len(s), CellOf(s[m]) = CellOf(s[n]), part(m) = part(n),
              part(n) # 4
       PROVE  m = n
  <2>1. At(m) /\ At(n) /\ m \in Nat /\ n \in Nat
    BY <1>2, <1>3, <1>11, <1>13
  <2>2. CASE part(n) = 1
    BY <1>4, <1>13, <2>1, <2>2
  <2>3. CASE part(n) = 2
    <3>1. m - a = n - a
      BY <1>4, <1>13, <2>1, <2>3
    <3> QED
      BY <1>2, <2>1, <3>1
  <2>4. CASE part(n) = 3
    <3>1. m - b = n - b
      BY <1>5, <1>13, <2>1, <2>4
    <3> QED
      BY <1>2, <2>1, <3>1
  <2>5. CASE part(n) = 5
    <3>1. m - d = n - d
      BY <1>4, <1>13, <2>1, <2>5
    <3> QED
      BY <1>2, <2>1, <3>1
  <2> QED
    BY <1>13, <2>1, <2>2, <2>3, <2>4, <2>5
<1>14. ASSUME part(n) \in {1, 3} PROVE K[CellOf(s[n])] = {}
  <2>1. At(n)
    BY <1>3, <1>11
  <2>2. CASE part(n) = 1
    BY <1>6, <1>8, <2>1, <2>2
  <2>3. CASE part(n) = 3
    <3>1. placed[n - b][1] \in ServiceId /\ services[placed[n - b][1]] = Absent
      BY <1>7, <2>1, <2>3
    <3> QED
      BY <1>8, <2>1, <2>3, <3>1
  <2> QED
    BY <1>14, <2>2, <2>3
<1>15. ASSUME part(n) \in {2, 4, 5}, K[CellOf(s[n])] = {}
       PROVE  \E m \in 1 .. Len(s) : /\ part(m) \in {1, 3}
                                     /\ part(m) < part(n)
                                     /\ CellOf(s[m]) = CellOf(s[n])
  <2>1. At(n)
    BY <1>3, <1>11
  <2>2. CASE part(n) = 2
    <3>1. removed[n - a] \notin alsoKnownAs /\ n - a \in 1 .. lb
      BY <1>8, <1>15, <2>1, <2>2
    <3>2. PICK k \in 1 .. la : added[k] = removed[n - a]
      BY <1>6, <3>1
    <3>3. k \in 1 .. e /\ part(k) = 1 /\ At(k)
      BY <1>10, <1>11
    <3> QED
      BY <1>3, <2>1, <2>2, <3>2, <3>3
  <2>3. CASE part(n) = 4
    <3>0. /\ changed[n - c][1] \in ServiceId /\ n - c \in 1 .. ld
          /\ CellOf(s[n]) = <<"service", changed[n - c][1]>>
      BY <2>1, <2>3
    <3>1. services[changed[n - c][1]] = Absent
      BY <1>8, <1>15, <3>0
    <3>2. PICK k \in 1 .. lc : placed[k][1] = changed[n - c][1]
      BY <1>7, <3>0, <3>1
    <3>3. b + k \in 1 .. e /\ part(b + k) = 3 /\ (b + k) - b = k /\ At(b + k)
      BY <1>10, <1>11
    <3>4. CellOf(s[b + k]) = <<"service", placed[k][1]>>
      BY <3>3
    <3> QED
      BY <1>3, <2>3, <3>0, <3>2, <3>3, <3>4
  <2>4. CASE part(n) = 5
    <3>0. /\ dropped[n - d] \in ServiceId /\ n - d \in 1 .. le
          /\ CellOf(s[n]) = <<"service", dropped[n - d]>>
      BY <2>1, <2>4
    <3>1. services[dropped[n - d]] = Absent
      BY <1>8, <1>15, <3>0
    <3>2. PICK k \in 1 .. lc : placed[k][1] = dropped[n - d]
      BY <1>7, <3>0, <3>1
    <3>3. b + k \in 1 .. e /\ part(b + k) = 3 /\ (b + k) - b = k /\ At(b + k)
      BY <1>10, <1>11
    <3>4. CellOf(s[b + k]) = <<"service", placed[k][1]>>
      BY <3>3
    <3> QED
      BY <1>3, <2>4, <3>0, <3>2, <3>3, <3>4
  <2> QED
    BY <1>15, <2>2, <2>3, <2>4
<1> QED
  BY <1>12, <1>13, <1>14, <1>15 DEF s, K, part

\* A patch that fits can be run, call by call.
LEMMA FittingPatchRuns ==
  ASSUME NEW p \in Patch, PatchFits(p)
  PROVE  Executes(PatchCalls(p), CellsAfter(PatchCalls(p), Cells(alsoKnownAs, services)))
<1> DEFINE s == PatchCalls(p)
           K == Cells(alsoKnownAs, services)
           W == CellsAfter(s, K)
           l == Len(s)
           part(n) == PartOf(p, n)
<1>1. s \in Seq(PatchCall) /\ K = [x \in Cell |-> K[x]]
  BY PatchParts DEF Cells
<1>2. l \in Nat
  BY <1>1
<1>3. \A n \in 1 .. l : /\ part(n) \in 1 .. 5
                        /\ part(n) \in {1, 2} => CellOf(s[n])[1] = "alias"
                        /\ part(n) \in {3, 4, 5} => CellOf(s[n])[1] = "service"
                        /\ Adds(s[n]) <=> part(n) \in {1, 3}
                        /\ part(n) \in {1, 3, 4} => LeftBy(s[n]) # {}
  <2> SUFFICES ASSUME NEW n \in 1 .. l
               PROVE  /\ part(n) \in 1 .. 5
                      /\ part(n) \in {1, 2} => CellOf(s[n])[1] = "alias"
                      /\ part(n) \in {3, 4, 5} => CellOf(s[n])[1] = "service"
                      /\ Adds(s[n]) <=> part(n) \in {1, 3}
                      /\ part(n) \in {1, 3, 4} => LeftBy(s[n]) # {}
    OBVIOUS
  <2>1. /\ part(n) \in 1 .. 5
        /\ part(n) = 1 => /\ CellOf(s[n])[1] = "alias" /\ Adds(s[n]) /\ LeftBy(s[n]) # {}
        /\ part(n) = 2 => /\ CellOf(s[n])[1] = "alias" /\ ~ Adds(s[n])
        /\ part(n) = 3 => /\ CellOf(s[n])[1] = "service" /\ Adds(s[n]) /\ LeftBy(s[n]) # {}
        /\ part(n) = 4 => /\ CellOf(s[n])[1] = "service" /\ ~ Adds(s[n]) /\ LeftBy(s[n]) # {}
        /\ part(n) = 5 => /\ CellOf(s[n])[1] = "service" /\ ~ Adds(s[n])
    <3> DEFINE x == p.alsoKnownAsAdded[n]
               v == p.alsoKnownAsRemoved[n - Len(p.alsoKnownAsAdded)]
               b == Len(p.alsoKnownAsAdded) + Len(p.alsoKnownAsRemoved)
               y == p.servicesAdded[n - b]
               c == b + Len(p.servicesAdded)
               z == p.servicesUpdated[n - c]
               w == p.servicesRemoved[n - (c + Len(p.servicesUpdated))]
    <3>1. /\ part(n) \in 1 .. 5
          /\ part(n) = 1 => /\ CellOf(s[n]) = <<"alias", x>> /\ LeftBy(s[n]) = {x}
                           /\ Adds(s[n])
      BY PatchCallAt
    <3>2. part(n) = 2 => CellOf(s[n]) = <<"alias", v>> /\ ~ Adds(s[n])
      BY PatchCallAt
    <3>3. part(n) = 3 => /\ CellOf(s[n]) = <<"service", y[1]>> /\ LeftBy(s[n]) = {y[2]}
                         /\ Adds(s[n])
      BY PatchCallAt
    <3>4. part(n) = 4 => /\ CellOf(s[n]) = <<"service", z[1]>> /\ LeftBy(s[n]) = {z[2]}
                         /\ ~ Adds(s[n])
      BY PatchCallAt
    <3>5. part(n) = 5 => CellOf(s[n]) = <<"service", w>> /\ ~ Adds(s[n])
      BY PatchCallAt
    <3> HIDE DEF part, s, l, x, y, z, v, w
    <3> QED
      BY <3>1, <3>2, <3>3, <3>4, <3>5
  <2> HIDE DEF part, s, l
  <2>2. part(n) = 1 \/ part(n) = 2 \/ part(n) = 3 \/ part(n) = 4 \/ part(n) = 5
    BY <2>1
  <2> QED
    BY <2>1, <2>2
<1>4. \A m, n \in 1 .. l : m <= n => part(m) <= part(n)
  BY PartsInOrder
<1>5. \A n \in 1 .. l :
         /\ CellOf(s[n]) \in Cell
         /\ \A m \in 1 .. l : CellOf(s[m]) = CellOf(s[n]) /\ part(m) = part(n) /\ part(n) # 4
                              => m = n
         /\ part(n) \in {1, 3} => K[CellOf(s[n])] = {}
         /\ part(n) \in {2, 4, 5} /\ K[CellOf(s[n])] = {} =>
               \E m \in 1 .. l : /\ part(m) \in {1, 3} /\ part(m) < part(n)
                                 /\ CellOf(s[m]) = CellOf(s[n])
  BY FittingParts
<1> HIDE DEF s, K, l, part
<1>6. ASSUME NEW n \in 1 .. l PROVE Adds(s[n]) <=> W[n - 1][CellOf(s[n])] = {}
  <2> DEFINE x   == CellOf(s[n])
             own == {m \in 1 .. n - 1 : CellOf(s[m]) = x}
  <2>0. /\ n - 1 \in 0 .. l /\ n - 1 \in Nat /\ x \in Cell
        /\ part(n) \in {1, 2, 3, 4, 5}
        /\ \A m \in 1 .. n - 1 : m \in 1 .. l /\ m <= n /\ m # n
    BY <1>2, <1>3, <1>5
  <2>1. ASSUME NEW m \in own
        PROVE  /\ m \in 1 .. l /\ part(n) \notin {1, 3} /\ part(m) \in {1, 3, 4}
    <3>1. /\ m \in 1 .. l /\ m <= n /\ m # n /\ CellOf(s[m]) = CellOf(s[n])
      BY <2>0, <2>1
    <3>2. /\ part(m) <= part(n)
          /\ part(m) = part(n) => part(n) = 4
          /\ CellOf(s[m])[1] = CellOf(s[n])[1]
      BY <1>4, <1>5, <3>1
    <3>3. part(m) \in {1, 2, 3, 4, 5}
      BY <1>3, <3>1
    <3>4. part(m) \in {1, 2} <=> part(n) \in {1, 2}
      BY <1>3, <2>0, <3>1, <3>2, <3>3
    <3> QED
      BY <2>0, <3>1, <3>2, <3>3, <3>4
  <2>2. CASE own = {}
    <3>1. \A m \in 1 .. n - 1 : CellOf(s[m]) # x
      BY <2>2
    <3>2. W[n - 1][x] = K[x]
      BY <1>2, <2>0, <3>1, CellsAfterAre DEF l
    <3>3. ASSUME part(n) \notin {1, 3} PROVE K[x] # {}
      <4> SUFFICES ASSUME K[x] = {} PROVE FALSE
        OBVIOUS
      <4>1. part(n) \in {2, 4, 5}
        BY <2>0, <3>3
      <4>2. PICK m \in 1 .. l : part(m) < part(n) /\ CellOf(s[m]) = x
        BY <1>5, <4>1
      <4>3. ~ (n <= m)
        <5>1. n <= m => part(n) <= part(m)
          BY <1>4
        <5>2. part(m) \in 1 .. 5 /\ part(n) \in 1 .. 5
          BY <1>3
        <5> QED
          BY <4>2, <5>1, <5>2
      <4>4. m \in 1 .. n - 1
        BY <1>2, <4>3
      <4> QED
        BY <3>1, <4>2, <4>4
    <3>4. part(n) \in {1, 3} => K[x] = {}
      BY <1>5
    <3>5. Adds(s[n]) <=> part(n) \in {1, 3}
      BY <1>3
    <3> HIDE DEF W, x
    <3> QED
      BY <3>2, <3>3, <3>4, <3>5 DEF x
  <2>3. CASE own # {}
    <3> DEFINE j == Max(own)
    <3>1. own \subseteq 1 .. n - 1
      OBVIOUS
    <3>2. j \in own /\ \A m \in own : j >= m
      <4> HIDE DEF own
      <4> QED
        BY <2>0, <2>3, <3>1, GreatestIs
    <3> HIDE DEF j
    <3>3. j \in 1 .. n - 1 /\ CellOf(s[j]) = x
      BY <3>2
    <3>4. \A m \in 1 .. n - 1 : m > j => CellOf(s[m]) # x
      <4> SUFFICES ASSUME NEW m \in 1 .. n - 1, m > j, CellOf(s[m]) = x PROVE FALSE
        OBVIOUS
      <4>1. j >= m
        BY <3>2
      <4>2. j \in 1 .. n - 1
        BY <3>3
      <4> QED
        BY <4>1, <4>2
    <3>5. W[n - 1][x] = LeftBy(s[j])
      BY <1>2, <2>0, <3>3, <3>4, CellsAfterAre DEF l
    <3>6. j \in 1 .. l /\ part(n) \notin {1, 3} /\ part(j) \in {1, 3, 4}
      BY <2>1, <3>2
    <3>7. LeftBy(s[j]) # {} /\ ~ Adds(s[n])
      BY <1>3, <3>6
    <3> HIDE DEF W, x
    <3> QED
      BY <3>5, <3>7 DEF x
  <2> QED
    BY <2>2, <2>3
<1>7. \A n \in 1 .. l : W[n] = [W[n - 1] EXCEPT ![CellOf(s[n])] = LeftBy(s[n])]
  BY <1>1, CellsAfterEach DEF l
<1> HIDE DEF W
<1> QED
  BY <1>1, <1>6, <1>7 DEF Executes, s, W, K, l

\* What a patch that fits leaves behind is its goal.
LEMMA FittingPatchLeaves ==
  ASSUME NEW p \in Patch, PatchFits(p),
         services \in [ServiceId -> ServiceBody \cup {Absent}]
  PROVE  LET s == PatchCalls(p)
         IN  CellsAfter(s, Cells(alsoKnownAs, services))[Len(s)]
                = Cells((alsoKnownAs \cup ToSet(p.alsoKnownAsAdded))
                           \ ToSet(p.alsoKnownAsRemoved),
                        PatchedServices(p))
<1> DEFINE s == PatchCalls(p)
           K == Cells(alsoKnownAs, services)
           W == CellsAfter(s, K)
           A == (alsoKnownAs \cup ToSet(p.alsoKnownAsAdded)) \ ToSet(p.alsoKnownAsRemoved)
           F == PatchedServices(p)
           part(m) == PartOf(p, m)
           added == p.alsoKnownAsAdded
           removed == p.alsoKnownAsRemoved
           placed == p.servicesAdded
           changed == p.servicesUpdated
           dropped == p.servicesRemoved
           la == Len(added)
           lb == Len(removed)
           lc == Len(placed)
           ld == Len(changed)
           le == Len(dropped)
           a == la
           b == a + lb
           c == b + lc
           d == c + ld
           e == d + le
<1>1. /\ added \in Seq(Alias) /\ removed \in Seq(Alias)
      /\ placed \in Seq(ServiceId \X ServiceBody)
      /\ changed \in Seq(ServiceId \X ServiceBody)
      /\ dropped \in Seq(ServiceId)
  BY DEF Patch
<1>2. la \in Nat /\ lb \in Nat /\ lc \in Nat /\ ld \in Nat /\ le \in Nat
  BY <1>1, LenProperties
<1>3. Len(s) = e /\ \A m, n \in 1 .. e : m <= n => part(m) <= part(n)
  BY PartsInOrder
<1>4. /\ ToSet(added) = {added[k] : k \in 1 .. la}
      /\ ToSet(removed) = {removed[k] : k \in 1 .. lb}
      /\ ToSet(dropped) = {dropped[k] : k \in 1 .. le}
  BY <1>1 DEF ToSet
<1>5. /\ \A k \in 1 .. la : k \in 1 .. e /\ part(k) = 1
      /\ \A k \in 1 .. lb : a + k \in 1 .. e /\ part(a + k) = 2 /\ (a + k) - a = k
      /\ \A k \in 1 .. lc : b + k \in 1 .. e /\ part(b + k) = 3 /\ (b + k) - b = k
      /\ \A k \in 1 .. ld : c + k \in 1 .. e /\ part(c + k) = 4 /\ (c + k) - c = k
      /\ \A k \in 1 .. le : d + k \in 1 .. e /\ part(d + k) = 5 /\ (d + k) - d = k
  BY PartsInOrder
<1> DEFINE At(m) ==
             /\ part(m) \in 1 .. 5
             /\ part(m) = 1 => /\ m \in 1 .. la /\ added[m] \in Alias
                              /\ CellOf(s[m]) = <<"alias", added[m]>>
                              /\ LeftBy(s[m]) = {added[m]}
             /\ part(m) = 2 => /\ m - a \in 1 .. lb /\ removed[m - a] \in Alias
                              /\ CellOf(s[m]) = <<"alias", removed[m - a]>>
                              /\ LeftBy(s[m]) = {}
             /\ part(m) = 3 => /\ m - b \in 1 .. lc
                              /\ placed[m - b] \in ServiceId \X ServiceBody
                              /\ CellOf(s[m]) = <<"service", placed[m - b][1]>>
                              /\ LeftBy(s[m]) = {placed[m - b][2]}
             /\ part(m) = 4 => /\ m - c \in 1 .. ld
                              /\ changed[m - c] \in ServiceId \X ServiceBody
                              /\ CellOf(s[m]) = <<"service", changed[m - c][1]>>
                              /\ LeftBy(s[m]) = {changed[m - c][2]}
             /\ part(m) = 5 => /\ m - d \in 1 .. le /\ dropped[m - d] \in ServiceId
                              /\ CellOf(s[m]) = <<"service", dropped[m - d]>>
                              /\ LeftBy(s[m]) = {}
<1>6. ASSUME NEW m \in 1 .. Len(s) PROVE At(m)
  BY PatchCallAt
<1>7. \A m, n \in 1 .. Len(s) : CellOf(s[m]) = CellOf(s[n]) /\ part(m) = part(n) /\ part(n) # 4
                              => m = n
  BY FittingParts
<1>8. /\ Len(s) \in 0 .. Len(s) /\ Len(s) \in Nat
      /\ W[Len(s)] = [x \in Cell |-> W[Len(s)][x]]
  <2>1. Len(s) \in Nat
    BY PatchParts
  <2>2. Len(s) \in 0 .. Len(s)
    BY <2>1
  <2> HIDE DEF s
  <2> QED
    BY <2>1, <2>2 DEF CellsAfter
<1>9. \A x \in Cell :
        /\ (\A m \in 1 .. Len(s) : CellOf(s[m]) # x) => W[Len(s)][x] = K[x]
        /\ \A n \in 1 .. Len(s) :
              CellOf(s[n]) = x /\ (\A m \in 1 .. Len(s) : m > n => CellOf(s[m]) # x)
              => W[Len(s)][x] = LeftBy(s[n])
  <2> HIDE DEF s, K
  <2> QED
    BY <1>8, CellsAfterAre
<1>10. /\ \A x \in Alias : /\ K[<<"alias", x>>] = {x} \cap alsoKnownAs
                           /\ Cells(A, F)[<<"alias", x>>] = {x} \cap A
                           /\ <<"alias", x>> \in Cell
       /\ \A i \in ServiceId : /\ K[<<"service", i>>] = {services[i]} \ {Absent}
                               /\ Cells(A, F)[<<"service", i>>] = {F[i]} \ {Absent}
                               /\ <<"service", i>> \in Cell
  <2> HIDE DEF A, F
  <2> QED
    BY DEF Cells, Cell
<1>11. \A i \in ServiceId : F[i] = IF i \in ToSet(dropped) THEN Absent
                                  ELSE LastWritten(placed \o changed, i, services[i])
  BY DEF PatchedServices
<1>21. A = (alsoKnownAs \cup ToSet(added)) \ ToSet(removed)
  OBVIOUS
<1> DEFINE u == placed \o changed
<1>12. /\ DOMAIN u = 1 .. lc + ld
       /\ \A k \in 1 .. lc + ld : u[k] = IF k <= lc THEN placed[k] ELSE changed[k - lc]
  <2> DEFINE P == ServiceId \X ServiceBody
  <2>1. placed \in Seq(P) /\ changed \in Seq(P)
    BY <1>1
  <2> HIDE DEF P, placed, changed
  <2>2. /\ u \in Seq(P) /\ Len(u) = lc + Len(changed)
        /\ \A k \in 1 .. lc + Len(changed) : u[k] = IF k <= lc THEN placed[k] ELSE changed[k - lc]
    BY <1>2, <2>1, ConcatIs
  <2>3. DOMAIN u = 1 .. Len(u)
    BY <2>2
  <2> QED
    BY <2>2, <2>3
<1> HIDE DEF s, K, W, A, F, part, la, lb, lc, ld, le, added, removed, placed, changed, dropped, u
<1>13. \A m \in 1 .. e : At(m)
  <2> HIDE DEF At, e
  <2> QED
    BY <1>3, <1>6
<1>14. ASSUME NEW m \in 1 .. e, NEW n \in 1 .. e, m > n, CellOf(s[m]) = CellOf(s[n])
       PROVE  /\ part(n) \in {1, 3, 4}
              /\ part(n) = 1 => part(m) = 2
              /\ part(n) \in {3, 4} => part(m) \in {4, 5}
  <2>1. At(m) /\ At(n)
    BY <1>13
  <2>2. part(m) \in {1, 2, 3, 4, 5} /\ part(n) \in {1, 2, 3, 4, 5}
    BY <2>1
  <2>3. part(n) <= part(m)
    <3>1. n <= m
      BY <1>2, <1>14
    <3> HIDE DEF e
    <3> QED
      BY <1>3, <3>1
  <2>4. part(m) = part(n) => part(n) = 4
    <3>1. m # n
      BY <1>2, <1>14
    <3> HIDE DEF e
    <3> QED
      BY <1>3, <1>7, <1>14, <3>1
  <2>5. part(m) \in {1, 2} <=> part(n) \in {1, 2}
    BY <1>14, <2>1, <2>2
  <2> HIDE DEF At
  <2> QED
    BY <2>2, <2>3, <2>4, <2>5
<1>15. /\ \A x \in Cell :
             /\ (\A m \in 1 .. e : CellOf(s[m]) # x) => W[e][x] = K[x]
             /\ \A n \in 1 .. e :
                   CellOf(s[n]) = x /\ (\A m \in 1 .. e : m > n => CellOf(s[m]) # x)
                   => W[e][x] = LeftBy(s[n])
  <2> HIDE DEF e
  <2> QED
    BY <1>3, <1>9
<1>16. ASSUME NEW x \in Alias PROVE W[e][<<"alias", x>>] = {x} \cap A
  <2>0. \A m \in 1 .. e : CellOf(s[m]) = <<"alias", x>> =>
           \/ part(m) = 1 /\ x \in ToSet(added) /\ LeftBy(s[m]) = {x}
           \/ part(m) = 2 /\ x \in ToSet(removed) /\ LeftBy(s[m]) = {}
    <3> SUFFICES ASSUME NEW m \in 1 .. e, CellOf(s[m]) = <<"alias", x>>
                 PROVE  \/ part(m) = 1 /\ x \in ToSet(added) /\ LeftBy(s[m]) = {x}
                        \/ part(m) = 2 /\ x \in ToSet(removed) /\ LeftBy(s[m]) = {}
      OBVIOUS
    <3>1. At(m)
      BY <1>13
    <3>2. part(m) \in {1, 2, 3, 4, 5}
      BY <3>1
    <3>3. part(m) \in {1, 2}
      BY <3>1, <3>2
    <3> QED
      BY <1>4, <3>1, <3>3
  <2>1. CASE x \in ToSet(removed)
    <3>1. PICK k \in 1 .. lb : removed[k] = x
      BY <1>4, <2>1
    <3>2. /\ a + k \in 1 .. e /\ part(a + k) = 2 /\ (a + k) - a = k /\ At(a + k)
      BY <1>5, <1>13
    <3>3. CellOf(s[a + k]) = <<"alias", x>> /\ LeftBy(s[a + k]) = {}
      BY <3>1, <3>2
    <3>4. \A m \in 1 .. e : m > a + k => CellOf(s[m]) # <<"alias", x>>
      BY <1>14, <3>2, <3>3
    <3>5. W[e][<<"alias", x>>] = {}
      <4> HIDE DEF e, a, At
      <4> QED
        BY <1>10, <1>15, <3>2, <3>3, <3>4
    <3> QED
      BY <1>21, <2>1, <3>5
  <2>2. CASE x \notin ToSet(removed) /\ x \in ToSet(added)
    <3>1. PICK k \in 1 .. la : added[k] = x
      BY <1>4, <2>2
    <3>2. /\ k \in 1 .. e /\ part(k) = 1 /\ At(k)
      BY <1>5, <1>13
    <3>3. CellOf(s[k]) = <<"alias", x>> /\ LeftBy(s[k]) = {x}
      BY <3>1, <3>2
    <3>4. \A m \in 1 .. e : m > k => CellOf(s[m]) # <<"alias", x>>
      BY <1>14, <2>0, <2>2, <3>2, <3>3
    <3>5. W[e][<<"alias", x>>] = {x}
      <4> HIDE DEF e, At
      <4> QED
        BY <1>10, <1>15, <3>2, <3>3, <3>4
    <3> QED
      BY <1>21, <2>2, <3>5
  <2>3. CASE x \notin ToSet(removed) /\ x \notin ToSet(added)
    <3>1. \A m \in 1 .. e : CellOf(s[m]) # <<"alias", x>>
      BY <2>0, <2>3
    <3>2. W[e][<<"alias", x>>] = {x} \cap alsoKnownAs
      <4> HIDE DEF e
      <4> QED
        BY <1>10, <1>15, <3>1
    <3> QED
      BY <1>21, <2>3, <3>2
  <2> QED
    BY <2>1, <2>2, <2>3
<1>17. ASSUME NEW i \in ServiceId PROVE W[e][<<"service", i>>] = {F[i]} \ {Absent}
  <2> DEFINE x == <<"service", i>>
             own == {k \in 1 .. lc + ld : u[k][1] = i}
  <2>0. \A m \in 1 .. e : CellOf(s[m]) = x =>
           \/ part(m) \in {3, 4} /\ m - b \in own
           \/ part(m) = 5 /\ i \in ToSet(dropped)
    <3> SUFFICES ASSUME NEW m \in 1 .. e, CellOf(s[m]) = x
                 PROVE  \/ part(m) \in {3, 4} /\ m - b \in own
                        \/ part(m) = 5 /\ i \in ToSet(dropped)
      OBVIOUS
    <3>1. At(m)
      BY <1>13
    <3>2. part(m) \in {1, 2, 3, 4, 5}
      BY <3>1
    <3>3. CASE part(m) = 3
      <4>1. m - b \in 1 .. lc /\ placed[m - b][1] = i
        BY <3>1, <3>3
      <4>2. m - b \in 1 .. lc + ld /\ m - b <= lc
        BY <1>2, <4>1
      <4>3. u[m - b] = placed[m - b]
        <5> HIDE DEF b
        <5> QED
          BY <1>12, <4>2
      <4> QED
        BY <3>3, <4>1, <4>2, <4>3
    <3>4. CASE part(m) = 4
      <4>1. m - c \in 1 .. ld /\ changed[m - c][1] = i
        BY <3>1, <3>4
      <4>2. m - b \in 1 .. lc + ld /\ ~ (m - b <= lc) /\ (m - b) - lc = m - c
        BY <1>2, <4>1
      <4>3. u[m - b] = changed[m - c]
        <5> HIDE DEF b, c
        <5> QED
          BY <1>12, <4>2
      <4> QED
        BY <3>4, <4>1, <4>2, <4>3
    <3>5. CASE part(m) = 5
      BY <1>4, <3>1, <3>5
    <3> QED
      BY <3>1, <3>2, <3>3, <3>4, <3>5
  <2>1. CASE i \in ToSet(dropped)
    <3>1. PICK k \in 1 .. le : dropped[k] = i
      BY <1>4, <2>1
    <3>2. /\ d + k \in 1 .. e /\ part(d + k) = 5 /\ (d + k) - d = k /\ At(d + k)
      BY <1>5, <1>13
    <3>3. CellOf(s[d + k]) = x /\ LeftBy(s[d + k]) = {}
      BY <3>1, <3>2
    <3>4. \A m \in 1 .. e : m > d + k => CellOf(s[m]) # x
      BY <1>14, <3>2, <3>3
    <3>5. W[e][x] = {}
      <4> HIDE DEF e, d, At
      <4> QED
        BY <1>10, <1>15, <3>2, <3>3, <3>4
    <3> QED
      BY <1>11, <2>1, <3>5
  <2>2. CASE i \notin ToSet(dropped) /\ own # {}
    <3> DEFINE g == Max(own)
    <3>0. own \subseteq 1 .. lc + ld /\ lc + ld \in Nat
      BY <1>2
    <3>1. g \in own /\ \A k \in own : g >= k
      <4> HIDE DEF own
      <4> QED
        BY <2>2, <3>0, GreatestIs
    <3>2. F[i] = u[g][2]
      <4>1. own = {k \in DOMAIN u : u[k][1] = i}
        BY <1>12
      <4>2. F[i] = LastWritten(u, i, services[i])
        BY <1>11, <2>2 DEF u
      <4> HIDE DEF own
      <4> QED
        BY <2>2, <4>1, <4>2 DEF LastWritten
    <3> HIDE DEF g
    <3>3. g \in 1 .. lc + ld /\ u[g][1] = i
      BY <3>1
    <3>4. /\ b + g \in 1 .. e /\ part(b + g) \in {3, 4}
          /\ CellOf(s[b + g]) = x /\ LeftBy(s[b + g]) = {u[g][2]} /\ u[g][2] \in ServiceBody
      <4>1. CASE g <= lc
        <5>1. g \in 1 .. lc
          BY <1>2, <3>3, <4>1
        <5>2. b + g \in 1 .. e /\ part(b + g) = 3 /\ (b + g) - b = g /\ At(b + g)
          BY <1>5, <1>13, <5>1
        <5>3. u[g] = placed[g]
          BY <1>12, <3>3, <4>1
        <5> QED
          BY <3>3, <5>2, <5>3
      <4>2. CASE ~ (g <= lc)
        <5>1. g - lc \in 1 .. ld /\ c + (g - lc) = b + g
          BY <1>2, <3>3, <4>2
        <5>2. /\ b + g \in 1 .. e /\ part(b + g) = 4 /\ (b + g) - c = g - lc /\ At(b + g)
          <6>1. /\ c + (g - lc) \in 1 .. e /\ part(c + (g - lc)) = 4
                /\ (c + (g - lc)) - c = g - lc
            BY <1>5, <5>1
          <6> QED
            BY <1>13, <5>1, <6>1
        <5>3. u[g] = changed[g - lc]
          BY <1>12, <3>3, <4>2
        <5> QED
          BY <3>3, <5>2, <5>3
      <4> QED
        BY <4>1, <4>2
    <3>5. \A m \in 1 .. e : m > b + g => CellOf(s[m]) # x
      <4> SUFFICES ASSUME NEW m \in 1 .. e, m > b + g, CellOf(s[m]) = x PROVE FALSE
        OBVIOUS
      <4>1. m - b \in own
        <5>1. ~ (part(m) = 5 /\ i \in ToSet(dropped))
          BY <2>2
        <5> HIDE DEF b, own, x, e
        <5> QED
          BY <2>0, <5>1
      <4>2. g >= m - b
        BY <3>1, <4>1
      <4> QED
        BY <1>2, <3>3, <4>2
    <3>6. W[e][x] = {u[g][2]}
      <4> HIDE DEF e, b, At
      <4> QED
        BY <1>10, <1>15, <3>4, <3>5
    <3> QED
      BY <3>2, <3>4, <3>6, AbsentAssumption
  <2>3. CASE i \notin ToSet(dropped) /\ own = {}
    <3>1. \A m \in 1 .. e : CellOf(s[m]) # x
      BY <2>0, <2>3
    <3>2. W[e][x] = {services[i]} \ {Absent}
      <4> HIDE DEF e
      <4> QED
        BY <1>10, <1>15, <3>1
    <3>3. F[i] = services[i]
      <4>1. own = {k \in DOMAIN u : u[k][1] = i}
        BY <1>12
      <4>2. F[i] = LastWritten(u, i, services[i])
        BY <1>11, <2>3 DEF u
      <4> HIDE DEF own
      <4> QED
        BY <2>3, <4>1, <4>2 DEF LastWritten
    <3> QED
      BY <3>2, <3>3
  <2> QED
    BY <2>1, <2>2, <2>3
<1>18. \A y \in Cell : W[e][y] = Cells(A, F)[y]
  <2> SUFFICES ASSUME NEW y \in Cell PROVE W[e][y] = Cells(A, F)[y]
    OBVIOUS
  <2>1. CASE \E x \in Alias : y = <<"alias", x>>
    <3> HIDE DEF e
    <3> QED
      BY <1>10, <1>16, <2>1
  <2>2. CASE \E i \in ServiceId : y = <<"service", i>>
    <3> HIDE DEF e
    <3> QED
      BY <1>10, <1>17, <2>2
  <2> QED
    BY <2>1, <2>2 DEF Cell
<1>19. Cells(A, F) = [y \in Cell |-> Cells(A, F)[y]]
  BY DEF Cells
<1>20. W[Len(s)] = Cells(A, F)
  <2> HIDE DEF e
  <2> QED
    BY <1>3, <1>8, <1>18, <1>19
<1> QED
  BY <1>20 DEF W, s, K, A, F, added, removed

Bodies == [ServiceId -> ServiceBody \cup {Absent}]

\* The cells say which aliases and services there are.
LEMMA CellsDetermine ==
  ASSUME NEW A \in SUBSET Alias, NEW B \in SUBSET Alias, NEW F \in Bodies, NEW G \in Bodies,
         Cells(A, F) = Cells(B, G)
  PROVE  A = B /\ F = G
<1>1. /\ \A x \in Alias : <<"alias", x>> \in Cell
      /\ \A i \in ServiceId : <<"service", i>> \in Cell
  BY DEF Cell
<1>2. \A x \in Alias : {x} \cap A = {x} \cap B
  <2> SUFFICES ASSUME NEW x \in Alias PROVE {x} \cap A = {x} \cap B
    OBVIOUS
  <2>1. Cells(A, F)[<<"alias", x>>] = {x} \cap A
    BY <1>1 DEF Cells
  <2>2. Cells(B, G)[<<"alias", x>>] = {x} \cap B
    BY <1>1 DEF Cells
  <2> QED
    BY <2>1, <2>2
<1>3. \A i \in ServiceId : {F[i]} \ {Absent} = {G[i]} \ {Absent}
  <2> SUFFICES ASSUME NEW i \in ServiceId PROVE {F[i]} \ {Absent} = {G[i]} \ {Absent}
    OBVIOUS
  <2>1. Cells(A, F)[<<"service", i>>] = {F[i]} \ {Absent}
    BY <1>1 DEF Cells
  <2>2. Cells(B, G)[<<"service", i>>] = {G[i]} \ {Absent}
    BY <1>1 DEF Cells
  <2> QED
    BY <2>1, <2>2
<1>4. A = B
  BY <1>2
<1>5. \A i \in ServiceId : F[i] = G[i]
  BY <1>3
<1>6. F = G
  BY <1>5 DEF Bodies
<1> QED
  BY <1>4, <1>6

\* A cell is empty when its alias, or its service, is not there.
LEMMA EmptyAlias ==
  ASSUME NEW A \in SUBSET Alias, NEW F \in Bodies, NEW a \in Alias
  PROVE  Cells(A, F)[<<"alias", a>>] = {} <=> a \notin A
<1>1. Cells(A, F)[<<"alias", a>>] = {a} \cap A
  BY DEF Cells, Cell
<1> QED
  BY <1>1

LEMMA EmptyService ==
  ASSUME NEW A \in SUBSET Alias, NEW F \in Bodies, NEW i \in ServiceId
  PROVE  Cells(A, F)[<<"service", i>>] = {} <=> F[i] = Absent
<1>1. Cells(A, F)[<<"service", i>>] = {F[i]} \ {Absent}
  BY DEF Cells, Cell
<1> QED
  BY <1>1

\* An alias, or a service, more or less.
LEMMA AliasAdded ==
  ASSUME NEW A \in SUBSET Alias, NEW F \in Bodies, NEW a \in Alias
  PROVE  Cells(A \cup {a}, F) = [Cells(A, F) EXCEPT ![<<"alias", a>>] = {a}]
<1>1. \A x \in Cell : x[1] = "alias" /\ x # <<"alias", a>> => x[2] # a
  BY DEF Cell
<1>2. <<"alias", a>> \in Cell
  BY DEF Cell
<1>3. \A x \in Cell :
         Cells(A \cup {a}, F)[x] = IF x = <<"alias", a>> THEN {a} ELSE Cells(A, F)[x]
  BY <1>1 DEF Cells
<1>4. \A B : Cells(B, F) = [x \in Cell |-> Cells(B, F)[x]]
  BY DEF Cells
<1>5. /\ DOMAIN Cells(A, F) = Cell
      /\ Cells(A \cup {a}, F) = [x \in Cell |-> Cells(A \cup {a}, F)[x]]
  BY <1>4
<1> QED
  BY <1>3, <1>5

LEMMA AliasDropped ==
  ASSUME NEW A \in SUBSET Alias, NEW F \in Bodies, NEW a \in Alias
  PROVE  Cells(A \ {a}, F) = [Cells(A, F) EXCEPT ![<<"alias", a>>] = {}]
<1>1. \A x \in Cell : x[1] = "alias" /\ x # <<"alias", a>> => x[2] # a
  BY DEF Cell
<1>2. <<"alias", a>> \in Cell
  BY DEF Cell
<1>3. \A x \in Cell :
         Cells(A \ {a}, F)[x] = IF x = <<"alias", a>> THEN {} ELSE Cells(A, F)[x]
  BY <1>1 DEF Cells
<1>4. \A B : Cells(B, F) = [x \in Cell |-> Cells(B, F)[x]]
  BY DEF Cells
<1>5. /\ DOMAIN Cells(A, F) = Cell
      /\ Cells(A \ {a}, F) = [x \in Cell |-> Cells(A \ {a}, F)[x]]
  BY <1>4
<1> QED
  BY <1>3, <1>5

LEMMA ServiceCell ==
  ASSUME NEW A \in SUBSET Alias, NEW F \in Bodies, NEW i \in ServiceId,
         NEW body \in ServiceBody \cup {Absent}
  PROVE  Cells(A, [F EXCEPT ![i] = body])
               = [Cells(A, F) EXCEPT ![<<"service", i>>] = {body} \ {Absent}]
<1> DEFINE G == [F EXCEPT ![i] = body]
<1>1. \A x \in Cell : x[1] # "alias" => x[2] \in ServiceId /\ (x[2] = i <=> x = <<"service", i>>)
  BY DEF Cell
<1>2. <<"service", i>> \in Cell
  BY DEF Cell
<1>3. \A j \in ServiceId : G[j] = IF j = i THEN body ELSE F[j]
  BY DEF Bodies
<1> HIDE DEF G
<1>4. \A x \in Cell : Cells(A, G)[x] = IF x = <<"service", i>> THEN {body} \ {Absent} ELSE Cells(A, F)[x]
  BY <1>1, <1>3 DEF Cells
<1>6. DOMAIN Cells(A, F) = Cell /\ Cells(A, G) = [x \in Cell |-> Cells(A, G)[x]]
  BY DEF Cells
<1>7. Cells(A, G) = [Cells(A, F) EXCEPT ![<<"service", i>>] = {body} \ {Absent}]
  BY <1>4, <1>6
<1> QED
  BY <1>7 DEF G

\* The circuit of such a call writes its cell and nothing else of the document.
LEMMA CircuitWritesCell ==
  ASSUME TypeOK, NEW call \in PatchCall, NEW sig, NEW v, Circuit(call, sig, v)
  PROVE  /\ Cells(alsoKnownAs', services')
               = [Cells(alsoKnownAs, services) EXCEPT ![CellOf(call)] = LeftBy(call)]
         /\ UNCHANGED <<verificationMethods, schnorrJubjubVerificationMethods, relations>>
<1>0. alsoKnownAs \in SUBSET Alias /\ services \in Bodies
  BY DEF TypeOK, Bodies
<1>1. ASSUME NEW a \in Alias, call = AddAlias(a)
      PROVE  /\ alsoKnownAs' = alsoKnownAs \cup {a}
             /\ UNCHANGED <<services, verificationMethods, schnorrJubjubVerificationMethods,
                            relations>>
  <2>1. SetAlsoKnownAs(a, "Insert", sig, v)
    BY <1>1 DEF Circuit, AddAlias
  <2> QED
    BY <2>1 DEF SetAlsoKnownAs
<1>2. ASSUME NEW a \in Alias, call = RemoveAlias(a)
      PROVE  /\ alsoKnownAs' = alsoKnownAs \ {a}
             /\ UNCHANGED <<services, verificationMethods, schnorrJubjubVerificationMethods,
                            relations>>
  <2>1. SetAlsoKnownAs(a, "Remove", sig, v)
    BY <1>2 DEF Circuit, RemoveAlias
  <2> QED
    BY <2>1 DEF SetAlsoKnownAs
<1>3. ASSUME NEW s \in ServiceId \X ServiceBody, call \in {AddService(s), UpdateService(s)}
      PROVE  /\ services' = [services EXCEPT ![s[1]] = s[2]]
             /\ UNCHANGED <<alsoKnownAs, verificationMethods, schnorrJubjubVerificationMethods,
                            relations>>
  <2>1. \E m : SetService(s[1], s[2], m, sig, v)
    BY <1>3 DEF Circuit, AddService, UpdateService
  <2> QED
    BY <2>1 DEF SetService
<1>4. ASSUME NEW i \in ServiceId, call = DropService(i)
      PROVE  /\ services' = [services EXCEPT ![i] = Absent]
             /\ UNCHANGED <<alsoKnownAs, verificationMethods, schnorrJubjubVerificationMethods,
                            relations>>
  <2>1. RemoveService(i, sig, v)
    BY <1>4 DEF Circuit, DropService
  <2> QED
    BY <2>1 DEF RemoveService
<1>5. CASE \E a \in Alias : call = AddAlias(a)
  <2>1. PICK a \in Alias : call = AddAlias(a)
    BY <1>5
  <2>2. CellOf(call) = <<"alias", a>> /\ LeftBy(call) = {a}
    BY <2>1, AliasCalls
  <2>3. /\ alsoKnownAs' = alsoKnownAs \cup {a} /\ services' = services
        /\ UNCHANGED <<verificationMethods, schnorrJubjubVerificationMethods, relations>>
    BY <1>1, <2>1
  <2>4. Cells(alsoKnownAs \cup {a}, services)
          = [Cells(alsoKnownAs, services) EXCEPT ![<<"alias", a>>] = {a}]
    BY <1>0, AliasAdded
  <2> QED
    BY <2>2, <2>3, <2>4
<1>6. CASE \E a \in Alias : call = RemoveAlias(a)
  <2>1. PICK a \in Alias : call = RemoveAlias(a)
    BY <1>6
  <2>2. CellOf(call) = <<"alias", a>> /\ LeftBy(call) = {}
    BY <2>1, AliasCalls
  <2>3. /\ alsoKnownAs' = alsoKnownAs \ {a} /\ services' = services
        /\ UNCHANGED <<verificationMethods, schnorrJubjubVerificationMethods, relations>>
    BY <1>2, <2>1
  <2>4. Cells(alsoKnownAs \ {a}, services)
          = [Cells(alsoKnownAs, services) EXCEPT ![<<"alias", a>>] = {}]
    BY <1>0, AliasDropped
  <2> QED
    BY <2>2, <2>3, <2>4
<1>7. CASE \E s \in ServiceId \X ServiceBody : call \in {AddService(s), UpdateService(s)}
  <2>1. PICK s \in ServiceId \X ServiceBody : call \in {AddService(s), UpdateService(s)}
    BY <1>7
  <2>2. CellOf(call) = <<"service", s[1]>> /\ LeftBy(call) = {s[2]}
    BY <2>1, ServiceCalls
  <2>3. /\ services' = [services EXCEPT ![s[1]] = s[2]] /\ alsoKnownAs' = alsoKnownAs
        /\ UNCHANGED <<verificationMethods, schnorrJubjubVerificationMethods, relations>>
    BY <1>3, <2>1
  <2>4. s[1] \in ServiceId /\ s[2] \in ServiceBody /\ {s[2]} \ {Absent} = {s[2]}
    BY AbsentAssumption
  <2>5. Cells(alsoKnownAs, [services EXCEPT ![s[1]] = s[2]])
          = [Cells(alsoKnownAs, services) EXCEPT ![<<"service", s[1]>>] = {s[2]} \ {Absent}]
    <3>1. \A i \in ServiceId : \A body \in ServiceBody \cup {Absent} :
             Cells(alsoKnownAs, [services EXCEPT ![i] = body])
               = [Cells(alsoKnownAs, services) EXCEPT ![<<"service", i>>] = {body} \ {Absent}]
      BY <1>0, ServiceCell
    <3> QED
      BY <2>4, <3>1
  <2> QED
    BY <2>2, <2>3, <2>4, <2>5
<1>8. CASE \E i \in ServiceId : call = DropService(i)
  <2>1. PICK i \in ServiceId : call = DropService(i)
    BY <1>8
  <2>2. CellOf(call) = <<"service", i>> /\ LeftBy(call) = {}
    BY <2>1, DropCalls
  <2>3. /\ services' = [services EXCEPT ![i] = Absent] /\ alsoKnownAs' = alsoKnownAs
        /\ UNCHANGED <<verificationMethods, schnorrJubjubVerificationMethods, relations>>
    BY <1>4, <2>1
  <2>4. Cells(alsoKnownAs, [services EXCEPT ![i] = Absent])
          = [Cells(alsoKnownAs, services) EXCEPT ![<<"service", i>>] = {Absent} \ {Absent}]
    BY <1>0, ServiceCell
  <2> QED
    BY <2>2, <2>3, <2>4
<1> QED
  BY <1>5, <1>6, <1>7, <1>8 DEF PatchCall

\* A call whose cell suits it meets what its circuit asserts of the document.
LEMMA SuitingCallIsAdmitted ==
  ASSUME TypeOK, NEW c \in Client, Head(calls[c].todo) \in PatchCall,
         Adds(Head(calls[c].todo)) <=>
            Cells(alsoKnownAs, services)[CellOf(Head(calls[c].todo))] = {},
         calls[c].signed = version, active
  PROVE  Admitted(c)
<1> DEFINE call   == Head(calls[c].todo)
           digest == Digest(calls[c].signed, call)
           K      == Cells(alsoKnownAs, services)
<1>1. AssertControllerCanUpdate(Signature(controllerPublicKey, digest),
                                calls[c].signed, digest)
  BY DEF AssertControllerCanUpdate, AssertController, SchnorrVerifyDigest
<1>2. alsoKnownAs \in SUBSET Alias /\ services \in Bodies
  BY DEF TypeOK, Bodies
<1>3. call \in PatchCall /\ (Adds(call) <=> K[CellOf(call)] = {})
  OBVIOUS
<1>7. /\ \A a \in Alias : K[<<"alias", a>>] = {} <=> a \notin alsoKnownAs
      /\ \A i \in ServiceId : K[<<"service", i>>] = {} <=> services[i] = Absent
  BY <1>2, EmptyAlias, EmptyService
<1> HIDE DEF call, digest, K
<1>4. ASSUME NEW a \in Alias, call = AddAlias(a) \/ call = RemoveAlias(a) PROVE Admitted(c)
  <2>1. CellOf(call) = <<"alias", a>> /\ (K[CellOf(call)] = {} <=> a \notin alsoKnownAs)
    <3>1. CellOf(call) = <<"alias", a>>
      BY <1>4, AliasCalls
    <3> QED
      BY <1>7, <3>1
  <2>2. /\ call = AddAlias(a) => a \notin alsoKnownAs
        /\ call = RemoveAlias(a) => a \in alsoKnownAs
    BY <1>3, <2>1, AliasCalls
  <2>3. /\ call[1] = "setAlsoKnownAs" /\ call[2][1] = a
        /\ call = AddAlias(a) => call[2][2] = "Insert"
        /\ call = RemoveAlias(a) => call[2][2] = "Remove"
    BY <1>4 DEF AddAlias, RemoveAlias
  <2> QED
    BY <1>1, <1>4, <2>2, <2>3 DEF Admitted, call, digest
<1>5. ASSUME NEW s \in ServiceId \X ServiceBody, call = AddService(s) \/ call = UpdateService(s)
      PROVE  Admitted(c)
  <2>1. CellOf(call) = <<"service", s[1]>>
    BY <1>5, ServiceCalls
  <2>2. K[<<"service", s[1]>>] = {} <=> services[s[1]] = Absent
    <3>1. s[1] \in ServiceId
      OBVIOUS
    <3> QED
      BY <1>7, <3>1
  <2>3. /\ call = AddService(s) => services[s[1]] = Absent
        /\ call = UpdateService(s) => services[s[1]] # Absent
    BY <1>3, <2>1, <2>2, ServiceCalls
  <2>4. /\ call[1] = "setService" /\ call[2][1] = s[1]
        /\ call = AddService(s) => call[2][3] = "Insert"
        /\ call = UpdateService(s) => call[2][3] = "Update"
    BY <1>5 DEF AddService, UpdateService
  <2> QED
    BY <1>1, <1>5, <2>3, <2>4 DEF Admitted, call, digest
<1>6. ASSUME NEW i \in ServiceId, call = DropService(i) PROVE Admitted(c)
  <2>1. CellOf(call) = <<"service", i>> /\ ~ Adds(call)
    BY <1>6, DropCalls
  <2>2. K[<<"service", i>>] = {} <=> services[i] = Absent
    BY <1>7
  <2>3. services[i] # Absent
    BY <1>3, <2>1, <2>2
  <2>4. call[1] = "removeService" /\ call[2] = i
    BY <1>6 DEF DropService
  <2> QED
    BY <1>1, <2>3, <2>4 DEF Admitted, call, digest
<1> QED
  BY <1>3, <1>4, <1>5, <1>6 DEF PatchCall

\* A patch under way that fitted its snapshot, after which only its own calls
\* have been accepted.
UndisturbedPatch(c) ==
    /\ calls[c].at \notin Ended
    /\ calls[c].op[1] = "applyPatch"
    /\ calls[c].goal # Absent
    /\ calls[c].alone = version

\* Its calls can be run from the cells as they are, and lead to its goal.
LeftToPatch(c) ==
    /\ \E W : \E A \in SUBSET Alias : \E F \in Bodies :
          /\ Executes(calls[c].todo, W)
          /\ W[0] = Cells(alsoKnownAs, services)
          /\ W[Len(calls[c].todo)] = Cells(A, F)
          /\ calls[c].goal = <<A, verificationMethods, schnorrJubjubVerificationMethods,
                               relations, F>>
    /\ calls[c].at = "sent" => calls[c].signed = version

PatchInv == \A c \in Client : UndisturbedPatch(c) => LeftToPatch(c)

\* Operations of one call have no goal.
GoalInv ==
    \A c \in Client :
        calls[c].at \notin Ended /\ calls[c].goal # Absent
        => calls[c].op[1] \in RemovalName \cup {"applyPatch"}

LEMMA PatchBegins ==
  ASSUME NEW c \in Client, NEW op \in Operation, op[1] = "applyPatch", ApiCall(c, op)
  PROVE  /\ op[2] \in Patch
         /\ \/ calls' = [calls EXCEPT ![c] =
                  Begun(op, PatchCalls(op[2]),
                        IF PatchFits(op[2])
                        THEN << (alsoKnownAs \cup ToSet(op[2].alsoKnownAsAdded))
                                    \ ToSet(op[2].alsoKnownAsRemoved),
                                verificationMethods, schnorrJubjubVerificationMethods,
                                relations, PatchedServices(op[2]) >>
                        ELSE Absent)]
            \/ calls' = [calls EXCEPT ![c] = Over(c, op, "ok")]
<1>1. op[2] \in Patch
  BY OperationAssumption DEF AnyOperation
<1>2. ApplyPatch(c, op, op[2])
  BY DEF ApiCall
<1> QED
  BY <1>1, <1>2 DEF ApplyPatch, Begin, Begun

LEMMA PatchedServicesType ==
  ASSUME TypeOK, NEW p \in Patch
  PROVE  PatchedServices(p) \in Bodies
<1> DEFINE u == p.servicesAdded \o p.servicesUpdated
           own(i) == {n \in DOMAIN u : u[n][1] = i}
<1>1. u \in Seq(ServiceId \X ServiceBody)
  BY DEF Patch
<1> HIDE DEF u
<1>2. DOMAIN u = 1 .. Len(u) /\ Len(u) \in Nat
  BY <1>1
<1>3. ASSUME NEW i \in ServiceId, own(i) # {} PROVE u[Max(own(i))][2] \in ServiceBody
  <2> DEFINE T == own(i)
  <2>1. T \subseteq 1 .. Len(u) /\ T # {}
    BY <1>2, <1>3
  <2>2. T \subseteq DOMAIN u
    OBVIOUS
  <2> HIDE DEF T
  <2>3. Max(T) \in T
    BY <1>2, <2>1, GreatestIs
  <2>4. Max(T) \in DOMAIN u
    BY <2>2, <2>3
  <2>5. \A n \in DOMAIN u : u[n][2] \in ServiceBody
    BY <1>1
  <2>6. u[Max(T)][2] \in ServiceBody
    BY <2>4, <2>5
  <2> QED
    BY <2>6 DEF T
<1>4. ASSUME NEW i \in ServiceId
      PROVE  LastWritten(u, i, services[i]) \in ServiceBody \cup {Absent}
  <2>1. LastWritten(u, i, services[i]) = IF own(i) = {} THEN services[i] ELSE u[Max(own(i))][2]
    BY DEF LastWritten
  <2>2. services[i] \in ServiceBody \cup {Absent}
    BY DEF TypeOK
  <2> HIDE DEF own
  <2> QED
    BY <1>3, <2>1, <2>2
<1>5. PatchedServices(p) = [i \in ServiceId |-> IF i \in ToSet(p.servicesRemoved) THEN Absent
                                               ELSE LastWritten(u, i, services[i])]
  BY DEF PatchedServices, u
<1> QED
  BY <1>4, <1>5 DEF Bodies

\* With its snapshot taken, a patch that fits has all of its calls to make.
LEMMA PatchAtFirst ==
  ASSUME TypeOK, NEW p \in Patch, PatchFits(p)
  PROVE  \E W : \E A \in SUBSET Alias : \E F \in Bodies :
            /\ Executes(PatchCalls(p), W)
            /\ W[0] = Cells(alsoKnownAs, services)
            /\ W[Len(PatchCalls(p))] = Cells(A, F)
            /\ A = (alsoKnownAs \cup ToSet(p.alsoKnownAsAdded)) \ ToSet(p.alsoKnownAsRemoved)
            /\ F = PatchedServices(p)
<1> DEFINE s == PatchCalls(p)
           K == Cells(alsoKnownAs, services)
           W == CellsAfter(s, K)
           A == (alsoKnownAs \cup ToSet(p.alsoKnownAsAdded)) \ ToSet(p.alsoKnownAsRemoved)
           F == PatchedServices(p)
<1>1. Executes(s, W)
  BY FittingPatchRuns
<1>2. W[Len(s)] = Cells(A, F)
  <2>1. services \in [ServiceId -> ServiceBody \cup {Absent}]
    BY DEF TypeOK
  <2> QED
    BY <2>1, FittingPatchLeaves
<1>3. W[0] = K
  <2>1. s \in Seq(PatchCall)
    BY <1>1 DEF Executes
  <2>2. K = [x \in Cell |-> K[x]]
    BY DEF Cells
  <2> HIDE DEF s, K
  <2> QED
    BY <2>1, <2>2, CellsAfterEach
<1>4. A \in SUBSET Alias
  <2>1. p.alsoKnownAsAdded \in Seq(Alias)
    BY DEF Patch
  <2>2. ToSet(p.alsoKnownAsAdded) \subseteq Alias
    BY <2>1 DEF ToSet
  <2>3. alsoKnownAs \subseteq Alias
    BY DEF TypeOK
  <2> QED
    BY <2>2, <2>3
<1>5. F \in Bodies
  BY PatchedServicesType
<1> HIDE DEF s, K, W, A, F
<1>6. \E V : \E B \in SUBSET Alias : \E G \in Bodies :
         Executes(s, V) /\ V[0] = K /\ V[Len(s)] = Cells(B, G) /\ B = A /\ G = F
  BY <1>1, <1>2, <1>3, <1>4, <1>5
<1> QED
  BY <1>6 DEF s, K, A, F

\* A call that is accepted leaves the rest of them.
LEMMA PatchStep ==
  ASSUME ApiInv, NEW c \in Client, calls[c].at = "sent", Run(c), LeftToPatch(c),
         calls[c].todo # <<>>
  PROVE  \E V : \E A \in SUBSET Alias : \E F \in Bodies :
            /\ Executes(Tail(calls[c].todo), V)
            /\ Len(Tail(calls[c].todo)) = Len(calls[c].todo) - 1
            /\ V[0] = Cells(alsoKnownAs', services')
            /\ V[Len(calls[c].todo) - 1] = Cells(A, F)
            /\ calls[c].goal = <<A, verificationMethods', schnorrJubjubVerificationMethods',
                                 relations', F>>
<1> DEFINE todo == calls[c].todo
           h    == Head(todo)
           l    == Len(todo)
           sig  == Signature(controllerPublicKey, Digest(calls[c].signed, h))
           K    == Cells(alsoKnownAs, services)
<1>0. PICK W : \E A \in SUBSET Alias : \E F \in Bodies :
          /\ Executes(todo, W) /\ W[0] = K /\ W[l] = Cells(A, F)
          /\ calls[c].goal = <<A, verificationMethods, schnorrJubjubVerificationMethods,
                               relations, F>>
  BY DEF LeftToPatch
<1>1. PICK A \in SUBSET Alias, F \in Bodies :
          /\ Executes(todo, W) /\ W[0] = K /\ W[l] = Cells(A, F)
          /\ calls[c].goal = <<A, verificationMethods, schnorrJubjubVerificationMethods,
                               relations, F>>
  BY <1>0
<1> DEFINE V == [n \in 0 .. l - 1 |-> W[n + 1]]
<1>2. /\ Executes(Tail(todo), V) /\ Len(Tail(todo)) = l - 1
      /\ V[0] = [W[0] EXCEPT ![CellOf(h)] = LeftBy(h)]
      /\ V[l - 1] = W[l] /\ h \in PatchCall
  <2> HIDE DEF todo
  <2>1. todo # <<>>
    BY DEF todo
  <2> QED
    BY <1>1, <2>1, ExecutesTail
<1>3. Circuit(h, sig, calls[c].signed) /\ TypeOK
  BY DEF Run, ApiInv, LedgerInv
<1> DEFINE v == calls[c].signed
<1> HIDE DEF V, h, l, sig, v, K
<1>4. /\ Cells(alsoKnownAs', services') = [K EXCEPT ![CellOf(h)] = LeftBy(h)]
      /\ UNCHANGED <<verificationMethods, schnorrJubjubVerificationMethods, relations>>
  BY <1>2, <1>3, CircuitWritesCell DEF v, K
<1>5. /\ V[0] = Cells(alsoKnownAs', services')
      /\ V[l - 1] = Cells(A, F)
      /\ calls[c].goal = <<A, verificationMethods', schnorrJubjubVerificationMethods',
                           relations', F>>
  BY <1>1, <1>2, <1>4
<1> HIDE DEF todo
<1>6. \E U : \E B \in SUBSET Alias : \E G \in Bodies :
         /\ Executes(Tail(todo), U) /\ Len(Tail(todo)) = l - 1
         /\ U[0] = Cells(alsoKnownAs', services') /\ U[l - 1] = Cells(B, G)
         /\ calls[c].goal = <<B, verificationMethods', schnorrJubjubVerificationMethods',
                              relations', G>>
  BY <1>1, <1>2, <1>5
<1> QED
  BY <1>6 DEF todo, l

\* A step of one client's leaves the others' patches undisturbed only if it
\* leaves the ledger alone; operations of one call keep no goal.
LEMMA PatchFrame ==
  ASSUME ApiInv, PatchInv, GoalInv, NEW c \in Client,
         \E r : calls' = [calls EXCEPT ![c] = r],
         UNCHANGED ledger \/ version' > version,
         UndisturbedPatch(c)' => LeftToPatch(c)',
         calls'[c].at \notin Ended /\ calls'[c].goal # Absent
            => calls'[c].op[1] \in RemovalName \cup {"applyPatch"}
  PROVE  PatchInv' /\ GoalInv'
<1>1. DOMAIN calls = Client
  BY DEF ApiInv, Fields
<1>2. \A d \in Client \ {c} : calls'[d] = calls[d]
  BY <1>1
<1>3. ASSUME NEW d \in Client, d # c, UndisturbedPatch(d)' PROVE LeftToPatch(d)'
  <2>1. calls'[d] = calls[d] /\ calls[d].alone = version' /\ calls[d].at \notin Ended
    BY <1>2, <1>3 DEF UndisturbedPatch
  <2>2. calls[d].alone \in 0 .. version /\ version \in Nat
    BY <2>1 DEF ApiInv, ApiTypeOK, TypeOK
  <2>3. ~(version' > version)
    BY <2>1, <2>2
  <2>4. UNCHANGED ledger
    BY <2>3
  <2>5. UndisturbedPatch(d)
    BY <1>3, <2>1, <2>4 DEF UndisturbedPatch, ledger, counters
  <2>6. LeftToPatch(d)
    BY <2>5 DEF PatchInv
  <2> QED
    BY <2>1, <2>4, <2>6 DEF LeftToPatch, ledger, document, counters
<1>4. PatchInv'
  BY <1>3 DEF PatchInv
<1>5. GoalInv'
  BY <1>2 DEF GoalInv
<1> QED
  BY <1>4, <1>5

LEMMA NextPatchInv ==
  ASSUME ApiInv, PatchInv, GoalInv, [ApiNext]_apiVars
  PROVE  PatchInv' /\ GoalInv'
<1>0. DOMAIN calls = Client /\ version \in Nat /\ TypeOK
  BY DEF ApiInv, Fields, ApiTypeOK, TypeOK
<1>b. ASSUME NEW c \in Client, NEW op, NEW outcome \in Ended,
             calls' = [calls EXCEPT ![c] = Over(c, op, outcome)],
             UNCHANGED ledger \/ version' > version
      PROVE  PatchInv' /\ GoalInv'
  <2>1. calls'[c].at \in Ended
    BY <1>0, <1>b DEF Over
  <2>2. ~ UndisturbedPatch(c)'
    BY <2>1 DEF UndisturbedPatch
  <2>3. \E r : calls' = [calls EXCEPT ![c] = r]
    BY <1>b
  <2> QED
    BY <1>b, <2>1, <2>2, <2>3, PatchFrame
<1>c. ASSUME NEW c \in Client, calls[c].at = "sent", Run(c)
      PROVE  version' > version /\ version' = version + 1
  BY <1>0, <1>c, RunStep
<1>d. {"ok", "refused", "rejected", "lost"} \subseteq Ended
  BY DEF Ended
<1>1. ASSUME NEW c \in Client, NEW op \in Operation, ApiCall(c, op)
      PROVE  PatchInv' /\ GoalInv'
  <2>0. UNCHANGED ledger
    BY <1>1, ApiCallStep
  <2>1. CASE op[1] # "applyPatch"
    <3>1. \/ \E todo : \E goal : /\ op[1] \notin RemovalName => goal = Absent
                                /\ calls' = [calls EXCEPT ![c] = Begun(op, todo, goal)]
          \/ calls' = [calls EXCEPT ![c] = Over(c, op, "refused")]
      BY <1>1, <2>1, ApiCallPlans
    <3>2. ASSUME NEW todo, NEW goal, op[1] \notin RemovalName => goal = Absent,
                 calls' = [calls EXCEPT ![c] = Begun(op, todo, goal)]
          PROVE  PatchInv' /\ GoalInv'
      <4>1. /\ calls'[c].op = op /\ calls'[c].goal = goal
            /\ \E r : calls' = [calls EXCEPT ![c] = r]
        BY <1>0, <3>2 DEF Begun
      <4>2. ~ UndisturbedPatch(c)'
        BY <2>1, <4>1 DEF UndisturbedPatch
      <4>3. calls'[c].goal # Absent => calls'[c].op[1] \in RemovalName
        BY <3>2, <4>1
      <4> QED
        BY <2>0, <4>1, <4>2, <4>3, PatchFrame
    <3> QED
      BY <1>b, <1>d, <2>0, <3>1, <3>2
  <2>2. CASE op[1] = "applyPatch"
    <3> DEFINE p == op[2]
               A == (alsoKnownAs \cup ToSet(p.alsoKnownAsAdded)) \ ToSet(p.alsoKnownAsRemoved)
               F == PatchedServices(p)
               goal == IF PatchFits(p)
                       THEN <<A, verificationMethods, schnorrJubjubVerificationMethods,
                              relations, F>>
                       ELSE Absent
               r == Begun(op, PatchCalls(p), goal)
    <3>1. /\ p \in Patch
          /\ \/ calls' = [calls EXCEPT ![c] = r]
             \/ calls' = [calls EXCEPT ![c] = Over(c, op, "ok")]
      BY <1>1, <2>2, PatchBegins
    <3>2. /\ r.at = "submit" /\ r.op = op /\ r.goal = goal /\ r.todo = PatchCalls(p)
      BY DEF Begun
    <3>3. PatchFits(p) => goal = <<A, verificationMethods, schnorrJubjubVerificationMethods,
                                   relations, F>>
      OBVIOUS
    <3>4. ~ PatchFits(p) => goal = Absent
      OBVIOUS
    <3>5. PatchFits(p) => \E W : \E B \in SUBSET Alias : \E G \in Bodies :
                             /\ Executes(PatchCalls(p), W)
                             /\ W[0] = Cells(alsoKnownAs, services)
                             /\ W[Len(PatchCalls(p))] = Cells(B, G)
                             /\ B = A /\ G = F
      BY <1>0, <3>1, PatchAtFirst
    <3> HIDE DEF r, goal, p, A, F
    <3>6. CASE calls' = [calls EXCEPT ![c] = r]
      <4>1. calls'[c] = r /\ \E t : calls' = [calls EXCEPT ![c] = t]
        BY <1>0, <3>6
      <4>2. ASSUME UndisturbedPatch(c)' PROVE LeftToPatch(c)'
        <5>1. goal # Absent
          BY <3>2, <4>1, <4>2 DEF UndisturbedPatch
        <5>2. PatchFits(p)
          BY <3>4, <5>1
        <5>3. PICK W : \E B \in SUBSET Alias : \E G \in Bodies :
                         /\ Executes(PatchCalls(p), W)
                         /\ W[0] = Cells(alsoKnownAs, services)
                         /\ W[Len(PatchCalls(p))] = Cells(B, G)
                         /\ goal = <<B, verificationMethods, schnorrJubjubVerificationMethods,
                                      relations, G>>
          BY <3>3, <3>5, <5>2
        <5>4. /\ UNCHANGED <<alsoKnownAs, services, verificationMethods,
                             schnorrJubjubVerificationMethods, relations>>
              /\ calls'[c].at # "sent"
          BY <2>0, <3>2, <4>1 DEF ledger, document
        <5> QED
          BY <3>2, <4>1, <5>3, <5>4 DEF LeftToPatch
      <4>3. calls'[c].op[1] = "applyPatch"
        BY <2>2, <3>2, <4>1
      <4> QED
        BY <2>0, <4>1, <4>2, <4>3, PatchFrame
    <3> QED
      BY <1>b, <1>d, <2>0, <3>1, <3>6
  <2> QED
    BY <2>1, <2>2
<1>2. ASSUME NEW c \in Client, Submit(c) PROVE PatchInv' /\ GoalInv'
  <2> DEFINE r == [at |-> "sent", op |-> calls[c].op, todo |-> calls[c].todo,
                   signed |-> version, alone |-> calls[c].alone, goal |-> calls[c].goal]
  <2>1. calls' = [calls EXCEPT ![c] = r] /\ UNCHANGED ledger /\ calls[c].at \notin Ended
    BY <1>0, <1>2 DEF Submit, Ended
  <2>2. /\ r.op = calls[c].op /\ r.todo = calls[c].todo /\ r.alone = calls[c].alone
        /\ r.goal = calls[c].goal /\ r.signed = version
    OBVIOUS
  <2> HIDE DEF r
  <2>3. calls'[c] = r /\ \E t : calls' = [calls EXCEPT ![c] = t]
    BY <1>0, <2>1
  <2>4. ASSUME UndisturbedPatch(c)' PROVE LeftToPatch(c)'
    <3>1. UndisturbedPatch(c)
      BY <2>1, <2>2, <2>3, <2>4 DEF UndisturbedPatch, ledger, counters
    <3>2. LeftToPatch(c)
      BY <3>1 DEF PatchInv
    <3>3. /\ UNCHANGED <<alsoKnownAs, services, verificationMethods,
                         schnorrJubjubVerificationMethods, relations, version>>
      BY <2>1 DEF ledger, document, counters
    <3> QED
      BY <2>2, <2>3, <3>2, <3>3 DEF LeftToPatch
  <2>5. calls'[c].goal # Absent => calls'[c].op[1] \in RemovalName \cup {"applyPatch"}
    BY <2>1, <2>2, <2>3 DEF GoalInv
  <2> QED
    BY <2>1, <2>3, <2>4, <2>5, PatchFrame
<1>3. ASSUME NEW c \in Client, Accept(c) PROVE PatchInv' /\ GoalInv'
  <2>1. version' > version /\ version' = version + 1
    BY <1>c, <1>3 DEF Accept
  <2>2. CASE Len(calls[c].todo) = 1
    <3>1. calls' = [calls EXCEPT ![c] = Over(c, calls[c].op, "ok")]
      BY <1>0, <1>3, <2>2 DEF Accept
    <3> QED
      BY <1>b, <1>d, <2>1, <3>1
  <2>3. CASE Len(calls[c].todo) # 1
    <3> DEFINE r == [at |-> "submit", op |-> calls[c].op, todo |-> Tail(calls[c].todo),
                     signed |-> 0, alone |-> calls[c].alone + 1, goal |-> calls[c].goal]
    <3>1. calls' = [calls EXCEPT ![c] = r]
      BY <1>0, <1>3, <2>3 DEF Accept
    <3>2. /\ r.at = "submit" /\ r.op = calls[c].op /\ r.todo = Tail(calls[c].todo)
          /\ r.alone = calls[c].alone + 1 /\ r.goal = calls[c].goal
      OBVIOUS
    <3> HIDE DEF r
    <3>3. calls'[c] = r /\ \E t : calls' = [calls EXCEPT ![c] = t]
      BY <1>0, <3>1
    <3>4. calls[c].at \notin Ended
      BY <1>3 DEF Accept, Ended
    <3>5. calls[c].alone \in 0 .. version /\ calls[c].todo # <<>>
      BY <3>4 DEF ApiInv, ApiTypeOK
    <3>6. ASSUME UndisturbedPatch(c)' PROVE LeftToPatch(c)'
      <4>1. calls[c].alone + 1 = version + 1
        BY <2>1, <3>2, <3>3, <3>6 DEF UndisturbedPatch
      <4>2. calls[c].alone = version
        BY <1>0, <3>5, <4>1
      <4>3. UndisturbedPatch(c)
        BY <3>2, <3>3, <3>4, <3>6, <4>2 DEF UndisturbedPatch
      <4>4. LeftToPatch(c) /\ calls[c].at = "sent" /\ Run(c)
        BY <1>3, <4>3 DEF PatchInv, Accept
      <4>5. PICK V : \E A \in SUBSET Alias : \E F \in Bodies :
                /\ Executes(Tail(calls[c].todo), V)
                /\ Len(Tail(calls[c].todo)) = Len(calls[c].todo) - 1
                /\ V[0] = Cells(alsoKnownAs', services')
                /\ V[Len(calls[c].todo) - 1] = Cells(A, F)
                /\ calls[c].goal = <<A, verificationMethods', schnorrJubjubVerificationMethods',
                                     relations', F>>
        BY <3>5, <4>4, PatchStep
      <4>6. calls'[c].todo = Tail(calls[c].todo) /\ calls'[c].goal = calls[c].goal
            /\ calls'[c].at # "sent"
        BY <3>2, <3>3
      <4> QED
        BY <4>5, <4>6 DEF LeftToPatch
    <3>7. calls'[c].goal # Absent => calls'[c].op[1] \in RemovalName \cup {"applyPatch"}
      BY <3>2, <3>3, <3>4 DEF GoalInv
    <3> QED
      BY <2>1, <3>3, <3>6, <3>7, PatchFrame
  <2> QED
    BY <2>2, <2>3
<1>4. ASSUME NEW c \in Client, FailToConvert(c) \/ Reject(c) \/ LoseCall(c)
      PROVE  PatchInv' /\ GoalInv'
  <2>1. \E outcome \in {"refused", "rejected", "lost"} :
            calls' = [calls EXCEPT ![c] = Over(c, calls[c].op, outcome)]
    BY <1>4, <1>0 DEF FailToConvert, Reject, LoseCall
  <2>2. UNCHANGED ledger
    BY <1>4 DEF FailToConvert, Reject, LoseCall
  <2> QED
    BY <1>b, <1>d, <2>1, <2>2
<1>5. ASSUME NEW c \in Client, LoseAnswer(c) PROVE PatchInv' /\ GoalInv'
  <2>1. version' > version
    BY <1>c, <1>5 DEF LoseAnswer
  <2>2. calls' = [calls EXCEPT ![c] = Over(c, calls[c].op, "lost")]
    BY <1>0, <1>5 DEF LoseAnswer
  <2> QED
    BY <1>b, <1>d, <2>1, <2>2
<1>6. ASSUME UNCHANGED apiVars PROVE PatchInv' /\ GoalInv'
  <2>1. UNCHANGED ledger /\ UNCHANGED calls
    BY <1>6 DEF apiVars
  <2> QED
    BY <2>1 DEF PatchInv, GoalInv, UndisturbedPatch, LeftToPatch, ledger, document, counters
<1> QED
  BY <1>1, <1>2, <1>3, <1>4, <1>5, <1>6 DEF ApiNext

LEMMA InitPatchInv == ApiInit => PatchInv /\ GoalInv
BY DEF ApiInit, Over, Ended, PatchInv, GoalInv, UndisturbedPatch

\* What an undisturbed patch has left to do leads from what the ledger holds to
\* its goal.
THEOREM PatchesCorrect == ApiSpec => [](ApiInv /\ PatchInv /\ GoalInv)
BY InitApiInv, NextApiInv, InitPatchInv, NextPatchInv, PTL DEF ApiSpec

LEMMA PatchAdmitted ==
  ASSUME ApiInv, PatchInv, NEW c \in Client,
         UndisturbedPatch(c), calls[c].at = "sent", active
  PROVE  Admitted(c)
<1> DEFINE todo == calls[c].todo
           K    == Cells(alsoKnownAs, services)
<1>1. LeftToPatch(c) /\ calls[c].signed = version /\ TypeOK
  BY DEF PatchInv, LeftToPatch, ApiInv, LedgerInv
<1>2. todo # <<>>
  BY DEF ApiInv, ApiTypeOK, Ended
<1>3. PICK W : Executes(todo, W) /\ W[0] = K
  BY <1>1 DEF LeftToPatch
<1>4. (Adds(Head(todo)) <=> W[0][CellOf(Head(todo))] = {}) /\ Head(todo) \in PatchCall
  <2> HIDE DEF todo
  <2>1. todo # <<>>
    BY <1>2
  <2> QED
    BY <1>3, <2>1, ExecutesTail
<1>5. (Adds(Head(todo)) <=> K[CellOf(Head(todo))] = {}) /\ Head(todo) \in PatchCall
  BY <1>3, <1>4
<1> QED
  BY <1>1, <1>5, SuitingCallIsAdmitted

LEMMA PatchEnds ==
  ASSUME ApiInv, PatchInv, [ApiNext]_apiVars, ApiInv', NEW c \in Client,
         UndisturbedPatch(c), calls[c].at = "sent", calls'[c].at = "ok"
  PROVE  document' = calls[c].goal
<1>1. Run(c) /\ Len(calls[c].todo) = 1
  BY OkIsAccepted DEF Accept
<1>2. LeftToPatch(c) /\ calls[c].todo # <<>>
  BY DEF PatchInv, ApiInv, ApiTypeOK, Ended
<1>3. PICK V : \E A \in SUBSET Alias : \E F \in Bodies :
          /\ V[0] = Cells(alsoKnownAs', services')
          /\ V[Len(calls[c].todo) - 1] = Cells(A, F)
          /\ calls[c].goal = <<A, verificationMethods', schnorrJubjubVerificationMethods',
                               relations', F>>
  BY <1>1, <1>2, PatchStep
<1>4. PICK A \in SUBSET Alias, F \in Bodies :
          /\ V[0] = Cells(alsoKnownAs', services')
          /\ V[Len(calls[c].todo) - 1] = Cells(A, F)
          /\ calls[c].goal = <<A, verificationMethods', schnorrJubjubVerificationMethods',
                               relations', F>>
  BY <1>3
<1>5. Len(calls[c].todo) - 1 = 0
  BY <1>1
<1>6. Cells(alsoKnownAs', services') = Cells(A, F)
  BY <1>4, <1>5
<1>7. alsoKnownAs' \in SUBSET Alias /\ services' \in Bodies
  BY DEF ApiInv, LedgerInv, TypeOK, Bodies
<1>8. alsoKnownAs' = A /\ services' = F
  BY <1>6, <1>7, CellsDetermine
<1> QED
  BY <1>4, <1>8 DEF document

\* A call under way of a removal or of a patch that nobody disturbed.
Alone(c) ==
    /\ calls[c].at = "sent"
    /\ calls[c].goal # Absent
    /\ calls[c].alone = version

LEMMA AloneIsEither ==
  ASSUME GoalInv, NEW c \in Client, Alone(c)
  PROVE  Undisturbed(c) \/ UndisturbedPatch(c)
BY DEF GoalInv, Alone, Undisturbed, UndisturbedPatch, Ended

LEMMA AloneStep ==
  ASSUME ApiInv, UndisturbedInv, PatchInv, GoalInv, [ApiNext]_apiVars, ApiInv',
         NEW c \in Client, Alone(c), active
  PROVE  /\ Admitted(c)
         /\ calls'[c].at = "ok" => document' = calls[c].goal
         /\ calls'[c].at = "rejected" => ~ CanRun(c)
<1>1. calls[c].at = "sent"
  BY DEF Alone
<1>2. Admitted(c)
  BY <1>1, AloneIsEither, UndisturbedAdmitted, PatchAdmitted
<1>3. calls'[c].at = "ok" => document' = calls[c].goal
  BY <1>1, AloneIsEither, UndisturbedEnds, PatchEnds
<1>4. calls'[c].at = "rejected" => ~ CanRun(c)
  BY <1>1, RejectedIsRefused
<1> QED
  BY <1>2, <1>3, <1>4

\* Of a removal or a patch that nobody disturbs, while the DID is active, every
\* call meets a ledger on which its circuit asserts nothing false.
THEOREM UndisturbedOperationsAreAdmitted ==
  ApiSpec => [](\A c \in Client : Alone(c) /\ active => Admitted(c))
<1>1. ApiInv /\ UndisturbedInv /\ PatchInv /\ GoalInv
        => \A c \in Client : Alone(c) /\ active => Admitted(c)
  <2> SUFFICES ASSUME ApiInv, UndisturbedInv, PatchInv, GoalInv,
                      NEW c \in Client, Alone(c), active
               PROVE  Admitted(c)
    OBVIOUS
  <2>1. calls[c].at = "sent"
    BY DEF Alone
  <2> QED
    BY <2>1, AloneIsEither, UndisturbedAdmitted, PatchAdmitted
<1> QED
  BY <1>1, UndisturbedCorrect, PatchesCorrect, PTL

\* Circuits run when nothing they assert is false: what AdmittedRuns says, for
\* ENABLED instead of a step at hand.
AdmittedCallsRun ==
    \A c \in Client : calls[c].at = "sent" /\ Admitted(c) => CanRun(c)

\* One that returns Ok leaves the document that was asked for of its snapshot,
\* and none is rejected while circuits run whenever their assertions hold, which
\* is all that is not proved of AtomicWhenAlone.
THEOREM UndisturbedOperationsAreAtomic ==
  ApiSpec /\ []AdmittedCallsRun => AtomicWhenAlone
<1>1. ApiInv /\ UndisturbedInv /\ PatchInv /\ GoalInv /\ [ApiNext]_apiVars /\ ApiInv'
        /\ AdmittedCallsRun
        => [\A c \in Client :
               /\ calls[c].at = "sent"
               /\ calls'[c].at \in {"ok", "rejected"}
               /\ calls[c].goal # Absent
               /\ calls[c].alone = version
               /\ active
               => calls'[c].at = "ok" /\ document' = calls[c].goal]_apiVars
  <2> SUFFICES ASSUME ApiInv, UndisturbedInv, PatchInv, GoalInv, [ApiNext]_apiVars, ApiInv',
                      AdmittedCallsRun,
                      NEW c \in Client, Alone(c), active,
                      calls'[c].at \in {"ok", "rejected"}
               PROVE  calls'[c].at = "ok" /\ document' = calls[c].goal
    BY DEF Alone
  <2>1. /\ Admitted(c)
        /\ calls'[c].at = "ok" => document' = calls[c].goal
        /\ calls'[c].at = "rejected" => ~ CanRun(c)
    BY AloneStep
  <2>2. calls'[c].at # "rejected"
    BY <2>1 DEF AdmittedCallsRun, Alone
  <2> QED
    BY <2>1, <2>2
<1> QED
  BY <1>1, UndisturbedCorrect, PatchesCorrect, PTL DEF ApiSpec, AtomicWhenAlone

-----------------------------------------------------------------------------
(***************************************************************************)
(* Conversions.  What is written is read back: keys, and endpoints once    *)
(* they have their normal form, which is the same the second time.         *)
(***************************************************************************)
LEMMA NormalUri ==
  ASSUME NEW u \in Domain!Uri
  PROVE  /\ Domain!NormalizeUriString(u) \in Domain!Uri
         /\ Domain!NormalizeUriString(Domain!NormalizeUriString(u))
                = Domain!NormalizeUriString(u)
<1>1. CASE u.scheme \notin Domain!KnownScheme \/ ~u.parses
  BY <1>1 DEF Domain!NormalizeUriString
<1>2. CASE u.scheme \in Domain!KnownScheme /\ u.parses
  <2> DEFINE port == IF u.port = "default" THEN "none" ELSE u.port
             path == IF u.path = "/p" THEN u.path
                     ELSE IF Domain!EndsWithSlash(u) THEN "/" ELSE ""
             v == [u EXCEPT !.capitals = FALSE, !.port = port, !.path = path]
  <2>1. Domain!NormalizeUriString(u) = v
    BY <1>2 DEF Domain!NormalizeUriString, Domain!Uri
  <2>2. v \in Domain!Uri
    BY DEF Domain!Uri
  <2>3. /\ v.scheme = u.scheme /\ v.parses = u.parses /\ v.capitals = FALSE
        /\ v.port = port /\ v.path = path /\ v.tail = u.tail
    BY DEF Domain!Uri
  <2>4. port # "default"
    OBVIOUS
  <2>5. path = IF path = "/p" THEN path ELSE IF Domain!EndsWithSlash(v) THEN "/" ELSE ""
    BY <2>3 DEF Domain!Uri, Domain!EndsWithSlash
  <2>6. Domain!NormalizeUriString(v) =
            [v EXCEPT !.capitals = FALSE,
                      !.port = IF v.port = "default" THEN "none" ELSE v.port,
                      !.path = IF v.path = "/p" THEN v.path
                               ELSE IF Domain!EndsWithSlash(v) THEN "/" ELSE ""]
    BY <1>2, <2>3 DEF Domain!NormalizeUriString
  <2>7. Domain!NormalizeUriString(v) =
            [v EXCEPT !.capitals = v.capitals, !.port = v.port, !.path = v.path]
    BY <2>3, <2>4, <2>5, <2>6
  <2>8. Domain!NormalizeUriString(v) = v
    <3> HIDE DEF v, port, path
    <3>1. [v EXCEPT !.capitals = v.capitals, !.port = v.port, !.path = v.path] = v
      BY <2>2 DEF Domain!Uri
    <3> QED
      BY <2>7, <3>1
  <2> QED
    BY <2>1, <2>2, <2>8
<1> QED
  BY <1>1, <1>2

LEMMA NormalEndpoint ==
  ASSUME NEW e \in Seq(Domain!EndpointEntry)
  PROVE  LET f == Domain!NormalizeServiceEndpoint(e)
         IN  /\ f \in Seq(Domain!EndpointEntry)
             /\ Domain!NormalizeServiceEndpoint(f) = f
<1> DEFINE f == Domain!NormalizeServiceEndpoint(e)
<1>1. \A n \in DOMAIN e : e[n] \in Domain!EndpointEntry
  OBVIOUS
<1>2. DOMAIN f = DOMAIN e /\ f = [n \in DOMAIN f |-> f[n]]
  BY DEF Domain!NormalizeServiceEndpoint
<1>3. \A n \in DOMAIN e : f[n] = [e[n] EXCEPT !.uri = Domain!NormalizeUriString(e[n].uri)]
  BY DEF Domain!NormalizeServiceEndpoint
<1>4. \A n \in DOMAIN e :
          /\ f[n] \in Domain!EndpointEntry
          /\ f[n].uri = Domain!NormalizeUriString(e[n].uri)
  <2> SUFFICES ASSUME NEW n \in DOMAIN e
               PROVE  /\ f[n] \in Domain!EndpointEntry
                      /\ f[n].uri = Domain!NormalizeUriString(e[n].uri)
    OBVIOUS
  <2> DEFINE uri == Domain!NormalizeUriString(e[n].uri)
  <2>1. e[n] \in Domain!EndpointEntry /\ e[n].uri \in Domain!Uri
    BY <1>1 DEF Domain!EndpointEntry
  <2>2. uri \in Domain!Uri
    BY <2>1, NormalUri
  <2>3. f[n] = [e[n] EXCEPT !.uri = uri]
    BY <1>3
  <2> HIDE DEF f, uri
  <2>4. f[n] \in Domain!EndpointEntry /\ f[n].uri = uri
    BY <2>1, <2>2, <2>3 DEF Domain!EndpointEntry
  <2> QED
    BY <2>4 DEF uri
<1>5. f \in Seq(Domain!EndpointEntry)
  <2>1. DOMAIN f = 1 .. Len(e) /\ Len(e) \in Nat
    BY <1>2
  <2> QED
    BY <1>2, <1>4, <2>1
<1>6. \A n \in DOMAIN f : [f[n] EXCEPT !.uri = Domain!NormalizeUriString(f[n].uri)] = f[n]
  <2> SUFFICES ASSUME NEW n \in DOMAIN f
               PROVE  [f[n] EXCEPT !.uri = Domain!NormalizeUriString(f[n].uri)] = f[n]
    OBVIOUS
  <2>1. e[n].uri \in Domain!Uri
    BY <1>1, <1>2 DEF Domain!EndpointEntry
  <2>2. Domain!NormalizeUriString(f[n].uri) = f[n].uri
    BY <1>2, <1>4, <2>1, NormalUri
  <2> QED
    BY <1>2, <1>4, <2>2 DEF Domain!EndpointEntry
<1>7. Domain!NormalizeServiceEndpoint(f) = [n \in DOMAIN f |-> f[n]]
  BY <1>6 DEF Domain!NormalizeServiceEndpoint
<1> QED
  BY <1>2, <1>5, <1>7

\* The key that is read of one on the ledger.
LEMMA ReadKeyIs ==
  ASSUME NEW w, NEW y, (IF w.y = "" THEN Absent ELSE w.y) = y
  PROVE  LedgerJwkToDomain(w) =
            [typ |-> w.typ, kty |-> w.kty, crv |-> w.crv, y |-> y, ext |-> {}]
BY Zenon DEF LedgerJwkToDomain

\* A key that a caller can construct has a ledger form that is read as this key
\* without its further members.
LEMMA KeyReadsBack ==
  ASSUME NEW m \in DomainMethod, VerificationMethodToLedger(PublicKeyJwkToLedger(m))
  PROVE  /\ LedgerJwkReads(PublicKeyJwkToLedger(m))
         /\ LedgerJwkToDomain(PublicKeyJwkToLedger(m)) = Kept(m)
<1> DEFINE blank == IF m.y = Absent THEN "" ELSE m.y
           w == PublicKeyJwkToLedger(m)
           k == Kept(m)
<1>1. /\ m \in [typ : VerificationMethodType, kty : KeyType, crv : CurveType,
                y : STRING \cup {Absent}, ext : SUBSET STRING]
      /\ ValidJwk(m)
  BY DomainMethodAssumption
<1>2. k = [typ |-> m.typ, kty |-> m.kty, crv |-> m.crv, y |-> m.y, ext |-> {}]
  BY <1>1 DEF Kept
<1>3. w = [typ |-> m.typ, kty |-> m.kty, crv |-> m.crv, y |-> blank]
  BY DEF PublicKeyJwkToLedger
<1> HIDE DEF w, blank
<1>4. m.kty \in {"OKP", "EC"}
  <2>1. w.kty = m.kty
    BY <1>3
  <2> QED
    BY <2>1 DEF VerificationMethodToLedger, AssertMidnightKeyProfile, w
<1>5. m.y = Absent \/ m.y # ""
  BY <1>1, <1>4 DEF ValidJwk
<1>6. (IF w.y = "" THEN Absent ELSE w.y) = m.y
  BY <1>3, <1>5 DEF blank
<1>7. LedgerJwkToDomain(w) = k
  <2> HIDE DEF k
  <2>1. LedgerJwkToDomain(w)
          = [typ |-> w.typ, kty |-> w.kty, crv |-> w.crv, y |-> m.y, ext |-> {}]
    BY <1>6, ReadKeyIs, Zenon
  <2>2. w.typ = m.typ /\ w.kty = m.kty /\ w.crv = m.crv
    BY <1>3
  <2> QED
    BY <1>2, <2>1, <2>2
<1>8. ValidJwk(k)
  <2> HIDE DEF k
  <2>1. k.kty = m.kty /\ k.crv = m.crv /\ k.y = m.y /\ k.ext = {}
    BY <1>2
  <2> QED
    BY <1>1, <2>1 DEF ValidJwk
<1> QED
  BY <1>7, <1>8 DEF LedgerJwkReads, w, k

\* A service is read as it was constructed, but for the normal form of its
\* endpoints.
LEMMA ServiceReadsBack ==
  ASSUME NEW s \in DomainService, NEW i,
         s.type.kind = "One" <=> Len(s.type.names) = 1,
         s.type.names # <<>>
  PROVE  ParseLedgerService(i, ServiceToLedger(Normal(s)))
             = [id |-> i, type |-> s.type, serviceEndpoint |-> Normal(s).serviceEndpoint]
<1> DEFINE e == Domain!NormalizeServiceEndpoint(s.serviceEndpoint)
<1>1. /\ s = [type |-> s.type, serviceEndpoint |-> s.serviceEndpoint]
      /\ s.type = [kind |-> s.type.kind, names |-> s.type.names]
      /\ s.type.kind \in {"One", "Many"}
      /\ s.type.names \in Seq(TypeName)
      /\ s.serviceEndpoint \in Seq(Domain!EndpointEntry)
  BY DEF DomainService
<1>2. Domain!NormalizeServiceEndpoint(e) = e
  BY <1>1, NormalEndpoint
<1> HIDE DEF e
<1>3. Normal(s) = [type |-> s.type, serviceEndpoint |-> e]
  BY <1>1 DEF Normal, e
<1>4. ServiceToLedger(Normal(s)) = [typ |-> ServiceTypeToLedger(s.type), serviceEndpoint |-> e]
  BY <1>2, <1>3 DEF ServiceToLedger
<1>5. ParseServiceType(ServiceTypeToLedger(s.type)) = s.type
  <2>1. Len(s.type.names) \in Nat /\ Len(s.type.names) # 0
    BY <1>1, EmptySeq
  <2> DEFINE n == Len(s.type.names)
  <2>2. n \in Nat /\ n # 0 /\ (s.type.kind = "One" <=> n = 1)
    BY <2>1
  <2> HIDE DEF n
  <2>3. s.type.kind = IF n > 1 THEN "Many" ELSE "One"
    BY <1>1, <2>2
  <2> QED
    BY <1>1, <2>3 DEF ParseServiceType, ServiceTypeToLedger, n
<1>6. ParseLedgerService(i, ServiceToLedger(Normal(s)))
        = Normal([id |-> i, type |-> s.type, serviceEndpoint |-> e])
  BY <1>4, <1>5 DEF ParseLedgerService
<1> QED
  BY <1>2, <1>3, <1>6 DEF Normal

-----------------------------------------------------------------------------
(***************************************************************************)
(* The document that is resolved.  One accepted call changes one entry of  *)
(* one part of it.                                                         *)
(***************************************************************************)
JwkEntries ==
    {[id |-> i, jwk |-> LedgerJwkToDomain(verificationMethods[i])] : i \in StoredMethods}

SchnorrEntries ==
    {[id |-> i, jwk |-> SchnorrJubjubPkToJwk(schnorrJubjubVerificationMethods[i])] :
         i \in StoredSchnorrMethods}

ServiceEntries == {ParseLedgerService(i, services[i]) : i \in StoredServices}

Parts ==
    [verificationMethod |-> JwkEntries \cup SchnorrEntries, relation |-> relations,
     service |-> ServiceEntries, alsoKnownAs |-> alsoKnownAs]

LEMMA DocumentParts ==
  LedgerStateToDidDocument = Parts /\ LedgerStateToDidDocument' = Parts'
BY DEF LedgerStateToDidDocument, Parts, JwkEntries, SchnorrEntries, ServiceEntries

LEMMA JwkWritten ==
  ASSUME TypeOK, NEW i \in MethodId, NEW m, m # Absent,
         verificationMethods' = [verificationMethods EXCEPT ![i] = m]
  PROVE  JwkEntries' = Except(JwkEntries, {i}) \cup {[id |-> i, jwk |-> LedgerJwkToDomain(m)]}
<1>1. verificationMethods'[i] = m
  BY DEF TypeOK
<1>2. \A j \in MethodId \ {i} : verificationMethods'[j] = verificationMethods[j]
  BY DEF TypeOK
<1>3. StoredMethods' = (StoredMethods \ {i}) \cup {i}
  BY <1>1, <1>2 DEF StoredMethods
<1>4. StoredMethods \subseteq MethodId
  BY DEF StoredMethods
<1> QED
  BY <1>1, <1>2, <1>3, <1>4 DEF JwkEntries, Except

LEMMA JwkRemoved ==
  ASSUME TypeOK, NEW i \in MethodId,
         verificationMethods' = [verificationMethods EXCEPT ![i] = Absent]
  PROVE  JwkEntries' = Except(JwkEntries, {i})
<1>1. verificationMethods'[i] = Absent
  BY DEF TypeOK
<1>2. \A j \in MethodId \ {i} : verificationMethods'[j] = verificationMethods[j]
  BY DEF TypeOK
<1>3. StoredMethods' = StoredMethods \ {i}
  BY <1>1, <1>2 DEF StoredMethods
<1>4. StoredMethods \subseteq MethodId
  BY DEF StoredMethods
<1> QED
  BY <1>1, <1>2, <1>3, <1>4 DEF JwkEntries, Except

LEMMA NoJwk ==
  ASSUME NEW i \in MethodId, verificationMethods[i] = Absent
  PROVE  Except(JwkEntries, {i}) = JwkEntries
<1>1. \A j \in StoredMethods : j # i
  BY DEF StoredMethods
<1> QED
  BY <1>1 DEF JwkEntries, Except

LEMMA SchnorrWritten ==
  ASSUME TypeOK, NEW i \in MethodId, NEW m, m # Absent,
         schnorrJubjubVerificationMethods' =
             [schnorrJubjubVerificationMethods EXCEPT ![i] = m]
  PROVE  SchnorrEntries' =
             Except(SchnorrEntries, {i}) \cup {[id |-> i, jwk |-> SchnorrJubjubPkToJwk(m)]}
<1>1. schnorrJubjubVerificationMethods'[i] = m
  BY DEF TypeOK
<1>2. \A j \in MethodId \ {i} :
          schnorrJubjubVerificationMethods'[j] = schnorrJubjubVerificationMethods[j]
  BY DEF TypeOK
<1>3. StoredSchnorrMethods' = (StoredSchnorrMethods \ {i}) \cup {i}
  BY <1>1, <1>2 DEF StoredSchnorrMethods
<1>4. StoredSchnorrMethods \subseteq MethodId
  BY DEF StoredSchnorrMethods
<1> QED
  BY <1>1, <1>2, <1>3, <1>4 DEF SchnorrEntries, Except

LEMMA SchnorrRemoved ==
  ASSUME TypeOK, NEW i \in MethodId,
         schnorrJubjubVerificationMethods' =
             [schnorrJubjubVerificationMethods EXCEPT ![i] = Absent]
  PROVE  SchnorrEntries' = Except(SchnorrEntries, {i})
<1>1. schnorrJubjubVerificationMethods'[i] = Absent
  BY DEF TypeOK
<1>2. \A j \in MethodId \ {i} :
          schnorrJubjubVerificationMethods'[j] = schnorrJubjubVerificationMethods[j]
  BY DEF TypeOK
<1>3. StoredSchnorrMethods' = StoredSchnorrMethods \ {i}
  BY <1>1, <1>2 DEF StoredSchnorrMethods
<1>4. StoredSchnorrMethods \subseteq MethodId
  BY DEF StoredSchnorrMethods
<1> QED
  BY <1>1, <1>2, <1>3, <1>4 DEF SchnorrEntries, Except

LEMMA NoSchnorr ==
  ASSUME NEW i \in MethodId, schnorrJubjubVerificationMethods[i] = Absent
  PROVE  Except(SchnorrEntries, {i}) = SchnorrEntries
<1>1. \A j \in StoredSchnorrMethods : j # i
  BY DEF StoredSchnorrMethods
<1> QED
  BY <1>1 DEF SchnorrEntries, Except

LEMMA ServiceIdKept ==
  ASSUME NEW i, NEW body
  PROVE  ParseLedgerService(i, body).id = i
BY DEF ParseLedgerService, Normal

LEMMA ServiceWritten ==
  ASSUME TypeOK, NEW i \in ServiceId, NEW body, body # Absent,
         services' = [services EXCEPT ![i] = body]
  PROVE  ServiceEntries' = Except(ServiceEntries, {i}) \cup {ParseLedgerService(i, body)}
<1>1. services'[i] = body
  BY DEF TypeOK
<1>2. \A j \in ServiceId \ {i} : services'[j] = services[j]
  BY DEF TypeOK
<1>3. StoredServices' = (StoredServices \ {i}) \cup {i}
  BY <1>1, <1>2 DEF StoredServices
<1>4. StoredServices \subseteq ServiceId
  BY DEF StoredServices
<1>5. ServiceEntries' = {ParseLedgerService(j, services'[j]) : j \in StoredServices'}
  BY DEF ServiceEntries
<1> QED
  BY <1>1, <1>2, <1>3, <1>4, <1>5, ServiceIdKept DEF ServiceEntries, Except

LEMMA ServiceRemoved ==
  ASSUME TypeOK, NEW i \in ServiceId, services' = [services EXCEPT ![i] = Absent]
  PROVE  ServiceEntries' = Except(ServiceEntries, {i})
<1>1. services'[i] = Absent
  BY DEF TypeOK
<1>2. \A j \in ServiceId \ {i} : services'[j] = services[j]
  BY DEF TypeOK
<1>3. StoredServices' = StoredServices \ {i}
  BY <1>1, <1>2 DEF StoredServices
<1>4. StoredServices \subseteq ServiceId
  BY DEF StoredServices
<1>5. ServiceEntries' = {ParseLedgerService(j, services'[j]) : j \in StoredServices'}
  BY DEF ServiceEntries
<1> QED
  BY <1>1, <1>2, <1>3, <1>4, <1>5, ServiceIdKept DEF ServiceEntries, Except

-----------------------------------------------------------------------------
(***************************************************************************)
(* What an accepted call makes of the document is what the caller meant.   *)
(***************************************************************************)
\* Everything stored is something that the resolver can read.
Readable ==
    /\ \A i \in StoredMethods :
          /\ verificationMethods[i] \in LedgerMethod
          /\ LedgerJwkReads(verificationMethods[i])
          /\ ResolvedIdReads(i)
    /\ \A i \in StoredSchnorrMethods : ResolvedIdReads(i)
    /\ \A i \in StoredServices :
          /\ ServiceTypeReads(services[i].typ)
          /\ services[i].serviceEndpoint \in Seq(Domain!EndpointEntry)

\* The arguments of an operation in a caller's terms.
LEMMA DomainArguments ==
  ASSUME NEW call \in DomainOperation
  PROVE  /\ call = <<call[1], call[2]>>
         /\ WritesMethod(call) => call[2] \in RawId \X DomainMethod
         /\ WritesSchnorr(call) => call[2] \in RawId \X SchnorrKey
         /\ WritesService(call) => call[2] \in RawId \X DomainService
         /\ ChangesRelation(call) => call[2] \in AnyRelation \X RawId
         /\ RemovesMethod(call) \/ call[1] = "removeService" => call[2] \in RawId
         /\ \/ WritesMethod(call) \/ WritesSchnorr(call) \/ RemovesMethod(call)
            \/ ChangesRelation(call) \/ WritesService(call) \/ call[1] = "removeService"
            \/ NamesNothing(call)
         /\ call[1] # "applyPatch"
BY DEF DomainOperation, WritesMethod, WritesSchnorr, WritesService, ChangesRelation,
       RemovesMethod, NamesNothing

\* The call that completes an operation, operation by operation.
LEMMA FinalCallTable ==
  ASSUME NEW op
  PROVE  /\ op[1] = "addVerificationMethod" =>
                FinalCall(op) = <<"setVerificationMethod", <<op[2][1], op[2][2], "Insert">>>>
         /\ op[1] = "updateVerificationMethod" =>
                FinalCall(op) = <<"setVerificationMethod", <<op[2][1], op[2][2], "Update">>>>
         /\ op[1] = "addSchnorrJubjubVerificationMethod" =>
                FinalCall(op) = <<"setSchnorrJubjubVM", <<op[2][1], op[2][2], "Insert">>>>
         /\ op[1] = "updateSchnorrJubjubVerificationMethod" =>
                FinalCall(op) = <<"setSchnorrJubjubVM", <<op[2][1], op[2][2], "Update">>>>
         /\ op[1] = "removeSchnorrJubjubVerificationMethod" =>
                FinalCall(op) = <<"removeSchnorrJubjubVM", op[2]>>
         /\ op[1] = "addVerificationMethodRelation" =>
                FinalCall(op) = <<"setVMRelation", <<op[2][1], op[2][2], "Insert">>>>
         /\ op[1] = "removeVerificationMethodRelation" =>
                FinalCall(op) = <<"setVMRelation", <<op[2][1], op[2][2], "Remove">>>>
         /\ op[1] = "addAlsoKnownAs" =>
                FinalCall(op) = <<"setAlsoKnownAs", <<op[2], "Insert">>>>
         /\ op[1] = "removeAlsoKnownAs" =>
                FinalCall(op) = <<"setAlsoKnownAs", <<op[2], "Remove">>>>
         /\ op[1] = "addService" =>
                FinalCall(op) = <<"setService", <<op[2][1], op[2][2], "Insert">>>>
         /\ op[1] = "updateService" =>
                FinalCall(op) = <<"setService", <<op[2][1], op[2][2], "Update">>>>
         /\ op[1] = "removeService" =>
                FinalCall(op) = <<"removeService", op[2]>>
         /\ op[1] = "removeVerificationMethod" =>
                FinalCall(op) = op
         /\ op[1] = "deactivate" =>
                FinalCall(op) = op
<1>1. op[1] = "addVerificationMethod" =>
        FinalCall(op) = <<"setVerificationMethod", <<op[2][1], op[2][2], "Insert">>>>
  BY DEF FinalCall
<1>2. op[1] = "updateVerificationMethod" =>
        FinalCall(op) = <<"setVerificationMethod", <<op[2][1], op[2][2], "Update">>>>
  BY DEF FinalCall
<1>3. op[1] = "addSchnorrJubjubVerificationMethod" =>
        FinalCall(op) = <<"setSchnorrJubjubVM", <<op[2][1], op[2][2], "Insert">>>>
  BY DEF FinalCall
<1>4. op[1] = "updateSchnorrJubjubVerificationMethod" =>
        FinalCall(op) = <<"setSchnorrJubjubVM", <<op[2][1], op[2][2], "Update">>>>
  BY DEF FinalCall
<1>5. op[1] = "removeSchnorrJubjubVerificationMethod" =>
        FinalCall(op) = <<"removeSchnorrJubjubVM", op[2]>>
  BY DEF FinalCall
<1>6. op[1] = "addVerificationMethodRelation" =>
        FinalCall(op) = <<"setVMRelation", <<op[2][1], op[2][2], "Insert">>>>
  BY DEF FinalCall, RelationCall
<1>7. op[1] = "removeVerificationMethodRelation" =>
        FinalCall(op) = <<"setVMRelation", <<op[2][1], op[2][2], "Remove">>>>
  BY DEF FinalCall, RelationCall
<1>8. op[1] = "addAlsoKnownAs" =>
        FinalCall(op) = <<"setAlsoKnownAs", <<op[2], "Insert">>>>
  BY DEF FinalCall, AddAlias
<1>9. op[1] = "removeAlsoKnownAs" =>
        FinalCall(op) = <<"setAlsoKnownAs", <<op[2], "Remove">>>>
  BY DEF FinalCall, RemoveAlias
<1>10. op[1] = "addService" =>
        FinalCall(op) = <<"setService", <<op[2][1], op[2][2], "Insert">>>>
  BY DEF FinalCall, AddService
<1>11. op[1] = "updateService" =>
        FinalCall(op) = <<"setService", <<op[2][1], op[2][2], "Update">>>>
  BY DEF FinalCall, UpdateService
<1>12. op[1] = "removeService" =>
        FinalCall(op) = <<"removeService", op[2]>>
  BY DEF FinalCall, DropService
<1>13. op[1] = "removeVerificationMethod" =>
        FinalCall(op) = op
  BY DEF FinalCall
<1>14. op[1] = "deactivate" =>
        FinalCall(op) = op
  BY DEF FinalCall
<1> QED
  BY <1>1, <1>2, <1>3, <1>4, <1>5, <1>6, <1>7, <1>8, <1>9, <1>10, <1>11, <1>12, <1>13, <1>14

\* The calls that complete the operations of a caller.
LEMMA FinalCallIs ==
  ASSUME NEW call \in DomainOperation
  PROVE  LET i == NormalizeBoundFragmentId(RawIdOf(call))
             last == FinalCall(ToLedger(call))
         IN  /\ WritesMethod(call) =>
                   \E m \in {"Insert", "Update"} :
                      last = <<"setVerificationMethod",
                               <<i, PublicKeyJwkToLedger(call[2][2]), m>>>>
             /\ WritesSchnorr(call) =>
                   \E m \in {"Insert", "Update"} :
                      last = <<"setSchnorrJubjubVM", <<i, call[2][2], m>>>>
             /\ WritesService(call) =>
                   \E m \in {"Insert", "Update"} :
                      last = <<"setService", <<i, ServiceToLedger(Normal(call[2][2])), m>>>>
             /\ call[1] = "removeVerificationMethod" => last = <<"removeVerificationMethod", i>>
             /\ call[1] = "removeSchnorrJubjubVerificationMethod" =>
                   last = <<"removeSchnorrJubjubVM", i>>
             /\ call[1] = "addVerificationMethodRelation" =>
                   last = <<"setVMRelation", <<call[2][1], i, "Insert">>>>
             /\ call[1] = "removeVerificationMethodRelation" =>
                   last = <<"setVMRelation", <<call[2][1], i, "Remove">>>>
             /\ call[1] = "removeService" => last = <<"removeService", i>>
             /\ call[1] = "addAlsoKnownAs" => last = <<"setAlsoKnownAs", <<call[2], "Insert">>>>
             /\ call[1] = "removeAlsoKnownAs" =>
                   last = <<"setAlsoKnownAs", <<call[2], "Remove">>>>
             /\ call[1] = "deactivate" => last = <<"deactivate", call[2]>>
<1> DEFINE i == NormalizeBoundFragmentId(RawIdOf(call))
           last == FinalCall(ToLedger(call))
<1>2. call = <<call[1], call[2]>>
  BY DomainArguments
<1> SUFFICES
      /\ WritesMethod(call) =>
            \E m \in {"Insert", "Update"} :
               last = <<"setVerificationMethod",
                        <<i, PublicKeyJwkToLedger(call[2][2]), m>>>>
      /\ WritesSchnorr(call) =>
            \E m \in {"Insert", "Update"} :
               last = <<"setSchnorrJubjubVM", <<i, call[2][2], m>>>>
      /\ WritesService(call) =>
            \E m \in {"Insert", "Update"} :
               last = <<"setService", <<i, ServiceToLedger(Normal(call[2][2])), m>>>>
      /\ call[1] = "removeVerificationMethod" => last = <<"removeVerificationMethod", i>>
      /\ call[1] = "removeSchnorrJubjubVerificationMethod" =>
            last = <<"removeSchnorrJubjubVM", i>>
      /\ call[1] = "addVerificationMethodRelation" =>
            last = <<"setVMRelation", <<call[2][1], i, "Insert">>>>
      /\ call[1] = "removeVerificationMethodRelation" =>
            last = <<"setVMRelation", <<call[2][1], i, "Remove">>>>
      /\ call[1] = "removeService" => last = <<"removeService", i>>
      /\ call[1] = "addAlsoKnownAs" => last = <<"setAlsoKnownAs", <<call[2], "Insert">>>>
      /\ call[1] = "removeAlsoKnownAs" =>
            last = <<"setAlsoKnownAs", <<call[2], "Remove">>>>
      /\ call[1] = "deactivate" => last = <<"deactivate", call[2]>>
  OBVIOUS
<1> HIDE DEF i, last
<1>3. CASE WritesMethod(call)
  <2>1. ToLedger(call) = <<call[1], <<i, PublicKeyJwkToLedger(call[2][2])>>>>
    BY <1>3 DEF ToLedger, i, WritesMethod, WritesSchnorr, WritesService,
                ChangesRelation, NamesNothing
  <2>2. \/ call[1] = "addVerificationMethod"
       \/ call[1] = "updateVerificationMethod"
    BY <1>3 DEF WritesMethod
  <2>3. last =
              <<"setVerificationMethod", <<i, PublicKeyJwkToLedger(call[2][2]), "Insert">>>>
        \/ last =
              <<"setVerificationMethod", <<i, PublicKeyJwkToLedger(call[2][2]), "Update">>>>
    BY <2>1, <2>2, FinalCallTable DEF last
  <2> QED
    BY <2>2, <2>3 DEF WritesMethod, WritesSchnorr, WritesService
<1>4. CASE WritesSchnorr(call)
  <2>1. ToLedger(call) = <<call[1], <<i, call[2][2]>>>>
    BY <1>4 DEF ToLedger, i, WritesMethod, WritesSchnorr, WritesService,
                ChangesRelation, NamesNothing
  <2>2. \/ call[1] = "addSchnorrJubjubVerificationMethod"
       \/ call[1] = "updateSchnorrJubjubVerificationMethod"
    BY <1>4 DEF WritesSchnorr
  <2>3. last = <<"setSchnorrJubjubVM", <<i, call[2][2], "Insert">>>>
        \/ last = <<"setSchnorrJubjubVM", <<i, call[2][2], "Update">>>>
    BY <2>1, <2>2, FinalCallTable DEF last
  <2> QED
    BY <2>2, <2>3 DEF WritesMethod, WritesSchnorr, WritesService
<1>5. CASE WritesService(call)
  <2>1. ToLedger(call) = <<call[1], <<i, ServiceToLedger(Normal(call[2][2]))>>>>
    BY <1>5 DEF ToLedger, i, WritesMethod, WritesSchnorr, WritesService,
                ChangesRelation, NamesNothing
  <2>2. \/ call[1] = "addService"
       \/ call[1] = "updateService"
    BY <1>5 DEF WritesService
  <2>3. last =
              <<"setService", <<i, ServiceToLedger(Normal(call[2][2])), "Insert">>>>
        \/ last =
              <<"setService", <<i, ServiceToLedger(Normal(call[2][2])), "Update">>>>
    BY <2>1, <2>2, FinalCallTable DEF last
  <2> QED
    BY <2>2, <2>3 DEF WritesMethod, WritesSchnorr, WritesService
<1>6. CASE ChangesRelation(call)
  <2>1. ToLedger(call) = <<call[1], <<call[2][1], i>>>>
    BY <1>6 DEF ToLedger, i, WritesMethod, WritesSchnorr, WritesService,
                ChangesRelation, NamesNothing
  <2>2. \/ /\ call[1] = "addVerificationMethodRelation"
           /\ last = <<"setVMRelation", <<call[2][1], i, "Insert">>>>
        \/ /\ call[1] = "removeVerificationMethodRelation"
           /\ last = <<"setVMRelation", <<call[2][1], i, "Remove">>>>
    BY <1>6, <2>1, FinalCallTable DEF last, ChangesRelation
  <2> QED
    BY <2>2 DEF WritesMethod, WritesSchnorr, WritesService
<1>7. CASE RemovesMethod(call) \/ call[1] = "removeService"
  <2>1. ToLedger(call) = <<call[1], i>>
    BY <1>7 DEF ToLedger, i, WritesSchnorr, WritesMethod, WritesService, NamesNothing,
                ChangesRelation, RemovesMethod
  <2>2. call[1] \in {"removeVerificationMethod", "removeService",
                     "removeSchnorrJubjubVerificationMethod"}
    BY <1>7 DEF RemovesMethod
  <2>3. \/ /\ call[1] = "removeVerificationMethod"
           /\ last = <<"removeVerificationMethod", i>>
        \/ /\ call[1] = "removeSchnorrJubjubVerificationMethod"
           /\ last = <<"removeSchnorrJubjubVM", i>>
        \/ /\ call[1] = "removeService"
           /\ last = <<"removeService", i>>
    BY <2>1, <2>2, FinalCallTable DEF last
  <2> QED
    BY <2>3 DEF WritesMethod, WritesSchnorr, WritesService
<1>8. CASE NamesNothing(call)
  <2>1. ToLedger(call) = call
    BY <1>8 DEF ToLedger, WritesMethod, WritesSchnorr, WritesService,
                ChangesRelation, NamesNothing
  <2>2. call[1] \in {"addAlsoKnownAs", "removeAlsoKnownAs", "deactivate"}
    BY <1>8 DEF NamesNothing
  <2>3. \/ /\ call[1] = "addAlsoKnownAs"
           /\ last = <<"setAlsoKnownAs", <<call[2], "Insert">>>>
        \/ /\ call[1] = "removeAlsoKnownAs"
           /\ last = <<"setAlsoKnownAs", <<call[2], "Remove">>>>
        \/ /\ call[1] = "deactivate"
           /\ last = <<"deactivate", call[2]>>
    BY <1>2, <2>1, <2>2, FinalCallTable DEF last
  <2> QED
    BY <2>3 DEF WritesMethod, WritesSchnorr, WritesService
<1> QED
  BY <1>3, <1>4, <1>5, <1>6, <1>7, <1>8, DomainArguments

\* The id that a call names is one that a caller can write.
LEMMA RawIdIs ==
  ASSUME NEW call \in DomainOperation, ~NamesNothing(call)
  PROVE  RawIdOf(call) \in RawId
BY DomainArguments DEF RawIdOf, WritesMethod, WritesSchnorr, RemovesMethod, ChangesRelation,
   WritesService, NamesNothing

\* The code's normal form of an id that it accepts is the one entry that goes by
\* this text.
LEMMA MeantIs ==
  ASSUME NEW raw \in RawId, BoundToSubject(raw)
  PROVE  Meant(raw) = {NormalizeBoundFragmentId(raw)}
<1> DEFINE i == NormalizeBoundFragmentId(raw)
<1>1. raw.form \in {"fragment", "bare", "path", "prefixed", "didUrl"} /\ raw.name \in Name
  BY DEF RawId, BoundToSubject
<1>2. raw = [form |-> raw.form, name |-> raw.name]
  BY DEF RawId
<1>3. i \in LedgerId
  BY <1>1 DEF LedgerId, NormalizeBoundFragmentId
<1>4. raw \in Spellings(i)
  BY <1>1, <1>2 DEF Spellings, NormalizeBoundFragmentId
<1>5. ASSUME NEW j \in LedgerId, raw \in Spellings(j)
      PROVE  j = i
  <2>1. /\ j = [form |-> j.form, name |-> j.name]
        /\ j.form \in {"fragment", "path"}
    BY DEF LedgerId
  <2>2. /\ raw.name = j.name
        /\ raw.form = "path" <=> j.form = "path"
    BY <1>5, <2>1 DEF Spellings
  <2> QED
    BY <2>1, <2>2 DEF NormalizeBoundFragmentId
<1> HIDE DEF i
<1> QED
  BY <1>3, <1>4, <1>5 DEF Meant, i

\* The document after each of them.
LEMMA AfterIs ==
  ASSUME NEW call \in DomainOperation, Maps(call), NEW d
  PROVE  LET i == NormalizeBoundFragmentId(RawIdOf(call))
         IN  /\ WritesMethod(call) =>
                   After(d, call) =
                      [d EXCEPT !.verificationMethod =
                          Except(d.verificationMethod, {i})
                              \cup {[id |-> i, jwk |-> Kept(call[2][2])]}]
             /\ WritesSchnorr(call) =>
                   After(d, call) =
                      [d EXCEPT !.verificationMethod =
                          Except(d.verificationMethod, {i})
                              \cup {[id |-> i, jwk |-> SchnorrJubjubPkToJwk(call[2][2])]}]
             /\ WritesService(call) =>
                   After(d, call) =
                      [d EXCEPT !.service =
                          Except(d.service, {i})
                              \cup {[id |-> i, type |-> call[2][2].type,
                                     serviceEndpoint |-> Normal(call[2][2]).serviceEndpoint]}]
             /\ RemovesMethod(call) =>
                   After(d, call) =
                      [d EXCEPT !.verificationMethod = Except(d.verificationMethod, {i}),
                                !.relation = [r \in Relation |-> d.relation[r] \ {i}]]
             /\ call[1] = "addVerificationMethodRelation" =>
                   After(d, call) =
                      [d EXCEPT !.relation =
                          [d.relation EXCEPT ![call[2][1]] = d.relation[call[2][1]] \cup {i}]]
             /\ call[1] = "removeVerificationMethodRelation" =>
                   After(d, call) =
                      [d EXCEPT !.relation =
                          [d.relation EXCEPT ![call[2][1]] = d.relation[call[2][1]] \ {i}]]
             /\ call[1] = "removeService" =>
                   After(d, call) = [d EXCEPT !.service = Except(d.service, {i})]
             /\ call[1] = "addAlsoKnownAs" =>
                   After(d, call) = [d EXCEPT !.alsoKnownAs = d.alsoKnownAs \cup {call[2]}]
             /\ call[1] = "removeAlsoKnownAs" =>
                   After(d, call) = [d EXCEPT !.alsoKnownAs = d.alsoKnownAs \ {call[2]}]
             /\ call[1] = "deactivate" => After(d, call) = d
<1> DEFINE i == NormalizeBoundFragmentId(RawIdOf(call))
<1>1. ~NamesNothing(call) => Meant(RawIdOf(call)) = {i}
  BY MeantIs, RawIdIs DEF Maps
<1> SUFFICES
      /\ WritesMethod(call) =>
            After(d, call) =
               [d EXCEPT !.verificationMethod =
                   Except(d.verificationMethod, {i})
                       \cup {[id |-> i, jwk |-> Kept(call[2][2])]}]
      /\ WritesSchnorr(call) =>
            After(d, call) =
               [d EXCEPT !.verificationMethod =
                   Except(d.verificationMethod, {i})
                       \cup {[id |-> i, jwk |-> SchnorrJubjubPkToJwk(call[2][2])]}]
      /\ WritesService(call) =>
            After(d, call) =
               [d EXCEPT !.service =
                   Except(d.service, {i})
                       \cup {[id |-> i, type |-> call[2][2].type,
                              serviceEndpoint |-> Normal(call[2][2]).serviceEndpoint]}]
      /\ RemovesMethod(call) =>
            After(d, call) =
               [d EXCEPT !.verificationMethod = Except(d.verificationMethod, {i}),
                         !.relation = [r \in Relation |-> d.relation[r] \ {i}]]
      /\ call[1] = "addVerificationMethodRelation" =>
            After(d, call) =
               [d EXCEPT !.relation =
                   [d.relation EXCEPT ![call[2][1]] = d.relation[call[2][1]] \cup {i}]]
      /\ call[1] = "removeVerificationMethodRelation" =>
            After(d, call) =
               [d EXCEPT !.relation =
                   [d.relation EXCEPT ![call[2][1]] = d.relation[call[2][1]] \ {i}]]
      /\ call[1] = "removeService" =>
            After(d, call) = [d EXCEPT !.service = Except(d.service, {i})]
      /\ call[1] = "addAlsoKnownAs" =>
            After(d, call) = [d EXCEPT !.alsoKnownAs = d.alsoKnownAs \cup {call[2]}]
      /\ call[1] = "removeAlsoKnownAs" =>
            After(d, call) = [d EXCEPT !.alsoKnownAs = d.alsoKnownAs \ {call[2]}]
      /\ call[1] = "deactivate" => After(d, call) = d
  OBVIOUS
<1> HIDE DEF i
<1> USE DEF After, WritesMethod, WritesSchnorr, WritesService, RemovesMethod, NamesNothing
<1>2. CASE WritesMethod(call)
  <2>1. After(d, call) =
          [d EXCEPT !.verificationMethod =
              Except(d.verificationMethod, {i})
                  \cup {[id |-> j, jwk |-> Kept(call[2][2])] : j \in {i}}]
    BY <1>1, <1>2
  <2>2. {[id |-> j, jwk |-> Kept(call[2][2])] : j \in {i}} = {[id |-> i, jwk |-> Kept(call[2][2])]}
    OBVIOUS
  <2>3. After(d, call) =
          [d EXCEPT !.verificationMethod =
              Except(d.verificationMethod, {i}) \cup {[id |-> i, jwk |-> Kept(call[2][2])]}]
    BY <2>1, <2>2, Zenon
  <2> HIDE DEF After
  <2> QED
    BY <1>2, <2>3
<1>3. CASE WritesSchnorr(call)
  <2> DEFINE key == SchnorrJubjubPkToJwk(call[2][2])
  <2>1. After(d, call) =
          [d EXCEPT !.verificationMethod =
              Except(d.verificationMethod, {i}) \cup {[id |-> j, jwk |-> key] : j \in {i}}]
    BY <1>1, <1>3
  <2>2. {[id |-> j, jwk |-> key] : j \in {i}} = {[id |-> i, jwk |-> key]}
    OBVIOUS
  <2>3. After(d, call) =
          [d EXCEPT !.verificationMethod =
              Except(d.verificationMethod, {i}) \cup {[id |-> i, jwk |-> key]}]
    BY <2>1, <2>2, Zenon
  <2> HIDE DEF After
  <2> QED
    BY <1>3, <2>3
<1>4. CASE WritesService(call)
  <2> DEFINE type == call[2][2].type
             normal == Normal(call[2][2]).serviceEndpoint
  <2>1. After(d, call) =
          [d EXCEPT !.service =
              Except(d.service, {i})
                  \cup {[id |-> j, type |-> type, serviceEndpoint |-> normal] : j \in {i}}]
    BY <1>1, <1>4
  <2>2. {[id |-> j, type |-> type, serviceEndpoint |-> normal] : j \in {i}}
          = {[id |-> i, type |-> type, serviceEndpoint |-> normal]}
    OBVIOUS
  <2>3. After(d, call) =
          [d EXCEPT !.service =
              Except(d.service, {i})
                  \cup {[id |-> i, type |-> type, serviceEndpoint |-> normal]}]
    BY <2>1, <2>2, Zenon
  <2> HIDE DEF After
  <2> QED
    BY <1>4, <2>3
<1>5. CASE RemovesMethod(call)
  BY <1>1, <1>5
<1>6. CASE ChangesRelation(call)
  BY <1>1, <1>6 DEF ChangesRelation
<1>7. CASE call[1] = "removeService"
  BY <1>1, <1>7
<1>8. CASE NamesNothing(call)
  BY <1>8
<1> HIDE DEF After, WritesMethod, WritesSchnorr, WritesService, RemovesMethod, NamesNothing
<1> QED
  BY <1>2, <1>3, <1>4, <1>5, <1>6, <1>7, <1>8, DomainArguments

\* Writing a JWK method.
LEMMA MethodIsWritten ==
  ASSUME LedgerInv, Readable, NEW call \in DomainOperation, Maps(call), WritesMethod(call),
         FinalCall(ToLedger(call)) \in AnyCall, NEW sig, NEW v,
         Circuit(FinalCall(ToLedger(call)), sig, v)
  PROVE  /\ LedgerStateToDidDocument' = After(LedgerStateToDidDocument, call)
         /\ Readable'
<1> DEFINE i == NormalizeBoundFragmentId(RawIdOf(call))
           key == call[2][2]
           m == PublicKeyJwkToLedger(key)
<1>1. PICK mutation \in {"Insert", "Update"} :
          FinalCall(ToLedger(call)) = <<"setVerificationMethod", <<i, m, mutation>>>>
  BY FinalCallIs
<1>2. SetVerificationMethod(i, m, mutation, sig, v)
  BY <1>1 DEF Circuit
<1>3. i \in MethodId /\ m \in Method
  BY <1>1, CallArguments
<1>4. key \in DomainMethod
  BY DomainArguments
<1>5. i.form = "fragment" /\ i.name \in KeyName
  <2>1. IsDidKeyId(RawIdOf(call))
    BY DEF Maps
  <2> QED
    BY <2>1 DEF IsDidKeyId, NormalizeBoundFragmentId
<1>6. VerificationMethodToLedger(m)
  <2>1. AssertSupportedVerificationMethod(m)
    BY <1>2 DEF SetVerificationMethod
  <2> HIDE DEF m
  <2> QED
    BY <2>1 DEF AssertSupportedVerificationMethod, VerificationMethodToLedger,
                AssertMidnightKeyProfile
<1>7. m \in LedgerMethod /\ LedgerJwkReads(m) /\ LedgerJwkToDomain(m) = Kept(key)
  BY <1>4, <1>6, KeyReadsBack DEF LedgerMethod
<1>8. /\ verificationMethods' = [verificationMethods EXCEPT ![i] = m]
      /\ UNCHANGED <<alsoKnownAs, schnorrJubjubVerificationMethods, relations, services>>
  BY <1>2 DEF SetVerificationMethod
<1>9. schnorrJubjubVerificationMethods[i] = Absent /\ m # Absent
  BY <1>2, <1>3, AbsentAssumption
     DEF SetVerificationMethod, VerificationMethodExists, LedgerInv, DocumentInv,
         OneMapPerMethodId
<1>10. TypeOK
  BY DEF LedgerInv
<1> HIDE DEF i, key, m
<1>11. JwkEntries' = Except(JwkEntries, {i}) \cup {[id |-> i, jwk |-> Kept(key)]}
  BY <1>3, <1>7, <1>8, <1>9, <1>10, JwkWritten
<1>12. SchnorrEntries' = SchnorrEntries /\ Except(SchnorrEntries, {i}) = SchnorrEntries
  BY <1>3, <1>8, <1>9, NoSchnorr DEF SchnorrEntries, StoredSchnorrMethods
<1>13. ServiceEntries' = ServiceEntries
  BY <1>8 DEF ServiceEntries, StoredServices
<1>14. (JwkEntries \cup SchnorrEntries)'
         = Except(JwkEntries \cup SchnorrEntries, {i}) \cup {[id |-> i, jwk |-> Kept(key)]}
  BY <1>11, <1>12 DEF Except
<1>15. LedgerStateToDidDocument' = After(LedgerStateToDidDocument, call)
  <2> DEFINE d == LedgerStateToDidDocument
  <2>1. After(d, call) =
          [d EXCEPT !.verificationMethod =
              Except(d.verificationMethod, {i}) \cup {[id |-> i, jwk |-> Kept(key)]}]
    BY AfterIs DEF i, key
  <2> QED
    BY <2>1, <1>8, <1>13, <1>14, DocumentParts DEF Parts
<1>16. Readable'
  <2>1. \A j \in MethodId \ {i} : verificationMethods'[j] = verificationMethods[j]
    BY <1>8, <1>10 DEF TypeOK
  <2>2. verificationMethods'[i] = m
    BY <1>3, <1>8, <1>10 DEF TypeOK
  <2> QED
    BY <1>5, <1>7, <1>8, <2>1, <2>2
       DEF Readable, StoredMethods, StoredSchnorrMethods, StoredServices, ResolvedIdReads
<1> QED
  BY <1>15, <1>16

\* Writing a SchnorrJubjub method.
LEMMA SchnorrIsWritten ==
  ASSUME LedgerInv, Readable, NEW call \in DomainOperation, Maps(call), WritesSchnorr(call),
         ReadsBack(call), FinalCall(ToLedger(call)) \in AnyCall, NEW sig, NEW v,
         Circuit(FinalCall(ToLedger(call)), sig, v)
  PROVE  /\ LedgerStateToDidDocument' = After(LedgerStateToDidDocument, call)
         /\ Readable'
<1> DEFINE i == NormalizeBoundFragmentId(RawIdOf(call))
           key == call[2][2]
<1>1. PICK mutation \in {"Insert", "Update"} :
          FinalCall(ToLedger(call)) = <<"setSchnorrJubjubVM", <<i, key, mutation>>>>
  BY FinalCallIs
<1>2. SetSchnorrJubjubVerificationMethod(i, key, mutation, sig, v)
  BY <1>1 DEF Circuit
<1>3. i \in MethodId /\ key \in SchnorrKey
  BY <1>1, CallArguments
<1>4. ResolvedIdReads(i)
  BY DEF ReadsBack
<1>5. /\ schnorrJubjubVerificationMethods' =
            [schnorrJubjubVerificationMethods EXCEPT ![i] = key]
      /\ UNCHANGED <<alsoKnownAs, verificationMethods, relations, services>>
  BY <1>2 DEF SetSchnorrJubjubVerificationMethod
<1>6. verificationMethods[i] = Absent /\ key # Absent
  BY <1>2, <1>3, AbsentAssumption
     DEF SetSchnorrJubjubVerificationMethod, VerificationMethodExists, LedgerInv, DocumentInv,
         OneMapPerMethodId
<1>7. TypeOK
  BY DEF LedgerInv
<1> HIDE DEF i, key
<1>8. SchnorrEntries' = Except(SchnorrEntries, {i})
                            \cup {[id |-> i, jwk |-> SchnorrJubjubPkToJwk(key)]}
  BY <1>3, <1>5, <1>6, <1>7, SchnorrWritten
<1>9. JwkEntries' = JwkEntries /\ Except(JwkEntries, {i}) = JwkEntries
  BY <1>3, <1>5, <1>6, NoJwk DEF JwkEntries, StoredMethods
<1>10. ServiceEntries' = ServiceEntries
  BY <1>5 DEF ServiceEntries, StoredServices
<1>11. (JwkEntries \cup SchnorrEntries)'
         = Except(JwkEntries \cup SchnorrEntries, {i})
               \cup {[id |-> i, jwk |-> SchnorrJubjubPkToJwk(key)]}
  BY <1>8, <1>9 DEF Except
<1>12. LedgerStateToDidDocument' = After(LedgerStateToDidDocument, call)
  <2> DEFINE d == LedgerStateToDidDocument
  <2>1. After(d, call) =
          [d EXCEPT !.verificationMethod =
              Except(d.verificationMethod, {i})
                  \cup {[id |-> i, jwk |-> SchnorrJubjubPkToJwk(key)]}]
    BY AfterIs DEF i, key
  <2> QED
    BY <2>1, <1>5, <1>10, <1>11, DocumentParts DEF Parts
<1>13. Readable'
  <2>1. \A j \in MethodId \ {i} :
            schnorrJubjubVerificationMethods'[j] = schnorrJubjubVerificationMethods[j]
    BY <1>5, <1>7 DEF TypeOK
  <2> QED
    BY <1>4, <1>5, <2>1
       DEF Readable, StoredMethods, StoredSchnorrMethods, StoredServices
<1> QED
  BY <1>12, <1>13

\* Removing a method, whose references are gone.
LEMMA MethodIsRemoved ==
  ASSUME LedgerInv, Readable, NEW call \in DomainOperation, Maps(call), RemovesMethod(call),
         FinalCall(ToLedger(call)) \in AnyCall, NEW sig, NEW v,
         Circuit(FinalCall(ToLedger(call)), sig, v)
  PROVE  /\ LedgerStateToDidDocument' = After(LedgerStateToDidDocument, call)
         /\ Readable'
<1> DEFINE i == NormalizeBoundFragmentId(RawIdOf(call))
<1>1. TypeOK /\ OneMapPerMethodId
  BY DEF LedgerInv, DocumentInv
<1>2. i \in MethodId
  BY FinalCallIs, CallArguments DEF RemovesMethod
<1>3. /\ AssertVerificationMethodIsNotReferenced(i)
      /\ UNCHANGED <<alsoKnownAs, relations, services>>
      /\ \/ /\ verificationMethods[i] # Absent
            /\ verificationMethods' = [verificationMethods EXCEPT ![i] = Absent]
            /\ UNCHANGED schnorrJubjubVerificationMethods
         \/ /\ schnorrJubjubVerificationMethods[i] # Absent
            /\ schnorrJubjubVerificationMethods' =
                  [schnorrJubjubVerificationMethods EXCEPT ![i] = Absent]
            /\ UNCHANGED verificationMethods
  <2>1. \/ FinalCall(ToLedger(call)) = <<"removeVerificationMethod", i>>
        \/ FinalCall(ToLedger(call)) = <<"removeSchnorrJubjubVM", i>>
    BY FinalCallIs DEF RemovesMethod
  <2>2. \/ RemoveVerificationMethod(i, sig, v)
        \/ RemoveSchnorrJubjubVerificationMethod(i, sig, v)
    BY <2>1 DEF Circuit
  <2> QED
    BY <2>2 DEF RemoveVerificationMethod, RemoveSchnorrJubjubVerificationMethod
<1> HIDE DEF i
<1>4. (JwkEntries \cup SchnorrEntries)' = Except(JwkEntries \cup SchnorrEntries, {i})
  <2>1. CASE /\ verificationMethods[i] # Absent
             /\ verificationMethods' = [verificationMethods EXCEPT ![i] = Absent]
             /\ UNCHANGED schnorrJubjubVerificationMethods
    <3>1. JwkEntries' = Except(JwkEntries, {i})
      BY <1>1, <1>2, <2>1, JwkRemoved
    <3>2. SchnorrEntries' = SchnorrEntries /\ Except(SchnorrEntries, {i}) = SchnorrEntries
      BY <1>1, <1>2, <2>1, NoSchnorr DEF OneMapPerMethodId, SchnorrEntries, StoredSchnorrMethods
    <3> QED
      BY <3>1, <3>2 DEF Except
  <2>2. CASE /\ schnorrJubjubVerificationMethods[i] # Absent
             /\ schnorrJubjubVerificationMethods' =
                   [schnorrJubjubVerificationMethods EXCEPT ![i] = Absent]
             /\ UNCHANGED verificationMethods
    <3>1. SchnorrEntries' = Except(SchnorrEntries, {i})
      BY <1>1, <1>2, <2>2, SchnorrRemoved
    <3>2. JwkEntries' = JwkEntries /\ Except(JwkEntries, {i}) = JwkEntries
      BY <1>1, <1>2, <2>2, NoJwk DEF OneMapPerMethodId, JwkEntries, StoredMethods
    <3> QED
      BY <3>1, <3>2 DEF Except
  <2> QED
    BY <1>3, <2>1, <2>2
<1>5. ServiceEntries' = ServiceEntries
  BY <1>3 DEF ServiceEntries, StoredServices
<1>6. relations = [r \in Relation |-> relations[r] \ {i}]
  BY <1>1, <1>3 DEF TypeOK, AssertVerificationMethodIsNotReferenced
<1>7. LedgerStateToDidDocument' = After(LedgerStateToDidDocument, call)
  <2> DEFINE d == LedgerStateToDidDocument
             kept == [r \in Relation |-> relations[r] \ {i}]
  <2>1. After(d, call) =
          [d EXCEPT !.verificationMethod = Except(d.verificationMethod, {i}),
                    !.relation = [r \in Relation |-> d.relation[r] \ {i}]]
    BY AfterIs DEF i
  <2>2. d.relation = relations
    BY DocumentParts DEF Parts
  <2>3. After(d, call) =
          [d EXCEPT !.verificationMethod = Except(d.verificationMethod, {i}),
                    !.relation = relations]
    BY <1>6, <2>1, <2>2
  <2> QED
    BY <2>3, <1>3, <1>4, <1>5, DocumentParts DEF Parts
<1>8. Readable'
  <2>1. \A j \in MethodId : verificationMethods'[j] \in {verificationMethods[j], Absent}
    BY <1>1, <1>3 DEF TypeOK
  <2>2. \A j \in MethodId : schnorrJubjubVerificationMethods'[j]
            \in {schnorrJubjubVerificationMethods[j], Absent}
    BY <1>1, <1>3 DEF TypeOK
  <2> QED
    BY <1>3, <2>1, <2>2
       DEF Readable, StoredMethods, StoredSchnorrMethods, StoredServices
<1> QED
  BY <1>7, <1>8

\* Inserting a method into a relation, or taking it out.
LEMMA RelationIsChanged ==
  ASSUME LedgerInv, Readable, NEW call \in DomainOperation, Maps(call), ChangesRelation(call),
         FinalCall(ToLedger(call)) \in AnyCall, NEW sig, NEW v,
         Circuit(FinalCall(ToLedger(call)), sig, v)
  PROVE  /\ LedgerStateToDidDocument' = After(LedgerStateToDidDocument, call)
         /\ Readable'
<1> DEFINE i == NormalizeBoundFragmentId(RawIdOf(call))
           r == call[2][1]
           d == LedgerStateToDidDocument
<1>1. PICK mutation \in {"Insert", "Remove"} :
          /\ FinalCall(ToLedger(call)) = <<"setVMRelation", <<r, i, mutation>>>>
          /\ mutation = "Insert" <=> call[1] = "addVerificationMethodRelation"
  BY FinalCallIs DEF ChangesRelation
<1>2. SetVerificationMethodRelation(r, i, mutation, sig, v)
  BY <1>1 DEF Circuit
<1>3. /\ UNCHANGED <<alsoKnownAs, verificationMethods, schnorrJubjubVerificationMethods,
                     services>>
      /\ mutation = "Insert" => relations' = [relations EXCEPT ![r] = relations[r] \cup {i}]
      /\ mutation = "Remove" => relations' = [relations EXCEPT ![r] = relations[r] \ {i}]
  BY <1>2 DEF SetVerificationMethodRelation, InsertVerificationMethodRelation,
              RemoveVerificationMethodRelationFromLedger
<1> HIDE DEF i, r
<1>4. /\ JwkEntries' = JwkEntries /\ SchnorrEntries' = SchnorrEntries
      /\ ServiceEntries' = ServiceEntries
  BY <1>3 DEF JwkEntries, SchnorrEntries, ServiceEntries, StoredMethods,
              StoredSchnorrMethods, StoredServices
<1>5. d' = After(d, call)
  <2>1. mutation = "Insert" =>
            After(d, call) = [d EXCEPT !.relation =
                                 [d.relation EXCEPT ![r] = d.relation[r] \cup {i}]]
    BY <1>1, AfterIs DEF i, r
  <2>2. mutation = "Remove" =>
            After(d, call) = [d EXCEPT !.relation =
                                 [d.relation EXCEPT ![r] = d.relation[r] \ {i}]]
    BY <1>1, AfterIs DEF i, r, ChangesRelation
  <2>3. d = Parts /\ d' = Parts'
    BY DocumentParts
  <2>4. d.relation = relations /\ d' = [d EXCEPT !.relation = relations']
    <3> DEFINE methods == JwkEntries \cup SchnorrEntries
               entries == ServiceEntries
    <3>1. d = [verificationMethod |-> methods, relation |-> relations,
               service |-> entries, alsoKnownAs |-> alsoKnownAs]
      BY <2>3 DEF Parts
    <3>2. d' = [verificationMethod |-> methods, relation |-> relations',
                service |-> entries, alsoKnownAs |-> alsoKnownAs]
      BY <1>3, <1>4, <2>3 DEF Parts
    <3> HIDE DEF d, methods, entries
    <3> QED
      BY <3>1, <3>2
  <2> HIDE DEF d
  <2> QED
    BY <1>3, <2>1, <2>2, <2>4
<1>6. Readable'
  BY <1>3 DEF Readable, StoredMethods, StoredSchnorrMethods, StoredServices
<1> QED
  BY <1>5, <1>6

\* Writing a service, or removing one.
LEMMA ServiceIsChanged ==
  ASSUME LedgerInv, Readable, NEW call \in DomainOperation, Maps(call),
         WritesService(call) \/ call[1] = "removeService", ReadsBack(call),
         FinalCall(ToLedger(call)) \in AnyCall, NEW sig, NEW v,
         Circuit(FinalCall(ToLedger(call)), sig, v)
  PROVE  /\ LedgerStateToDidDocument' = After(LedgerStateToDidDocument, call)
         /\ Readable'
<1> DEFINE i == NormalizeBoundFragmentId(RawIdOf(call))
           d == LedgerStateToDidDocument
<1>0. TypeOK
  BY DEF LedgerInv
<1>1. CASE WritesService(call)
  <2> DEFINE s == call[2][2]
             body == ServiceToLedger(Normal(s))
  <2>1. PICK mutation \in {"Insert", "Update"} :
            FinalCall(ToLedger(call)) = <<"setService", <<i, body, mutation>>>>
    BY <1>1, FinalCallIs
  <2>2. SetService(i, body, mutation, sig, v)
    BY <2>1 DEF Circuit
  <2>3. i \in ServiceId /\ body \in ServiceBody
    BY <2>1, CallArguments
  <2>4. s \in DomainService
    BY <1>1, DomainArguments
  <2>5. /\ s.type.names # <<>>
        /\ s.type.kind = "One" <=> Len(s.type.names) = 1
        /\ ServiceTypeReads(ServiceTypeToLedger(s.type))
    BY <1>1 DEF Maps, ServiceTypeFits, ReadsBack
  <2>6. ParseLedgerService(i, body)
          = [id |-> i, type |-> s.type, serviceEndpoint |-> Normal(s).serviceEndpoint]
    BY <2>4, <2>5, ServiceReadsBack
  <2>7. ServiceTypeReads(body.typ) /\ body.serviceEndpoint \in Seq(Domain!EndpointEntry)
    <3>1. ServiceTypeReads(body.typ)
      BY <2>5 DEF ServiceToLedger, Normal, DomainService
    <3>2. s.serviceEndpoint \in Seq(Domain!EndpointEntry)
      BY <2>4 DEF DomainService
    <3>3. Normal(s).serviceEndpoint = Domain!NormalizeServiceEndpoint(s.serviceEndpoint)
      BY <2>4 DEF Normal, DomainService
    <3>4. body.serviceEndpoint = Domain!NormalizeServiceEndpoint(Normal(s).serviceEndpoint)
      BY DEF ServiceToLedger
    <3> QED
      BY <3>1, <3>2, <3>3, <3>4, NormalEndpoint
  <2>8. /\ services' = [services EXCEPT ![i] = body]
        /\ UNCHANGED <<alsoKnownAs, verificationMethods, schnorrJubjubVerificationMethods,
                       relations>>
    BY <2>2 DEF SetService
  <2>9. body # Absent
    BY <2>3, AbsentAssumption
  <2>10. After(d, call) =
          [d EXCEPT !.service = Except(d.service, {i}) \cup {ParseLedgerService(i, body)}]
    <3>1. After(d, call) =
            [d EXCEPT !.service = Except(d.service, {i})
                \cup {[id |-> i, type |-> s.type,
                       serviceEndpoint |-> Normal(s).serviceEndpoint]}]
      BY <1>1, AfterIs
    <3> HIDE DEF i, s, body, d
    <3> QED
      BY <2>6, <3>1
  <2> HIDE DEF i, s, body
  <2>11. ServiceEntries' = Except(ServiceEntries, {i}) \cup {ParseLedgerService(i, body)}
    BY <1>0, <2>3, <2>8, <2>9, ServiceWritten
  <2>12. JwkEntries' = JwkEntries /\ SchnorrEntries' = SchnorrEntries
    BY <2>8 DEF JwkEntries, SchnorrEntries, StoredMethods, StoredSchnorrMethods
  <2>13. d' = After(d, call)
    BY <2>8, <2>10, <2>11, <2>12, DocumentParts DEF Parts
  <2>14. Readable'
    <3>1. \A j \in ServiceId \ {i} : services'[j] = services[j]
      BY <1>0, <2>8 DEF TypeOK
    <3>2. services'[i] = body
      BY <1>0, <2>3, <2>8 DEF TypeOK
    <3> QED
      BY <2>7, <2>8, <3>1, <3>2
         DEF Readable, StoredMethods, StoredSchnorrMethods, StoredServices
  <2> QED
    BY <2>13, <2>14
<1>2. CASE call[1] = "removeService"
  <2>1. FinalCall(ToLedger(call)) = <<"removeService", i>>
    BY <1>2, FinalCallIs
  <2>2. RemoveService(i, sig, v)
    BY <2>1 DEF Circuit
  <2>3. i \in ServiceId
    BY <2>1, CallArguments
  <2>4. /\ services' = [services EXCEPT ![i] = Absent]
        /\ UNCHANGED <<alsoKnownAs, verificationMethods, schnorrJubjubVerificationMethods,
                       relations>>
    BY <2>2 DEF RemoveService
  <2>5. After(d, call) = [d EXCEPT !.service = Except(d.service, {i})]
    BY <1>2, AfterIs
  <2> HIDE DEF i
  <2>6. ServiceEntries' = Except(ServiceEntries, {i})
    BY <1>0, <2>3, <2>4, ServiceRemoved
  <2>7. JwkEntries' = JwkEntries /\ SchnorrEntries' = SchnorrEntries
    BY <2>4 DEF JwkEntries, SchnorrEntries, StoredMethods, StoredSchnorrMethods
  <2>8. d' = After(d, call)
    BY <2>4, <2>5, <2>6, <2>7, DocumentParts DEF Parts
  <2>9. Readable'
    <3>1. \A j \in ServiceId : services'[j] \in {services[j], Absent}
      BY <1>0, <2>4 DEF TypeOK
    <3> QED
      BY <2>4, <3>1 DEF Readable, StoredMethods, StoredSchnorrMethods, StoredServices
  <2> QED
    BY <2>8, <2>9
<1> QED
  BY <1>1, <1>2

\* Writing an alias, or removing one, and deactivating.
LEMMA AliasIsChanged ==
  ASSUME LedgerInv, Readable, NEW call \in DomainOperation, Maps(call), NamesNothing(call),
         NEW sig, NEW v, Circuit(FinalCall(ToLedger(call)), sig, v)
  PROVE  /\ LedgerStateToDidDocument' = After(LedgerStateToDidDocument, call)
         /\ Readable'
<1> DEFINE d == LedgerStateToDidDocument
<1>1. /\ UNCHANGED <<verificationMethods, schnorrJubjubVerificationMethods, relations,
                     services>>
      /\ call[1] = "addAlsoKnownAs" => alsoKnownAs' = alsoKnownAs \cup {call[2]}
      /\ call[1] = "removeAlsoKnownAs" => alsoKnownAs' = alsoKnownAs \ {call[2]}
      /\ call[1] = "deactivate" => alsoKnownAs' = alsoKnownAs
  <2>1. CASE call[1] = "addAlsoKnownAs"
    <3>1. SetAlsoKnownAs(call[2], "Insert", sig, v)
      BY <2>1, FinalCallIs DEF Circuit
    <3> QED
      BY <2>1, <3>1 DEF SetAlsoKnownAs
  <2>2. CASE call[1] = "removeAlsoKnownAs"
    <3>1. SetAlsoKnownAs(call[2], "Remove", sig, v)
      BY <2>2, FinalCallIs DEF Circuit
    <3> QED
      BY <2>2, <3>1 DEF SetAlsoKnownAs
  <2>3. CASE call[1] = "deactivate"
    <3>1. Deactivate(sig, v)
      BY <2>3, FinalCallIs DEF Circuit
    <3> QED
      BY <2>3, <3>1 DEF Deactivate, document
  <2> QED
    BY <2>1, <2>2, <2>3 DEF NamesNothing
<1>2. /\ JwkEntries' = JwkEntries /\ SchnorrEntries' = SchnorrEntries
      /\ ServiceEntries' = ServiceEntries
  BY <1>1 DEF JwkEntries, SchnorrEntries, ServiceEntries, StoredMethods,
              StoredSchnorrMethods, StoredServices
<1>3. d = Parts /\ d' = Parts'
  BY DocumentParts
<1>4. d.alsoKnownAs = alsoKnownAs /\ d' = [d EXCEPT !.alsoKnownAs = alsoKnownAs']
  BY <1>1, <1>2, <1>3 DEF Parts
<1>5. [d EXCEPT !.alsoKnownAs = d.alsoKnownAs] = d
  BY <1>3 DEF Parts
<1>6. d' = After(d, call)
  <2>1. /\ call[1] = "addAlsoKnownAs" =>
               After(d, call) = [d EXCEPT !.alsoKnownAs = d.alsoKnownAs \cup {call[2]}]
        /\ call[1] = "removeAlsoKnownAs" =>
               After(d, call) = [d EXCEPT !.alsoKnownAs = d.alsoKnownAs \ {call[2]}]
        /\ call[1] = "deactivate" => After(d, call) = d
    BY AfterIs
  <2>2. call[1] \in {"addAlsoKnownAs", "removeAlsoKnownAs", "deactivate"}
    BY DEF NamesNothing
  <2> HIDE DEF d
  <2> QED
    BY <1>1, <1>4, <1>5, <2>1, <2>2
<1>7. Readable'
  BY <1>1 DEF Readable, StoredMethods, StoredSchnorrMethods, StoredServices
<1> QED
  BY <1>6, <1>7

\* A circuit counts, and says in the status cells whether it was the last.
LEMMA CircuitStatus ==
  ASSUME NEW call \in AnyCall, NEW sig, NEW v, Circuit(call, sig, v)
  PROVE  /\ active
         /\ version' = version + 1
         /\ IF call[1] = "deactivate" THEN active' = FALSE /\ deactivated' = TRUE
                                      ELSE UNCHANGED status
<1> USE DEF Circuit, AssertControllerCanUpdate, AssertRecoveryCanUpdate, RecordUpdate
<1>1. CASE call[1] \in {"rotateControllerKey", "recoverControllerKey"}
  BY <1>1 DEF RotateControllerKey, RecoverControllerKey
<1>2. CASE call[1] = "setAlsoKnownAs"
  BY <1>2 DEF SetAlsoKnownAs
<1>3. CASE call[1] \in {"setVerificationMethod", "setSchnorrJubjubVM"}
  BY <1>3 DEF SetVerificationMethod, SetSchnorrJubjubVerificationMethod
<1>4. CASE call[1] \in {"removeVerificationMethod", "removeSchnorrJubjubVM"}
  BY <1>4 DEF RemoveVerificationMethod, RemoveSchnorrJubjubVerificationMethod
<1>5. CASE call[1] = "setVMRelation"
  BY <1>5 DEF SetVerificationMethodRelation
<1>6. CASE call[1] \in {"setService", "removeService"}
  BY <1>6 DEF SetService, RemoveService
<1>7. CASE call[1] = "deactivate"
  BY <1>7 DEF Deactivate
<1> QED
  BY <1>1, <1>2, <1>3, <1>4, <1>5, <1>6, <1>7

\* The call that completes an operation makes of the resolved document and its
\* metadata what the caller meant.
LEMMA CallIsWritten ==
  ASSUME LedgerInv, Readable, NEW call \in DomainOperation, Maps(call), ReadsBack(call),
         FinalCall(ToLedger(call)) \in AnyCall, NEW sig, NEW v,
         Circuit(FinalCall(ToLedger(call)), sig, v)
  PROVE  /\ LedgerStateToDidDocument' = After(LedgerStateToDidDocument, call)
         /\ LedgerStateToMetadata' =
               [deactivated |-> call[1] = "deactivate",
                versionId |-> LedgerStateToMetadata.versionId + 1]
         /\ Readable'
<1>1. LedgerStateToDidDocument' = After(LedgerStateToDidDocument, call) /\ Readable'
  BY MethodIsWritten, SchnorrIsWritten, MethodIsRemoved, RelationIsChanged, ServiceIsChanged,
     AliasIsChanged, DomainArguments
<1>2. FinalCall(ToLedger(call))[1] = "deactivate" <=> call[1] = "deactivate"
  BY FinalCallIs, DomainArguments
     DEF RemovesMethod, ChangesRelation, NamesNothing, WritesMethod, WritesSchnorr, WritesService
<1>3. /\ active /\ version' = version + 1
      /\ call[1] = "deactivate" => active' = FALSE /\ deactivated' = TRUE
      /\ call[1] # "deactivate" => active' = active /\ deactivated' = deactivated
  BY <1>2, CircuitStatus DEF status
<1>4. deactivated = FALSE
  BY <1>3, Zenon DEF LedgerInv, CellsAgree
<1>5. (deactivated' \/ ~active') = (call[1] = "deactivate")
  BY <1>3, <1>4
<1>6. LedgerStateToMetadata' =
        [deactivated |-> call[1] = "deactivate", versionId |-> version + 1]
  BY <1>3, <1>5 DEF LedgerStateToMetadata
<1> QED
  BY <1>1, <1>6 DEF LedgerStateToMetadata

\* A removal on its way takes the method out of one relation.
LEMMA PurgeIsWritten ==
  ASSUME LedgerInv, Readable, NEW r \in Relation, NEW i \in MethodId,
         NEW sig, NEW v, Circuit(RelationCall(r, i, "Remove"), sig, v)
  PROVE  /\ LedgerStateToDidDocument' =
               [LedgerStateToDidDocument EXCEPT !.relation =
                   [LedgerStateToDidDocument.relation EXCEPT
                       ![r] = LedgerStateToDidDocument.relation[r] \ {i}]]
         /\ LedgerStateToMetadata' =
               [deactivated |-> LedgerStateToMetadata.deactivated,
                versionId |-> LedgerStateToMetadata.versionId + 1]
         /\ Readable'
<1>1. RelationCall(r, i, "Remove") \in AnyCall
  BY DEF RelationCall, AnyCall, AnyRelation, SetMutation
<1>2. SetVerificationMethodRelation(r, i, "Remove", sig, v)
  BY DEF Circuit, RelationCall
<1>3. /\ UNCHANGED <<alsoKnownAs, verificationMethods, schnorrJubjubVerificationMethods,
                     services>>
      /\ relations' = [relations EXCEPT ![r] = relations[r] \ {i}]
  BY <1>2 DEF SetVerificationMethodRelation, RemoveVerificationMethodRelationFromLedger
<1>4. /\ JwkEntries' = JwkEntries /\ SchnorrEntries' = SchnorrEntries
      /\ ServiceEntries' = ServiceEntries
  BY <1>3 DEF JwkEntries, SchnorrEntries, ServiceEntries, StoredMethods,
              StoredSchnorrMethods, StoredServices
<1>5. UNCHANGED status /\ version' = version + 1
  BY <1>1, CircuitStatus DEF RelationCall
<1>6. LedgerStateToDidDocument.relation = relations
  BY DocumentParts DEF Parts
<1>7. LedgerStateToDidDocument' = [LedgerStateToDidDocument EXCEPT !.relation = relations']
  <2>1. alsoKnownAs' = alsoKnownAs
    BY <1>3
  <2> DEFINE d == LedgerStateToDidDocument
  <2>2. d = Parts /\ d' = Parts'
    BY DocumentParts
  <2>3. d' = [d EXCEPT !.relation = relations']
    BY <1>4, <2>1, <2>2 DEF Parts
  <2> QED
    BY <2>3
<1>8. Readable'
  BY <1>3 DEF Readable, StoredMethods, StoredSchnorrMethods, StoredServices
<1> QED
  BY <1>3, <1>5, <1>6, <1>7, <1>8 DEF LedgerStateToMetadata, status

-----------------------------------------------------------------------------
(***************************************************************************)
(* The inductive invariant of resolution: what is under way is what was    *)
(* asked for, and what is written is what is resolved.                     *)
(***************************************************************************)
AskedInv ==
    /\ asked = [c \in Client |-> asked[c]]
    /\ \A c \in Client :
          calls[c].at \notin Ended =>
              /\ asked[c] \in DomainCall
              /\ Maps(asked[c])
              /\ calls[c].op = ToLedger(asked[c])
              /\ Planned(calls[c].op, calls[c].todo)

Written ==
    written = [document |-> LedgerStateToDidDocument, metadata |-> LedgerStateToMetadata]

ResolutionInv ==
    /\ ApiInv
    /\ AskedInv
    /\ Readable
    /\ Written

LEMMA InitResolutionInv == ResolutionInit => ResolutionInv
<1> SUFFICES ASSUME ResolutionInit PROVE ResolutionInv
  OBVIOUS
<1> USE DEF ResolutionInit
<1>1. ApiInv
  BY InitApiInv
<1>2. AskedInv
  BY DEF AskedInv, ApiInit, Over, Ended
<1>3. StoredMethods = {} /\ StoredSchnorrMethods = {} /\ StoredServices = {}
  BY DEF ApiInit, Init, StoredMethods, StoredSchnorrMethods, StoredServices
<1>4. Readable
  BY <1>3 DEF Readable
<1>5. Written
  <2>1. JwkEntries = {} /\ SchnorrEntries = {} /\ ServiceEntries = {}
    BY <1>3 DEF JwkEntries, SchnorrEntries, ServiceEntries
  <2>2. relations = [r \in Relation |-> {}] /\ alsoKnownAs = {}
    BY DEF ApiInit, Init
  <2>3. LedgerStateToMetadata = [deactivated |-> FALSE, versionId |-> 0]
    BY DEF ApiInit, Init, LedgerStateToMetadata
  <2> QED
    BY <2>1, <2>2, <2>3, DocumentParts DEF Written, Parts
<1> QED
  BY <1>1, <1>2, <1>4, <1>5 DEF ResolutionInv

\* One client's step leaves the others where they are.
LEMMA AskedFrame ==
  ASSUME ApiInv, AskedInv, NEW c \in Client, NEW r, NEW a,
         calls' = [calls EXCEPT ![c] = r], asked' = [asked EXCEPT ![c] = a],
         r.at \notin Ended =>
             /\ a \in DomainCall
             /\ Maps(a)
             /\ r.op = ToLedger(a)
             /\ Planned(r.op, r.todo)
  PROVE  AskedInv'
<1>1. DOMAIN calls = Client /\ DOMAIN asked = Client
  BY DEF ApiInv, Fields, AskedInv
<1>2. calls'[c] = r /\ asked'[c] = a
  BY <1>1
<1>3. \A d \in Client \ {c} : calls'[d] = calls[d] /\ asked'[d] = asked[d]
  BY <1>1
<1>4. asked' = [d \in Client |-> asked'[d]]
  BY <1>1
<1> QED
  BY <1>2, <1>3, <1>4 DEF AskedInv

\* A step that leaves the ledger leaves what is resolved.
LEMMA LedgerFrame ==
  ASSUME Readable, Written, UNCHANGED ledger, UNCHANGED written
  PROVE  Readable' /\ Written'
<1> USE DEF ledger, identity, document, counters, status
<1>1. LedgerStateToDidDocument' = LedgerStateToDidDocument
  BY DEF LedgerStateToDidDocument, StoredMethods, StoredSchnorrMethods, StoredServices
<1>2. LedgerStateToMetadata' = LedgerStateToMetadata
  BY DEF LedgerStateToMetadata
<1>3. Readable'
  BY DEF Readable, StoredMethods, StoredSchnorrMethods, StoredServices
<1> QED
  BY <1>1, <1>2, <1>3 DEF Written

\* The rest of a plan is a plan, and what comes before its end is a purge.
LEMMA PlannedTail ==
  ASSUME NEW op, NEW todo \in Seq(AnyCall), todo # <<>>, Planned(op, todo)
  PROVE  /\ Len(todo) = 1 => Head(todo) = FinalCall(op)
         /\ Len(todo) # 1 => /\ Planned(op, Tail(todo))
                             /\ op[1] \in RemovalName
                             /\ Head(todo) \in PurgesOf(op[2])
         /\ Head(todo) \in AnyCall
<1>1. Len(todo) \in Nat /\ Len(todo) # 0
  BY EmptySeq, LenProperties
<1>2. Len(todo) = 1 => Head(todo) = FinalCall(op)
  BY DEF Planned
<1>3. Head(todo) \in AnyCall /\ Head(todo) = todo[1]
  BY HeadTailProperties
<1>4. ASSUME Len(todo) # 1
      PROVE  /\ Planned(op, Tail(todo))
             /\ op[1] \in RemovalName
             /\ Head(todo) \in PurgesOf(op[2])
  <2>1. /\ Len(Tail(todo)) = Len(todo) - 1
        /\ \A n \in 1 .. Len(Tail(todo)) : Tail(todo)[n] = todo[n + 1]
    BY HeadTailProperties
  <2>2. Tail(todo)[Len(Tail(todo))] = todo[Len(todo)]
    BY <1>4, TailFacts
  <2> DEFINE k == Len(todo)
             rest == Tail(todo)
  <2>3. k \in Nat /\ k # 0 /\ k # 1 /\ Len(rest) = k - 1
    BY <1>1, <1>4, <2>1
  <2>4. /\ \A n \in 1 .. Len(rest) : rest[n] = todo[n + 1]
        /\ \A n \in 1 .. k : n # k => op[1] \in RemovalName /\ todo[n] \in PurgesOf(op[2])
        /\ rest[Len(rest)] = FinalCall(op)
    BY <2>1, <2>2 DEF Planned
  <2> HIDE DEF k, rest
  <2>5. ASSUME NEW n \in 1 .. Len(rest), n # Len(rest)
        PROVE  op[1] \in RemovalName /\ rest[n] \in PurgesOf(op[2])
    <3>1. n + 1 \in 1 .. k /\ n + 1 # k
      BY <2>3, <2>5
    <3> QED
      BY <2>4, <2>5, <3>1
  <2>6. 1 \in 1 .. k /\ 1 # k
    BY <2>3
  <2> QED
    BY <1>3, <2>4, <2>5, <2>6 DEF Planned, rest
<1> QED
  BY <1>2, <1>3, <1>4

LEMMA AskInv ==
  ASSUME ResolutionInv, NEW c \in Client, NEW call \in DomainCall, Ask(c, call)
  PROVE  ResolutionInv'
<1> USE DEF ResolutionInv
<1>0. version \in Nat
  BY DEF ApiInv, LedgerInv, TypeOK
<1>1. UNCHANGED written /\ asked' =
          [asked EXCEPT ![c] = IF calls'[c].at \in Ended THEN Absent ELSE call]
  BY DEF Ask
<1>2. CASE Maps(call) /\ ApiCall(c, ToLedger(call))
  <2> DEFINE op == ToLedger(call)
  <2>1. op \in Operation /\ op[1] # "applyPatch"
    <3>1. call \in DomainOperation
      BY DomainCallAssumption
    <3>2. op[1] = call[1]
      BY <3>1, DomainArguments DEF ToLedger
    <3> QED
      BY <1>2, <3>1, <3>2, DomainCallAssumption, DomainArguments
  <2> HIDE DEF op
  <2>2. ApiCall(c, op)
    BY <1>2 DEF op
  <2>3. ApiInv'
    BY <2>1, <2>2, NextApiInv DEF ApiNext
  <2>4. /\ UNCHANGED ledger
        /\ \/ \E todo \in Seq(AnyCall) : \E goal :
                 /\ todo # <<>>
                 /\ Planned(op, todo)
                 /\ calls' = [calls EXCEPT ![c] = Begun(op, todo, goal)]
           \/ calls' = [calls EXCEPT ![c] = Over(c, op, "refused")]
    BY <2>1, <2>2, ApiCallPlans
  <2>5. DOMAIN calls = Client
    BY DEF ApiInv, Fields
  <2>6. AskedInv'
    <3>1. CASE calls' = [calls EXCEPT ![c] = Over(c, op, "refused")]
      <4> DEFINE r == Over(c, op, "refused")
      <4>1. r.at \in Ended
        BY DEF Over, Ended
      <4> HIDE DEF r
      <4> QED
        BY <1>1, <3>1, <4>1, AskedFrame DEF r
    <3>2. ASSUME NEW todo \in Seq(AnyCall), NEW goal, Planned(op, todo),
                 calls' = [calls EXCEPT ![c] = Begun(op, todo, goal)]
          PROVE  AskedInv'
      <4> DEFINE r == Begun(op, todo, goal)
      <4>1. r.at = "submit" /\ r.op = op /\ r.todo = todo
        BY DEF Begun
      <4> HIDE DEF r
      <4>2. calls' = [calls EXCEPT ![c] = r] /\ calls'[c] = r
        BY <2>5, <3>2 DEF r
      <4>3. asked' = [asked EXCEPT ![c] = call]
        BY <1>1, <4>1, <4>2 DEF Ended
      <4>4. /\ call \in DomainCall /\ Maps(call)
            /\ r.op = ToLedger(call) /\ Planned(r.op, r.todo)
        BY <1>2, <3>2, <4>1 DEF op
      <4> QED
        BY <4>2, <4>3, <4>4, AskedFrame
    <3> QED
      BY <2>4, <3>1, <3>2
  <2> QED
    BY <1>1, <2>3, <2>4, <2>6, LedgerFrame
<1>3. CASE ~Maps(call) /\ Refuse(c, call)
  <2> DEFINE r == Over(c, call, "refused")
  <2>1. calls' = [calls EXCEPT ![c] = r] /\ UNCHANGED ledger
    BY <1>3 DEF Refuse
  <2>2. "refused" \in Ended /\ r.at \in Ended
    BY DEF Over, Ended
  <2>3. LedgerInv' /\ version' \in Nat /\ version' >= version
    BY <1>0, <2>1, NextLedgerInv DEF ApiInv, ledger, counters
  <2>4. ApiInv'
    <3>1. calls' = [calls EXCEPT ![c] = Over(c, call, "refused")]
      BY <2>1
    <3> QED
      BY <2>2, <2>3, <3>1, OverFrame
  <2> HIDE DEF r
  <2>5. AskedInv'
    BY <1>1, <2>1, <2>2, AskedFrame
  <2> QED
    BY <1>1, <2>1, <2>4, <2>5, LedgerFrame
<1> QED
  BY <1>2, <1>3 DEF Ask

LEMMA SubmitInv ==
  ASSUME ResolutionInv, NEW c \in Client, Submit(c), UNCHANGED <<asked, written>>
  PROVE  ResolutionInv'
<1> USE DEF ResolutionInv
<1>1. ApiInv'
  BY NextApiInv DEF ApiNext
<1> DEFINE r == [at |-> "sent", op |-> calls[c].op, todo |-> calls[c].todo,
                 signed |-> version, alone |-> calls[c].alone, goal |-> calls[c].goal]
<1>2. calls' = [calls EXCEPT ![c] = r] /\ UNCHANGED ledger
  BY DEF Submit, ApiInv, Fields
<1>3. r.op = calls[c].op /\ r.todo = calls[c].todo
  OBVIOUS
<1> HIDE DEF r
<1>4. calls[c].at \notin Ended
  BY DEF Submit, Ended
<1>5. asked' = [asked EXCEPT ![c] = asked[c]]
  BY DEF AskedInv
<1>6. AskedInv'
  BY <1>2, <1>3, <1>4, <1>5, AskedFrame DEF AskedInv
<1> QED
  BY <1>1, <1>2, <1>6, LedgerFrame

LEMMA AcceptCallInv ==
  ASSUME \A call \in DomainCall : Maps(call) => ReadsBack(call),
         ResolutionInv, NEW c \in Client, AcceptCall(c)
  PROVE  ResolutionInv'
<1> USE DEF ResolutionInv
<1> DEFINE call == asked[c]
           op   == calls[c].op
           todo == calls[c].todo
           sig  == Signature(controllerPublicKey, Digest(calls[c].signed, Head(todo)))
<1>1. Accept(c) /\ ApiInv'
  BY NextApiInv DEF AcceptCall, ApiNext
<1>2. /\ call \in DomainCall
      /\ Maps(call)
      /\ op = ToLedger(call)
      /\ Planned(op, todo)
      /\ todo \in Seq(AnyCall)
      /\ todo # <<>>
      /\ op \in Operation
  BY <1>1 DEF Accept, AskedInv, ApiInv, ApiTypeOK, Ended
<1>3. call \in DomainOperation /\ ReadsBack(call)
  BY <1>2, DomainCallAssumption
<1>4. LedgerInv /\ DOMAIN calls = Client /\ DOMAIN asked = Client
  BY DEF ApiInv, Fields, AskedInv
<1>5. Circuit(Head(todo), sig, calls[c].signed)
  BY <1>1 DEF Accept, Run
<1>6. /\ Len(todo) = 1 => Head(todo) = FinalCall(op)
      /\ Len(todo) # 1 => /\ Planned(op, Tail(todo))
                          /\ op[1] \in RemovalName
                          /\ Head(todo) \in PurgesOf(op[2])
      /\ Head(todo) \in AnyCall
  BY <1>2, PlannedTail
<1>7. CASE Len(todo) = 1
  <2>1. calls' = [calls EXCEPT ![c] = Over(c, op, "ok")] /\ calls'[c].at = "ok"
    BY <1>1, <1>4, <1>7 DEF Accept, Over
  <2>2. /\ written' = [document |-> After(written.document, call),
                       metadata |-> [deactivated |-> call[1] = "deactivate",
                                     versionId |-> written.metadata.versionId + 1]]
        /\ asked' = [asked EXCEPT ![c] = Absent]
    BY <2>1 DEF AcceptCall
  <2> HIDE DEF call, op, todo, sig
  <2>3. /\ LedgerStateToDidDocument' = After(LedgerStateToDidDocument, call)
        /\ LedgerStateToMetadata' =
              [deactivated |-> call[1] = "deactivate",
               versionId |-> LedgerStateToMetadata.versionId + 1]
        /\ Readable'
    BY <1>2, <1>3, <1>4, <1>5, <1>6, <1>7, CallIsWritten
  <2>4. Written'
    BY <2>2, <2>3 DEF Written
  <2>5. AskedInv'
    <3> DEFINE r == Over(c, op, "ok")
    <3>1. r.at \in Ended
      BY DEF Over, Ended
    <3>2. calls' = [calls EXCEPT ![c] = r]
      BY <2>1
    <3> HIDE DEF r
    <3> QED
      BY <2>2, <3>1, <3>2, AskedFrame
  <2> QED
    BY <1>1, <2>3, <2>4, <2>5
<1>8. CASE Len(todo) # 1
  <2> DEFINE r == [at |-> "submit", op |-> op, todo |-> Tail(todo), signed |-> 0,
                   alone |-> calls[c].alone + 1, goal |-> calls[c].goal]
             i == NormalizeBoundFragmentId(RawIdOf(call))
  <2>1. calls' = [calls EXCEPT ![c] = r]
    BY <1>1, <1>8 DEF Accept, ApiInv, Fields
  <2>2. r.at = "submit" /\ r.op = op /\ r.todo = Tail(todo)
    OBVIOUS
  <2>3. calls'[c].at = "submit"
    BY <1>4, <2>1
  <2>5. op[2] = i /\ i \in MethodId /\ Meant(RawIdOf(call)) = {i}
    <3>1. op[1] = call[1] /\ RemovesMethod(call)
      <4>1. op[1] = call[1]
        BY <1>2, <1>3, DomainArguments DEF ToLedger
      <4> QED
        BY <1>6, <1>8, <4>1 DEF RemovesMethod, RemovalName
    <3>2. op = <<call[1], i>>
      BY <1>2, <3>1 DEF ToLedger, RemovesMethod, NamesNothing,
         WritesMethod, WritesSchnorr, WritesService, ChangesRelation
    <3>3. op[2] \in MethodId
      BY <1>2, <3>1, OperationAssumption DEF AnyOperation, RemovesMethod
    <3>4. ~NamesNothing(call)
      BY <3>1 DEF RemovesMethod, NamesNothing
    <3>5. Meant(RawIdOf(call)) = {i}
      BY <1>2, <1>3, <3>4, RawIdIs, MeantIs DEF Maps
    <3> QED
      BY <3>2, <3>3, <3>5
  <2>4. /\ written' = [written EXCEPT !.document.relation[Head(todo)[2][1]] = @ \ {i},
                                      !.metadata.versionId = @ + 1]
        /\ UNCHANGED asked
    BY <2>3, <2>5 DEF AcceptCall
  <2>6. PICK q \in Relation : Head(todo) = RelationCall(q, i, "Remove")
    BY <1>6, <1>8, <2>5 DEF PurgesOf
  <2>7. Head(todo)[2][1] = q
    BY <2>6 DEF RelationCall
  <2> HIDE DEF call, op, todo, sig, i, r
  <2> DEFINE d == LedgerStateToDidDocument
             m == LedgerStateToMetadata
  <2>8. /\ d' = [d EXCEPT !.relation = [d.relation EXCEPT ![q] = d.relation[q] \ {i}]]
        /\ m' = [deactivated |-> m.deactivated, versionId |-> m.versionId + 1]
        /\ Readable'
    BY <1>4, <1>5, <2>5, <2>6, PurgeIsWritten
  <2>9. Written'
    <3>1. written = [document |-> d, metadata |-> m]
      BY DEF Written
    <3>2. m = [deactivated |-> m.deactivated, versionId |-> m.versionId]
      BY DEF LedgerStateToMetadata
    <3>3. written' = [document |-> d', metadata |-> m']
      <4> HIDE DEF d, m
      <4> QED
        BY <2>4, <2>7, <2>8, <3>1, <3>2
    <3> QED
      BY <3>3 DEF Written
  <2>10. AskedInv'
    <3>1. asked' = [asked EXCEPT ![c] = call]
      BY <2>4 DEF AskedInv, call
    <3> QED
      BY <1>2, <1>6, <1>8, <2>1, <2>2, <3>1, AskedFrame
  <2> QED
    BY <1>1, <2>8, <2>9, <2>10
<1> QED
  BY <1>7, <1>8

LEMMA RejectCallInv ==
  ASSUME ResolutionInv, NEW c \in Client, RejectCall(c)
  PROVE  ResolutionInv'
<1> USE DEF ResolutionInv
<1>1. ApiInv'
  BY NextApiInv DEF RejectCall, ApiNext
<1> DEFINE r == Over(c, calls[c].op, "rejected")
<1>2. calls' = [calls EXCEPT ![c] = r] /\ UNCHANGED ledger
  BY DEF RejectCall, Reject, ApiInv, Fields
<1>3. r.at \in Ended
  BY DEF Over, Ended
<1> HIDE DEF r
<1>4. asked' = [asked EXCEPT ![c] = Absent] /\ UNCHANGED written
  BY DEF RejectCall
<1>5. AskedInv'
  BY <1>2, <1>3, <1>4, AskedFrame
<1> QED
  BY <1>1, <1>2, <1>4, <1>5, LedgerFrame

\* Every step keeps it, if callers write what can be read.
LEMMA NextResolutionInv ==
  ASSUME \A call \in DomainCall : Maps(call) => ReadsBack(call),
         ResolutionInv, [ResolutionNext]_resolutionVars
  PROVE  ResolutionInv'
<1>1. CASE UNCHANGED resolutionVars
  <2>1. UNCHANGED apiVars /\ UNCHANGED asked /\ UNCHANGED written
    BY <1>1 DEF resolutionVars
  <2>2. ApiInv'
    BY <2>1, NextApiInv DEF ResolutionInv
  <2>3. UNCHANGED calls /\ UNCHANGED ledger
    BY <2>1 DEF apiVars
  <2>4. Readable' /\ Written'
    BY <2>1, <2>3, LedgerFrame DEF ResolutionInv
  <2>5. AskedInv'
    BY <2>1, <2>3 DEF ResolutionInv, AskedInv
  <2> QED
    BY <2>2, <2>4, <2>5 DEF ResolutionInv
<1> QED
  BY <1>1, AskInv, SubmitInv, AcceptCallInv, RejectCallInv DEF ResolutionNext

\* If callers give their SchnorrJubjub methods key ids, and their services types
\* that come back from JSON, every document resolves, in every state, as it was
\* written, in whatever spelling of ids and with whatever endpoints, and each key
\* without the further members that it was given.
THEOREM DocumentsResolveAsWritten ==
  ASSUME \A call \in DomainCall : Maps(call) => ReadsBack(call)
  PROVE  ResolutionSpec => []ResolvesAsWritten
<1>1. ResolutionInv => ResolvesAsWritten
  <2> SUFFICES ASSUME ResolutionInv PROVE ResolvesAsWritten
    OBVIOUS
  <2>1. Readable /\ Written /\ OneMapPerMethodId /\ RelationsReferToMethods /\ TypeOK
    BY DEF ResolutionInv, ApiInv, LedgerInv, DocumentInv
  <2>2. Resolves
    BY <2>1 DEF Resolves, Readable, OneMapPerMethodId, RelationsReferToMethods, TypeOK,
       VerificationMethodExists, StoredMethods, StoredSchnorrMethods
  <2> QED
    BY <2>1, <2>2 DEF ResolvesAsWritten, Written
<1>2. ResolutionInv /\ [ResolutionNext]_resolutionVars => ResolutionInv'
  BY NextResolutionInv
<1> QED
  BY InitResolutionInv, <1>1, <1>2, PTL DEF ResolutionSpec

-----------------------------------------------------------------------------
(***************************************************************************)
(* The resolved document as a value of the domain crate.  It has finitely  *)
(* many parts, so each of them is in the lists it is made of, once.        *)
(***************************************************************************)
Finite ==
    /\ IsFiniteSet(StoredMethods)
    /\ IsFiniteSet(StoredSchnorrMethods)
    /\ IsFiniteSet(StoredServices)

\* A list made of a finite set has every element once.
LEMMA SetToSeqIsList ==
  ASSUME NEW S, IsFiniteSet(S)
  PROVE  LET q == SetToSeq(S)
         IN  /\ \A n \in DOMAIN q : q[n] \in S
             /\ IsInjective(q)
             /\ \A x \in S : \E n \in DOMAIN q : q[n] = x
<1> DEFINE k == Cardinality(S)
           q == SetToSeq(S)
<1>1. k \in Nat /\ ExistsBijection(1 .. k, S)
  BY FS_CardinalityType
<1>2. PICK f \in Bijection(1 .. k, S) : TRUE
  BY <1>1 DEF ExistsBijection
<1>3. f \in [1 .. k -> S] /\ IsInjective(f)
  BY <1>2 DEF Bijection, Injection
<1>4. q \in [1 .. k -> S] /\ IsInjective(q)
  BY <1>3 DEF SetToSeq
<1>5. Cardinality(1 .. k) = Cardinality(S)
  BY <1>1, FS_Interval
<1>6. q \in Surjection(1 .. k, S)
  BY <1>4, <1>5, FS_Injection DEF Injection
<1> QED
  BY <1>4, <1>6 DEF Surjection

\* A mutation writes one entry of one map at most, and so stores one more entry
\* at most.
LEMMA MutationEntries ==
  ASSUME NEW k, NEW v, Mutation(k, v)
  PROVE  /\ \/ UNCHANGED verificationMethods
            \/ \E m : \E i \in MethodId :
                  verificationMethods' = [verificationMethods EXCEPT ![i] = m]
         /\ \/ UNCHANGED schnorrJubjubVerificationMethods
            \/ \E m : \E i \in MethodId :
                  schnorrJubjubVerificationMethods' =
                      [schnorrJubjubVerificationMethods EXCEPT ![i] = m]
         /\ \/ UNCHANGED services
            \/ \E m : \E i \in ServiceId : services' = [services EXCEPT ![i] = m]
<1> USE DEF Mutation, RotateControllerKeyTx, RecoverControllerKeyTx, SetAlsoKnownAsTx,
     SetVerificationMethodTx, RemoveVerificationMethodTx, SetSchnorrJubjubVerificationMethodTx,
     RemoveSchnorrJubjubVerificationMethodTx, SetVerificationMethodRelationTx, SetServiceTx,
     RemoveServiceTx, DeactivateTx, RotateControllerKey, RecoverControllerKey, SetAlsoKnownAs,
     SetVerificationMethod, RemoveVerificationMethod, SetSchnorrJubjubVerificationMethod,
     RemoveSchnorrJubjubVerificationMethod, SetVerificationMethodRelation, SetService,
     RemoveService, Deactivate, document
<1>1. \/ UNCHANGED verificationMethods
      \/ \E m : \E i \in MethodId : verificationMethods' = [verificationMethods EXCEPT ![i] = m]
  OBVIOUS
<1>2. \/ UNCHANGED schnorrJubjubVerificationMethods
      \/ \E m : \E i \in MethodId :
            schnorrJubjubVerificationMethods' =
                [schnorrJubjubVerificationMethods EXCEPT ![i] = m]
  OBVIOUS
<1>3. \/ UNCHANGED services
      \/ \E m : \E i \in ServiceId : services' = [services EXCEPT ![i] = m]
  OBVIOUS
<1> QED
  BY <1>1, <1>2, <1>3

LEMMA MutationFinite ==
  ASSUME TypeOK, Finite, NEW k, NEW v, Mutation(k, v)
  PROVE  Finite'
<1>1. ASSUME NEW S, IsFiniteSet(S), NEW T, NEW i, T \subseteq S \cup {i}
      PROVE  IsFiniteSet(T)
  BY <1>1, FS_AddElement, FS_Subset
<1>2. IsFiniteSet(StoredMethods')
  <2>1. CASE UNCHANGED verificationMethods
    BY <2>1 DEF StoredMethods, Finite
  <2>2. ASSUME NEW i \in MethodId, NEW m,
               verificationMethods' = [verificationMethods EXCEPT ![i] = m]
        PROVE  IsFiniteSet(StoredMethods')
    <3>1. StoredMethods' \subseteq StoredMethods \cup {i}
      BY <2>2 DEF StoredMethods, TypeOK
    <3> QED
      BY <1>1, <3>1 DEF Finite
  <2> QED
    BY <2>1, <2>2, MutationEntries
<1>3. IsFiniteSet(StoredSchnorrMethods')
  <2>1. CASE UNCHANGED schnorrJubjubVerificationMethods
    BY <2>1 DEF StoredSchnorrMethods, Finite
  <2>2. ASSUME NEW i \in MethodId, NEW m,
               schnorrJubjubVerificationMethods' =
                   [schnorrJubjubVerificationMethods EXCEPT ![i] = m]
        PROVE  IsFiniteSet(StoredSchnorrMethods')
    <3>1. StoredSchnorrMethods' \subseteq StoredSchnorrMethods \cup {i}
      BY <2>2 DEF StoredSchnorrMethods, TypeOK
    <3> QED
      BY <1>1, <3>1 DEF Finite
  <2> QED
    BY <2>1, <2>2, MutationEntries
<1>4. IsFiniteSet(StoredServices')
  <2>1. CASE UNCHANGED services
    BY <2>1 DEF StoredServices, Finite
  <2>2. ASSUME NEW i \in ServiceId, NEW m, services' = [services EXCEPT ![i] = m]
        PROVE  IsFiniteSet(StoredServices')
    <3>1. StoredServices' \subseteq StoredServices \cup {i}
      BY <2>2 DEF StoredServices, TypeOK
    <3> QED
      BY <1>1, <3>1 DEF Finite
  <2> QED
    BY <2>1, <2>2, MutationEntries
<1> QED
  BY <1>2, <1>3, <1>4 DEF Finite

LEMMA InitFinite == ResolutionInit => Finite
<1> SUFFICES ASSUME ResolutionInit
             PROVE  Finite
  OBVIOUS
<1>1. StoredMethods = {} /\ StoredSchnorrMethods = {}
  BY DEF ResolutionInit, ApiInit, Init, StoredMethods, StoredSchnorrMethods
<1>2. StoredServices = {}
  BY DEF ResolutionInit, ApiInit, Init, StoredServices
<1> QED
  BY <1>1, <1>2, FS_EmptySet DEF Finite

LEMMA NextFinite ==
  ASSUME ApiInv, Finite, [ResolutionNext]_resolutionVars
  PROVE  Finite'
<1>1. CASE UNCHANGED ledger
  BY <1>1 DEF ledger, document, Finite, StoredMethods, StoredSchnorrMethods, StoredServices
<1>2. ASSUME NEW c \in Client, AcceptCall(c)
      PROVE  \E k \in PublicKey, v \in Nat : Mutation(k, v)
  BY <1>2, RunMutates DEF AcceptCall, Accept
<1>3. ASSUME NEW k, NEW v, Mutation(k, v) PROVE Finite'
  BY <1>3, MutationFinite DEF ApiInv, LedgerInv
<1>4. ASSUME NEW c \in Client, NEW call \in DomainCall, Ask(c, call) PROVE UNCHANGED ledger
  <2>1. CASE Maps(call) /\ ApiCall(c, ToLedger(call))
    <3>1. ToLedger(call) \in Operation
      BY <2>1, DomainCallAssumption
    <3> QED
      BY <2>1, <3>1, ApiCallStep
  <2>2. CASE Refuse(c, call)
    BY <2>2 DEF Refuse
  <2> QED
    BY <1>4, <2>1, <2>2 DEF Ask
<1>5. ASSUME NEW c \in Client, Submit(c) \/ RejectCall(c) PROVE UNCHANGED ledger
  BY <1>5 DEF Submit, RejectCall, Reject
<1>6. UNCHANGED resolutionVars => UNCHANGED ledger
  BY DEF resolutionVars, apiVars
<1> QED
  BY <1>1, <1>2, <1>3, <1>4, <1>5, <1>6 DEF ResolutionNext

LEMMA ImageIsFinite ==
  ASSUME NEW S, IsFiniteSet(S), NEW f
  PROVE  IsFiniteSet({f[x] : x \in S})
<1> DEFINE T == {f[x] : x \in S}
           g == [x \in S |-> f[x]]
<1>1. g \in Surjection(S, T)
  BY DEF Surjection
<1> HIDE DEF T, g
<1>2. IsFiniteSet(T)
  BY <1>1, FS_Surjection
<1> QED
  BY <1>2 DEF T

\* Methods have one entry each, with a key of the domain crate, and so have
\* services, with endpoints in normal form.
Entries == JwkEntries \cup SchnorrEntries

\* A key that was read from the ledger has a y, if only an absent one, and what
\* it is to be valid.
LEMMA ReadKeyHasY ==
  ASSUME NEW w
  PROVE  "y" \in DOMAIN LedgerJwkToDomain(w)
<1> DEFINE y == IF w.y = "" THEN Absent ELSE w.y
<1>1. LedgerJwkToDomain(w)
        = [typ |-> w.typ, kty |-> w.kty, crv |-> w.crv, y |-> y, ext |-> {}]
  BY ReadKeyIs, Zenon
<1> HIDE DEF y
<1> QED
  BY <1>1

LEMMA ValidKeyIs ==
  ASSUME NEW jwk, ValidJwk(jwk)
  PROVE  /\ jwk.kty = "OKP" => jwk.crv \in {"Ed25519", "X25519", "BLS12381G1", "BLS12381G2"}
         /\ jwk.kty = "EC" => jwk.crv \in {"Jubjub", "P256", "Secp256k1"}
         /\ jwk.kty = "OKP" <=> jwk.y = Absent
BY Zenon DEF ValidJwk

LEMMA EntriesAreParts ==
  ASSUME ResolutionInv, Finite
  PROVE  /\ IsFiniteSet(Entries)
         /\ \A m, n \in Entries : m.id = n.id => m = n
         /\ \A m \in Entries : Domain!ValidJwk(DomainJwk(m.jwk))
         /\ \A r \in Relation : \A i \in relations[r] : \E m \in Entries : m.id = i
<1>1. /\ TypeOK /\ OneMapPerMethodId /\ RelationsReferToMethods /\ Readable
  BY DEF ResolutionInv, ApiInv, LedgerInv, DocumentInv
<1>2. IsFiniteSet(Entries)
  <2> DEFINE f == [i \in StoredMethods |->
                      [id |-> i, jwk |-> LedgerJwkToDomain(verificationMethods[i])]]
             g == [i \in StoredSchnorrMethods |->
                      [id |-> i,
                       jwk |-> SchnorrJubjubPkToJwk(schnorrJubjubVerificationMethods[i])]]
  <2>1. JwkEntries = {f[i] : i \in StoredMethods} /\ DOMAIN f = StoredMethods
    BY DEF JwkEntries
  <2>2. SchnorrEntries = {g[i] : i \in StoredSchnorrMethods} /\ DOMAIN g = StoredSchnorrMethods
    BY DEF SchnorrEntries
  <2> HIDE DEF f, g
  <2>3. IsFiniteSet(JwkEntries) /\ IsFiniteSet(SchnorrEntries)
    BY <2>1, <2>2, ImageIsFinite DEF Finite
  <2> QED
    BY <2>3, FS_Union DEF Entries
<1>3. \A m, n \in Entries : m.id = n.id => m = n
  BY <1>1 DEF Entries, JwkEntries, SchnorrEntries, StoredMethods, StoredSchnorrMethods,
     OneMapPerMethodId
<1>4. ASSUME NEW m \in Entries PROVE Domain!ValidJwk(DomainJwk(m.jwk))
  <2>1. CASE m \in JwkEntries
    <3>1. PICK i \in StoredMethods : m.jwk = LedgerJwkToDomain(verificationMethods[i])
      BY <2>1 DEF JwkEntries
    <3>2. /\ verificationMethods[i] \in LedgerMethod
          /\ ValidJwk(m.jwk)
      BY <1>1, <3>1 DEF Readable, LedgerJwkReads
    <3>3. "y" \in DOMAIN m.jwk
      BY <3>1, ReadKeyHasY
    <3>4. DomainJwk(m.jwk) =
             [kty |-> m.jwk.kty, crv |-> m.jwk.crv, x |-> "canonical",
              y |-> IF m.jwk.y = Absent THEN "none" ELSE "canonical", d |-> FALSE]
      BY <3>3 DEF DomainJwk
    <3>5. /\ m.jwk.kty = "OKP" =>
                m.jwk.crv \in {"Ed25519", "X25519", "BLS12381G1", "BLS12381G2"}
          /\ m.jwk.kty = "EC" => m.jwk.crv \in {"Jubjub", "P256", "Secp256k1"}
          /\ m.jwk.kty = "OKP" <=> m.jwk.y = Absent
      BY <3>2, ValidKeyIs
    <3> QED
      BY <3>4, <3>5 DEF Domain!ValidJwk, Domain!XHasLength, Domain!OkpCurve, Domain!EcCurve
  <2>2. CASE m \in SchnorrEntries
    <3>1. PICK i \in StoredSchnorrMethods :
              m.jwk = SchnorrJubjubPkToJwk(schnorrJubjubVerificationMethods[i])
      BY <2>2 DEF SchnorrEntries
    <3>2. m.jwk.kty = "EC" /\ m.jwk.crv = "Jubjub" /\ "y" \notin DOMAIN m.jwk
      BY <3>1 DEF SchnorrJubjubPkToJwk
    <3> QED
      BY <3>2 DEF ValidJwk, DomainJwk, Domain!ValidJwk, Domain!XHasLength, Domain!OkpCurve,
         Domain!EcCurve
  <2> QED
    BY <2>1, <2>2 DEF Entries
<1>5. \A r \in Relation : \A i \in relations[r] : \E m \in Entries : m.id = i
  <2> SUFFICES ASSUME NEW r \in Relation, NEW i \in relations[r]
               PROVE  \E m \in Entries : m.id = i
    OBVIOUS
  <2>1. i \in StoredMethods \cup StoredSchnorrMethods
    BY <1>1 DEF RelationsReferToMethods, VerificationMethodExists, TypeOK, StoredMethods,
       StoredSchnorrMethods
  <2>2. CASE i \in StoredMethods
    <3> DEFINE m == [id |-> i, jwk |-> LedgerJwkToDomain(verificationMethods[i])]
    <3>1. m \in Entries /\ m.id = i
      BY <2>2 DEF Entries, JwkEntries
    <3> HIDE DEF m
    <3> QED
      BY <3>1
  <2>3. CASE i \in StoredSchnorrMethods
    <3> DEFINE m == [id |-> i,
                     jwk |-> SchnorrJubjubPkToJwk(schnorrJubjubVerificationMethods[i])]
    <3>1. m \in Entries /\ m.id = i
      BY <2>3 DEF Entries, SchnorrEntries
    <3> HIDE DEF m
    <3> QED
      BY <3>1
  <2> QED
    BY <2>1, <2>2, <2>3
<1> QED
  BY <1>2, <1>3, <1>4, <1>5

LEMMA ServiceEntriesAreParts ==
  ASSUME ResolutionInv, Finite
  PROVE  /\ IsFiniteSet(ServiceEntries)
         /\ \A s, t \in ServiceEntries : s.id = t.id => s = t
         /\ \A s \in ServiceEntries :
               Domain!NormalizeServiceEndpoint(s.serviceEndpoint) = s.serviceEndpoint
<1>1. IsFiniteSet(ServiceEntries)
  <2> DEFINE f == [i \in StoredServices |-> ParseLedgerService(i, services[i])]
  <2>1. ServiceEntries = {f[i] : i \in StoredServices} /\ DOMAIN f = StoredServices
    BY DEF ServiceEntries
  <2> HIDE DEF f
  <2> QED
    BY <2>1, ImageIsFinite DEF Finite
<1>2. \A s, t \in ServiceEntries : s.id = t.id => s = t
  BY ServiceIdKept DEF ServiceEntries
<1>3. ASSUME NEW s \in ServiceEntries
      PROVE  Domain!NormalizeServiceEndpoint(s.serviceEndpoint) = s.serviceEndpoint
  <2>1. PICK i \in StoredServices : s = ParseLedgerService(i, services[i])
    BY DEF ServiceEntries
  <2>2. services[i].serviceEndpoint \in Seq(Domain!EndpointEntry)
    BY DEF ResolutionInv, Readable
  <2>3. s.serviceEndpoint = Domain!NormalizeServiceEndpoint(services[i].serviceEndpoint)
    BY <2>1 DEF ParseLedgerService, Normal
  <2> QED
    BY <2>2, <2>3, NormalEndpoint
<1> QED
  BY <1>1, <1>2, <1>3

\* The parts of a resolved document as the domain crate has them.
MethodPart(m) ==
    [id |-> AbsoluteId(m.id), controller |-> ContractAddress, jwk |-> DomainJwk(m.jwk)]
ServicePart(s) ==
    [id |-> AbsoluteId(s.id), typed |-> TRUE, serviceEndpoint |-> s.serviceEndpoint]

MethodList == SetToSeq({MethodPart(m) : m \in Entries})
ServiceList == SetToSeq({ServicePart(s) : s \in ServiceEntries})
RelationList(r) == SetToSeq(MapRelation(relations[LedgerRelation[r]]))

LEMMA DomainParts ==
  DomainDocument =
      [id |-> ContractAddress, verificationMethod |-> MethodList,
       relation |-> [r \in Domain!Relationship |-> RelationList(r)],
       service |-> ServiceList]
<1>1. LedgerStateToDidDocument = Parts
  BY DocumentParts
<1> QED
  BY <1>1 DEF DomainDocument, Parts, Entries, MethodPart, ServicePart, MethodList, ServiceList,
     RelationList

\* Methods are listed once, and every one of them.
LEMMA MethodsAreListed ==
  ASSUME ResolutionInv, Finite
  PROVE  /\ \A n \in DOMAIN MethodList : \E m \in Entries : MethodList[n] = MethodPart(m)
         /\ \A m \in Entries : \E n \in DOMAIN MethodList : MethodList[n] = MethodPart(m)
         /\ \A a, b \in DOMAIN MethodList : MethodList[a].id = MethodList[b].id => a = b
<1> DEFINE S == {MethodPart(m) : m \in Entries}
<1>1. IsFiniteSet(S)
  <2> DEFINE f == [m \in Entries |-> MethodPart(m)]
  <2>1. S = {f[m] : m \in Entries}
    OBVIOUS
  <2> HIDE DEF f, S
  <2> QED
    BY <2>1, ImageIsFinite, EntriesAreParts
<1>2. /\ \A n \in DOMAIN MethodList : MethodList[n] \in S
      /\ IsInjective(MethodList)
      /\ \A x \in S : \E n \in DOMAIN MethodList : MethodList[n] = x
  <2> HIDE DEF S
  <2>1. MethodList = SetToSeq(S)
    BY DEF MethodList, S
  <2> QED
    BY <1>1, <2>1, SetToSeqIsList
<1>3. ASSUME NEW a \in DOMAIN MethodList, NEW b \in DOMAIN MethodList,
             MethodList[a].id = MethodList[b].id
      PROVE  a = b
  <2>1. PICK m \in Entries : MethodList[a] = MethodPart(m)
    BY <1>2
  <2>2. PICK n \in Entries : MethodList[b] = MethodPart(n)
    BY <1>2
  <2>3. m.id = n.id
    BY <1>3, <2>1, <2>2 DEF MethodPart, AbsoluteId
  <2>4. m = n
    BY <2>3, EntriesAreParts
  <2> QED
    BY <1>2, <2>1, <2>2, <2>4 DEF IsInjective
<1> QED
  BY <1>2, <1>3

LEMMA ServicesAreListed ==
  ASSUME ResolutionInv, Finite
  PROVE  /\ \A n \in DOMAIN ServiceList :
               \E s \in ServiceEntries : ServiceList[n] = ServicePart(s)
         /\ \A s \in ServiceEntries :
               \E n \in DOMAIN ServiceList : ServiceList[n] = ServicePart(s)
         /\ \A a, b \in DOMAIN ServiceList : ServiceList[a].id = ServiceList[b].id => a = b
<1> DEFINE S == {ServicePart(s) : s \in ServiceEntries}
<1>1. IsFiniteSet(S)
  <2> DEFINE f == [s \in ServiceEntries |-> ServicePart(s)]
  <2>1. S = {f[s] : s \in ServiceEntries}
    OBVIOUS
  <2> HIDE DEF f, S
  <2> QED
    BY <2>1, ImageIsFinite, ServiceEntriesAreParts
<1>2. /\ \A n \in DOMAIN ServiceList : ServiceList[n] \in S
      /\ IsInjective(ServiceList)
      /\ \A x \in S : \E n \in DOMAIN ServiceList : ServiceList[n] = x
  <2> HIDE DEF S
  <2>1. ServiceList = SetToSeq(S)
    BY DEF ServiceList, S
  <2> QED
    BY <1>1, <2>1, SetToSeqIsList
<1>3. ASSUME NEW a \in DOMAIN ServiceList, NEW b \in DOMAIN ServiceList,
             ServiceList[a].id = ServiceList[b].id
      PROVE  a = b
  <2>1. PICK s \in ServiceEntries : ServiceList[a] = ServicePart(s)
    BY <1>2
  <2>2. PICK t \in ServiceEntries : ServiceList[b] = ServicePart(t)
    BY <1>2
  <2>3. s.id = t.id
    BY <1>3, <2>1, <2>2 DEF ServicePart, AbsoluteId
  <2>4. s = t
    BY <2>3, ServiceEntriesAreParts
  <2> QED
    BY <1>2, <2>1, <2>2, <2>4 DEF IsInjective
<1> QED
  BY <1>2, <1>3

\* References are listed once, and name listed methods.
LEMMA ReferencesAreListed ==
  ASSUME ResolutionInv, Finite, NEW r \in Domain!Relationship
  PROVE  LET members == Domain!Canonical(ContractAddress, RelationList(r))
         IN  /\ \A a, b \in DOMAIN members : members[a] = members[b] => a = b
             /\ \A a \in DOMAIN members :
                   \E n \in DOMAIN MethodList : MethodList[n].id = members[a]
<1> DEFINE ids == relations[LedgerRelation[r]]
           f == [i \in ids |-> [form |-> "fragment", did |-> Absent, name |-> i]]
           q == RelationList(r)
           members == Domain!Canonical(ContractAddress, q)
<1>1. LedgerRelation[r] \in Relation
  BY DEF LedgerRelation, Domain!Relationship, Relation, SigningRelation
<1>2. IsFiniteSet(ids)
  <2>1. ids \subseteq StoredMethods \cup StoredSchnorrMethods
    BY <1>1 DEF ResolutionInv, ApiInv, LedgerInv, DocumentInv, RelationsReferToMethods,
       VerificationMethodExists, TypeOK, StoredMethods, StoredSchnorrMethods
  <2>2. IsFiniteSet(StoredMethods \cup StoredSchnorrMethods)
    BY FS_Union DEF Finite
  <2> QED
    BY <2>1, <2>2, FS_Subset
<1>3. MapRelation(ids) = {f[i] : i \in ids} /\ DOMAIN f = ids
  BY DEF MapRelation
<1>4. \A i \in ids : /\ f[i].form = "fragment"
                     /\ f[i].name = i
  OBVIOUS
<1> HIDE DEF ids, f
<1>5. IsFiniteSet(MapRelation(ids))
  BY <1>2, <1>3, ImageIsFinite
<1>6. /\ \A n \in DOMAIN q : q[n] \in MapRelation(ids)
      /\ IsInjective(q)
  BY <1>5, SetToSeqIsList DEF RelationList, ids
<1> HIDE DEF q
<1>7. /\ DOMAIN members = DOMAIN q
      /\ \A n \in DOMAIN q : \E i \in ids : q[n] = f[i] /\ members[n] = AbsoluteId(i)
  BY <1>3, <1>4, <1>6 DEF Domain!Canonical, Domain!Canonicalize, Domain!IsDidUrl, AbsoluteId
<1>8. ASSUME NEW a \in DOMAIN q, NEW b \in DOMAIN q, members[a] = members[b] PROVE a = b
  <2>1. PICK i \in ids : q[a] = f[i] /\ members[a] = AbsoluteId(i)
    BY <1>7
  <2>2. PICK j \in ids : q[b] = f[j] /\ members[b] = AbsoluteId(j)
    BY <1>7
  <2>3. AbsoluteId(i) = AbsoluteId(j)
    BY <1>8, <2>1, <2>2
  <2>4. AbsoluteId(i).name = i /\ AbsoluteId(j).name = j
    BY DEF AbsoluteId
  <2>5. i = j
    <3> HIDE DEF members
    <3> QED
      BY <2>3, <2>4
  <2> QED
    BY <1>6, <2>1, <2>2, <2>5 DEF IsInjective
<1>9. ASSUME NEW a \in DOMAIN q
      PROVE  \E n \in DOMAIN MethodList : MethodList[n].id = members[a]
  <2>1. PICK i \in ids : members[a] = AbsoluteId(i)
    BY <1>7
  <2>2. PICK m \in Entries : m.id = i
    BY <1>1, EntriesAreParts DEF ids
  <2>3. PICK n \in DOMAIN MethodList : MethodList[n] = MethodPart(m)
    BY MethodsAreListed
  <2>4. MethodList[n].id = AbsoluteId(i)
    BY <2>2, <2>3 DEF MethodPart
  <2> QED
    BY <2>1, <2>3, <2>4
<1> QED
  BY <1>7, <1>8, <1>9 DEF q

LEMMA ParsesExactly ==
  ASSUME ResolutionInv, Finite
  PROVE  ResolvedCanBeParsed
<1> DEFINE d == DomainDocument
           methods == Domain!Canonical(d.id, Domain!MethodIds(d))
<1>1. /\ d.id = ContractAddress
      /\ d.verificationMethod = MethodList
      /\ d.service = ServiceList
      /\ \A r \in Domain!Relationship : d.relation[r] = RelationList(r)
  BY DomainParts
<1> HIDE DEF d
<1>2. Domain!Deserializes(d)
  <2> SUFFICES ASSUME NEW n \in DOMAIN MethodList
               PROVE  Domain!ValidJwk(MethodList[n].jwk)
    BY <1>1 DEF Domain!Deserializes
  <2>1. PICK m \in Entries : MethodList[n] = MethodPart(m)
    BY MethodsAreListed
  <2>2. MethodList[n].jwk = DomainJwk(m.jwk)
    BY <2>1 DEF MethodPart
  <2> QED
    BY <2>2, EntriesAreParts
<1>3. /\ DOMAIN methods = DOMAIN MethodList
      /\ \A n \in DOMAIN MethodList : methods[n] = MethodList[n].id
  <2>1. \A n \in DOMAIN MethodList : Domain!IsDidUrl(MethodList[n].id)
    BY MethodsAreListed DEF MethodPart, AbsoluteId, Domain!IsDidUrl
  <2> QED
    BY <1>1, <2>1 DEF Domain!Canonical, Domain!MethodIds, Domain!Canonicalize
<1>4. Domain!IsInjective(methods)
  BY <1>3, MethodsAreListed DEF Domain!IsInjective
<1>5. ASSUME NEW r \in Domain!Relationship
      PROVE  LET members == Domain!Canonical(d.id, d.relation[r])
             IN  /\ Domain!IsInjective(members)
                 /\ Domain!Range(members) \subseteq Domain!Range(methods)
  <2> DEFINE members == Domain!Canonical(ContractAddress, RelationList(r))
  <2>1. /\ \A a, b \in DOMAIN members : members[a] = members[b] => a = b
        /\ \A a \in DOMAIN members :
              \E n \in DOMAIN MethodList : MethodList[n].id = members[a]
    BY ReferencesAreListed
  <2>2. Domain!Canonical(d.id, d.relation[r]) = members
    BY <1>1
  <2> HIDE DEF members, methods
  <2> QED
    BY <1>3, <2>1, <2>2 DEF Domain!IsInjective, Domain!Range
<1>6. Domain!IsInjective(Domain!ServiceIds(d))
  BY <1>1, ServicesAreListed DEF Domain!IsInjective, Domain!ServiceIds
<1>7. (\A n \in DOMAIN ServiceList :
          Domain!IsInjective(Domain!NormalizeServiceEndpoint(ServiceList[n].serviceEndpoint)))
      <=> \A s \in ServiceEntries : IsInjective(s.serviceEndpoint)
  <2>1. \A s \in ServiceEntries :
          /\ ServicePart(s).serviceEndpoint = s.serviceEndpoint
          /\ Domain!NormalizeServiceEndpoint(s.serviceEndpoint) = s.serviceEndpoint
    BY ServiceEntriesAreParts DEF ServicePart
  <2>2. \A s \in ServiceEntries :
          Domain!IsInjective(s.serviceEndpoint) <=> IsInjective(s.serviceEndpoint)
    BY DEF Domain!IsInjective, IsInjective
  <2> QED
    BY <2>1, <2>2, ServicesAreListed
<1>8. written.document.service = ServiceEntries
  BY DocumentParts DEF ResolutionInv, Written, Parts
<1>9. Domain!Validate(d) <=> \A s \in ServiceEntries : IsInjective(s.serviceEndpoint)
  <2> HIDE DEF methods
  <2> QED
    BY <1>1, <1>4, <1>5, <1>6, <1>7 DEF Domain!Validate, methods
<1> QED
  BY <1>2, <1>8, <1>9 DEF ResolvedCanBeParsed, Domain!Parses, d

\* What resolves can be read as a document by everybody else, unless a service
\* was given one endpoint twice.
THEOREM ResolvedDocumentsParse ==
  ASSUME \A call \in DomainCall : Maps(call) => ReadsBack(call)
  PROVE  ResolutionSpec => []ResolvedCanBeParsed
<1>1. ResolutionInv /\ Finite /\ [ResolutionNext]_resolutionVars
        => ResolutionInv' /\ Finite'
  BY NextResolutionInv, NextFinite DEF ResolutionInv
<1>2. ResolutionInv /\ Finite => ResolvedCanBeParsed
  BY ParsesExactly
<1> QED
  BY InitResolutionInv, InitFinite, <1>1, <1>2, PTL DEF ResolutionSpec

=============================================================================

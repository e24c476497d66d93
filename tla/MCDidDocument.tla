--------------------------- MODULE MCDidDocument ---------------------------
(***************************************************************************)
(* Values of DidDocument for TLC: one method in its three spellings and a  *)
(* second one, URIs of which some differ as text only, keys of every kind, *)
(* and texts that combine them, faulty ones among them.                    *)
(***************************************************************************)
EXTENDS DidDocument

CONSTANTS d1, d2, n1, n2

Id(form, name) == [form |-> form, did |-> NotDid, name |-> name]
Abs(did, name) == [form |-> "absolute", did |-> did, name |-> name]

Ed   == [kty |-> "OKP", crv |-> "Ed25519", x |-> "canonical", y |-> "none", d |-> FALSE]
P256 == [kty |-> "EC", crv |-> "P256", x |-> "canonical", y |-> "canonical", d |-> FALSE]
Rsa  == [kty |-> "RSA", crv |-> "BLS12381G1", x |-> "other", y |-> "other", d |-> FALSE]

MCMethod(id, controller, jwk) == [id |-> id, controller |-> controller, jwk |-> jwk]

Plain   == [scheme |-> "https", parses |-> TRUE, capitals |-> FALSE, port |-> "none",
            path |-> "", tail |-> ""]
Shout   == [Plain EXCEPT !.capitals = TRUE, !.port = "default"]
Slash   == [Plain EXCEPT !.path = "/"]
Query   == [Plain EXCEPT !.path = "/", !.tail = "?q"]
Broken  == [Shout EXCEPT !.parses = FALSE]
Urn     == [Shout EXCEPT !.scheme = "urn"]

Entry(uri) == [kind |-> "uri", uri |-> uri]
Object(uri) == [kind |-> "object", uri |-> uri]

MCService(id, endpoint) == [id |-> id, typed |-> TRUE, serviceEndpoint |-> endpoint]

MCNewMethods ==
    {MCMethod(i, d1, Ed) : i \in {Id("fragment", n1), Abs(d1, n1), Abs(d2, n1), Id("bare", n2)}}
    \cup {MCMethod(Id("fragment", n2), d2, k) : k \in {P256, Rsa}}
    \cup {MCMethod(Id("bare", EmptyName), d1, Ed), MCMethod(Id("fragment", n1), NotDid, Ed),
          MCMethod(Id("fragment", n1), d1, [Ed EXCEPT !.y = "canonical"])}

MCNewServices ==
    {MCService(Id("fragment", EmptyName), <<Entry(Plain), Entry(Shout)>>),
     MCService(Id("fragment", n1), <<Entry(Slash), Entry(Query), Object(Plain)>>),
     MCService(Abs(d1, n1), <<Entry(Broken), Entry(Urn)>>),
     MCService(Id("bare", EmptyName), <<Entry(Plain)>>),
     [MCService(Id("bare", n1), <<>>) EXCEPT !.typed = FALSE]}

MCRelationLists ==
    {<<Id("fragment", n1)>>, <<Abs(d1, n1)>>, <<Id("bare", n1), Abs(d1, n1)>>,
     <<Abs(d2, n1), Id("fragment", n1)>>, <<Id("fragment", EmptyName)>>}

MCText(id, methods, authentication, services) ==
    [id |-> id, verificationMethod |-> methods,
     relation |-> [r \in Relationship |-> IF r = "authentication" THEN authentication ELSE <<>>],
     service |-> services]

MCEndpoints ==
    {<<Entry(u), Entry(v)>> : u \in {Plain, Shout}, v \in {Slash, Query, Broken, Shout}}

\* Two methods and a reference in every spelling; every key; every endpoint;
\* parts that are no DIDs, no key ids or no services.
MCTexts ==
    {MCText(id, <<MCMethod(i, d1, Ed), MCMethod(j, d1, Ed)>>, <<k>>, <<>>) :
         id \in {d1, NotDid},
         i \in {Id("bare", n1), Abs(d1, n1)},
         j \in {Id("fragment", n1), Abs(d2, n1), Id("fragment", n2)},
         k \in {Id("fragment", n1), Abs(d1, n1), Id("bare", n2)}}
    \cup {MCText(d1, <<MCMethod(Id("fragment", n1), d1, k)>>, <<>>, <<>>) :
             k \in {Ed, P256, Rsa, [Ed EXCEPT !.d = TRUE], [Ed EXCEPT !.crv = "P256"],
                    [P256 EXCEPT !.x = "other"]}}
    \cup {MCText(d1, <<>>, <<>>, <<MCService(Id("fragment", n1), e)>>) : e \in MCEndpoints}
    \cup {MCText(d1, <<MCMethod(Id("bare", EmptyName), NotDid, Ed)>>,
                 <<Id("bare", EmptyName)>>,
                 <<[MCService(Id("bare", EmptyName), <<>>) EXCEPT !.typed = FALSE]>>)}

=============================================================================

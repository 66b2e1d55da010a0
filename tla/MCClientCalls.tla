--------------------------- MODULE MCClientCalls ---------------------------
(* Two programs: a runs each method, b gets in its way. *)
EXTENDS ClientCalls

CONSTANTS a, b

Plan(p, q, n, there, sends, again, refuses) ==
  [runs |-> (a :> p) @@ (b :> q), entries |-> n, exists |-> there,
   stream |-> sends, repeats |-> again, refuses |-> refuses, declares |-> FALSE]

Writers == {CreateMetadataResource, UpdateMetadataResource, DeleteMetadataResource}

\* Every method, answered, refused for every reason, lost, repeated and cancelled.
Alone ==
  {Plan(<<m>>, <<>>, 0, FALSE, "unread", again, "none") :
     m \in SdkMethods \cup AdminMethods, again \in BOOLEAN}
    \cup {Plan(<<m>>, <<>>, 0, FALSE, "bytes", FALSE, r) :
            m \in SdkMethods \cup AdminMethods, r \in FailureKinds}

\* A refusal in the server's own words, to methods that read each kind of answer.
Declaring ==
  {[Plan(<<m>>, <<>>, 0, FALSE, "bytes", FALSE, r) EXCEPT !.declares = TRUE] :
     m \in {m \in SdkMethods : m.does = "probe" \/ m.body \in {"grpc", "locator"}}
            \cup {AddAttachment, UpdateMetadataResource},
     r \in FailureKinds}

OnOneResource ==
  {Plan(<<GetMetadataResource, m>>, <<n>>, 0, there, "bytes", again, "none") :
     m \in {UpdateMetadataResource, DeleteMetadataResource}, n \in Writers,
     there \in BOOLEAN, again \in BOOLEAN}

Listing ==
  {Plan(<<m>>, <<PublishLayer>>, n, FALSE, "bytes", FALSE, "none") :
     m \in {ListServices, ListLayers}, n \in 0..3}
    \cup {Plan(<<ListLayers>>, <<PublishLayer, PublishLayer>>, 2, FALSE, "bytes", FALSE, "none")}

Files ==
  {Plan(<<m, m>>, <<>>, 0, FALSE, s, TRUE, "none") :
     m \in {UploadFile, AddAttachment}, s \in {"unread", "bytes"}}

MCPlans ==
  UNION {Alone, Declaring, OnOneResource, Listing, Files,
         {Plan(<<ListLayers>>, <<>>, 3, FALSE, "bytes", FALSE, "unavailable"),
          Plan(<<PublishLayer>>, <<PublishLayer>>, 0, FALSE, "bytes", TRUE, "none"),
          Plan(<<RejectProposal>>, <<ApproveProposal>>, 0, FALSE, "bytes", FALSE, "none")}}
============================================================================

--------------------------- MODULE ClientOptions ---------------------------
(***************************************************************************)
(* The client classes and their clones: who owns the httpx client, or the   *)
(* gRPC channel, and the transport.                                         *)
(*                                                                         *)
(* with_options and copy return either a shallow copy that shares the       *)
(* original's httpx client, or an independent clone with a client of its    *)
(* own.  A caller may have supplied the transport, which the original then  *)
(* closes and a clone reaches through NonClosingTransport, or the whole     *)
(* httpx client, which nobody in the SDK closes.  The geocoding and gRPC    *)
(* clients have no clones.                                                  *)
(***************************************************************************)
EXTENDS Naturals, FiniteSets

CONSTANTS
  Clients,    \* Honua client objects the program may create
  Root,       \* the one it constructs itself
  Injected,   \* the httpx client of the caller
  None,
  Timeouts

ASSUME ClientsAssumption ==
  /\ Root \in Clients
  /\ Injected \notin Clients
  /\ None \notin Clients
  /\ Timeouts \subseteq Nat

VARIABLES
  class,      \* the class of the original
  made,       \* Honua clients that exist
  parent,     \* history: the client a clone was made from
  http,       \* _client: the httpx client in use, named for the client that built it
  owns,       \* _owns_client
  transport,  \* _init_transport: none, the caller's, or the caller's behind a wrapper
  timeout,    \* _init_timeout
  closed,     \* httpx clients that have been closed
  callerDown  \* the transport the caller supplied has been closed

cloneVars == <<class, made, parent, http, owns, transport, timeout, closed, callerDown>>

-----------------------------------------------------------------------------
(* The classes.  Each builds its httpx client, or takes the caller's.  Those    *)
(* without a transport argument build a channel.                                *)

Class(name, clones, wraps) == [name |-> name, clones |-> clones, wraps |-> wraps]

HonuaClient == Class("HonuaClient", TRUE, TRUE)
AsyncHonuaClient == Class("AsyncHonuaClient", TRUE, TRUE)
HonuaAdminClient == Class("HonuaAdminClient", TRUE, TRUE)
AsyncHonuaAdminClient == Class("AsyncHonuaAdminClient", TRUE, TRUE)
HonuaGeocodingClient == Class("HonuaGeocodingClient", FALSE, TRUE)
AsyncHonuaGeocodingClient == Class("AsyncHonuaGeocodingClient", FALSE, TRUE)
HonuaGrpcClient == Class("HonuaGrpcClient", FALSE, FALSE)
HonuaGrpcAsyncClient == Class("HonuaGrpcAsyncClient", FALSE, FALSE)

Classes ==
  {HonuaClient, AsyncHonuaClient, HonuaAdminClient, AsyncHonuaAdminClient, HonuaGeocodingClient,
   AsyncHonuaGeocodingClient, HonuaGrpcClient, HonuaGrpcAsyncClient}

Transports == {"none", "caller", "wrapped"}

CloneTypeOK ==
  /\ class \in Classes
  /\ made \subseteq Clients
  /\ parent \in [Clients -> Clients \cup {None}]
  /\ http \in [Clients -> Clients \cup {Injected, None}]
  /\ owns \in [Clients -> BOOLEAN]
  /\ transport \in [Clients -> Transports]
  /\ timeout \in [Clients -> Timeouts]
  /\ closed \subseteq Clients \cup {Injected}
  /\ callerDown \in BOOLEAN

\* The constructor: `client` excludes `transport`.
CloneInitOf(c, tr, d) ==
  /\ c = Injected \/ ~class.wraps => tr = "none"
  /\ made = {Root}
  /\ parent = [k \in Clients |-> None]
  /\ http = [k \in Clients |-> IF k = Root THEN c ELSE None]
  /\ owns = [k \in Clients |-> k = Root /\ c = Root]
  /\ transport = [k \in Clients |-> IF k = Root THEN tr ELSE "none"]
  /\ timeout = [k \in Clients |-> d]
  /\ closed = {}
  /\ callerDown = FALSE

CloneInit ==
  /\ class \in Classes
  /\ \E c \in {Root, Injected}, tr \in {"none", "caller"}, d \in Timeouts : CloneInitOf(c, tr, d)

\* with_options and copy, which return an object of the same class.
HasWithOptions == class.clones

Add(k, p) ==
  /\ HasWithOptions
  /\ made' = made \cup {k}
  /\ parent' = [parent EXCEPT ![k] = p]
  /\ UNCHANGED <<class, closed, callerDown>>

\* Mutant: the clone takes the caller's transport itself.
IndependentCloneOfRaw(p, k, d) ==
  /\ p \in made /\ k \notin made
  /\ Add(k, p)
  /\ http' = [http EXCEPT ![k] = k]
  /\ owns' = [owns EXCEPT ![k] = TRUE]
  /\ transport' = [transport EXCEPT ![k] = transport[p]]
  /\ timeout' = [timeout EXCEPT ![k] = d]

\* A new base URL (d is then the original's timeout) or a smaller timeout.
IndependentClone(p, k, d) ==
  /\ p \in made /\ k \notin made
  /\ d <= timeout[p]
  /\ Add(k, p)
  /\ http' = [http EXCEPT ![k] = k]
  /\ owns' = [owns EXCEPT ![k] = TRUE]
  /\ transport' = [transport EXCEPT ![k] = IF transport[p] = "none" THEN "none" ELSE "wrapped"]
  /\ timeout' = [timeout EXCEPT ![k] = d]

\* copy.copy(self), which then does not own what it shares.
SharingClone(p, k) ==
  /\ p \in made /\ k \notin made
  /\ Add(k, p)
  /\ http' = [http EXCEPT ![k] = http[p]]
  /\ owns' = [owns EXCEPT ![k] = FALSE]
  /\ transport' = [transport EXCEPT ![k] = transport[p]]
  /\ timeout' = [timeout EXCEPT ![k] = timeout[p]]

\* Mutant: the wrapped transport is never closed.
CloseClientOnly(c) ==
  /\ c \in made
  /\ closed' = IF owns[c] THEN closed \cup {http[c]} ELSE closed
  /\ UNCHANGED <<class, made, parent, http, owns, transport, timeout, callerDown>>

\* close: the httpx client closes its retry transport, and that the wrapped one.
Close(c) ==
  /\ c \in made
  /\ closed' = IF owns[c] THEN closed \cup {http[c]} ELSE closed
  /\ callerDown' = (callerDown \/ (owns[c] /\ transport[c] = "caller"))
  /\ UNCHANGED <<class, made, parent, http, owns, transport, timeout>>

CloneNext ==
  \/ \E p, k \in Clients : SharingClone(p, k) \/ \E d \in Timeouts : IndependentClone(p, k, d)
  \/ \E c \in Clients : Close(c)

CloneSpec == CloneInit /\ [][CloneNext]_cloneVars

-----------------------------------------------------------------------------
(* Properties *)

\* A request through c finds its httpx client and its transport open.
Usable(c) == http[c] \notin closed /\ (transport[c] # "none" => ~callerDown)

\* The httpx clients the SDK built and is answerable for.
Built == {http[c] : c \in made} \ {Injected}

\* Closing a clone takes nothing away from the client it was made from: the
\* wrapper stops an independent clone at the shared transport, and a sharing
\* clone closes nothing.  (NonClosingTransport, _owns_client)
CloneCloseIsHarmless ==
  [][\A c \in made : (Close(c) /\ parent[c] # None /\ Usable(parent[c])) => Usable(parent[c])']_cloneVars

\* Once every client that owns something has been closed, nothing the SDK built
\* or took over is left open, and the httpx client of the caller is never closed:
\* every client has exactly one owner, however the clones were derived.
NothingLeaks ==
  /\ Injected \notin closed
  /\ (\A c \in made : owns[c] => http[c] \in closed) =>
       Built \subseteq closed /\ (transport[Root] = "caller" => callerDown)
=============================================================================

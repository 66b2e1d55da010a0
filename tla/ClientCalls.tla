---------------------------- MODULE ClientCalls ----------------------------
(***************************************************************************)
(* The methods of the SDK and admin clients, synchronous and asynchronous,  *)
(* over one server.                                                         *)
(*                                                                         *)
(* A call is one request, except a list method of the admin clients, which  *)
(* walks the pages of a catalogue, and capabilities, which asks twice more  *)
(* of a server that does not know it.  A request may be answered, may break *)
(* before or after the server carried it out, or may reach the server when  *)
(* its client has given it up; the transport repeats a broken one.          *)
(***************************************************************************)
EXTENDS AdminMethods, ErrorMapping, FiniteSets, SequencesExt

CONSTANTS
  Callers,        \* programs that share the server
  Plans,          \* the programs to run: the methods each caller calls in turn, how many
                  \* entries and whether the resource are there first, the kind of
                  \* file, whether the caller's own client repeats POST, what the server
                  \* refuses every call for, if it does, and whether it says so in its
                  \* own words
  MaxRetries,     \* max_retries of the retrying transport
  PageSize,       \* DEFAULT_CATALOG_PAGE_SIZE
  Entries,        \* entries of a catalogue: services, or layers of a connection
  NoTag           \* no ETag

ASSUME ClientAssumption ==
  /\ MaxRetries \in Nat /\ PageSize \in Nat \ {0}
  /\ NoTag \notin Nat
  /\ IsFiniteSet(Entries)
  /\ \A p \in Plans : p.refuses \in FailureKinds \cup {"none"} /\ p.entries \in 0..Cardinality(Entries)
                      /\ p.declares \in BOOLEAN

VARIABLES
  plan,      \* the programs of this run
  pc,        \* where a call is: idle, sent, done
  op,        \* the method it runs
  calls,     \* calls begun
  tries,     \* attempts after the first
  keyed,     \* the request carries an Idempotency-Key
  etag,      \* what get_metadata_resource last returned to this caller
  wants,     \* the if_match argument
  tag,       \* the If-Match header
  answer,    \* what the call came to
  error,     \* the exception raised for an answer
  signal,    \* history: the refusal the exception was raised for
  why,       \* history: the server's verdict on the last request it answered
  page,      \* page_number of a list method, or the step of capabilities
  listed,    \* what a list method has collected
  stream,    \* the file to send: bytes, or a stream that is read once
  body,      \* the file part of the request
  steady,    \* history: entries since the walk began, none if one was removed
  carried,   \* history: how often the server carried the call out
  basis,     \* history: the version the last change wanted, and the one it met
  late,      \* requests on their way whose client has given up
  exists,    \* the metadata resource exists
  version,   \* the number its ETag stands for
  catalog,   \* the entries in the order the server lists them
  spent,     \* calls whose Idempotency-Key the server has seen
  repeats    \* the caller's own httpx client repeats POST

request == <<op, calls, keyed, wants, tag>>
outcome == <<answer, error, signal, why, etag>>
walk == <<page, listed>>
file == <<stream, body>>
client == <<pc, tries, request, outcome, walk, file>>
server == <<late, exists, version, catalog, spent, carried, basis>>
setting == <<plan, repeats>>
vars == <<client, server, steady, setting>>

NoMethod == Read("nothing")
NoError == [class |-> "none", status |-> 0, kind |-> "none", retryable |-> FALSE]

\* The entries are alike, so one order of them is enough.
Init ==
  /\ plan \in Plans
  /\ pc = [c \in Callers |-> "idle"] /\ op = [c \in Callers |-> NoMethod]
  /\ calls = [c \in Callers |-> 0] /\ tries = [c \in Callers |-> 0]
  /\ keyed = [c \in Callers |-> FALSE]
  /\ etag = [c \in Callers |-> NoTag] /\ wants = etag /\ tag = etag
  /\ answer = [c \in Callers |-> "none"]
  /\ error = [c \in Callers |-> NoError] /\ signal = [c \in Callers |-> NoSignal]
  /\ why = [c \in Callers |-> "none"]
  /\ page = [c \in Callers |-> 1] /\ listed = [c \in Callers |-> <<>>]
  /\ stream = [c \in Callers |-> plan.stream]
  /\ body = [c \in Callers |-> "none"]
  /\ steady = [c \in Callers |-> {}] /\ carried = [c \in Callers |-> 0]
  /\ basis = [wanted |-> NoTag, found |-> NoTag]
  /\ late = {} /\ spent = {}
  /\ exists = plan.exists /\ version = 0
  /\ catalog = SubSeq(SetToSeq(Entries), 1, plan.entries)
  /\ repeats = plan.repeats

-----------------------------------------------------------------------------
(* The client's side of a request. *)

\* The methods a client believes its transport repeats: those of the transport it
\* builds itself, whatever the caller's own transport does.
KnownRetryMethods == {"GET", "HEAD", "OPTIONS", "PUT", "DELETE"}

HasKey(m, given) ==
  \/ m.key # "none" /\ given
  \/ m.key = "generated" /\ "POST" \in KnownRetryMethods

\* Mutant: the argument is accepted and no header is sent.
IfMatchDropped(m, t) == NoTag

IfMatch(m, t) == IF m.match THEN t ELSE NoTag

SendsFile(m) == m.does \in {"upload", "attach"}

\* The file is read into memory before the first attempt.  upload_file refuses a
\* stream that has nothing left; the attachment methods send what is left of it.
FilePart(m, s) ==
  IF ~SendsFile(m) THEN "none" ELSE IF s = "exhausted" THEN "spent" ELSE "whole"

\* Mutant: the stream itself is the file part, and the first attempt empties it.
ReplayOfStream(m, part, s) == IF part = "whole" /\ s # "bytes" THEN "empty" ELSE part

\* Each attempt sends the same bytes.
Replay(m, part, s) == part

\* The gRPC channel has no retrying transport.
Repeated(m) == m.verb # "RPC" /\ (m.verb \in KnownRetryMethods \/ repeats)

Message(c) ==
  [who |-> c, call |-> calls[c], op |-> op[c], key |-> keyed[c],
   wants |-> wants[c], tag |-> tag[c]]

Planned(c) == plan.runs[c][calls[c] + 1]
MayBegin(c) == pc[c] # "sent" /\ calls[c] < Len(plan.runs[c])

Begin(c) ==
  LET m == Planned(c)
  IN /\ MayBegin(c)
     /\ m.does = "upload" => stream[c] # "exhausted"
     /\ \E given \in BOOLEAN, t \in {NoTag, etag[c]} :
          /\ given => m.key # "none"
          /\ t # NoTag => m.match
          /\ keyed' = [keyed EXCEPT ![c] = HasKey(m, given)]
          /\ wants' = [wants EXCEPT ![c] = t]
          /\ tag' = [tag EXCEPT ![c] = IfMatch(m, t)]
     /\ pc' = [pc EXCEPT ![c] = "sent"]
     /\ op' = [op EXCEPT ![c] = m]
     /\ calls' = [calls EXCEPT ![c] = @ + 1]
     /\ tries' = [tries EXCEPT ![c] = 0]
     /\ answer' = [answer EXCEPT ![c] = "none"]
     /\ error' = [error EXCEPT ![c] = NoError]
     /\ signal' = [signal EXCEPT ![c] = NoSignal]
     /\ page' = [page EXCEPT ![c] = 1]
     /\ listed' = [listed EXCEPT ![c] = <<>>]
     /\ stream' = [stream EXCEPT ![c] = IF SendsFile(m) /\ @ = "unread" THEN "exhausted" ELSE @]
     /\ body' = [body EXCEPT ![c] = FilePart(m, stream[c])]
     /\ steady' = [steady EXCEPT ![c] = IF m.does = "walk" THEN ToSet(catalog) ELSE {}]
     /\ carried' = [carried EXCEPT ![c] = 0]
     /\ UNCHANGED <<etag, why, late, exists, version, catalog, spent, basis, setting>>

\* upload_file refuses a stream that was read before, without a request.
RefuseUpload(c) ==
  LET m == Planned(c)
  IN /\ MayBegin(c) /\ m.does = "upload" /\ stream[c] = "exhausted"
     /\ calls' = [calls EXCEPT ![c] = @ + 1]
     /\ op' = [op EXCEPT ![c] = m] /\ pc' = [pc EXCEPT ![c] = "done"]
     /\ answer' = [answer EXCEPT ![c] = "usage"]
     /\ carried' = [carried EXCEPT ![c] = 0]
     /\ steady' = [steady EXCEPT ![c] = {}]
     /\ UNCHANGED <<tries, keyed, wants, tag, error, signal, why, etag, walk, file,
                    late, exists, version, catalog, spent, basis, setting>>

-----------------------------------------------------------------------------
(* The server. *)

Mutates(m) == m.does \notin {"read", "walk", "probe"}
Publishes(m) == m.on = "catalog" /\ m.does = "create"

Missing(x) == x.op.on = "resource" /\ x.op.does # "create" /\ ~exists

Conflicts(x) ==
  \/ x.op.on = "resource" /\ x.op.does = "create" /\ exists
  \/ x.op.on = "resource" /\ x.tag \notin {NoTag, version}
  \/ Publishes(x.op) /\ ToSet(catalog) = Entries

Replayed(x) == x.key /\ <<x.who, x.call>> \in spent

\* An older deployment knows readiness and the catalog, but not capabilities.
Refused(x) ==
  plan.refuses # "none" /\ ~(plan.refuses = "not-found" /\ x.op.does = "probe" /\ page[x.who] > 1)

Verdict(x) ==
  IF Replayed(x) THEN "ok"
  ELSE IF Refused(x) THEN plan.refuses
  ELSE IF Missing(x) THEN "not-found"
  ELSE IF Conflicts(x) THEN "conflict" ELSE "ok"

\* The server carries a request out, or refuses it, or recognises its key.  A new
\* layer takes any place in the order.
CarryOut(x) ==
  LET acts == Verdict(x) = "ok" /\ ~Replayed(x) /\ Mutates(x.op)
      changes == acts /\ x.op.on = "resource"
  IN /\ exists' = IF changes THEN x.op.does # "remove" ELSE exists
     /\ version' = IF changes THEN version + 1 ELSE version
     /\ basis' = IF changes THEN [wanted |-> x.wants, found |-> version] ELSE basis
     /\ IF acts /\ Publishes(x.op)
          THEN \E e \in Entries \ ToSet(catalog), i \in 1..Len(catalog) + 1 :
                 catalog' = InsertAt(catalog, i, e)
          ELSE catalog' = catalog
     /\ spent' = IF acts /\ x.key THEN spent \cup {<<x.who, x.call>>} ELSE spent
     /\ carried' = IF acts /\ x.call = calls[x.who]
                     THEN [carried EXCEPT ![x.who] = @ + 1] ELSE carried

LateArrival(x) ==
  /\ x \in late
  /\ late' = late \ {x}
  /\ CarryOut(x)
  /\ UNCHANGED <<client, steady, setting>>

\* Another program removes an entry.
RemoveEntry(e) ==
  /\ \E i \in 1..Len(catalog) : catalog[i] = e /\ catalog' = RemoveAt(catalog, i)
  /\ steady' = [c \in Callers |-> {}]
  /\ UNCHANGED <<client, late, exists, version, spent, carried, basis, setting>>

-----------------------------------------------------------------------------
(* Answers. *)

\* What the code that reads the answer takes for a failure.  bytes, text and the
\* admin envelope are handed over as they came.
Noticed(s, m) ==
  \/ s.as = "grpc"
  \/ s.as = "status" /\ (m.body = "locator" => s.code >= 400)
  \/ s.as = "envelope" /\ m.body \in {"json", "locator"}

SetsEtag(m) == m.on = "resource" /\ m.does = "read"

Answered(c) ==
  LET reason == Verdict(Message(c))
  IN /\ pc[c] = "sent" /\ op[c].does \notin {"walk", "probe"} /\ reason = "ok"
     /\ CarryOut(Message(c)) /\ UNCHANGED late
     /\ pc' = [pc EXCEPT ![c] = "done"]
     /\ answer' = [answer EXCEPT ![c] = "ok"]
     /\ why' = [why EXCEPT ![c] = reason]
     /\ etag' = IF SetsEtag(op[c]) THEN [etag EXCEPT ![c] = version] ELSE etag
     /\ UNCHANGED <<tries, request, error, signal, walk, file, steady, setting>>

\* A failure is raised if it is noticed, or returned as if it were the result.
\* capabilities goes on from a 404 to its fallback.
RefusedAnswer(c) ==
  LET reason == Verdict(Message(c))
  IN /\ pc[c] = "sent" /\ reason # "ok"
     /\ \E s \in Signals(reason, op[c].body, plan.declares) :
          /\ op[c].does = "probe" => page[c] > 1 \/ Raised(s).status # 404
          /\ answer' = [answer EXCEPT ![c] = IF Noticed(s, op[c]) THEN "raised" ELSE "ok"]
          /\ error' = [error EXCEPT ![c] = IF Noticed(s, op[c]) THEN Raised(s) ELSE NoError]
          /\ signal' = [signal EXCEPT ![c] = IF Noticed(s, op[c]) THEN s ELSE NoSignal]
     /\ pc' = [pc EXCEPT ![c] = "done"]
     /\ why' = [why EXCEPT ![c] = reason]
     /\ UNCHANGED <<tries, request, etag, walk, file, server, steady, setting>>

\* capabilities: the answer, or after a 404 that of readiness and then of the catalog.
FallBack(c) ==
  LET reason == Verdict(Message(c))
      last == IF page[c] = 1 THEN reason = "ok" ELSE page[c] = 3
  IN /\ pc[c] = "sent" /\ op[c].does = "probe"
     /\ \/ reason = "ok"
        \/ /\ page[c] = 1 /\ reason # "ok"
           /\ \E s \in Signals(reason, op[c].body, plan.declares) : Raised(s).status = 404
     /\ page' = [page EXCEPT ![c] = IF last THEN @ ELSE @ + 1]
     /\ tries' = [tries EXCEPT ![c] = 0]
     /\ pc' = [pc EXCEPT ![c] = IF last THEN "done" ELSE "sent"]
     /\ answer' = [answer EXCEPT ![c] = IF last THEN "ok" ELSE "none"]
     /\ why' = [why EXCEPT ![c] = reason]
     /\ UNCHANGED <<request, error, signal, etag, listed, file, server, steady, setting>>

CatalogPage(n) == SubSeq(catalog, (n - 1) * PageSize + 1, Min({n * PageSize, Len(catalog)}))

\* Mutant: the pages read are compared with the total, not the entries.
IsLastCatalogPageByCount(items, n, collected) == items = <<>> \/ 2 * n >= Len(catalog) - 1

\* A short page, an empty page, or a full total ends the walk.
IsLastCatalogPage(items, n, collected) ==
  items = <<>> \/ collected >= Len(catalog) \/ Len(items) < PageSize

PageAnswered(c) ==
  LET items == CatalogPage(page[c])
      all == listed[c] \o items
      last == IsLastCatalogPage(items, page[c], Len(all))
  IN /\ pc[c] = "sent" /\ op[c].does = "walk" /\ Verdict(Message(c)) = "ok"
     /\ listed' = [listed EXCEPT ![c] = all]
     /\ page' = [page EXCEPT ![c] = IF last THEN @ ELSE @ + 1]
     /\ tries' = [tries EXCEPT ![c] = 0]
     /\ pc' = [pc EXCEPT ![c] = IF last THEN "done" ELSE "sent"]
     /\ answer' = [answer EXCEPT ![c] = IF last THEN "ok" ELSE "none"]
     /\ why' = [why EXCEPT ![c] = "ok"]
     /\ UNCHANGED <<request, error, signal, etag, file, server, steady, setting>>

\* An attempt fails before the server saw it, after it was carried out, or while
\* the request is still on its way.
AttemptLost(c) ==
  \/ UNCHANGED server
  \/ /\ Mutates(op[c]) /\ Verdict(Message(c)) = "ok"
     /\ CarryOut(Message(c)) /\ UNCHANGED late
  \/ /\ Mutates(op[c]) /\ plan.refuses = "none"
     /\ late' = late \cup {Message(c)}
     /\ UNCHANGED <<exists, version, catalog, spent, carried, basis>>

\* The transport repeats the attempt.
Resend(c) ==
  /\ pc[c] = "sent" /\ Repeated(op[c]) /\ tries[c] < MaxRetries
  /\ AttemptLost(c)
  /\ tries' = [tries EXCEPT ![c] = @ + 1]
  /\ body' = [body EXCEPT ![c] = Replay(op[c], @, plan.stream)]
  /\ UNCHANGED <<pc, request, outcome, walk, stream, steady, setting>>

Ends(c, result) ==
  /\ AttemptLost(c)
  /\ pc' = [pc EXCEPT ![c] = "done"]
  /\ answer' = [answer EXCEPT ![c] = result]
  /\ UNCHANGED <<tries, request, error, signal, why, etag, walk, file, steady, setting>>

\* Mutant: an attempt that broke is taken for a success.
GiveUpSilently(c) ==
  pc[c] = "sent" /\ (Repeated(op[c]) => tries[c] = MaxRetries) /\ Ends(c, "ok")

\* HonuaTransportError for an attempt that is not repeated.
GiveUp(c) ==
  pc[c] = "sent" /\ (Repeated(op[c]) => tries[c] = MaxRetries) /\ Ends(c, "broken")

\* CancelledError in the await of an asynchronous client.
Cancel(c) ==
  pc[c] = "sent" /\ op[c].async /\ Ends(c, "cancelled")

Step(c) ==
  \/ Begin(c)
  \/ RefuseUpload(c)
  \/ Answered(c)
  \/ RefusedAnswer(c)
  \/ FallBack(c)
  \/ PageAnswered(c)
  \/ Resend(c)
  \/ GiveUp(c)
  \/ Cancel(c)

Next ==
  \/ \E c \in Callers : Step(c)
  \/ \E x \in late : LateArrival(x)
  \/ \E e \in Entries : RemoveEntry(e)

Spec == Init /\ [][Next]_vars

-----------------------------------------------------------------------------
(* Properties. *)

\* An update or a deletion that names the version it was based on changes no other
\* version: not after a repeated attempt, not when an attempt arrives late, not
\* when another program wrote between the read and the write.
UpdatesBuildOnWhatWasRead ==
  basis.wanted # NoTag => basis.found = basis.wanted

\* A POST is carried out once at most, and no attempt sends a file emptied by an
\* earlier one, unless the caller's own client repeats POST without a key.
PostsActOnce ==
  \A c \in Callers :
    op[c].verb = "POST" =>
      /\ ~repeats \/ keyed[c] => carried[c] <= 1
      /\ body[c] # "empty"

\* A call that returns was carried out, unless the server's refusal came in a form
\* its method does not read; one that raises it at the first attempt was not.
OutcomesAreTrue ==
  \A c \in Callers :
    pc[c] = "done" /\ Mutates(op[c]) =>
      /\ answer[c] = "ok" => carried[c] > 0 \/ (op[c].body # "json" /\ why[c] # "ok")
      /\ answer[c] = "raised" /\ tries[c] = 0 => carried[c] = 0

\* A list method returns every entry that was there when it began, whatever was
\* published meanwhile, if none was removed, and unless the server's refusal came in
\* an envelope, which reads as an empty page.
ListsWhatStays ==
  \A c \in Callers :
    pc[c] = "done" /\ answer[c] = "ok" /\ op[c].does = "walk" /\ why[c] = "ok" =>
      steady[c] \subseteq ToSet(listed[c])

\* An exception that stands for a refusal.  501 in an envelope without a word from the
\* server reads as unknown, and 498 or 499 as an HTTP status is no HonuaAuthError.
SaysWhy(e, s, reason) ==
  LET silent == s.kind \notin FailureKinds
      plain == s.code \in Codes(s.as, reason)
  IN /\ e.kind = IF silent /\ s.as = "envelope" /\ s.code = 501 THEN "unknown" ELSE reason
     /\ s.as # "grpc" => e.status \in 100..599
     /\ s.as # "grpc" /\ plain =>
          /\ (e.class = "HonuaAuthError") <=>
               /\ reason \in {"authentication", "authorization"}
               /\ ~(s.as = "status" /\ s.code \in {498, 499})
          /\ (e.class = "HonuaRateLimitError") <=> (reason = "throttled")
     /\ s.retryable # "none" => (e.retryable <=> s.retryable = "true")
     /\ s.retryable = "none" /\ plain /\ e.retryable =>
          reason \in {"throttled", "unavailable"} \/ (s.as = "grpc" /\ reason = "conflict")

\* However a server signals its refusal, as a status, in an envelope or as a gRPC
\* code, in its own words or only by the code, the exception names the same kind,
\* but for the two codes SaysWhy lists, has a status HTTP knows, is of the class
\* callers catch for the reason when the code stands for it, and calls itself
\* retryable if the server said so, or said nothing and was busy, away, or aborted
\* a transaction over gRPC.  (_http_failure_receipt, _build_geoservices_error)
ErrorsSayWhy ==
  \A c \in Callers : answer[c] = "raised" => SaysWhy(error[c], signal[c], why[c])
=============================================================================

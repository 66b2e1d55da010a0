------------------------- MODULE ClientCallsProofs -------------------------
(***************************************************************************)
(* Proofs about the clients' methods, for any programs of any number of     *)
(* callers, any retry budget, page size and catalogue: conditional changes  *)
(* meet the version they name, and a POST acts once.                        *)
(***************************************************************************)
EXTENDS ClientCalls, FiniteSetTheorems, SequenceTheorems, TLAPS

\* A request carries the version its caller named, and one that is late is that of
\* the running call or of an earlier one.
RequestsTrue ==
  /\ plan \in Plans
  /\ pc \in [Callers -> {"idle", "sent", "done"}]
  /\ calls \in [Callers -> Nat]
  /\ DOMAIN op = Callers /\ DOMAIN keyed = Callers /\ DOMAIN wants = Callers
  /\ DOMAIN tag = Callers
  /\ \A c \in Callers : tag[c] = wants[c]
  /\ \A x \in late : /\ x.who \in Callers
                     /\ x.tag = x.wants
                     /\ x.call \in Nat /\ x.call <= calls[x.who]
                     /\ x.call = calls[x.who] => x = Message(x.who)

VersionInv == RequestsTrue /\ UpdatesBuildOnWhatWasRead

LEMMA RefusalsAreNotOk == \A p \in Plans : p.refuses # "ok"
BY ClientAssumption DEF FailureKinds, Known

\* What a request does to the version it met.
LEMMA ChangesMeetTheirVersion ==
  ASSUME NEW x, x.tag = x.wants, CarryOut(x), plan \in Plans, UpdatesBuildOnWhatWasRead
  PROVE  UpdatesBuildOnWhatWasRead'
<1>1. CASE basis' = basis
  BY <1>1 DEF UpdatesBuildOnWhatWasRead
<1>2. CASE basis' # basis
  <2>1. basis' = [wanted |-> x.wants, found |-> version] /\ Verdict(x) = "ok" /\ ~Replayed(x)
    BY <1>2 DEF CarryOut
  <2>2. x.op.on = "resource"
    BY <1>2 DEF CarryOut
  <2>3. ~Conflicts(x)
    BY <2>1, RefusalsAreNotOk DEF Verdict
  <2>4. QED
    BY <2>1, <2>2, <2>3 DEF Conflicts, UpdatesBuildOnWhatWasRead
<1>3. QED
  BY <1>1, <1>2

LEMMA VersionInit == Init => VersionInv
BY DEF Init, VersionInv, RequestsTrue, UpdatesBuildOnWhatWasRead

LEMMA VersionStep == VersionInv /\ [Next]_vars => VersionInv'
<1> SUFFICES ASSUME VersionInv, [Next]_vars PROVE VersionInv'
  OBVIOUS
<1> USE DEF VersionInv, RequestsTrue, Message, request, outcome, walk, file, client, server,
            setting, vars
<1>0. ASSUME NEW c \in Callers, AttemptLost(c), UNCHANGED <<calls, op, keyed, wants, tag>>
      PROVE  /\ UpdatesBuildOnWhatWasRead'
             /\ late' \in {late, late \cup {Message(c)}}
  <2>1. CASE UNCHANGED server
    BY <2>1 DEF UpdatesBuildOnWhatWasRead
  <2>2. CASE CarryOut(Message(c)) /\ UNCHANGED late
    BY <2>2, ChangesMeetTheirVersion
  <2>3. CASE late' = late \cup {Message(c)} /\ UNCHANGED basis
    BY <2>3 DEF UpdatesBuildOnWhatWasRead
  <2>4. QED
    BY <1>0, <2>1, <2>2, <2>3 DEF AttemptLost
<1>1. ASSUME NEW c \in Callers, Begin(c) PROVE VersionInv'
  BY <1>1 DEF Begin, IfMatch, UpdatesBuildOnWhatWasRead
<1>2. ASSUME NEW c \in Callers, RefuseUpload(c) PROVE VersionInv'
  BY <1>2 DEF RefuseUpload, UpdatesBuildOnWhatWasRead
<1>3. ASSUME NEW c \in Callers, Answered(c) PROVE VersionInv'
  <2>1. UpdatesBuildOnWhatWasRead'
    BY <1>3, ChangesMeetTheirVersion DEF Answered
  <2>2. QED
    BY <1>3, <2>1 DEF Answered
<1>4. ASSUME NEW c \in Callers, RefusedAnswer(c) PROVE VersionInv'
  BY <1>4 DEF RefusedAnswer, UpdatesBuildOnWhatWasRead
<1>5. ASSUME NEW c \in Callers, FallBack(c) PROVE VersionInv'
  BY <1>5 DEF FallBack, UpdatesBuildOnWhatWasRead
<1>6. ASSUME NEW c \in Callers, PageAnswered(c) PROVE VersionInv'
  BY <1>6 DEF PageAnswered, UpdatesBuildOnWhatWasRead
<1>7. ASSUME NEW c \in Callers, Resend(c) PROVE VersionInv'
  BY <1>7, <1>0 DEF Resend
<1>8. ASSUME NEW c \in Callers, NEW r, Ends(c, r) PROVE VersionInv'
  BY <1>8, <1>0 DEF Ends
<1>9. ASSUME NEW x \in late, LateArrival(x) PROVE VersionInv'
  <2>1. UpdatesBuildOnWhatWasRead'
    BY <1>9, ChangesMeetTheirVersion DEF LateArrival
  <2>2. QED
    BY <1>9, <2>1 DEF LateArrival
<1>10. ASSUME NEW e \in Entries, RemoveEntry(e) PROVE VersionInv'
  BY <1>10 DEF RemoveEntry, UpdatesBuildOnWhatWasRead
<1>11. CASE UNCHANGED vars
  BY <1>11 DEF UpdatesBuildOnWhatWasRead
<1>12. QED
  BY <1>1, <1>2, <1>3, <1>4, <1>5, <1>6, <1>7, <1>8, <1>9, <1>10, <1>11
  DEF Next, Step, GiveUp, Cancel

\* UpdatesBuildOnWhatWasRead: a change that names a version changes no other, whatever
\* is repeated, arrives late, or was written between the read and the write.
THEOREM ConditionalChangesHold == Spec => []UpdatesBuildOnWhatWasRead
<1>1. VersionInv => UpdatesBuildOnWhatWasRead
  BY DEF VersionInv
<1>2. QED
  BY <1>1, VersionInit, VersionStep, PTL DEF Spec

\* No attempt of the call that c runs is still on its way.
Settled(c) == \A x \in late : x.who = c => x.call # calls[c]

\* Without a transport that repeats POST nothing was carried out before the answer, and
\* after it at most one attempt is left; with a key the server knows what it did.
PostedOnce ==
  /\ carried \in [Callers -> Nat]
  /\ \A c \in Callers : keyed[c] =>
       /\ carried[c] <= 1
       /\ carried[c] # 0 => <<c, calls[c]>> \in spent
  /\ \A c \in Callers : (op[c].verb = "POST" /\ ~repeats) =>
       /\ carried[c] <= 1
       /\ pc[c] = "sent" \/ carried[c] # 0 => Settled(c)
       /\ pc[c] = "sent" => carried[c] = 0
  /\ DOMAIN body = Callers
  /\ \A c \in Callers : body[c] # "empty"

\* What a request of c's running call does to the count of its effects.
LEMMA KeysAreSpentOnce ==
  ASSUME NEW x, CarryOut(x), VersionInv, PostedOnce, x.who \in Callers,
         x.call = calls[x.who] => x = Message(x.who), UNCHANGED <<calls, keyed>>
  PROVE  /\ carried' \in [Callers -> Nat]
         /\ \A c \in Callers : carried'[c] \in {carried[c], carried[c] + 1}
         /\ \A c \in Callers : carried'[c] # carried[c] => x.who = c /\ x.call = calls[c]
         /\ \A c \in Callers : keyed[c] =>
              /\ carried'[c] <= 1
              /\ carried'[c] # 0 => <<c, calls[c]>> \in spent'
<1>1. CASE carried' = carried
  <2>1. spent \subseteq spent'
    BY DEF CarryOut
  <2>2. QED
    BY <1>1, <2>1 DEF PostedOnce
<1>2. CASE carried' # carried
  <2>1. /\ x.call = calls[x.who] /\ carried' = [carried EXCEPT ![x.who] = @ + 1]
        /\ Verdict(x) = "ok" /\ ~Replayed(x)
        /\ spent' = IF x.key THEN spent \cup {<<x.who, x.call>>} ELSE spent
    BY <1>2 DEF CarryOut
  <2>2. x.key = keyed[x.who]
    BY <2>1 DEF Message
  <2>3. keyed[x.who] => carried[x.who] = 0 /\ <<x.who, calls[x.who]>> \in spent'
    BY <2>1, <2>2 DEF Replayed, PostedOnce
  <2>4. \A c \in Callers \ {x.who} : carried'[c] = carried[c]
    BY <2>1 DEF PostedOnce
  <2>5. carried'[x.who] = carried[x.who] + 1 /\ carried' \in [Callers -> Nat]
    BY <2>1 DEF PostedOnce
  <2>6. spent \subseteq spent'
    BY <2>1
  <2>7. QED
    BY <2>1, <2>3, <2>4, <2>5, <2>6 DEF PostedOnce
<1>3. QED
  BY <1>1, <1>2

LEMMA OnceInit == Init => PostedOnce
BY DEF Init, PostedOnce, Settled

LEMMA OnceStep == VersionInv /\ VersionInv' /\ PostedOnce /\ [Next]_vars => PostedOnce'
<1> SUFFICES ASSUME VersionInv, VersionInv', PostedOnce, [Next]_vars PROVE PostedOnce'
  OBVIOUS
<1> USE DEF request, outcome, walk, file, client, server, setting, vars
<1>0. ASSUME NEW c \in Callers, pc[c] = "sent", Repeated(op[c]) \/ pc' = [pc EXCEPT ![c] = "done"],
             AttemptLost(c), UNCHANGED <<calls, op, keyed, repeats>>,
             pc' \in {pc, [pc EXCEPT ![c] = "done"]},
             DOMAIN body' = Callers, \A d \in Callers : body'[d] # "empty"
      PROVE  PostedOnce'
  <2>1. CASE UNCHANGED server
    BY <1>0, <2>1 DEF PostedOnce, VersionInv, RequestsTrue, Settled, Repeated, KnownRetryMethods
  <2>2. CASE CarryOut(Message(c)) /\ UNCHANGED late
    <3> DEFINE x == Message(c)
    <3>1. x.who = c /\ x.call = calls[c]
      BY DEF Message
    <3>2. /\ carried' \in [Callers -> Nat]
          /\ \A d \in Callers : carried'[d] \in {carried[d], carried[d] + 1}
          /\ \A d \in Callers : carried'[d] # carried[d] => d = c
          /\ \A d \in Callers : keyed[d] =>
               /\ carried'[d] <= 1
               /\ carried'[d] # 0 => <<d, calls[d]>> \in spent'
      BY <1>0, <2>2, <3>1, KeysAreSpentOnce
    <3> HIDE DEF x
    <3>3. (op[c].verb = "POST" /\ ~repeats) => pc' = [pc EXCEPT ![c] = "done"]
      BY <1>0 DEF Repeated, KnownRetryMethods
    <3>4. QED
      BY <1>0, <2>2, <3>2, <3>3 DEF PostedOnce, VersionInv, RequestsTrue, Settled
  <2>3. CASE late' = late \cup {Message(c)} /\ UNCHANGED <<spent, carried>>
    <3>1. (op[c].verb = "POST" /\ ~repeats) => pc' = [pc EXCEPT ![c] = "done"] /\ carried[c] = 0
      BY <1>0 DEF Repeated, KnownRetryMethods, PostedOnce
    <3>2. \A d \in Callers \ {c} : Settled(d) => Settled(d)'
      BY <1>0, <2>3 DEF Settled, Message
    <3>3. QED
      BY <1>0, <2>3, <3>1, <3>2 DEF PostedOnce, VersionInv, RequestsTrue
  <2>4. QED
    BY <1>0, <2>1, <2>2, <2>3 DEF AttemptLost
<1>1. ASSUME NEW c \in Callers, Begin(c) PROVE PostedOnce'
  <2>1. /\ calls' = [calls EXCEPT ![c] = @ + 1] /\ late' = late /\ spent' = spent
        /\ carried' = [carried EXCEPT ![c] = 0] /\ repeats' = repeats
        /\ op' = [op EXCEPT ![c] = Planned(c)] /\ pc' = [pc EXCEPT ![c] = "sent"]
        /\ body' = [body EXCEPT ![c] = FilePart(Planned(c), stream[c])]
        /\ \A d \in Callers \ {c} : keyed'[d] = keyed[d]
    BY <1>1 DEF Begin
  <2>2. Settled(c)' /\ \A d \in Callers \ {c} : Settled(d) => Settled(d)'
    BY <2>1 DEF Settled, VersionInv, RequestsTrue
  <2>3. FilePart(Planned(c), stream[c]) # "empty"
    BY DEF FilePart
  <2>4. QED
    BY <2>1, <2>2, <2>3 DEF PostedOnce, VersionInv, RequestsTrue
<1>2. ASSUME NEW c \in Callers, RefuseUpload(c) PROVE PostedOnce'
  <2>1. Settled(c)' /\ \A d \in Callers \ {c} : Settled(d) => Settled(d)'
    BY <1>2 DEF RefuseUpload, Settled, VersionInv, RequestsTrue
  <2>2. QED
    BY <1>2, <2>1 DEF RefuseUpload, PostedOnce, VersionInv, RequestsTrue
<1>3. ASSUME NEW c \in Callers, Answered(c) PROVE PostedOnce'
  <2> DEFINE x == Message(c)
  <2>1. x.who = c /\ x.call = calls[c]
    BY DEF Message
  <2>2. /\ CarryOut(x) /\ late' = late /\ pc' = [pc EXCEPT ![c] = "done"]
        /\ UNCHANGED <<calls, op, keyed, body, repeats>> /\ pc[c] = "sent"
    BY <1>3 DEF Answered
  <2>3. /\ carried' \in [Callers -> Nat]
        /\ \A d \in Callers : carried'[d] \in {carried[d], carried[d] + 1}
        /\ \A d \in Callers : carried'[d] # carried[d] => d = c
        /\ \A d \in Callers : keyed[d] =>
             /\ carried'[d] <= 1
             /\ carried'[d] # 0 => <<d, calls[d]>> \in spent'
    BY <2>1, <2>2, KeysAreSpentOnce
  <2> HIDE DEF x
  <2>4. \A d \in Callers : Settled(d)' <=> Settled(d)
    BY <2>2 DEF Settled
  <2>5. (op[c].verb = "POST" /\ ~repeats) => carried[c] = 0 /\ carried'[c] <= 1 /\ Settled(c)
    BY <2>2, <2>3 DEF PostedOnce
  <2>6. pc'[c] = "done" /\ \A d \in Callers \ {c} : pc'[d] = pc[d] /\ carried'[d] = carried[d]
    BY <2>2, <2>3 DEF VersionInv, RequestsTrue
  <2>7. QED
    BY <2>2, <2>3, <2>4, <2>5, <2>6 DEF PostedOnce
<1>4. ASSUME NEW c \in Callers, RefusedAnswer(c) PROVE PostedOnce'
  BY <1>4 DEF RefusedAnswer, PostedOnce, VersionInv, RequestsTrue, Settled
<1>5. ASSUME NEW c \in Callers, FallBack(c) PROVE PostedOnce'
  <2>1. pc[c] = "sent" /\ UNCHANGED <<calls, op, keyed, body, late, spent, carried, repeats>>
    BY <1>5 DEF FallBack
  <2>2. \A d \in Callers : pc'[d] = pc[d] \/ d = c
    BY <1>5 DEF FallBack, VersionInv, RequestsTrue
  <2>3. QED
    BY <2>1, <2>2 DEF PostedOnce, Settled
<1>6. ASSUME NEW c \in Callers, PageAnswered(c) PROVE PostedOnce'
  <2>1. pc[c] = "sent" /\ UNCHANGED <<calls, op, keyed, body, late, spent, carried, repeats>>
    BY <1>6 DEF PageAnswered
  <2>2. \A d \in Callers : pc'[d] = pc[d] \/ d = c
    BY <1>6 DEF PageAnswered, VersionInv, RequestsTrue
  <2>3. QED
    BY <2>1, <2>2 DEF PostedOnce, Settled
<1>7. ASSUME NEW c \in Callers, Resend(c) PROVE PostedOnce'
  <2>1. /\ pc[c] = "sent" /\ Repeated(op[c]) /\ AttemptLost(c) /\ pc' = pc
        /\ UNCHANGED <<calls, op, keyed, repeats>>
    BY <1>7 DEF Resend
  <2>2. DOMAIN body' = Callers /\ \A d \in Callers : body'[d] # "empty"
    BY <1>7 DEF Resend, Replay, PostedOnce
  <2>3. QED
    BY <2>1, <2>2, <1>0
<1>8. ASSUME NEW c \in Callers, NEW r, pc[c] = "sent", Ends(c, r) PROVE PostedOnce'
  BY <1>8, <1>0 DEF Ends, PostedOnce
<1>9. ASSUME NEW x \in late, LateArrival(x) PROVE PostedOnce'
  <2>1. x.who \in Callers /\ (x.call = calls[x.who] => x = Message(x.who))
    BY DEF VersionInv, RequestsTrue
  <2>2. CarryOut(x) /\ late' = late \ {x} /\ UNCHANGED <<pc, calls, op, keyed, body, repeats>>
    BY <1>9 DEF LateArrival
  <2>3. /\ carried' \in [Callers -> Nat]
        /\ \A d \in Callers : carried'[d] \in {carried[d], carried[d] + 1}
        /\ \A d \in Callers : carried'[d] # carried[d] => x.who = d /\ x.call = calls[d]
        /\ \A d \in Callers : keyed[d] =>
             /\ carried'[d] <= 1
             /\ carried'[d] # 0 => <<d, calls[d]>> \in spent'
    BY <2>1, <2>2, KeysAreSpentOnce
  <2>4. \A d \in Callers : Settled(d) => Settled(d)' /\ carried'[d] = carried[d]
    BY <2>2, <2>3 DEF Settled
  <2>5. \A d \in Callers : carried'[d] # carried[d] => Settled(d)'
    <3>1. SUFFICES ASSUME NEW d \in Callers, carried'[d] # carried[d],
                          NEW y \in late', y.who = d, y.call = calls[d]
                   PROVE  FALSE
      BY <2>2 DEF Settled
    <3>2. y \in late /\ y # x
      BY <2>2
    <3>3. y = Message(d) /\ x = Message(d)
      BY <2>1, <2>3, <3>1, <3>2 DEF VersionInv, RequestsTrue
    <3>4. QED
      BY <3>2, <3>3
  <2>6. QED
    BY <2>2, <2>3, <2>4, <2>5 DEF PostedOnce, VersionInv, RequestsTrue
<1>10. ASSUME NEW e \in Entries, RemoveEntry(e) PROVE PostedOnce'
  BY <1>10 DEF RemoveEntry, PostedOnce, VersionInv, RequestsTrue, Settled
<1>11. CASE UNCHANGED vars
  BY <1>11 DEF PostedOnce, VersionInv, RequestsTrue, Settled
<1>12. QED
  BY <1>1, <1>2, <1>3, <1>4, <1>5, <1>6, <1>7, <1>8, <1>9, <1>10, <1>11
  DEF Next, Step, GiveUp, Cancel

\* PostsActOnce: a POST has one effect at most, also by attempts that arrive late, and
\* every attempt sends the file, unless the caller's transport repeats it without a key.
THEOREM PostsHaveOneEffect == Spec => []PostsActOnce
<1>1. PostedOnce => PostsActOnce
  BY DEF PostedOnce, PostsActOnce
<1>2. VersionInv /\ [Next]_vars => VersionInv'
  BY VersionStep
<1>3. QED
  BY <1>1, <1>2, VersionInit, OnceInit, OnceStep, PTL DEF Spec

-----------------------------------------------------------------------------
(* What a call says of its request. *)

TrueSoFar(c) ==
  /\ (pc[c] = "sent" /\ tries[c] = 0) => (carried[c] = 0 /\ Settled(c))
  /\ (pc[c] = "done" /\ answer[c] = "ok") => (carried[c] > 0 \/ (op[c].body # "json" /\ why[c] # "ok"))
  /\ (pc[c] = "done" /\ answer[c] = "raised" /\ tries[c] = 0) => (carried[c] = 0 /\ Settled(c))

\* Before its first attempt is repeated or lost, a call has had no effect; a key the
\* server knows of the running call is one it has carried out.
OutcomesInv ==
  /\ tries \in [Callers -> Nat] /\ DOMAIN answer = Callers /\ DOMAIN why = Callers
  /\ \A c \in Callers, k \in Nat : <<c, k>> \in spent => k <= calls[c]
  /\ \A c \in Callers : <<c, calls[c]>> \in spent => carried[c] > 0
  /\ \A c \in Callers : Mutates(op[c]) => TrueSoFar(c)

ErrorsInv ==
  /\ DOMAIN answer = Callers /\ DOMAIN why = Callers /\ DOMAIN error = Callers
  /\ DOMAIN signal = Callers
  /\ \A c \in Callers : pc[c] = "sent" => answer[c] # "raised"
  /\ \A c \in Callers : answer[c] = "raised" => SaysWhy(error[c], signal[c], why[c])

\* The entries a walk began with that stand on the pages behind it are collected, and
\* it has collected no more than those pages hold.
PagesBehind(c) ==
  /\ steady[c] \subseteq ToSet(catalog)
  /\ Len(listed[c]) <= (page[c] - 1) * PageSize
  /\ \A i \in 1..Len(catalog) :
       (i <= (page[c] - 1) * PageSize /\ catalog[i] \in steady[c]) => catalog[i] \in ToSet(listed[c])

WalksInv ==
  /\ catalog \in Seq(Entries)
  /\ page \in [Callers -> Nat \ {0}] /\ listed \in [Callers -> Seq(Entries)]
  /\ DOMAIN answer = Callers /\ DOMAIN why = Callers /\ DOMAIN steady = Callers
  /\ \A c \in Callers : (op[c].does = "walk" /\ pc[c] = "sent") => PagesBehind(c)
  /\ \A c \in Callers : (op[c].does = "walk" /\ pc[c] = "done" /\ answer[c] = "ok" /\ why[c] = "ok") =>
       steady[c] \subseteq ToSet(listed[c])

-----------------------------------------------------------------------------
(* Errors. *)

LEMMA ServerFailureIsNone == ServerFailure \in Int /\ ServerFailure < 0
BY SMT DEF ServerFailure

\* The kinds of the codes.
LEMMA KindTable ==
  /\ \A c \in {400, 422} : HttpKind(c, c) = "validation" /\ HttpKind(c, 200) = "validation"
  /\ \A c \in {401, 498, 499} : HttpKind(c, c) = "authentication" /\ HttpKind(c, 200) = "authentication"
  /\ HttpKind(403, 403) = "authorization" /\ HttpKind(403, 200) = "authorization"
  /\ HttpKind(404, 404) = "not-found" /\ HttpKind(404, 200) = "not-found"
  /\ \A c \in {409, 412, 428} : HttpKind(c, c) = "conflict" /\ HttpKind(c, 200) = "conflict"
  /\ HttpKind(429, 429) = "throttled" /\ HttpKind(429, 200) = "throttled"
  /\ \A c \in {408, 500, 501, 502, 503, 504} : HttpKind(c, c) = "unavailable"
  /\ \A c \in {500, 503} : HttpKind(c, 200) = "unavailable"
  /\ \A c \in {302, 418} : HttpKind(c, c) = "unknown"
  /\ HttpKind(501, 200) = "unknown" /\ HttpKind(ServerFailure, 200) = "unknown"
BY ServerFailureIsNone DEF HttpKind, HttpKinds, RetryableHttpCodes

\* The codes that may not be tried again.
LEMMA RetryTable ==
  \A c \in {400, 401, 403, 404, 409, 412, 422, 428, 498, 499, 302, 418, ServerFailure} :
    ~Retryable(c, c) /\ ~Retryable(c, 200)
BY ServerFailureIsNone DEF Retryable, RetryableHttpCodes

LEMMA StatusTable ==
  ASSUME NEW reason \in FailureKinds, NEW code \in StatusCodes(reason)
  PROVE  /\ HttpKind(code, code) = reason
         /\ code \in 100..599
         /\ code \in {401, 403} <=>
              reason \in {"authentication", "authorization"} /\ code \notin {498, 499}
         /\ code = 429 <=> reason = "throttled"
         /\ Retryable(code, code) => reason \in {"throttled", "unavailable"}
<1> USE KindTable, RetryTable DEF StatusCodes
<1>1. CASE reason = "authentication"
  BY <1>1
<1>2. CASE reason = "authorization"
  BY <1>2
<1>3. CASE reason = "not-found"
  BY <1>3
<1>4. CASE reason = "validation"
  BY <1>4
<1>5. CASE reason = "conflict"
  BY <1>5
<1>6. CASE reason = "throttled"
  BY <1>6
<1>7. CASE reason = "unavailable"
  BY <1>7
<1>8. CASE reason = "unknown"
  BY <1>8
<1>9. QED
  BY <1>1, <1>2, <1>3, <1>4, <1>5, <1>6, <1>7, <1>8 DEF FailureKinds, Known

LEMMA EnvelopeTable ==
  ASSUME NEW reason \in FailureKinds, NEW code \in EnvelopeCodes(reason)
  PROVE  /\ HttpKind(code, 200) = IF code = 501 THEN "unknown" ELSE reason
         /\ NormalizeStatus(code) \in 100..599
         /\ code \in GeoServicesAuthCodes <=> reason \in {"authentication", "authorization"}
         /\ code = 429 <=> reason = "throttled"
         /\ Retryable(code, 200) => reason \in {"throttled", "unavailable"}
<1> USE KindTable, RetryTable, ServerFailureIsNone
    DEF EnvelopeCodes, NormalizeStatus, GeoServicesAuthCodes
<1>1. CASE reason = "authentication"
  BY <1>1
<1>2. CASE reason = "authorization"
  BY <1>2
<1>3. CASE reason = "not-found"
  BY <1>3
<1>4. CASE reason = "validation"
  BY <1>4
<1>5. CASE reason = "conflict"
  BY <1>5
<1>6. CASE reason = "throttled"
  BY <1>6
<1>7. CASE reason = "unavailable"
  BY <1>7
<1>8. CASE reason = "unknown"
  BY <1>8
<1>9. QED
  BY <1>1, <1>2, <1>3, <1>4, <1>5, <1>6, <1>7, <1>8 DEF FailureKinds, Known

LEMMA GrpcTable ==
  ASSUME NEW reason \in FailureKinds, NEW code \in GrpcCodes(reason)
  PROVE  /\ GrpcKind(code) = reason
         /\ GrpcRetryable(code) => reason \in {"throttled", "unavailable", "conflict"}
<1>0. \A c \in {2, 3, 5, 6, 7, 13, 16} : ~GrpcRetryable(c)
  BY DEF GrpcRetryable
<1> USE <1>0 DEF GrpcCodes, GrpcKind
<1>1. CASE reason = "authentication"
  BY <1>1
<1>2. CASE reason = "authorization"
  BY <1>2
<1>3. CASE reason = "not-found"
  BY <1>3
<1>4. CASE reason = "validation"
  BY <1>4
<1>5. CASE reason = "conflict"
  BY <1>5
<1>6. CASE reason = "throttled"
  BY <1>6
<1>7. CASE reason = "unavailable"
  BY <1>7
<1>8. CASE reason = "unknown"
  BY <1>8
<1>9. QED
  BY <1>1, <1>2, <1>3, <1>4, <1>5, <1>6, <1>7, <1>8 DEF FailureKinds, Known

\* A refusal names its reason or comes with a code that stands for it.
LEMMA SignalsAreHonest ==
  ASSUME NEW reason \in FailureKinds, NEW b, NEW declares \in BOOLEAN,
         NEW s \in Signals(reason, b, declares)
  PROVE  /\ s.as \in {"status", "envelope", "grpc"}
         /\ \E q \in FailureKinds : s.code \in Codes(s.as, q)
         /\ s.retryable \in {"none", "true", "false"}
         /\ \/ s.kind = reason
            \/ s.kind \notin FailureKinds /\ s.code \in Codes(s.as, reason)
<1>1. PICK as \in {"status", "envelope", "grpc"} : s \in Declared(as, reason) \cup Undeclared(as, reason)
  BY DEF Signals
<1>2. "none" \notin FailureKinds /\ "other" \notin FailureKinds
  BY DEF FailureKinds, Known
<1>3. QED
  BY <1>1, <1>2 DEF Declared, Undeclared

\* Whatever form a refusal takes, what is raised for it says why.
LEMMA SignalsSayWhy ==
  ASSUME NEW reason \in FailureKinds, NEW b, NEW declares \in BOOLEAN,
         NEW s \in Signals(reason, b, declares)
  PROVE  SaysWhy(Raised(s), s, reason)
<1>1. /\ s.as \in {"status", "envelope", "grpc"}
      /\ s.retryable \in {"none", "true", "false"}
      /\ \/ s.kind = reason
         \/ s.kind \notin FailureKinds /\ s.code \in Codes(s.as, reason)
  BY SignalsAreHonest
<1>2. PICK q \in FailureKinds : s.code \in Codes(s.as, q)
  BY SignalsAreHonest
<1>3. CASE s.as = "status"
  <2>1. Raised(s) = HttpError(s) /\ \A r : Codes(s.as, r) = StatusCodes(r)
    BY <1>3 DEF Raised, Codes
  <2>2. s.code \in 100..599
    BY <1>2, <2>1, StatusTable
  <2>3. s.code \in StatusCodes(reason) =>
          /\ HttpKind(s.code, s.code) = reason
          /\ s.code \in {401, 403} <=>
               reason \in {"authentication", "authorization"} /\ s.code \notin {498, 499}
          /\ s.code = 429 <=> reason = "throttled"
          /\ Retryable(s.code, s.code) => reason \in {"throttled", "unavailable"}
    BY StatusTable
  <2>4. /\ HttpError(s).kind = IF s.kind \in FailureKinds THEN s.kind ELSE HttpKind(s.code, s.code)
        /\ s.retryable # "none" => (HttpError(s).retryable <=> s.retryable = "true")
        /\ s.retryable = "none" => (HttpError(s).retryable <=> Retryable(s.code, s.code))
    BY DEF HttpError, DeclaredKind, DeclaredRetryable, Retryable, GrpcRetryable
  <2>5. /\ HttpError(s).status = s.code
        /\ HttpError(s).class = "HonuaAuthError" <=> s.code \in {401, 403}
        /\ HttpError(s).class = "HonuaRateLimitError" <=> s.code = 429
    BY DEF HttpError, GeoServicesAuthCodes
  <2>6. QED
    BY ONLY <1>1, <1>3, <2>1, <2>2, <2>3, <2>4, <2>5 DEF SaysWhy
<1>4. CASE s.as = "envelope"
  <2>1. Raised(s) = GeoServicesError(s) /\ \A r : Codes(s.as, r) = EnvelopeCodes(r)
    BY <1>4 DEF Raised, Codes
  <2>2. NormalizeStatus(s.code) \in 100..599
    BY <1>2, <2>1, EnvelopeTable
  <2>3. s.code \in EnvelopeCodes(reason) =>
          /\ HttpKind(s.code, 200) = IF s.code = 501 THEN "unknown" ELSE reason
          /\ s.code \in GeoServicesAuthCodes <=> reason \in {"authentication", "authorization"}
          /\ s.code = 429 <=> reason = "throttled"
          /\ Retryable(s.code, 200) => reason \in {"throttled", "unavailable"}
    BY EnvelopeTable
  <2>4. /\ GeoServicesError(s).kind = IF s.kind \in FailureKinds THEN s.kind ELSE HttpKind(s.code, 200)
        /\ s.retryable # "none" => (GeoServicesError(s).retryable <=> s.retryable = "true")
        /\ s.retryable = "none" => (GeoServicesError(s).retryable <=> Retryable(s.code, 200))
    BY DEF GeoServicesError, DeclaredKind, DeclaredRetryable, Retryable, GrpcRetryable
  <2>5. /\ GeoServicesError(s).status = NormalizeStatus(s.code)
        /\ GeoServicesError(s).class = "HonuaAuthError" <=> s.code \in GeoServicesAuthCodes
        /\ GeoServicesError(s).class = "HonuaRateLimitError" <=> s.code = 429
    BY DEF GeoServicesError, GeoServicesAuthCodes
  <2>6. QED
    BY ONLY <1>1, <1>4, <2>1, <2>2, <2>3, <2>4, <2>5 DEF SaysWhy
<1>5. CASE s.as = "grpc"
  <2>1. Raised(s) = GrpcError(s) /\ \A r : Codes(s.as, r) = GrpcCodes(r)
    BY <1>5 DEF Raised, Codes
  <2>2. s.code \in GrpcCodes(reason) =>
          /\ GrpcKind(s.code) = reason
          /\ GrpcRetryable(s.code) => reason \in {"throttled", "unavailable", "conflict"}
    BY GrpcTable
  <2>4. /\ GrpcError(s).kind = IF s.kind \in FailureKinds THEN s.kind ELSE GrpcKind(s.code)
        /\ s.retryable # "none" => (GrpcError(s).retryable <=> s.retryable = "true")
        /\ s.retryable = "none" => (GrpcError(s).retryable <=> GrpcRetryable(s.code))
    BY DEF GrpcError, DeclaredKind, DeclaredRetryable, Retryable, GrpcRetryable
  <2>5. QED
    BY ONLY <1>1, <1>5, <2>1, <2>2, <2>4 DEF SaysWhy
<1>6. QED
  BY <1>1, <1>3, <1>4, <1>5

\* The server's reasons.
LEMMA Reasons ==
  ASSUME plan \in Plans, NEW x, Verdict(x) # "ok"
  PROVE  Verdict(x) \in FailureKinds
<1>1. plan.refuses \in FailureKinds \cup {"none"}
  BY ClientAssumption
<1>2. CASE Refused(x) /\ ~Replayed(x)
  BY <1>1, <1>2 DEF Verdict, Refused
<1>3. CASE ~(Refused(x) /\ ~Replayed(x))
  BY <1>3 DEF Verdict, FailureKinds, Known
<1>4. QED
  BY <1>2, <1>3

LEMMA ErrorsInit == Init => ErrorsInv
BY DEF Init, ErrorsInv

LEMMA ErrorsStep == VersionInv /\ ErrorsInv /\ [Next]_vars => ErrorsInv'
<1> SUFFICES ASSUME VersionInv, ErrorsInv, [Next]_vars PROVE ErrorsInv'
  OBVIOUS
<1> USE DEF request, outcome, walk, file, client, server, setting, vars
<1>0. pc \in [Callers -> {"idle", "sent", "done"}] /\ plan \in Plans /\ plan.declares \in BOOLEAN
  BY ClientAssumption DEF VersionInv, RequestsTrue
<1>1. ASSUME NEW c \in Callers, Begin(c) PROVE ErrorsInv'
  <2>1. /\ pc' = [pc EXCEPT ![c] = "sent"] /\ answer' = [answer EXCEPT ![c] = "none"]
        /\ error' = [error EXCEPT ![c] = NoError] /\ why' = why
        /\ signal' = [signal EXCEPT ![c] = NoSignal]
    BY <1>1 DEF Begin
  <2>2. QED
    BY <1>0, <2>1 DEF ErrorsInv
<1>2. ASSUME NEW c \in Callers, RefuseUpload(c) PROVE ErrorsInv'
  <2>1. /\ pc' = [pc EXCEPT ![c] = "done"] /\ answer' = [answer EXCEPT ![c] = "usage"]
        /\ error' = error /\ signal' = signal /\ why' = why
    BY <1>2 DEF RefuseUpload
  <2>2. QED
    BY <1>0, <2>1 DEF ErrorsInv
<1>3. ASSUME NEW c \in Callers, Answered(c) PROVE ErrorsInv'
  <2>1. /\ pc' = [pc EXCEPT ![c] = "done"] /\ answer' = [answer EXCEPT ![c] = "ok"]
        /\ error' = error /\ signal' = signal /\ \E r : why' = [why EXCEPT ![c] = r]
    BY <1>3 DEF Answered
  <2>2. QED
    BY <1>0, <2>1 DEF ErrorsInv
<1>4. ASSUME NEW c \in Callers, RefusedAnswer(c) PROVE ErrorsInv'
  <2> DEFINE reason == Verdict(Message(c))
  <2>1. PICK s \in Signals(reason, op[c].body, plan.declares) :
          /\ answer' = [answer EXCEPT ![c] = IF Noticed(s, op[c]) THEN "raised" ELSE "ok"]
          /\ error' = [error EXCEPT ![c] = IF Noticed(s, op[c]) THEN Raised(s) ELSE NoError]
          /\ signal' = [signal EXCEPT ![c] = IF Noticed(s, op[c]) THEN s ELSE NoSignal]
    BY <1>4 DEF RefusedAnswer
  <2>2. pc' = [pc EXCEPT ![c] = "done"] /\ why' = [why EXCEPT ![c] = reason] /\ reason # "ok"
    BY <1>4 DEF RefusedAnswer
  <2>3. reason \in FailureKinds
    BY <1>0, <2>2, Reasons
  <2>4. SaysWhy(Raised(s), s, reason)
    BY <1>0, <2>1, <2>3, SignalsSayWhy
  <2> HIDE DEF reason
  <2>5. \A d \in Callers \ {c} : /\ pc'[d] = pc[d] /\ answer'[d] = answer[d]
                                 /\ error'[d] = error[d] /\ signal'[d] = signal[d]
                                 /\ why'[d] = why[d]
    BY <1>0, <2>1, <2>2 DEF ErrorsInv
  <2>6. /\ pc'[c] = "done" /\ why'[c] = reason
        /\ answer'[c] = "raised" => error'[c] = Raised(s) /\ signal'[c] = s
    BY <1>0, <2>1, <2>2 DEF ErrorsInv
  <2>7. DOMAIN answer' = Callers /\ DOMAIN why' = Callers /\ DOMAIN error' = Callers
        /\ DOMAIN signal' = Callers
    BY <2>1, <2>2 DEF ErrorsInv
  <2>8. \A d \in Callers : pc'[d] = "sent" => answer'[d] # "raised"
    BY <2>5, <2>6 DEF ErrorsInv
  <2>9. \A d \in Callers : answer'[d] = "raised" => SaysWhy(error'[d], signal'[d], why'[d])
    BY <2>4, <2>5, <2>6 DEF ErrorsInv
  <2>10. QED
    BY <2>7, <2>8, <2>9 DEF ErrorsInv
<1>5. ASSUME NEW c \in Callers, FallBack(c) PROVE ErrorsInv'
  <2>1. /\ \E r \in {"ok", "none"} : answer' = [answer EXCEPT ![c] = r]
        /\ error' = error /\ signal' = signal /\ \E r : why' = [why EXCEPT ![c] = r]
        /\ \A d \in Callers \ {c} : pc'[d] = pc[d]
    BY <1>0, <1>5 DEF FallBack
  <2>2. QED
    BY <2>1 DEF ErrorsInv
<1>6. ASSUME NEW c \in Callers, PageAnswered(c) PROVE ErrorsInv'
  <2>1. /\ \E r \in {"ok", "none"} : answer' = [answer EXCEPT ![c] = r]
        /\ error' = error /\ signal' = signal /\ \E r : why' = [why EXCEPT ![c] = r]
        /\ \A d \in Callers \ {c} : pc'[d] = pc[d]
    BY <1>0, <1>6 DEF PageAnswered
  <2>2. QED
    BY <2>1 DEF ErrorsInv
<1>7. ASSUME NEW c \in Callers, Resend(c) PROVE ErrorsInv'
  BY <1>7 DEF Resend, ErrorsInv
<1>8. ASSUME NEW c \in Callers, NEW r \in {"broken", "cancelled"}, Ends(c, r) PROVE ErrorsInv'
  <2>1. /\ pc' = [pc EXCEPT ![c] = "done"] /\ answer' = [answer EXCEPT ![c] = r]
        /\ error' = error /\ signal' = signal /\ why' = why
    BY <1>8 DEF Ends
  <2>2. QED
    BY <1>0, <2>1 DEF ErrorsInv
<1>9. ASSUME NEW x \in late, LateArrival(x) PROVE ErrorsInv'
  BY <1>9 DEF LateArrival, ErrorsInv
<1>10. ASSUME NEW e \in Entries, RemoveEntry(e) PROVE ErrorsInv'
  BY <1>10 DEF RemoveEntry, ErrorsInv
<1>11. CASE UNCHANGED vars
  BY <1>11 DEF ErrorsInv
<1>12. QED
  BY <1>1, <1>2, <1>3, <1>4, <1>5, <1>6, <1>7, <1>8, <1>9, <1>10, <1>11
  DEF Next, Step, GiveUp, Cancel

\* Whatever a server answers a refusal with, in its own words or only by a code, the
\* exception names the server's reason, but for the two codes SaysWhy lists, is of
\* the class callers catch when the code stands for the reason, and is retryable as
\* the server said, or only for a server that may answer later.
\* (_http_failure_receipt, _build_geoservices_error, _grpc_failure_receipt)
THEOREM ExceptionsNameTheReason == Spec => []ErrorsSayWhy
<1>1. ErrorsInv => ErrorsSayWhy
  BY DEF ErrorsInv, ErrorsSayWhy
<1>2. VersionInv /\ [Next]_vars => VersionInv'
  BY VersionStep
<1>3. QED
  BY <1>1, <1>2, VersionInit, ErrorsInit, ErrorsStep, PTL DEF Spec

-----------------------------------------------------------------------------
(* Outcomes. *)

\* What the server knows of a request it has carried out.
LEMMA CarriedIsKnown ==
  ASSUME NEW x, CarryOut(x), VersionInv, PostedOnce, OutcomesInv, x.who \in Callers,
         x.call \in Nat, x.call <= calls[x.who], UNCHANGED calls
  PROVE  /\ carried' \in [Callers -> Nat]
         /\ \A d \in Callers : carried'[d] >= carried[d]
         /\ \A d \in Callers : carried'[d] # carried[d] => x.who = d /\ x.call = calls[d]
         /\ \A d \in Callers, k \in Nat : <<d, k>> \in spent' => k <= calls'[d]
         /\ \A d \in Callers : <<d, calls'[d]>> \in spent' => carried'[d] > 0
         /\ (Verdict(x) = "ok" /\ Mutates(x.op) /\ x.call = calls[x.who]) => carried'[x.who] > 0
<1> DEFINE acts == Verdict(x) = "ok" /\ ~Replayed(x) /\ Mutates(x.op)
<1>1. /\ spent' = IF acts /\ x.key THEN spent \cup {<<x.who, x.call>>} ELSE spent
      /\ carried' = IF acts /\ x.call = calls[x.who] THEN [carried EXCEPT ![x.who] = @ + 1] ELSE carried
  BY DEF CarryOut
<1>2. carried \in [Callers -> Nat] /\ calls' = calls
  BY DEF PostedOnce
<1>3. /\ \A d \in Callers, k \in Nat : <<d, k>> \in spent => k <= calls[d]
      /\ \A d \in Callers : <<d, calls[d]>> \in spent => carried[d] > 0
  BY DEF OutcomesInv
<1>4. ~acts /\ Verdict(x) = "ok" /\ Mutates(x.op) => Replayed(x)
  OBVIOUS
<1> HIDE DEF acts
<1>5. CASE acts /\ x.call = calls[x.who]
  <2>1. /\ carried' \in [Callers -> Nat] /\ carried'[x.who] = carried[x.who] + 1
        /\ \A d \in Callers \ {x.who} : carried'[d] = carried[d]
    BY <1>1, <1>2, <1>5
  <2>2. spent' \subseteq spent \cup {<<x.who, x.call>>}
    BY <1>1
  <2>3. \A d \in Callers, k \in Nat : <<d, k>> \in spent' => k <= calls'[d]
    BY <1>2, <1>3, <2>2
  <2>4. \A d \in Callers : <<d, calls'[d]>> \in spent' => carried'[d] > 0
    <3>1. SUFFICES ASSUME NEW d \in Callers, <<d, calls[d]>> \in spent' PROVE carried'[d] > 0
      BY <1>2
    <3>2. CASE d = x.who
      BY <1>2, <2>1, <3>2
    <3>3. CASE d # x.who
      BY <1>3, <2>1, <2>2, <3>1, <3>3
    <3>4. QED
      BY <3>2, <3>3
  <2>5. carried[x.who] \in Nat /\ carried'[x.who] > 0
    BY <1>2, <2>1
  <2>6. \A d \in Callers : carried'[d] >= carried[d] /\ (carried'[d] # carried[d] => x.who = d)
    BY <1>2, <2>1
  <2>7. QED
    BY <1>5, <2>1, <2>3, <2>4, <2>5, <2>6
<1>6. CASE ~(acts /\ x.call = calls[x.who])
  <2>1. carried' = carried
    BY <1>1, <1>6
  <2>2. spent' \subseteq spent \cup {<<x.who, x.call>>} /\ (x.call = calls[x.who] => spent' = spent)
    BY <1>1, <1>6
  <2>3. \A d \in Callers, k \in Nat : <<d, k>> \in spent' => k <= calls'[d]
    BY <1>2, <1>3, <2>2
  <2>4. \A d \in Callers : <<d, calls'[d]>> \in spent' => carried'[d] > 0
    BY <1>2, <1>3, <2>1, <2>2
  <2>5. (Verdict(x) = "ok" /\ Mutates(x.op) /\ x.call = calls[x.who]) => carried'[x.who] > 0
    <3>1. SUFFICES ASSUME Verdict(x) = "ok", Mutates(x.op), x.call = calls[x.who]
                   PROVE  carried'[x.who] > 0
      OBVIOUS
    <3>2. <<x.who, calls[x.who]>> \in spent
      BY <1>4, <1>6, <3>1 DEF Replayed
    <3>3. QED
      BY <1>3, <2>1, <3>2
  <2>6. \A d \in Callers : carried'[d] >= carried[d]
    BY <1>2, <2>1
  <2>7. QED
    BY <1>2, <2>1, <2>3, <2>4, <2>5, <2>6
<1>7. QED
  BY <1>5, <1>6

\* A call of which nothing has changed.
LEMMA StaysTrue ==
  ASSUME NEW d \in Callers, Mutates(op[d]) => TrueSoFar(d),
         pc'[d] = pc[d], answer'[d] = answer[d], why'[d] = why[d], tries'[d] = tries[d],
         op'[d] = op[d], carried'[d] = carried[d], Settled(d) => Settled(d)'
  PROVE  (Mutates(op[d]) => TrueSoFar(d))'
BY DEF TrueSoFar, Mutates

\* An attempt of c that is lost, which others do not notice.
LEMMA LostAttempt ==
  ASSUME NEW c \in Callers, AttemptLost(c), VersionInv, PostedOnce, OutcomesInv,
         UNCHANGED <<calls, op, keyed, wants, tag>>
  PROVE  /\ \A d \in Callers, k \in Nat : <<d, k>> \in spent' => k <= calls'[d]
         /\ \A d \in Callers : <<d, calls'[d]>> \in spent' => carried'[d] > 0
         /\ \A d \in Callers \ {c} : carried'[d] = carried[d] /\ (Settled(d) => Settled(d)')
<1> DEFINE x == Message(c)
<1>1. x.who = c /\ x.call = calls[c] /\ calls[c] \in Nat
  BY DEF Message, VersionInv, RequestsTrue
<1> HIDE DEF x
<1>2. /\ \A d \in Callers, k \in Nat : <<d, k>> \in spent => k <= calls[d]
      /\ \A d \in Callers : <<d, calls[d]>> \in spent => carried[d] > 0
  BY DEF OutcomesInv
<1>3. CASE UNCHANGED server
  BY <1>2, <1>3 DEF server, Settled
<1>4. CASE CarryOut(x) /\ UNCHANGED late
  <2>1. /\ \A d \in Callers : carried'[d] # carried[d] => d = c
        /\ \A d \in Callers, k \in Nat : <<d, k>> \in spent' => k <= calls'[d]
        /\ \A d \in Callers : <<d, calls'[d]>> \in spent' => carried'[d] > 0
    BY <1>1, <1>4, CarriedIsKnown
  <2>2. \A d \in Callers : Settled(d) => Settled(d)'
    BY <1>4 DEF Settled
  <2>3. QED
    BY <2>1, <2>2
<1>5. CASE late' = late \cup {x} /\ UNCHANGED <<spent, carried>>
  <2>1. \A d \in Callers \ {c} : Settled(d) => Settled(d)'
    BY <1>1, <1>5 DEF Settled
  <2>2. QED
    BY <1>2, <1>5, <2>1
<1>6. QED
  BY <1>3, <1>4, <1>5 DEF AttemptLost, x

LEMMA OutcomesInit == Init => OutcomesInv
BY DEF Init, OutcomesInv, TrueSoFar

LEMMA OutcomesStep == VersionInv /\ PostedOnce /\ OutcomesInv /\ [Next]_vars => OutcomesInv'
<1> SUFFICES ASSUME VersionInv, PostedOnce, OutcomesInv, [Next]_vars PROVE OutcomesInv'
  OBVIOUS
<1> USE DEF request, outcome, walk, file, client, server, setting, vars
<1>0. /\ pc \in [Callers -> {"idle", "sent", "done"}] /\ plan \in Plans
      /\ calls \in [Callers -> Nat] /\ DOMAIN op = Callers
      /\ carried \in [Callers -> Nat]
      /\ tries \in [Callers -> Nat] /\ DOMAIN answer = Callers /\ DOMAIN why = Callers
  BY DEF VersionInv, RequestsTrue, PostedOnce, OutcomesInv
<1>a. /\ \A c \in Callers, k \in Nat : <<c, k>> \in spent => k <= calls[c]
      /\ \A c \in Callers : <<c, calls[c]>> \in spent => carried[c] > 0
      /\ \A c \in Callers : Mutates(op[c]) => TrueSoFar(c)
  BY DEF OutcomesInv
<1>1. ASSUME NEW c \in Callers, Begin(c) \/ RefuseUpload(c) PROVE OutcomesInv'
  <2>1. /\ calls' = [calls EXCEPT ![c] = @ + 1] /\ late' = late /\ spent' = spent
        /\ carried' = [carried EXCEPT ![c] = 0] /\ op' = [op EXCEPT ![c] = Planned(c)] /\ why' = why
    BY <1>1 DEF Begin, RefuseUpload
  <2>2. /\ \A d \in Callers \ {c} :
            /\ pc'[d] = pc[d] /\ answer'[d] = answer[d] /\ tries'[d] = tries[d]
        /\ tries' \in [Callers -> Nat] /\ DOMAIN answer' = Callers
        /\ answer'[c] \in {"none", "usage"}
    <3>1. \E s, r : pc' = [pc EXCEPT ![c] = s] /\ tries' \in {tries, [tries EXCEPT ![c] = 0]}
                   /\ r \in {"none", "usage"} /\ answer' = [answer EXCEPT ![c] = r]
      <4>1. CASE Begin(c)
        BY <4>1 DEF Begin
      <4>2. CASE RefuseUpload(c)
        BY <4>2 DEF RefuseUpload
      <4>3. QED
        BY <1>1, <4>1, <4>2
    <3>2. QED
      BY <1>0, <3>1
  <2>3. /\ calls'[c] = calls[c] + 1 /\ carried'[c] = 0 /\ DOMAIN why' = Callers
        /\ \A d \in Callers \ {c} : calls'[d] = calls[d] /\ carried'[d] = carried[d] /\ op'[d] = op[d]
    BY <1>0, <2>1
  <2>4. Settled(c)' /\ \A d \in Callers \ {c} : Settled(d) => Settled(d)'
    BY <2>1, <2>3 DEF Settled, VersionInv, RequestsTrue
  <2>5. \A d \in Callers, k \in Nat : <<d, k>> \in spent' => k <= calls'[d]
    BY <1>0, <1>a, <2>1, <2>3
  <2>6. \A d \in Callers : <<d, calls'[d]>> \in spent' => carried'[d] > 0
    <3>1. <<c, calls'[c]>> \notin spent'
      BY <1>0, <1>a, <2>1, <2>3
    <3>2. QED
      BY <1>a, <2>1, <2>3, <3>1
  <2>7. TrueSoFar(c)'
    BY <2>2, <2>3, <2>4 DEF TrueSoFar
  <2>8. ASSUME NEW d \in Callers \ {c} PROVE (Mutates(op[d]) => TrueSoFar(d))'
    BY <1>a, <2>1, <2>2, <2>3, <2>4, StaysTrue
  <2>9. QED
    BY <2>2, <2>3, <2>5, <2>6, <2>7, <2>8 DEF OutcomesInv
<1>2. ASSUME NEW c \in Callers, Answered(c) PROVE OutcomesInv'
  <2> DEFINE x == Message(c)
  <2>1. x.who = c /\ x.call = calls[c] /\ x.op = op[c] /\ calls[c] \in Nat
    BY <1>0 DEF Message
  <2>2. /\ CarryOut(x) /\ Verdict(x) = "ok" /\ late' = late /\ pc' = [pc EXCEPT ![c] = "done"]
        /\ answer' = [answer EXCEPT ![c] = "ok"] /\ UNCHANGED <<calls, op, tries>>
        /\ why' = [why EXCEPT ![c] = "ok"]
    BY <1>2 DEF Answered
  <2> HIDE DEF x
  <2>3. /\ \A d \in Callers : carried'[d] # carried[d] => d = c
        /\ \A d \in Callers, k \in Nat : <<d, k>> \in spent' => k <= calls'[d]
        /\ \A d \in Callers : <<d, calls'[d]>> \in spent' => carried'[d] > 0
        /\ Mutates(op[c]) => carried'[c] > 0
    BY <2>1, <2>2, CarriedIsKnown
  <2>4. /\ \A d \in Callers \ {c} :
            /\ pc'[d] = pc[d] /\ answer'[d] = answer[d] /\ why'[d] = why[d] /\ tries'[d] = tries[d]
            /\ op'[d] = op[d] /\ carried'[d] = carried[d] /\ (Settled(d) => Settled(d)')
        /\ pc'[c] = "done" /\ answer'[c] = "ok" /\ op'[c] = op[c]
    BY <1>0, <2>2, <2>3 DEF Settled
  <2>5. DOMAIN answer' = Callers /\ DOMAIN why' = Callers /\ tries' \in [Callers -> Nat]
    BY <1>0, <2>2
  <2>6. (Mutates(op[c]) => TrueSoFar(c))'
    BY <2>3, <2>4 DEF TrueSoFar, Mutates
  <2>7. ASSUME NEW d \in Callers \ {c} PROVE (Mutates(op[d]) => TrueSoFar(d))'
    BY <1>a, <2>4, StaysTrue
  <2>8. QED
    BY <2>3, <2>5, <2>6, <2>7 DEF OutcomesInv
<1>3. ASSUME NEW c \in Callers, RefusedAnswer(c) PROVE OutcomesInv'
  <2> DEFINE reason == Verdict(Message(c))
  <2>1. PICK s \in Signals(reason, op[c].body, plan.declares) :
          answer' = [answer EXCEPT ![c] = IF Noticed(s, op[c]) THEN "raised" ELSE "ok"]
    BY <1>3 DEF RefusedAnswer
  <2>2. /\ pc[c] = "sent" /\ pc' = [pc EXCEPT ![c] = "done"] /\ why' = [why EXCEPT ![c] = reason]
        /\ reason # "ok" /\ UNCHANGED <<calls, op, tries, late, spent, carried>>
    BY <1>3 DEF RefusedAnswer
  <2>3. ~Noticed(s, op[c]) => op[c].body # "json"
    <3>1. s.as \in {"grpc", "status", "envelope"}
      BY <2>1 DEF Signals, Declared, Undeclared
    <3>2. QED
      BY <3>1 DEF Noticed
  <2> HIDE DEF reason
  <2>4. \A d \in Callers : Settled(d) => Settled(d)'
    BY <2>2 DEF Settled
  <2>5. \A d \in Callers \ {c} : pc'[d] = pc[d] /\ answer'[d] = answer[d] /\ why'[d] = why[d]
    BY <1>0, <2>1, <2>2
  <2>6. /\ pc'[c] = "done" /\ why'[c] # "ok" /\ (answer'[c] = "ok" => op[c].body # "json")
        /\ DOMAIN answer' = Callers /\ DOMAIN why' = Callers
    BY <1>0, <2>1, <2>2, <2>3
  <2>7. (Mutates(op[c]) => TrueSoFar(c))'
    BY <1>a, <2>2, <2>4, <2>6 DEF TrueSoFar, Mutates
  <2>8. ASSUME NEW d \in Callers \ {c} PROVE (Mutates(op[d]) => TrueSoFar(d))'
    BY <1>a, <2>2, <2>4, <2>5, StaysTrue
  <2>9. QED
    BY <1>0, <1>a, <2>2, <2>6, <2>7, <2>8 DEF OutcomesInv
<1>4. ASSUME NEW c \in Callers, FallBack(c) \/ PageAnswered(c) PROVE OutcomesInv'
  <2>1. /\ op[c].does \in {"walk", "probe"} /\ UNCHANGED <<calls, op, late, spent, carried>>
        /\ tries' = [tries EXCEPT ![c] = 0]
    BY <1>4 DEF FallBack, PageAnswered
  <2>2. /\ \A d \in Callers \ {c} : pc'[d] = pc[d] /\ answer'[d] = answer[d] /\ why'[d] = why[d]
        /\ DOMAIN answer' = Callers /\ DOMAIN why' = Callers
    <3>1. /\ (\E q : pc' = [pc EXCEPT ![c] = q]) /\ (\E q : answer' = [answer EXCEPT ![c] = q])
          /\ \E r : why' = [why EXCEPT ![c] = r]
      <4>1. CASE FallBack(c)
        BY <4>1 DEF FallBack
      <4>2. CASE PageAnswered(c)
        BY <4>2 DEF PageAnswered
      <4>3. QED
        BY <1>4, <4>1, <4>2
    <3>2. QED
      BY <1>0, <3>1
  <2>3. \A d \in Callers : Settled(d) => Settled(d)'
    BY <2>1 DEF Settled
  <2>4. ~Mutates(op[c])'
    BY <2>1 DEF Mutates
  <2>5. tries' \in [Callers -> Nat] /\ \A d \in Callers \ {c} : tries'[d] = tries[d]
    BY <1>0, <2>1
  <2>6. ASSUME NEW d \in Callers \ {c} PROVE (Mutates(op[d]) => TrueSoFar(d))'
    BY <1>a, <2>1, <2>2, <2>3, <2>5, StaysTrue
  <2>7. QED
    BY <1>a, <2>1, <2>2, <2>4, <2>5, <2>6 DEF OutcomesInv
<1>5. ASSUME NEW c \in Callers, Resend(c) PROVE OutcomesInv'
  <2>1. /\ AttemptLost(c) /\ tries' = [tries EXCEPT ![c] = @ + 1] /\ pc[c] = "sent"
        /\ UNCHANGED <<pc, calls, op, keyed, wants, tag, answer, why>>
    BY <1>5 DEF Resend
  <2>2. /\ \A d \in Callers, k \in Nat : <<d, k>> \in spent' => k <= calls'[d]
        /\ \A d \in Callers : <<d, calls'[d]>> \in spent' => carried'[d] > 0
        /\ \A d \in Callers \ {c} : carried'[d] = carried[d] /\ (Settled(d) => Settled(d)')
    BY <2>1, LostAttempt
  <2>3. /\ tries' \in [Callers -> Nat] /\ tries'[c] # 0
        /\ \A d \in Callers \ {c} : tries'[d] = tries[d]
    BY <1>0, <2>1
  <2>4. TrueSoFar(c)'
    BY <2>1, <2>3 DEF TrueSoFar
  <2>5. ASSUME NEW d \in Callers \ {c} PROVE (Mutates(op[d]) => TrueSoFar(d))'
    BY <1>a, <2>1, <2>2, <2>3, StaysTrue
  <2>6. QED
    BY <1>0, <2>1, <2>2, <2>3, <2>4, <2>5 DEF OutcomesInv
<1>6. ASSUME NEW c \in Callers, NEW r \in {"broken", "cancelled"}, Ends(c, r) PROVE OutcomesInv'
  <2>1. /\ AttemptLost(c) /\ pc' = [pc EXCEPT ![c] = "done"] /\ answer' = [answer EXCEPT ![c] = r]
        /\ UNCHANGED <<tries, calls, op, keyed, wants, tag, why>>
    BY <1>6 DEF Ends
  <2>2. /\ \A d \in Callers, k \in Nat : <<d, k>> \in spent' => k <= calls'[d]
        /\ \A d \in Callers : <<d, calls'[d]>> \in spent' => carried'[d] > 0
        /\ \A d \in Callers \ {c} : carried'[d] = carried[d] /\ (Settled(d) => Settled(d)')
    BY <2>1, LostAttempt
  <2>3. /\ pc'[c] = "done" /\ answer'[c] = r /\ DOMAIN answer' = Callers
        /\ \A d \in Callers \ {c} : pc'[d] = pc[d] /\ answer'[d] = answer[d]
    BY <1>0, <2>1
  <2>4. TrueSoFar(c)'
    BY <2>1, <2>3 DEF TrueSoFar
  <2>5. ASSUME NEW d \in Callers \ {c} PROVE (Mutates(op[d]) => TrueSoFar(d))'
    BY <1>a, <2>1, <2>2, <2>3, StaysTrue
  <2>6. QED
    BY <1>0, <2>1, <2>2, <2>3, <2>4, <2>5 DEF OutcomesInv
<1>7. ASSUME NEW x \in late, LateArrival(x) PROVE OutcomesInv'
  <2>1. CarryOut(x) /\ late' = late \ {x} /\ UNCHANGED <<pc, calls, op, tries, answer, why>>
    BY <1>7 DEF LateArrival
  <2>2. x.who \in Callers /\ x.call \in Nat /\ x.call <= calls[x.who]
    BY DEF VersionInv, RequestsTrue
  <2>3. /\ carried' \in [Callers -> Nat]
        /\ \A d \in Callers : carried'[d] >= carried[d]
        /\ \A d \in Callers : carried'[d] # carried[d] => x.who = d /\ x.call = calls[d]
        /\ \A d \in Callers, k \in Nat : <<d, k>> \in spent' => k <= calls'[d]
        /\ \A d \in Callers : <<d, calls'[d]>> \in spent' => carried'[d] > 0
    BY <2>1, <2>2, CarriedIsKnown
  <2>4. \A d \in Callers : Settled(d) => Settled(d)' /\ carried'[d] = carried[d]
    BY <2>1, <2>3 DEF Settled
  <2>5. \A d \in Callers : carried[d] > 0 => carried'[d] > 0
    BY <1>0, <2>3
  <2>6. ASSUME NEW d \in Callers PROVE (Mutates(op[d]) => TrueSoFar(d))'
    BY <1>a, <2>1, <2>4, <2>5 DEF TrueSoFar, Mutates
  <2>7. QED
    BY <1>0, <2>1, <2>3, <2>6 DEF OutcomesInv
<1>8. CASE UNCHANGED <<pc, answer, why, tries, op, calls, late, spent, carried>>
  <2>1. \A d \in Callers : Settled(d) => Settled(d)'
    BY <1>8 DEF Settled
  <2>2. ASSUME NEW d \in Callers PROVE (Mutates(op[d]) => TrueSoFar(d))'
    BY <1>8, <1>a, <2>1, StaysTrue
  <2>3. QED
    BY <1>0, <1>a, <1>8, <2>2 DEF OutcomesInv
<1>9. QED
  BY <1>1, <1>2, <1>3, <1>4, <1>5, <1>6, <1>7, <1>8
  DEF Next, Step, GiveUp, Cancel, RemoveEntry

\* A call that returns was carried out, unless its method does not read the form the
\* refusal came in, and one that raises it at the first attempt was not, whatever is
\* lost, repeated or late.  (_request)
THEOREM CallsSayWhatWasDone == Spec => []OutcomesAreTrue
<1>1. PostedOnce /\ OutcomesInv => OutcomesAreTrue
  BY DEF OutcomesInv, OutcomesAreTrue, TrueSoFar
<1>2. VersionInv /\ PostedOnce /\ [Next]_vars => (VersionInv /\ PostedOnce)'
  BY VersionStep, OnceStep
<1>3. QED
  BY <1>1, <1>2, VersionInit, OnceInit, OutcomesInit, OutcomesStep, PTL DEF Spec

-----------------------------------------------------------------------------
(* Lists. *)

LEMMA ElementsOf ==
  ASSUME NEW S, NEW s \in Seq(S)
  PROVE  /\ ToSet(s) \subseteq S
         /\ \A i \in 1..Len(s) : s[i] \in ToSet(s)
         /\ \A e \in ToSet(s) : \E i \in 1..Len(s) : s[i] = e
BY DEF ToSet

\* A new entry moves those behind its place by one.
Shifted(s, i, e, j) == IF j < i THEN s[j] ELSE IF j = i THEN e ELSE s[j - 1]

LEMMA InsertMovesOn ==
  ASSUME NEW s \in Seq(Entries), NEW i \in 1..(Len(s) + 1), NEW e \in Entries
  PROVE  /\ InsertAt(s, i, e) \in Seq(Entries) /\ Len(InsertAt(s, i, e)) = Len(s) + 1
         /\ \A j \in 1..(Len(s) + 1) : InsertAt(s, i, e)[j] = Shifted(s, i, e, j)
<1> DEFINE front == SubSeq(s, 1, i - 1)
           rest == SubSeq(s, i, Len(s))
<1>1. i \in Int /\ Len(s) \in Nat /\ i >= 1 /\ i <= Len(s) + 1
  OBVIOUS
<1>2. /\ front \in Seq(Entries) /\ Len(front) = i - 1
      /\ \A j \in 1..(i - 1) : front[j] = s[j]
  <2>1. /\ front \in Seq(Entries) /\ Len(front) = IF 1 <= i - 1 THEN (i - 1) - 1 + 1 ELSE 0
        /\ \A j \in 1..((i - 1) - 1 + 1) : front[j] = s[1 + j - 1]
    <3>1. \A j \in 1..(i - 1) : s[j] \in Entries
      BY <1>1
    <3>2. 1 \in Int /\ i - 1 \in Int
      BY <1>1
    <3>3. QED
      BY <3>1, <3>2, SubSeqProperties
  <2> HIDE DEF front
  <2>2. QED
    BY <1>1, <2>1
<1>3. /\ rest \in Seq(Entries) /\ Len(rest) = Len(s) - i + 1
      /\ \A j \in 1..(Len(s) - i + 1) : rest[j] = s[i + j - 1]
  <2>1. /\ rest \in Seq(Entries) /\ Len(rest) = IF i <= Len(s) THEN Len(s) - i + 1 ELSE 0
        /\ \A j \in 1..(Len(s) - i + 1) : rest[j] = s[i + j - 1]
    <3>1. \A j \in i..Len(s) : s[j] \in Entries
      BY <1>1
    <3>2. QED
      BY <1>1, <3>1, SubSeqProperties
  <2> HIDE DEF rest
  <2>2. QED
    BY <1>1, <2>1
<1> HIDE DEF front, rest
<1>4. <<e>> \in Seq(Entries) /\ Len(<<e>>) = 1 /\ <<e>>[1] = e
  OBVIOUS
<1>5. /\ front \o <<e>> \in Seq(Entries) /\ Len(front \o <<e>>) = i
      /\ \A j \in 1..i : (front \o <<e>>)[j] = IF j < i THEN s[j] ELSE e
  <2>1. /\ front \o <<e>> \in Seq(Entries) /\ Len(front \o <<e>>) = Len(front) + Len(<<e>>)
        /\ \A j \in 1..(Len(front) + Len(<<e>>)) :
             (front \o <<e>>)[j] = IF j <= Len(front) THEN front[j] ELSE <<e>>[j - Len(front)]
    BY <1>2, <1>4, ConcatProperties
  <2> DEFINE both == front \o <<e>>
  <2> HIDE DEF both
  <2>2. \A j \in 1..i : both[j] = IF j < i THEN s[j] ELSE e
    <3>1. \A j \in 1..i : (j <= i - 1 <=> j < i) /\ (~(j < i) => j - (i - 1) = 1)
      BY <1>1
    <3>2. QED
      BY <1>1, <1>2, <1>4, <2>1, <3>1 DEF both
  <2>3. QED
    BY <1>1, <1>2, <1>4, <2>1, <2>2 DEF both
<1> DEFINE both == front \o <<e>>
<1>6. InsertAt(s, i, e) = both \o rest
  BY DEF InsertAt, front, rest
<1> HIDE DEF both
<1>7. /\ both \in Seq(Entries) /\ Len(both) = i
      /\ \A j \in 1..i : both[j] = IF j < i THEN s[j] ELSE e
  BY <1>5 DEF both
<1>8. /\ both \o rest \in Seq(Entries) /\ Len(both \o rest) = Len(both) + Len(rest)
      /\ \A j \in 1..(Len(both) + Len(rest)) :
           (both \o rest)[j] = IF j <= Len(both) THEN both[j] ELSE rest[j - Len(both)]
  BY <1>3, <1>7, ConcatProperties
<1>9. Len(both) + Len(rest) = Len(s) + 1
  BY <1>1, <1>3, <1>7
<1>10. ASSUME NEW j \in 1..(Len(s) + 1)
       PROVE  (both \o rest)[j] = IF j < i THEN s[j] ELSE IF j = i THEN e ELSE s[j - 1]
  <2>1. (both \o rest)[j] = IF j <= i THEN both[j] ELSE rest[j - i]
    BY <1>7, <1>8, <1>9
  <2>2. CASE j <= i
    <3>1. j \in 1..i
      BY <1>1, <2>2
    <3>2. QED
      BY <1>1, <1>7, <2>1, <2>2, <3>1
  <2>3. CASE ~(j <= i)
    <3>1. j - i \in 1..(Len(s) - i + 1) /\ i + (j - i) - 1 = j - 1 /\ ~(j < i) /\ j # i
      BY <1>1, <2>3
    <3>2. QED
      BY <1>3, <2>1, <2>3, <3>1
  <2>4. QED
    BY <2>2, <2>3
<1>11. QED
  BY <1>6, <1>8, <1>9, <1>10 DEF Shifted

LEMMA RemovedIsSeq ==
  ASSUME NEW S, NEW s \in Seq(S), NEW i \in 1..Len(s)
  PROVE  RemoveAt(s, i) \in Seq(S)
<1>1. SubSeq(s, 1, i - 1) \in Seq(S)
  <2>1. \A j \in 1..(i - 1) : s[j] \in S
    OBVIOUS
  <2>2. QED
    BY <2>1, SubSeqProperties
<1>2. SubSeq(s, i + 1, Len(s)) \in Seq(S)
  <2>1. \A j \in (i + 1)..Len(s) : s[j] \in S
    OBVIOUS
  <2>2. QED
    BY <2>1, SubSeqProperties
<1>3. QED
  BY <1>1, <1>2, ConcatProperties DEF RemoveAt

\* The catalog grows; what was there stays, no nearer to its start.
Grows ==
  /\ catalog' \in Seq(Entries) /\ ToSet(catalog) \subseteq ToSet(catalog')
  /\ \A j \in 1..Len(catalog') : catalog'[j] \in ToSet(catalog) =>
       \E k \in 1..Len(catalog) : k <= j /\ catalog[k] = catalog'[j]

LEMMA SameCatalogGrows ==
  ASSUME catalog \in Seq(Entries), catalog' = catalog
  PROVE  Grows
BY ElementsOf DEF Grows

LEMMA CarryOutGrows ==
  ASSUME catalog \in Seq(Entries), NEW x, CarryOut(x)
  PROVE  Grows
<1>1. CASE catalog' = catalog
  BY <1>1, SameCatalogGrows
<1>2. CASE \E e \in Entries \ ToSet(catalog), i \in 1..Len(catalog) + 1 : catalog' = InsertAt(catalog, i, e)
  <2>1. PICK e \in Entries \ ToSet(catalog), i \in 1..Len(catalog) + 1 : catalog' = InsertAt(catalog, i, e)
    BY <1>2
  <2>2. Len(catalog) \in Nat /\ i \in 1..(Len(catalog) + 1)
    OBVIOUS
  <2>3. /\ catalog' \in Seq(Entries) /\ Len(catalog') = Len(catalog) + 1
        /\ \A j \in 1..(Len(catalog) + 1) :
             catalog'[j] = IF j < i THEN catalog[j] ELSE IF j = i THEN e ELSE catalog[j - 1]
    <3>1. e \in Entries /\ i \in 1..(Len(catalog) + 1) /\ catalog \in Seq(Entries)
      BY <2>2
    <3>2. /\ InsertAt(catalog, i, e) \in Seq(Entries) /\ Len(InsertAt(catalog, i, e)) = Len(catalog) + 1
          /\ \A j \in 1..(Len(catalog) + 1) : InsertAt(catalog, i, e)[j] = Shifted(catalog, i, e, j)
      BY ONLY <3>1, InsertMovesOn, Zenon
    <3>3. catalog' \in Seq(Entries) /\ Len(catalog') = Len(catalog) + 1
      BY ONLY <2>1, <3>2, Zenon
    <3>4. \A j \in 1..(Len(catalog) + 1) : catalog'[j] = Shifted(catalog, i, e, j)
      BY ONLY <2>1, <3>2, Zenon
    <3>5. QED
      BY ONLY <3>3, <3>4 DEF Shifted
  <2>4. ASSUME NEW d \in ToSet(catalog) PROVE d \in ToSet(catalog')
    <3>1. PICK k \in 1..Len(catalog) : catalog[k] = d
      BY ElementsOf
    <3>2. CASE k < i
      <4>1. k \in 1..Len(catalog') /\ catalog'[k] = d
        BY <2>2, <2>3, <3>1, <3>2
      <4>2. QED
        BY <2>3, <4>1, ElementsOf
    <3>3. CASE ~(k < i)
      <4>1. k + 1 \in 1..(Len(catalog) + 1) /\ ~(k + 1 < i) /\ k + 1 # i /\ (k + 1) - 1 = k
        BY <2>2, <3>3
      <4>2. k + 1 \in 1..Len(catalog') /\ catalog'[k + 1] = d
        BY <2>3, <3>1, <4>1
      <4>3. QED
        BY <2>3, <4>2, ElementsOf
    <3>4. QED
      BY <3>2, <3>3
  <2>5. ASSUME NEW j \in 1..Len(catalog'), catalog'[j] \in ToSet(catalog)
        PROVE  \E k \in 1..Len(catalog) : k <= j /\ catalog[k] = catalog'[j]
    <3>1. j \in 1..(Len(catalog) + 1) /\ j # i
      BY <2>1, <2>2, <2>3, <2>5
    <3>2. CASE j < i
      <4>1. j \in 1..Len(catalog) /\ catalog[j] = catalog'[j] /\ j <= j
        BY <2>2, <2>3, <3>1, <3>2
      <4>2. QED
        BY <4>1
    <3>3. CASE ~(j < i)
      <4>1. j - 1 \in 1..Len(catalog) /\ catalog[j - 1] = catalog'[j] /\ j - 1 <= j
        BY <2>2, <2>3, <3>1, <3>3
      <4>2. QED
        BY <4>1
    <3>4. QED
      BY <3>2, <3>3
  <2>6. QED
    BY <2>3, <2>4, <2>5 DEF Grows
<1>3. QED
  BY <1>1, <1>2 DEF CarryOut

\* A walk that has not moved.
LEMMA WalkStays ==
  ASSUME WalksInv, NEW d \in Callers, Grows, PagesBehind(d),
         steady'[d] = steady[d], page'[d] = page[d], listed'[d] = listed[d]
  PROVE  PagesBehind(d)'
<1> DEFINE b == (page[d] - 1) * PageSize
<1>0. b \in Int /\ catalog \in Seq(Entries)
  BY ClientAssumption DEF WalksInv
<1>1. /\ steady[d] \subseteq ToSet(catalog) /\ Len(listed[d]) <= b
      /\ \A i \in 1..Len(catalog) : (i <= b /\ catalog[i] \in steady[d]) => catalog[i] \in ToSet(listed[d])
  BY DEF PagesBehind
<1> HIDE DEF b
<1>2. steady[d] \subseteq ToSet(catalog')
  BY <1>1 DEF Grows
<1>3. ASSUME NEW j \in 1..Len(catalog'), j <= b, catalog'[j] \in steady[d]
      PROVE  catalog'[j] \in ToSet(listed[d])
  <2>1. PICK k \in 1..Len(catalog) : k <= j /\ catalog[k] = catalog'[j]
    BY <1>1, <1>3 DEF Grows
  <2>2. j \in Int /\ k \in Int /\ k <= b
    BY <1>0, <1>3, <2>1 DEF Grows
  <2>3. QED
    BY <1>1, <1>3, <2>1, <2>2
<1>4. (page'[d] - 1) * PageSize = b
  BY DEF b
<1>5. QED
  BY <1>1, <1>2, <1>3, <1>4 DEF PagesBehind

LEMMA LesserOfTwo ==
  ASSUME NEW a \in Int, NEW b \in Int
  PROVE  Min({a, b}) = IF a <= b THEN a ELSE b
<1>1. \E x \in {a, b} : \A y \in {a, b} : x <= y
  OBVIOUS
<1>2. Min({a, b}) \in {a, b} /\ \A y \in {a, b} : Min({a, b}) <= y
  BY <1>1 DEF Min
<1>3. QED
  BY <1>2

\* A page read: the entries up to its end are collected, and if it is the last that is
\* all of them.
LEMMA PageRead ==
  ASSUME WalksInv, NEW c \in Callers, PagesBehind(c),
         NEW items, items = CatalogPage(page[c]),
         NEW all, all = listed[c] \o items
  PROVE  /\ all \in Seq(Entries)
         /\ Len(all) <= page[c] * PageSize
         /\ \A i \in 1..Len(catalog) : (i <= page[c] * PageSize /\ catalog[i] \in steady[c]) => catalog[i] \in ToSet(all)
         /\ IsLastCatalogPage(items, page[c], Len(all)) => steady[c] \subseteq ToSet(all)
<1> DEFINE b == (page[c] - 1) * PageSize
           upto == page[c] * PageSize
           top == Min({upto, Len(catalog)})
<1>1. /\ catalog \in Seq(Entries) /\ listed[c] \in Seq(Entries) /\ page[c] \in Nat \ {0}
      /\ PageSize \in Nat \ {0}
  BY ClientAssumption DEF WalksInv
<1>2. b \in Nat /\ upto \in Nat /\ upto = b + PageSize /\ Len(catalog) \in Nat
  BY <1>1
<1>3. /\ steady[c] \subseteq ToSet(catalog) /\ Len(listed[c]) <= b
      /\ \A i \in 1..Len(catalog) : (i <= b /\ catalog[i] \in steady[c]) => catalog[i] \in ToSet(listed[c])
  BY DEF PagesBehind
<1>4. items = SubSeq(catalog, b + 1, top)
  BY DEF CatalogPage
<1> HIDE DEF b
<1> HIDE DEF upto
<1>5. top \in Nat /\ top = IF upto <= Len(catalog) THEN upto ELSE Len(catalog)
  BY <1>2, LesserOfTwo
<1> HIDE DEF top
<1>6. /\ items \in Seq(Entries) /\ Len(items) = IF b + 1 <= top THEN top - b ELSE 0
      /\ \A k \in 1..(top - b) : items[k] = catalog[b + k]
  <2>1. \A k \in (b + 1)..top : catalog[k] \in Entries
    <3>1. \A k \in (b + 1)..top : k \in 1..Len(catalog)
      BY <1>2, <1>5
    <3>2. QED
      BY <1>1, <3>1
  <2>2. b + 1 \in Int /\ top \in Int
    BY <1>2, <1>5
  <2>3. /\ items \in Seq(Entries) /\ Len(items) = IF b + 1 <= top THEN top - (b + 1) + 1 ELSE 0
        /\ \A k \in 1..(top - (b + 1) + 1) : items[k] = catalog[b + 1 + k - 1]
    BY <1>4, <2>1, <2>2, SubSeqProperties
  <2>4. top - (b + 1) + 1 = top - b /\ \A k \in 1..(top - b) : b + 1 + k - 1 = b + k
    BY <1>2, <1>5
  <2>5. QED
    BY <2>3, <2>4
<1>7. Len(items) \in Nat /\ Len(items) <= PageSize /\ Len(listed[c]) \in Nat
  BY <1>1, <1>2, <1>5, <1>6
<1>8. /\ all \in Seq(Entries) /\ Len(all) = Len(listed[c]) + Len(items)
      /\ \A k \in 1..(Len(listed[c]) + Len(items)) :
           all[k] = IF k <= Len(listed[c]) THEN listed[c][k] ELSE items[k - Len(listed[c])]
  BY <1>1, <1>6, ConcatProperties
<1>s. Len(all) = Len(listed[c]) + Len(items) /\ Len(all) \in Nat
  BY ONLY <1>7, <1>8
<1>9. ToSet(listed[c]) \subseteq ToSet(all)
  <2>1. SUFFICES ASSUME NEW e \in ToSet(listed[c]) PROVE e \in ToSet(all)
    OBVIOUS
  <2>2. PICK k \in 1..Len(listed[c]) : listed[c][k] = e
    BY <1>1, ElementsOf
  <2>3. k \in 1..Len(all) /\ k \in 1..(Len(listed[c]) + Len(items)) /\ k <= Len(listed[c])
    BY ONLY <1>7, <1>s
  <2>4. all[k] = e
    BY <1>8, <2>2, <2>3
  <2>5. QED
    BY <1>8, <2>3, <2>4, ElementsOf
<1>10. ToSet(items) \subseteq ToSet(all)
  <2>1. SUFFICES ASSUME NEW e \in ToSet(items) PROVE e \in ToSet(all)
    OBVIOUS
  <2>2. PICK k \in 1..Len(items) : items[k] = e
    BY <1>6, ElementsOf
  <2> DEFINE j == Len(listed[c]) + k
  <2>3. j \in 1..Len(all) /\ j \in 1..(Len(listed[c]) + Len(items)) /\ ~(j <= Len(listed[c])) /\ j - Len(listed[c]) = k
    BY ONLY <1>7, <1>s
  <2> HIDE DEF j
  <2>4. all[j] = e
    BY <1>8, <2>2, <2>3
  <2>5. QED
    BY <1>8, <2>3, <2>4, ElementsOf
<1>11. Len(all) <= upto
  <2>1. Len(listed[c]) <= b /\ PageSize \in Nat
    BY <1>1, <1>3
  <2>2. QED
    BY ONLY <1>2, <1>7, <1>s, <2>1
<1>12. ASSUME NEW i \in 1..Len(catalog), i <= upto, catalog[i] \in steady[c]
       PROVE  catalog[i] \in ToSet(all)
  <2>1. CASE i <= b
    BY <1>3, <1>9, <1>12, <2>1
  <2>2. CASE ~(i <= b)
    <3>1. i - b \in 1..(top - b) /\ b + (i - b) = i /\ i - b \in 1..Len(items)
      BY <1>2, <1>5, <1>6, <1>12, <2>2
    <3>2. items[i - b] = catalog[i]
      BY <1>6, <3>1
    <3>3. QED
      BY <1>6, <1>10, <3>1, <3>2, ElementsOf
  <2>3. QED
    BY <2>1, <2>2
<1>13. ASSUME IsLastCatalogPage(items, page[c], Len(all)) PROVE Len(catalog) <= upto
  <2>1. CASE items = <<>>
    <3>1. ~(b + 1 <= top)
      BY <1>2, <1>5, <1>6, <2>1
    <3>2. QED
      BY <1>1, <1>2, <1>5, <3>1
  <2>2. CASE Len(all) >= Len(catalog)
    BY ONLY <1>2, <1>s, <1>11, <2>2
  <2>3. CASE Len(items) < PageSize
    <3>1. top < upto
      BY <1>1, <1>2, <1>5, <1>6, <2>3
    <3>2. QED
      BY <1>2, <1>5, <3>1
  <2>4. QED
    BY <1>13, <2>1, <2>2, <2>3 DEF IsLastCatalogPage
<1>14. ASSUME IsLastCatalogPage(items, page[c], Len(all)) PROVE steady[c] \subseteq ToSet(all)
  <2>1. SUFFICES ASSUME NEW e \in steady[c] PROVE e \in ToSet(all)
    OBVIOUS
  <2>2. PICK i \in 1..Len(catalog) : catalog[i] = e
    BY <1>1, <1>3, ElementsOf
  <2>3. i <= upto
    BY <1>2, <1>13, <1>14
  <2>4. QED
    BY <1>12, <2>1, <2>2, <2>3
<1>15. QED
  BY <1>8, <1>11, <1>12, <1>14 DEF upto

LEMMA WalksInit == Init => WalksInv
<1> SUFFICES ASSUME Init PROVE WalksInv
  OBVIOUS
<1>1. catalog \in Seq(Entries)
  <2> DEFINE order == SetToSeq(Entries)
             n == Cardinality(Entries)
  <2>1. n \in Nat /\ \E f \in [1..n -> Entries] : IsInjective(f)
    BY ClientAssumption, FS_CardinalityType DEF ExistsBijection, Bijection, Injection
  <2>2. order \in [1..n -> Entries]
    BY <2>1 DEF SetToSeq
  <2>3. plan.entries \in 0..n
    BY ClientAssumption DEF Init
  <2>4. catalog = SubSeq(order, 1, plan.entries)
    BY DEF Init
  <2> HIDE DEF order, n
  <2>5. \A i \in 1..plan.entries : order[i] \in Entries
    BY <2>1, <2>2, <2>3
  <2>6. plan.entries \in Int
    BY <2>1, <2>3
  <2>7. QED
    BY <2>4, <2>5, <2>6, SubSeqProperties
<1>2. /\ page \in [Callers -> Nat \ {0}] /\ listed \in [Callers -> Seq(Entries)]
      /\ DOMAIN answer = Callers /\ DOMAIN why = Callers /\ DOMAIN steady = Callers
      /\ \A c \in Callers : pc[c] = "idle"
  BY DEF Init
<1>3. QED
  BY <1>1, <1>2 DEF WalksInv

\* A step in which only c's call moves, and the catalog grows.
LEMMA OthersWalkOn ==
  ASSUME WalksInv, NEW c \in Callers, Grows, NEW d \in Callers \ {c},
         op'[d] = op[d], pc'[d] = pc[d], answer'[d] = answer[d], why'[d] = why[d],
         steady'[d] = steady[d], page'[d] = page[d], listed'[d] = listed[d]
  PROVE  /\ (op'[d].does = "walk" /\ pc'[d] = "sent") => PagesBehind(d)'
         /\ (op'[d].does = "walk" /\ pc'[d] = "done" /\ answer'[d] = "ok" /\ why'[d] = "ok") =>
              steady'[d] \subseteq ToSet(listed'[d])
<1>1. (op[d].does = "walk" /\ pc[d] = "sent") => PagesBehind(d)
  BY DEF WalksInv
<1>2. PagesBehind(d) => PagesBehind(d)'
  BY WalkStays
<1>3. (op[d].does = "walk" /\ pc[d] = "done" /\ answer[d] = "ok" /\ why[d] = "ok") =>
        steady[d] \subseteq ToSet(listed[d])
  BY DEF WalksInv
<1>4. QED
  BY <1>1, <1>2, <1>3

LEMMA WalksStep == VersionInv /\ WalksInv /\ [Next]_vars => WalksInv'
<1> SUFFICES ASSUME VersionInv, WalksInv, [Next]_vars PROVE WalksInv'
  OBVIOUS
<1> USE DEF request, outcome, walk, file, client, server, setting, vars
<1>0. /\ pc \in [Callers -> {"idle", "sent", "done"}] /\ DOMAIN op = Callers
      /\ catalog \in Seq(Entries) /\ page \in [Callers -> Nat \ {0}] /\ listed \in [Callers -> Seq(Entries)]
      /\ DOMAIN answer = Callers /\ DOMAIN why = Callers /\ DOMAIN steady = Callers
  BY DEF VersionInv, RequestsTrue, WalksInv
\* What is left to show of a step that moves c's call only.
<1>a. ASSUME NEW c \in Callers, Grows,
             \A d \in Callers \ {c} :
               /\ op'[d] = op[d] /\ pc'[d] = pc[d] /\ answer'[d] = answer[d] /\ why'[d] = why[d]
               /\ steady'[d] = steady[d] /\ page'[d] = page[d] /\ listed'[d] = listed[d],
             page' \in [Callers -> Nat \ {0}], listed' \in [Callers -> Seq(Entries)],
             DOMAIN answer' = Callers, DOMAIN why' = Callers, DOMAIN steady' = Callers,
             (op'[c].does = "walk" /\ pc'[c] = "sent") => PagesBehind(c)',
             (op'[c].does = "walk" /\ pc'[c] = "done" /\ answer'[c] = "ok" /\ why'[c] = "ok") =>
               steady'[c] \subseteq ToSet(listed'[c])
      PROVE  WalksInv'
  <2>1. ASSUME NEW d \in Callers
        PROVE  /\ (op'[d].does = "walk" /\ pc'[d] = "sent") => PagesBehind(d)'
               /\ (op'[d].does = "walk" /\ pc'[d] = "done" /\ answer'[d] = "ok" /\ why'[d] = "ok") =>
                    steady'[d] \subseteq ToSet(listed'[d])
    <3>1. CASE d = c
      BY <1>a, <3>1
    <3>2. CASE d # c
      BY <1>a, <3>2, OthersWalkOn
    <3>3. QED
      BY <3>1, <3>2
  <2>2. catalog' \in Seq(Entries)
    BY <1>a DEF Grows
  <2>3. QED
    BY <1>a, <2>1, <2>2 DEF WalksInv
<1>1. ASSUME NEW c \in Callers, Begin(c) PROVE WalksInv'
  <2>1. /\ op' = [op EXCEPT ![c] = Planned(c)] /\ pc' = [pc EXCEPT ![c] = "sent"]
        /\ answer' = [answer EXCEPT ![c] = "none"] /\ why' = why /\ catalog' = catalog
        /\ page' = [page EXCEPT ![c] = 1] /\ listed' = [listed EXCEPT ![c] = <<>>]
        /\ steady' = [steady EXCEPT ![c] = IF Planned(c).does = "walk" THEN ToSet(catalog) ELSE {}]
    BY <1>1 DEF Begin
  <2>2. Grows
    BY <1>0, <2>1, SameCatalogGrows
  <2>3. /\ page' \in [Callers -> Nat \ {0}] /\ listed' \in [Callers -> Seq(Entries)]
        /\ DOMAIN answer' = Callers /\ DOMAIN why' = Callers /\ DOMAIN steady' = Callers
        /\ page'[c] = 1 /\ listed'[c] = <<>> /\ pc'[c] = "sent"
        /\ steady'[c] \subseteq ToSet(catalog')
    BY <1>0, <2>1
  <2>4. PagesBehind(c)'
    <3>1. (page'[c] - 1) * PageSize = 0
      BY <2>3, ClientAssumption
    <3>2. Len(listed'[c]) = 0 /\ \A i \in 1..Len(catalog') : ~(i <= 0)
      BY <2>3
    <3>3. QED
      BY <2>3, <3>1, <3>2 DEF PagesBehind
  <2>5. \A d \in Callers \ {c} :
           /\ op'[d] = op[d] /\ pc'[d] = pc[d] /\ answer'[d] = answer[d] /\ why'[d] = why[d]
           /\ steady'[d] = steady[d] /\ page'[d] = page[d] /\ listed'[d] = listed[d]
    BY <1>0, <2>1
  <2>6. QED
    BY <1>a, <2>2, <2>3, <2>4, <2>5
<1>2. ASSUME NEW c \in Callers, RefuseUpload(c) PROVE WalksInv'
  <2>1. /\ op' = [op EXCEPT ![c] = Planned(c)] /\ pc' = [pc EXCEPT ![c] = "done"]
        /\ answer' = [answer EXCEPT ![c] = "usage"] /\ UNCHANGED <<why, catalog, page, listed>>
        /\ steady' = [steady EXCEPT ![c] = {}]
    BY <1>2 DEF RefuseUpload
  <2>2. Grows
    BY <1>0, <2>1, SameCatalogGrows
  <2>3. /\ page' \in [Callers -> Nat \ {0}] /\ listed' \in [Callers -> Seq(Entries)]
        /\ DOMAIN answer' = Callers /\ DOMAIN why' = Callers /\ DOMAIN steady' = Callers
        /\ pc'[c] = "done" /\ answer'[c] = "usage"
    BY <1>0, <2>1
  <2>4. \A d \in Callers \ {c} :
           /\ op'[d] = op[d] /\ pc'[d] = pc[d] /\ answer'[d] = answer[d] /\ why'[d] = why[d]
           /\ steady'[d] = steady[d] /\ page'[d] = page[d] /\ listed'[d] = listed[d]
    BY <1>0, <2>1
  <2>5. QED
    BY <1>a, <2>2, <2>3, <2>4
<1>3. ASSUME NEW c \in Callers, Answered(c) PROVE WalksInv'
  <2>1. /\ op' = op /\ pc' = [pc EXCEPT ![c] = "done"] /\ op[c].does # "walk"
        /\ answer' = [answer EXCEPT ![c] = "ok"] /\ \E r : why' = [why EXCEPT ![c] = r]
        /\ UNCHANGED <<page, listed, steady>> /\ CarryOut(Message(c))
    BY <1>3 DEF Answered
  <2>2. Grows
    BY <1>0, <2>1, CarryOutGrows
  <2>3. DOMAIN answer' = Callers /\ DOMAIN why' = Callers /\ op'[c].does # "walk"
    BY <1>0, <2>1
  <2>4. \A d \in Callers \ {c} :
           /\ op'[d] = op[d] /\ pc'[d] = pc[d] /\ answer'[d] = answer[d] /\ why'[d] = why[d]
           /\ steady'[d] = steady[d] /\ page'[d] = page[d] /\ listed'[d] = listed[d]
    BY <1>0, <2>1
  <2>5. QED
    BY <1>0, <1>a, <2>1, <2>2, <2>3, <2>4
<1>4. ASSUME NEW c \in Callers, RefusedAnswer(c) PROVE WalksInv'
  <2> DEFINE reason == Verdict(Message(c))
  <2>1. /\ op' = op /\ pc' = [pc EXCEPT ![c] = "done"] /\ reason # "ok"
        /\ \E r : answer' = [answer EXCEPT ![c] = r]
        /\ why' = [why EXCEPT ![c] = reason] /\ UNCHANGED <<page, listed, steady, catalog>>
    BY <1>4 DEF RefusedAnswer
  <2> HIDE DEF reason
  <2>2. Grows
    BY <1>0, <2>1, SameCatalogGrows
  <2>3. /\ DOMAIN answer' = Callers /\ DOMAIN why' = Callers /\ pc'[c] = "done" /\ why'[c] # "ok"
    BY <1>0, <2>1
  <2>4. \A d \in Callers \ {c} :
           /\ op'[d] = op[d] /\ pc'[d] = pc[d] /\ answer'[d] = answer[d] /\ why'[d] = why[d]
           /\ steady'[d] = steady[d] /\ page'[d] = page[d] /\ listed'[d] = listed[d]
    BY <1>0, <2>1
  <2>5. QED
    BY <1>0, <1>a, <2>1, <2>2, <2>3, <2>4
<1>5. ASSUME NEW c \in Callers, FallBack(c) PROVE WalksInv'
  <2>1. /\ op' = op /\ op[c].does = "probe"
        /\ \E r : answer' = [answer EXCEPT ![c] = r] /\ \E q : why' = [why EXCEPT ![c] = q]
        /\ UNCHANGED <<listed, steady, catalog>>
        /\ page' \in {page, [page EXCEPT ![c] = @ + 1]}
    <3>1. page' = [page EXCEPT ![c] = @] \/ page' = [page EXCEPT ![c] = @ + 1]
      BY <1>5 DEF FallBack
    <3>2. [page EXCEPT ![c] = @] = page
      BY <1>0
    <3>3. QED
      BY <1>5, <3>1, <3>2 DEF FallBack
  <2>2. \A d \in Callers \ {c} : pc'[d] = pc[d]
    BY <1>0, <1>5 DEF FallBack
  <2>3. Grows
    BY <1>0, <2>1, SameCatalogGrows
  <2>4. /\ DOMAIN answer' = Callers /\ DOMAIN why' = Callers /\ op'[c].does # "walk"
        /\ page' \in [Callers -> Nat \ {0}]
    BY <1>0, <2>1
  <2>5. \A d \in Callers \ {c} :
           /\ op'[d] = op[d] /\ answer'[d] = answer[d] /\ why'[d] = why[d]
           /\ steady'[d] = steady[d] /\ page'[d] = page[d] /\ listed'[d] = listed[d]
    BY <1>0, <2>1
  <2>6. QED
    BY <1>0, <1>a, <2>1, <2>2, <2>3, <2>4, <2>5
<1>6. ASSUME NEW c \in Callers, PageAnswered(c) PROVE WalksInv'
  <2> DEFINE items == CatalogPage(page[c])
             all == listed[c] \o items
             last == IsLastCatalogPage(items, page[c], Len(all))
  <2>1. /\ op[c].does = "walk" /\ pc[c] = "sent" /\ op' = op
        /\ listed' = [listed EXCEPT ![c] = all]
        /\ page' = [page EXCEPT ![c] = IF last THEN @ ELSE @ + 1]
        /\ pc' = [pc EXCEPT ![c] = IF last THEN "done" ELSE "sent"]
        /\ \E r : answer' = [answer EXCEPT ![c] = r]
        /\ why' = [why EXCEPT ![c] = "ok"] /\ UNCHANGED <<steady, catalog>>
    BY <1>6 DEF PageAnswered
  <2>2. PagesBehind(c)
    BY <2>1 DEF WalksInv
  <2>3. /\ all \in Seq(Entries)
        /\ Len(all) <= page[c] * PageSize
        /\ \A i \in 1..Len(catalog) : (i <= page[c] * PageSize /\ catalog[i] \in steady[c]) => catalog[i] \in ToSet(all)
        /\ last => steady[c] \subseteq ToSet(all)
    BY <2>2, PageRead
  <2> HIDE DEF items, all, last
  <2>4. Grows
    BY <1>0, <2>1, SameCatalogGrows
  <2>5. /\ listed'[c] = all /\ steady'[c] = steady[c] /\ page[c] \in Nat \ {0}
        /\ last => page'[c] = page[c] /\ pc'[c] = "done"
        /\ ~last => page'[c] = page[c] + 1 /\ pc'[c] = "sent"
    BY ONLY <1>0, <2>1
  <2>6. page' \in [Callers -> Nat \ {0}]
    <3>1. page' = [page EXCEPT ![c] = IF last THEN page[c] ELSE page[c] + 1]
      BY <2>1
    <3>2. (IF last THEN page[c] ELSE page[c] + 1) \in Nat \ {0}
      BY ONLY <2>5
    <3>3. QED
      BY ONLY <1>0, <3>1, <3>2
  <2>7. listed' \in [Callers -> Seq(Entries)]
    BY ONLY <1>0, <2>1, <2>3
  <2>8. DOMAIN answer' = Callers /\ DOMAIN why' = Callers /\ DOMAIN steady' = Callers
    BY ONLY <1>0, <2>1
  <2>9. pc'[c] = "sent" => PagesBehind(c)'
    <3>1. SUFFICES ASSUME pc'[c] = "sent" PROVE PagesBehind(c)'
      OBVIOUS
    <3>2. page'[c] = page[c] + 1
      BY <2>5, <3>1
    <3>3. (page'[c] - 1) * PageSize = page[c] * PageSize
      <4>1. page'[c] - 1 = page[c]
        BY ONLY <2>5, <3>2
      <4>2. QED
        BY ONLY <4>1
    <3>4. steady[c] \subseteq ToSet(catalog)
      BY <2>2 DEF PagesBehind
    <3>5. catalog' = catalog
      BY <2>1
    <3>6. QED
      BY ONLY <2>3, <2>5, <3>3, <3>4, <3>5 DEF PagesBehind
  <2>10. pc'[c] = "done" => steady'[c] \subseteq ToSet(listed'[c])
    BY ONLY <2>3, <2>5
  <2>11. \A d \in Callers \ {c} :
           /\ op'[d] = op[d] /\ pc'[d] = pc[d] /\ answer'[d] = answer[d] /\ why'[d] = why[d]
           /\ steady'[d] = steady[d] /\ page'[d] = page[d] /\ listed'[d] = listed[d]
    BY ONLY <1>0, <2>1
  <2>12. QED
    BY <1>a, <2>4, <2>6, <2>7, <2>8, <2>9, <2>10, <2>11
<1>b. ASSUME NEW c \in Callers, AttemptLost(c) PROVE Grows
  BY <1>0, <1>b, SameCatalogGrows, CarryOutGrows DEF AttemptLost
\* Nor do the calls move in a step of the server alone.
<1>c. ASSUME Grows, UNCHANGED <<pc, op, answer, why, page, listed, steady>> PROVE WalksInv'
  <2>1. ASSUME NEW d \in Callers
        PROVE  /\ (op'[d].does = "walk" /\ pc'[d] = "sent") => PagesBehind(d)'
               /\ (op'[d].does = "walk" /\ pc'[d] = "done" /\ answer'[d] = "ok" /\ why'[d] = "ok") =>
                    steady'[d] \subseteq ToSet(listed'[d])
    <3>1. PagesBehind(d) => PagesBehind(d)'
      BY <1>c, WalkStays
    <3>2. QED
      BY <1>c, <3>1 DEF WalksInv
  <2>2. catalog' \in Seq(Entries)
    BY <1>c DEF Grows
  <2>3. QED
    BY <1>0, <1>c, <2>1, <2>2 DEF WalksInv
<1>7. ASSUME NEW c \in Callers, Resend(c) PROVE WalksInv'
  BY <1>b, <1>c, <1>7 DEF Resend
<1>8. ASSUME NEW c \in Callers, NEW r \in {"broken", "cancelled"}, Ends(c, r) PROVE WalksInv'
  <2>1. /\ UNCHANGED <<op, why, page, listed, steady>> /\ pc' = [pc EXCEPT ![c] = "done"]
        /\ answer' = [answer EXCEPT ![c] = r] /\ AttemptLost(c)
    BY <1>8 DEF Ends
  <2>2. Grows
    BY <1>b, <2>1
  <2>3. DOMAIN answer' = Callers /\ pc'[c] = "done" /\ answer'[c] # "ok"
    BY <1>0, <2>1
  <2>4. \A d \in Callers \ {c} :
           /\ op'[d] = op[d] /\ pc'[d] = pc[d] /\ answer'[d] = answer[d] /\ why'[d] = why[d]
           /\ steady'[d] = steady[d] /\ page'[d] = page[d] /\ listed'[d] = listed[d]
    BY <1>0, <2>1
  <2>5. QED
    BY <1>0, <1>a, <2>1, <2>2, <2>3, <2>4
<1>9. ASSUME NEW x \in late, LateArrival(x) PROVE WalksInv'
  <2>1. CarryOut(x) /\ UNCHANGED <<pc, op, answer, why, page, listed, steady>>
    BY <1>9 DEF LateArrival
  <2>2. QED
    BY <1>0, <1>c, <2>1, CarryOutGrows
<1>10. ASSUME NEW e \in Entries, RemoveEntry(e) PROVE WalksInv'
  <2>1. /\ UNCHANGED <<pc, op, answer, why, page, listed>>
        /\ steady' = [c \in Callers |-> {}]
        /\ \E i \in 1..Len(catalog) : catalog' = RemoveAt(catalog, i)
    BY <1>10 DEF RemoveEntry
  <2>2. catalog' \in Seq(Entries)
    BY <1>0, <2>1, RemovedIsSeq
  <2>3. \A d \in Callers : steady'[d] = {}
    BY <2>1
  <2>4. ASSUME NEW d \in Callers, op'[d].does = "walk", pc'[d] = "sent" PROVE PagesBehind(d)'
    <3>1. Len(listed[d]) <= (page[d] - 1) * PageSize
      BY <2>1, <2>4 DEF WalksInv, PagesBehind
    <3>2. QED
      BY <2>1, <2>3, <3>1 DEF PagesBehind
  <2>5. QED
    BY <1>0, <2>1, <2>2, <2>3, <2>4 DEF WalksInv
<1>11. CASE UNCHANGED vars
  BY <1>0, <1>11, <1>c, SameCatalogGrows
<1>12. QED
  BY <1>1, <1>2, <1>3, <1>4, <1>5, <1>6, <1>7, <1>8, <1>9, <1>10, <1>11
  DEF Next, Step, GiveUp, Cancel

\* A list method of the admin clients returns every entry that was there when it
\* began and was not removed, whatever is published into the pages it has read or
\* has yet to read.  (iter_services, _is_last_catalog_page)
THEOREM ListsKeepWhatStays == Spec => []ListsWhatStays
<1>1. WalksInv => ListsWhatStays
  BY DEF WalksInv, ListsWhatStays
<1>2. VersionInv /\ WalksInv /\ [Next]_vars => (VersionInv /\ WalksInv)'
  BY VersionStep, WalksStep
<1>3. QED
  BY <1>1, <1>2, VersionInit, WalksInit, PTL DEF Spec
=============================================================================

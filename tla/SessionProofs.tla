---------------------------- MODULE SessionProofs ----------------------------
(***************************************************************************)
(* Proofs about one session of honua_gp, for any number of threads, names,   *)
(* jobs and clients.                                                        *)
(***************************************************************************)
EXTENDS LayerAliases, SessionClients, FiniteSetTheorems, TLAPS

-----------------------------------------------------------------------------
(* The clients of the session. *)

Kinds == {"client", "admin", "processes"}
Settings == [url : Urls \cup {""}, key : {"", "a", "env"}, insecure : BOOLEAN]

SessionTypes ==
  /\ settings \in Settings
  /\ environ \in Environments
  /\ cached \in [client : Handles \cup {Nobody}, admin : Handles \cup {Nobody},
                 processes : Handles \cup {Nobody}]
  /\ made \in [Handles -> [kind : Kinds \cup {"none", "supplied"}, from : Settings,
                           over : Handles \cup {Nobody}]]

\* A cached client has been made, for the place it is in, and a supplied one
\* knows no settings.
CachedAreMade ==
  /\ \A kind \in Kinds :
       cached[kind] # Nobody => made[cached[kind]].kind \in {kind, "supplied"}
  /\ \A h \in Handles : made[h].kind = "supplied" => made[h].from = NoSettings

\* A client that the session built is one of a base URL, which the environment can
\* no longer fill in, or the view of a supplied one; a view is one of a client.
BuiltFromComplete ==
  \A kind \in Kinds :
    LET h == cached[kind]
    IN h # Nobody /\ made[h].kind # "supplied" =>
         /\ made[h].from = NoSettings \/ (made[h].from = settings /\ settings.url # "")
         /\ kind = "processes" => made[h].over = cached.client /\ cached.client # Nobody

ClientsInv == SessionTypes /\ CachedAreMade /\ BuiltFromComplete

\* No place of the session holds a client.
LEMMA NobodyCached == \A kind \in Kinds : NoClients[kind] = Nobody
<1>1. NoClients.client = Nobody /\ NoClients.admin = Nobody /\ NoClients.processes = Nobody
  BY DEF NoClients
<1>2. QED
  BY <1>1 DEF Kinds

LEMMA ClientsInit == SessionInit => ClientsInv
<1> SUFFICES ASSUME SessionInit PROVE ClientsInv
  OBVIOUS
<1>1. SessionTypes
  BY DEF SessionInit, SessionTypes, Kinds, Settings, Environments, Urls, NoSettings, Unmade
<1>2. cached = NoClients
  BY DEF SessionInit, NoClients
<1>3. \A h \in Handles : made[h].kind = "none"
  BY DEF SessionInit, Unmade
<1>4. CachedAreMade /\ BuiltFromComplete
  BY <1>2, <1>3, NobodyCached DEF CachedAreMade, BuiltFromComplete
<1>5. QED
  BY <1>1, <1>4 DEF ClientsInv

\* What the environment fills in is complete, and complete settings are left alone.
LEMMA BootstrapCompletes ==
  ASSUME SessionTypes
  PROVE  /\ Bootstrapped \in Settings
         /\ settings.url # "" => Bootstrapped = settings
<1>1. CASE settings.url # "" \/ environ.url = ""
  BY <1>1 DEF Bootstrapped, SessionTypes
<1>2. CASE settings.url = "" /\ environ.url # ""
  <2> DEFINE key == IF settings.key = "" THEN environ.key ELSE settings.key
  <2>1. settings \in Settings /\ environ.url \in Urls \cup {""} /\ key \in {"", "a", "env"}
    BY DEF SessionTypes, Settings, Environments
  <2>2. Bootstrapped = [settings EXCEPT !.url = environ.url, !.key = key]
    BY <1>2 DEF Bootstrapped
  <2> HIDE DEF key
  <2>3. Bootstrapped \in Settings
    BY <2>1, <2>2, Zenon DEF Settings
  <2>4. QED
    BY <1>2, <2>3
<1>3. QED
  BY <1>1, <1>2

LEMMA ClientsStep == ClientsInv /\ [SessionNext]_sessionVars => ClientsInv'
<1> SUFFICES ASSUME ClientsInv, [SessionNext]_sessionVars PROVE ClientsInv'
  OBVIOUS
<1> USE SessionAssumption DEF ClientsInv, Kinds
<1>1. CASE ConfigureCall
  <2>1. PICK url \in Urls \cup {settings.url}, key \in {"a", settings.key},
             insecure \in BOOLEAN : Configure(url, key, insecure)
    BY <1>1 DEF ConfigureCall
  <2>2. SessionTypes'
    BY <1>1, <2>1 DEF ConfigureCall, Configure, SessionTypes, Settings, Urls, NoClients
  <2>3. CASE cached' = NoClients
    BY <1>1, <2>2, <2>3, NobodyCached DEF ConfigureCall, CachedAreMade, BuiltFromComplete
  <2>4. CASE cached' = cached /\ settings' = settings
    BY <1>1, <2>2, <2>4 DEF ConfigureCall, CachedAreMade, BuiltFromComplete
  <2>5. QED
    BY <2>1, <2>3, <2>4 DEF Configure
<1>2. CASE ResetClients
  <2>1. SessionTypes'
    BY <1>2 DEF ResetClients, SessionTypes, NoClients, NoSettings, Settings, Urls
  <2>2. QED
    BY <1>2, <2>1, NobodyCached DEF ResetClients, CachedAreMade, BuiltFromComplete
<1>3. ASSUME NEW h \in Handles, Inject(h) PROVE ClientsInv'
  <2>1. PICK kind \in Kinds :
          /\ made' = [made EXCEPT ![h] = Supplied]
          /\ cached' = IF kind = "client" THEN [cached EXCEPT !.client = h, !.processes = Nobody]
                       ELSE [cached EXCEPT ![kind] = h]
    BY <1>3 DEF Inject
  <2> Supplied.kind = "supplied" /\ Supplied.from = NoSettings /\ Unmade.kind = "none"
    BY DEF Supplied, Unmade
  <2>2. /\ made[h].kind = "none"
        /\ made'[h] = Supplied
        /\ \A x \in Handles \ {h} : made'[x] = made[x]
        /\ UNCHANGED <<settings, environ>>
    BY <1>3, <2>1 DEF Inject, SessionTypes
  <2>3. CASE kind = "client"
    <3>1. /\ cached' \in [client : Handles \cup {Nobody}, admin : Handles \cup {Nobody},
                          processes : Handles \cup {Nobody}]
          /\ cached'.client = h /\ cached'.processes = Nobody /\ cached'.admin = cached.admin
      BY <2>1, <2>3, Zenon DEF SessionTypes
    <3>2. SessionTypes'
      BY <1>3, <2>1, <3>1 DEF Inject, SessionTypes, Supplied, NoSettings, Settings, Urls
    <3>3. CachedAreMade'
      BY <2>2, <3>1 DEF SessionTypes, CachedAreMade
    <3>4. BuiltFromComplete'
      <4>1. cached.admin # Nobody => made'[cached.admin] = made[cached.admin]
        BY <2>2 DEF SessionTypes, CachedAreMade
      <4>2. ASSUME NEW k \in Kinds, cached'[k] # Nobody, made'[cached'[k]].kind # "supplied"
            PROVE  k = "admin" /\ cached'[k] = cached[k] /\ made'[cached'[k]] = made[cached[k]]
        BY <2>2, <3>1, <4>1, <4>2
      <4>3. QED
        BY <2>2, <4>2 DEF BuiltFromComplete
    <3>5. QED
      BY <3>2, <3>3, <3>4
  <2>4. CASE kind # "client"
    <3>1. SessionTypes'
      BY <1>3, <2>1, <2>4 DEF Inject, SessionTypes, Supplied, NoSettings, Settings, Urls
    <3>2. cached'[kind] = h /\ \A k \in Kinds \ {kind} : cached'[k] = cached[k]
      BY <2>1, <2>4 DEF SessionTypes
    <3>3. CachedAreMade'
      BY <2>2, <3>2 DEF SessionTypes, CachedAreMade
    <3>4. BuiltFromComplete'
      <4>1. ASSUME NEW k \in Kinds, cached'[k] # Nobody, made'[cached'[k]].kind # "supplied"
            PROVE  k # kind /\ cached'[k] = cached[k] /\ made'[cached'[k]] = made[cached[k]]
        BY <2>2, <3>2, <4>1 DEF SessionTypes, CachedAreMade
      <4>2. cached'.processes = cached.processes => cached'.client = cached.client
        BY <2>4, <3>2
      <4>3. QED
        BY <2>2, <4>1, <4>2 DEF BuiltFromComplete
    <3>5. QED
      BY <3>1, <3>3, <3>4
  <2>5. QED
    BY <2>3, <2>4
<1>4. ASSUME NEW u \in Users, Take(u) PROVE ClientsInv'
  <2>1. ASSUME NEW kind \in {"client", "admin"}, TakeBuilt(u, kind) PROVE ClientsInv'
    <3>1. CASE UNCHANGED <<settings, cached, made>>
      BY <1>4, <3>1 DEF Take, SessionTypes, CachedAreMade, BuiltFromComplete
    <3>2. CASE settings' = Bootstrapped /\ UNCHANGED <<cached, made>>
      BY <1>4, <3>2, BootstrapCompletes DEF Take, SessionTypes, CachedAreMade, BuiltFromComplete
    <3>3. ASSUME cached[kind] = Nobody, settings' = Bootstrapped, Bootstrapped.url # "",
                 NEW h \in Handles, made[h] = Unmade,
                 made' = [made EXCEPT ![h] = Built(kind, Bootstrapped)],
                 cached' = [cached EXCEPT ![kind] = h]
          PROVE  ClientsInv'
      <4>1. SessionTypes'
        BY <1>4, <3>3, BootstrapCompletes DEF Take, SessionTypes, Built
      <4>2. cached'[kind] = h /\ \A k \in Kinds \ {kind} : cached'[k] = cached[k]
        BY <3>3 DEF SessionTypes
      <4> Unmade.kind = "none" /\ Built(kind, Bootstrapped).kind = kind
            /\ Built(kind, Bootstrapped).from = Bootstrapped
        BY DEF Unmade, Built
      <4>3. /\ made[h].kind = "none" /\ made'[h].kind = kind /\ made'[h].from = Bootstrapped
            /\ \A x \in Handles \ {h} : made'[x] = made[x]
        BY <3>3 DEF SessionTypes
      <4>4. CachedAreMade'
        BY <4>2, <4>3 DEF SessionTypes, CachedAreMade
      <4>5. BuiltFromComplete'
        BY <3>3, <4>2, <4>3, BootstrapCompletes DEF SessionTypes, CachedAreMade, BuiltFromComplete
      <4>6. QED
        BY <4>1, <4>4, <4>5
    <3>4. QED
      BY <2>1, <3>1, <3>2, <3>3 DEF TakeBuilt
  <2>2. CASE TakeProcesses(u)
    <3>1. CASE UNCHANGED <<settings, cached, made>>
      BY <1>4, <3>1 DEF Take, SessionTypes, CachedAreMade, BuiltFromComplete
    <3>2. CASE settings' = Bootstrapped /\ UNCHANGED <<cached, made>>
      BY <1>4, <3>2, BootstrapCompletes DEF Take, SessionTypes, CachedAreMade, BuiltFromComplete
    <3>3. ASSUME cached.processes = Nobody, cached.client # Nobody, settings' = settings,
                 NEW h \in Handles, made[h] = Unmade,
                 made' = [made EXCEPT ![h] = [kind |-> "processes", over |-> cached.client,
                                              from |-> made[cached.client].from]],
                 cached' = [cached EXCEPT !.processes = h]
          PROVE  ClientsInv'
      <4>1. SessionTypes'
        BY <1>4, <3>3 DEF Take, SessionTypes
      <4>2. /\ cached'["processes"] = h /\ cached'["client"] = cached["client"]
            /\ \A k \in Kinds \ {"processes"} : cached'[k] = cached[k]
            /\ settings' = settings
        BY <3>3 DEF SessionTypes
      <4>3. /\ made[h].kind = "none" /\ made'[h].kind = "processes"
            /\ made'[h].over = cached.client /\ made'[h].from = made[cached.client].from
            /\ \A x \in Handles \ {h} : made'[x] = made[x]
        BY <3>3 DEF SessionTypes, Unmade
      <4>4. CachedAreMade'
        BY <4>2, <4>3 DEF SessionTypes, CachedAreMade
      <4>5. ASSUME NEW k \in Kinds, cached'[k] # Nobody, made'[cached'[k]].kind # "supplied"
            PROVE  /\ made'[cached'[k]].from = NoSettings
                        \/ (made'[cached'[k]].from = settings' /\ settings'.url # "")
                   /\ k = "processes" => made'[cached'[k]].over = cached'.client /\ cached'.client # Nobody
        <5>1. CASE k = "processes"
          <6>1. cached.client \in Handles /\ made[cached.client].kind \in {"client", "supplied"}
            BY <3>3 DEF SessionTypes, CachedAreMade
          <6>2. \/ made[cached.client].from = NoSettings
                \/ (made[cached.client].from = settings /\ settings.url # "")
            BY <3>3, <6>1 DEF CachedAreMade, BuiltFromComplete
          <6>3. QED
            <7>1. cached'[k] = h /\ cached'.client = cached.client /\ cached'.client # Nobody
              BY <4>2, <5>1, <6>1
            <7>2. made'[h].from = made[cached.client].from /\ made'[h].over = cached.client
              BY <4>3
            <7>3. settings' = settings
              BY <4>2
            <7>4. QED
              BY <7>1, <7>2, <7>3, <6>2
        <5>2. CASE k # "processes"
          BY <3>3, <4>2, <4>3, <4>5, <5>2 DEF SessionTypes, CachedAreMade, BuiltFromComplete
        <5>3. QED
          BY <5>1, <5>2
      <4>6. BuiltFromComplete'
        BY <4>5 DEF BuiltFromComplete
      <4>7. QED
        BY <4>1, <4>4, <4>6
    <3>4. ASSUME cached.processes = Nobody, cached.client = Nobody, settings' = Bootstrapped,
                 Bootstrapped.url # "",
                 NEW h \in Handles, NEW v \in Handles, h # v, made[h] = Unmade, made[v] = Unmade,
                 made' = [made EXCEPT ![h] = Built("client", Bootstrapped),
                                      ![v] = [kind |-> "processes", over |-> h, from |-> Bootstrapped]],
                 cached' = [cached EXCEPT !.client = h, !.processes = v]
          PROVE  ClientsInv'
      <4>1. /\ cached' \in [client : Handles \cup {Nobody}, admin : Handles \cup {Nobody},
                            processes : Handles \cup {Nobody}]
            /\ cached'.client = h /\ cached'.processes = v /\ cached'.admin = cached.admin
        BY <3>4, Zenon DEF SessionTypes
      <4> DEFINE view == [kind |-> "processes", over |-> h, from |-> Bootstrapped]
      <4> Unmade.kind = "none" /\ Built("client", Bootstrapped).kind = "client"
            /\ Built("client", Bootstrapped).from = Bootstrapped
            /\ view.kind = "processes" /\ view.over = h /\ view.from = Bootstrapped
        BY DEF Unmade, Built
      <4> HIDE DEF view
      <4>2. /\ made[h].kind = "none" /\ made[v].kind = "none"
            /\ made'[h] = Built("client", Bootstrapped) /\ made'[v] = view
            /\ \A x \in Handles \ {h, v} : made'[x] = made[x]
        BY <3>4 DEF SessionTypes, view
      <4>3. SessionTypes'
        BY <1>4, <3>4, <4>1, BootstrapCompletes DEF Take, SessionTypes, Built
      <4>4. CachedAreMade'
        BY <4>1, <4>2 DEF SessionTypes, CachedAreMade
      <4>5. BuiltFromComplete'
        BY <3>4, <4>1, <4>2, BootstrapCompletes DEF SessionTypes, CachedAreMade, BuiltFromComplete
      <4>6. QED
        BY <4>3, <4>4, <4>5
    <3>5. QED
      BY <2>2, <3>1, <3>2, <3>3, <3>4 DEF TakeProcesses
  <2>3. QED
    BY <1>4, <2>1, <2>2 DEF Take
<1>5. ASSUME NEW u \in Users, PutDown(u) PROVE ClientsInv'
  BY <1>5 DEF PutDown, SessionTypes, CachedAreMade, BuiltFromComplete
<1>6. CASE UNCHANGED sessionVars
  BY <1>6 DEF sessionVars, SessionTypes, CachedAreMade, BuiltFromComplete
<1>7. QED
  BY <1>1, <1>2, <1>3, <1>4, <1>5, <1>6 DEF SessionNext

\* In any session: the clients that threads share are those of the settings in
\* force, and the processes client works over the data client that is handed out
\* with it.  (configure, client, admin_client, processes_client, reset)
THEOREM SharedClientsBelongTogether == SessionSpec => []ClientsFollowSettings
<1>1. ClientsInv => ClientsFollowSettings
  BY DEF ClientsInv, BuiltFromComplete, ClientsFollowSettings, Kinds
<1>2. QED
  BY ClientsInit, ClientsStep, <1>1, PTL DEF SessionSpec

\* Whatever the program and the environment bring together, a credential meets
\* plain HTTP to another host only by an opt-in.  (ensure_secure_credential_transport,
\* called by _build_client and _build_admin_client on the settings they use)
THEOREM CredentialsNeverGoPlain == SessionSpec => []CredentialsStayGuarded
<1> USE SessionAssumption DEF Kinds
<1>1. SessionInit => CredentialsStayGuarded
  <2>1. Unmade.from.key = ""
    BY DEF Unmade, NoSettings
  <2>2. QED
    BY <2>1 DEF SessionInit, CredentialsStayGuarded
<1>2. ASSUME ClientsInv, CredentialsStayGuarded, [SessionNext]_sessionVars
      PROVE  CredentialsStayGuarded'
  <2>1. environ' = environ
    BY <1>2 DEF SessionNext, sessionVars, ConfigureCall, ResetClients, Inject, Take, PutDown
  <2>2. ASSUME NEW h \in Handles
        PROVE  \/ made'[h] = made[h]
               \/ made'[h].from.key = ""
               \/ Secure(made'[h].from)
               \/ \E g \in Handles : made'[h].from = made[g].from
    <3> made \in [Handles -> [kind : Kinds \cup {"none", "supplied"}, from : Settings,
                             over : Handles \cup {Nobody}]]
      BY <1>2 DEF ClientsInv, SessionTypes
    <3>1. ASSUME NEW g \in Handles, Inject(g) PROVE \/ made'[h] = made[h] \/ made'[h].from.key = ""
      <4>1. Supplied.from.key = ""
        BY DEF Supplied, NoSettings
      <4>2. made' = [made EXCEPT ![g] = Supplied]
        BY <3>1 DEF Inject
      <4>3. QED
        BY <4>1, <4>2
    <3>2. ASSUME NEW u \in Users, NEW kind \in {"client", "admin"}, TakeBuilt(u, kind)
          PROVE  \/ made'[h] = made[h] \/ Secure(made'[h].from)
      <4>1. ASSUME Secure(Bootstrapped), NEW g \in Handles,
                   made' = [made EXCEPT ![g] = Built(kind, Bootstrapped)]
            PROVE  made'[h] = made[h] \/ Secure(made'[h].from)
        <5>1. Built(kind, Bootstrapped).from = Bootstrapped
          BY DEF Built
        <5>2. QED
          BY <4>1, <5>1
      <4>2. QED
        BY <3>2, <4>1 DEF TakeBuilt
    <3>3. ASSUME NEW u \in Users, TakeProcesses(u)
          PROVE  \/ made'[h] = made[h]
                 \/ Secure(made'[h].from)
                 \/ \E g \in Handles : made'[h].from = made[g].from
      <4>1. ASSUME cached.client # Nobody, NEW v \in Handles,
                   made' = [made EXCEPT ![v] = [kind |-> "processes", over |-> cached.client,
                                                from |-> made[cached.client].from]]
            PROVE  made'[h] = made[h] \/ \E g \in Handles : made'[h].from = made[g].from
        BY <1>2, <4>1 DEF ClientsInv, SessionTypes
      <4>2. ASSUME Secure(Bootstrapped), NEW g \in Handles, NEW v \in Handles, g # v,
                   made' = [made EXCEPT ![g] = Built("client", Bootstrapped),
                                        ![v] = [kind |-> "processes", over |-> g, from |-> Bootstrapped]]
            PROVE  made'[h] = made[h] \/ Secure(made'[h].from)
        <5>1. Built("client", Bootstrapped).from = Bootstrapped
          BY DEF Built
        <5>2. made'[h] = made[h] \/ made'[h].from = Bootstrapped
          BY <4>2, <5>1
        <5>3. QED
          BY <4>2, <5>2
      <4>3. QED
        BY <3>3, <4>1, <4>2 DEF TakeProcesses
    <3>4. QED
      BY <1>2, <3>1, <3>2, <3>3
         DEF SessionNext, sessionVars, ConfigureCall, ResetClients, Take, PutDown
  <2>3. QED
    BY <1>2, <2>1, <2>2 DEF CredentialsStayGuarded, Secure
<1>3. QED
  BY ClientsInit, ClientsStep, <1>1, <1>2, PTL DEF SessionSpec

-----------------------------------------------------------------------------
(* The layer aliases. *)

\* A function does not make a finite set larger.
LEMMA ImageIsSmaller ==
  ASSUME NEW S, IsFiniteSet(S), NEW T, NEW f \in [S -> T]
  PROVE  /\ IsFiniteSet({f[x] : x \in S})
         /\ Cardinality({f[x] : x \in S}) <= Cardinality(S)
<1>1. [x \in S |-> f[x]] \in Surjection(S, {f[x] : x \in S})
  BY DEF Surjection
<1>2. QED
  BY <1>1, FS_Surjection

\* A call that keeps no alias object finds one that nobody refers to: each name and
\* each other call refer to one at most.
LEMMA FreeIsFree ==
  ASSUME TypeOK, NEW t \in Threads, obj[t] = NoObject
  PROVE  Free \in Objects /\ Free \notin Used(layers, obj)
<1> DEFINE bound == {layers[n] : n \in Names}
           others == Threads \ {t}
           rest == [u \in others |-> obj[u]]
           kept == {rest[u] : u \in others}
<1>1. IsFiniteSet(bound) /\ Cardinality(bound) <= Cardinality(Names)
  <2>1. layers \in [Names -> Objects \cup {NoObject}] /\ IsFiniteSet(Names)
    BY HeapAssumption DEF TypeOK
  <2>2. QED
    BY <2>1, ImageIsSmaller
<1>2. IsFiniteSet(others) /\ Cardinality(others) = Cardinality(Threads) - 1
  BY HeapAssumption, FS_RemoveElement
<1>3. rest \in [others -> Objects \cup {NoObject}]
  BY DEF TypeOK
<1> HIDE DEF others, rest
<1>4. IsFiniteSet(kept) /\ Cardinality(kept) <= Cardinality(others)
  BY <1>2, <1>3, ImageIsSmaller
<1> HIDE DEF bound, kept
<1>5. /\ IsFiniteSet(bound \cup kept)
      /\ Cardinality(bound \cup kept) = Cardinality(bound) + Cardinality(kept) - Cardinality(bound \cap kept)
  BY <1>1, <1>4, FS_Union
<1>6. IsFiniteSet(bound \cap kept)
  BY <1>1, FS_Intersection
<1>7. /\ Cardinality(bound) \in Nat /\ Cardinality(kept) \in Nat
      /\ Cardinality(bound \cap kept) \in Nat /\ Cardinality(Names) \in Nat
      /\ Cardinality(Threads) \in Nat
  BY <1>1, <1>4, <1>6, FS_CardinalityType, HeapAssumption
<1>8. Cardinality(bound \cup kept) < Cardinality(Names) + Cardinality(Threads)
  BY <1>1, <1>2, <1>4, <1>5, <1>7
<1>9. ~ (Objects \subseteq bound \cup kept)
  <2>1. SUFFICES ASSUME Objects \subseteq bound \cup kept PROVE FALSE
    OBVIOUS
  <2>2. IsFiniteSet(Objects) /\ Cardinality(Objects) <= Cardinality(bound \cup kept)
    BY <1>5, <2>1, FS_Subset
  <2>3. Cardinality(Objects) \in Nat /\ Cardinality(bound \cup kept) \in Nat
    BY <1>5, <2>2, FS_CardinalityType
  <2>4. QED
    BY <1>7, <1>8, <2>2, <2>3, HeapAssumption
<1>10. \A o \in Objects : o \in Used(layers, obj) => o \in bound \cup kept
  BY HeapAssumption DEF Used, bound, kept, rest, others
<1>11. QED
  BY <1>9, <1>10 DEF Free

LEMMA BlankIsAlias == Blank \in Alias /\ Blank.output = NoJob /\ Blank.where = NoWhere
                      /\ Blank.vetted = "made"
<1>1. (CHOOSE p \in Paths : TRUE) \in Paths
  BY HeapAssumption DEF Paths
<1>2. QED
  BY <1>1 DEF Blank, Alias, Sources, Wheres

\* The garbage collector leaves alone what somebody refers to.
LEMMA CollectorSpares ==
  ASSUME NEW h \in [Objects -> Alias], NEW ls, NEW os
  PROVE  /\ Collected(h, ls, os) \in [Objects -> Alias]
         /\ \A o \in Objects :
              /\ o \in Used(ls, os) => Collected(h, ls, os)[o] = h[o]
              /\ o \notin Used(ls, os) => Collected(h, ls, os)[o] = Blank
BY BlankIsAlias DEF Collected

LEMMA SelectionsAreClauses ==
  ASSUME NEW existing \in Wheres, NEW type \in SelectionTypes, NEW w \in Wheres
  PROVE  ApplySelection(existing, type, w) \in Wheres
BY DEF ApplySelection, SelectionTypes, Wheres

LEMMA CombinedAreClauses ==
  ASSUME NEW where \in Wheres, NEW w \in Wheres
  PROVE  /\ Combine(where, w) \in Wheres
         /\ Combine(NoWhere, w) = w
BY DEF Combine, Wheres

\* What a call keeps, by where it is.
CallsInPlace ==
  \A t \in Threads :
    /\ pc[t] = "idle" => obj[t] = NoObject /\ src[t] = NoJob
    /\ pc[t] \in {"marking", "dissolving", "reserving", "running", "binding"} => op[t] = "tool"
    /\ pc[t] = "registering" => op[t] = "make"
    /\ pc[t] = "reading" => op[t] = "read"
    /\ op[t] \in {"tool", "make"} => obj[t] = NoObject
    /\ op[t] = "select" => obj[t] \in Objects
    /\ pc[t] \in {"running", "binding"} => res[t] \in Jobs
    /\ pc[t] \in {"resolved", "registering"} => src[t] \in Sources

\* What register_layer does to names and objects.
LEMMA RegisterBinds ==
  ASSUME TypeOK, NEW t \in Threads, obj[t] = NoObject, NEW alias \in Alias, Register(t, alias)
  PROVE  /\ Free \in Objects /\ Free \notin Used(layers, obj)
         /\ layers' \in [Names -> Objects \cup {NoObject}]
         /\ layers'[out[t]] = Free /\ \A n \in Names \ {out[t]} : layers'[n] = layers[n]
         /\ heap' \in [Objects -> Alias]
         /\ heap'[Free] = alias
         /\ \A o \in Objects \ {Free} :
              heap'[o] = heap[o] \/ (heap'[o] = Blank /\ o \notin Used(layers', obj))
<1>1. Free \in Objects /\ Free \notin Used(layers, obj)
  BY FreeIsFree
<1>2. out[t] \in Names /\ layers \in [Names -> Objects \cup {NoObject}] /\ heap \in [Objects -> Alias]
  BY DEF TypeOK
<1>3. /\ layers' \in [Names -> Objects \cup {NoObject}]
      /\ layers'[out[t]] = Free /\ \A n \in Names \ {out[t]} : layers'[n] = layers[n]
  BY <1>1, <1>2 DEF Register
<1> DEFINE h == [heap EXCEPT ![Free] = alias]
<1>4. /\ h \in [Objects -> Alias] /\ h[Free] = alias
      /\ \A o \in Objects \ {Free} : h[o] = heap[o]
  BY <1>1, <1>2
<1>5. heap' = Collected(h, layers', obj)
  BY DEF Register
<1> HIDE DEF h
<1>6. Free \in Used(layers', obj)
  BY <1>2, <1>3 DEF Used
<1>7. /\ heap' \in [Objects -> Alias]
      /\ \A o \in Objects :
           /\ o \in Used(layers', obj) => heap'[o] = h[o]
           /\ o \notin Used(layers', obj) => heap'[o] = Blank
  BY <1>4, <1>5, CollectorSpares
<1>8. QED
  BY <1>1, <1>3, <1>4, <1>6, <1>7

\* A call that returns or raises leaves its locals empty.
LEMMA FinishClears ==
  ASSUME TypeOK, NEW t \in Threads, Finish(t)
  PROVE  /\ pc' \in [Threads -> PCs] /\ op' \in [Threads -> Ops] /\ inn' \in [Threads -> Paths]
         /\ out' \in [Threads -> Names] /\ src' \in [Threads -> Sources \cup {NoJob}]
         /\ obj' \in [Threads -> Objects \cup {NoObject}]
         /\ arg' \in [Threads -> Wheres] /\ whr' \in [Threads -> Wheres]
         /\ res' \in [Threads -> Jobs \cup {NoJob}] /\ late' \in SUBSET Threads
         /\ pc'[t] = "idle" /\ op'[t] = "read" /\ src'[t] = NoJob /\ obj'[t] = NoObject
         /\ \A u \in Threads \ {t} :
              /\ pc'[u] = pc[u] /\ op'[u] = op[u] /\ inn'[u] = inn[u] /\ out'[u] = out[u]
              /\ src'[u] = src[u] /\ obj'[u] = obj[u] /\ arg'[u] = arg[u]
              /\ whr'[u] = whr[u] /\ res'[u] = res[u]
<1>1. Blank.source \in Paths /\ (CHOOSE n \in Names : TRUE) \in Names
  BY HeapAssumption DEF Blank, Paths
<1>2. NoWhere \in Wheres /\ "idle" \in PCs /\ "read" \in Ops
  BY DEF Wheres, PCs, Ops
<1>3. QED
  BY <1>1, <1>2 DEF TypeOK, Finish, Goto

Vettings == {"made", "counted", "uncounted"}

\* A committed selection changes one object, and neither its dataset nor its output.
LEMMA CommitWrites ==
  ASSUME NEW h \in [Objects -> Alias], NEW o \in Objects, NEW w \in Wheres,
         NEW own \in Vettings,
         NEW g, g = [h EXCEPT ![o].where = w, ![o].vetted = own]
  PROVE  /\ g \in [Objects -> Alias]
         /\ g[o].source = h[o].source /\ g[o].output = h[o].output
         /\ g[o].where = w /\ g[o].vetted = own
         /\ \A x \in Objects \ {o} : g[x] = h[x]
<1> DEFINE h1 == [h EXCEPT ![o].where = w]
<1>1. /\ h1 \in [Objects -> Alias]
      /\ h1[o].source = h[o].source /\ h1[o].output = h[o].output /\ h1[o].where = w
      /\ \A x \in Objects \ {o} : h1[x] = h[x]
  BY DEF Alias
<1>2. g = [h1 EXCEPT ![o].vetted = own]
  OBVIOUS
<1> HIDE DEF h1
<1>3. QED
  <2>1. \A x \in Objects \ {o} : g[x] = h1[x]
    BY <1>1, <1>2
  <2>2. g[o] = [h1[o] EXCEPT !.vetted = own]
    BY <1>1, <1>2
  <2>3. h1[o] \in Alias
    BY <1>1
  <2>4. /\ g[o] \in Alias /\ g[o].source = h1[o].source /\ g[o].output = h1[o].output
        /\ g[o].where = h1[o].where /\ g[o].vetted = own
    BY <2>2, <2>3 DEF Alias, Vettings
  <2>5. g \in [Objects -> Alias]
    BY <1>1, <1>2, <2>1, <2>2, <2>4
  <2>6. QED
    BY <1>1, <2>1, <2>4, <2>5

LEMMA CommitLeaves ==
  ASSUME TypeOK, CallsInPlace, NEW t \in Threads, CountAndCommit(t)
  PROVE  /\ obj[t] \in Objects
         /\ heap' \in [Objects -> Alias]
         /\ \A o \in Objects :
              \/ heap'[o] = Blank /\ o \notin Used(layers, obj')
              \/ heap'[o] = heap[o] /\ o # obj[t]
              \/ /\ o = obj[t]
                 /\ heap'[o].source = heap[o].source /\ heap'[o].output = heap[o].output
                 /\ src[t] \in {heap[o].source, heap[o].output} => heap'[o].vetted # "uncounted"
<1> DEFINE own == IF src[t] \in {heap[obj[t]].source, heap[obj[t]].output}
                  THEN "counted" ELSE "uncounted"
           h == [heap EXCEPT ![obj[t]].where = whr[t], ![obj[t]].vetted = own]
<1>1. obj[t] \in Objects /\ heap \in [Objects -> Alias] /\ whr[t] \in Wheres
      /\ own \in Vettings
  BY DEF Vettings, CountAndCommit, CallsInPlace, TypeOK
<1>2. heap' = Collected(h, layers, obj')
  BY DEF CountAndCommit
<1> HIDE DEF own
<1>3. /\ h \in [Objects -> Alias]
      /\ h[obj[t]].source = heap[obj[t]].source /\ h[obj[t]].output = heap[obj[t]].output
      /\ h[obj[t]].vetted = own
      /\ \A x \in Objects \ {obj[t]} : h[x] = heap[x]
  <2>1. h = [heap EXCEPT ![obj[t]].where = whr[t], ![obj[t]].vetted = own]
    OBVIOUS
  <2> HIDE DEF h
  <2>2. QED
    BY <1>1, <2>1, CommitWrites
<1> HIDE DEF h
<1>4. /\ heap' \in [Objects -> Alias]
      /\ \A o \in Objects :
           /\ o \in Used(layers, obj') => heap'[o] = h[o]
           /\ o \notin Used(layers, obj') => heap'[o] = Blank
  BY <1>2, <1>3, CollectorSpares
<1>5. QED
  BY <1>1, <1>3, <1>4 DEF own

\* Both calls that bind a name do it by register_layer, with what they kept.
LEMMA Registration ==
  ASSUME TypeOK, CallsInPlace, NEW t \in Threads, Bind(t) \/ RegisterLayer(t)
  PROVE  /\ obj[t] = NoObject /\ pc[t] \in {"binding", "registering"}
         /\ \E alias \in Alias :
              /\ alias.output = res[t] /\ alias.vetted # "uncounted"
              /\ Register(t, alias) /\ Finish(t) /\ UNCHANGED <<overwrite, done>>
<1>1. CASE Bind(t)
  <2> DEFINE alias == [source |-> res[t], output |-> res[t], where |-> NoWhere, vetted |-> "made"]
  <2>1. alias \in Alias /\ obj[t] = NoObject /\ pc[t] = "binding"
    BY <1>1 DEF Bind, CallsInPlace, TypeOK, Alias, Sources, Wheres
  <2>2. alias.output = res[t] /\ alias.vetted # "uncounted"
    OBVIOUS
  <2>3. Register(t, alias) /\ Finish(t) /\ UNCHANGED <<overwrite, done>>
    BY <1>1 DEF Bind
  <2> HIDE DEF alias
  <2>4. QED
    BY <2>1, <2>2, <2>3
<1>2. CASE RegisterLayer(t)
  <2> DEFINE alias == [source |-> src[t], output |-> res[t], where |-> arg[t], vetted |-> "made"]
  <2>1. alias \in Alias /\ obj[t] = NoObject /\ pc[t] = "registering"
    BY <1>2 DEF RegisterLayer, CallsInPlace, TypeOK, Alias
  <2>2. alias.output = res[t] /\ alias.vetted # "uncounted"
    OBVIOUS
  <2>3. Register(t, alias) /\ Finish(t) /\ UNCHANGED <<overwrite, done>>
    BY <1>2 DEF RegisterLayer
  <2> HIDE DEF alias
  <2>4. QED
    BY <2>1, <2>2, <2>3
<1>3. QED
  BY <1>1, <1>2

LEMMA AliasTypesInit == Init => TypeOK /\ CallsInPlace
<1>1. Blank.source \in Paths /\ (CHOOSE n \in Names : TRUE) \in Names
  BY HeapAssumption DEF Blank, Paths
<1>2. QED
  BY <1>1, BlankIsAlias DEF Init, TypeOK, CallsInPlace, PCs, Ops, Wheres

LEMMA AliasTypesStep == TypeOK /\ CallsInPlace /\ [Next]_vars => TypeOK' /\ CallsInPlace'
<1> SUFFICES ASSUME TypeOK, CallsInPlace, [Next]_vars PROVE TypeOK' /\ CallsInPlace'
  OBVIOUS
<1>1. ASSUME NEW t \in Threads, NEW p \in Paths, NEW n \in Names, BeginTool(t, p, n)
      PROVE  TypeOK' /\ CallsInPlace'
  BY <1>1 DEF BeginTool, Start, Goto, TypeOK, CallsInPlace, PCs, Ops
<1>2. ASSUME NEW t \in Threads, NEW p \in Paths, NEW n \in Names, BeginMake(t, p, n)
      PROVE  TypeOK' /\ CallsInPlace'
  BY <1>2 DEF BeginMake, Start, Goto, TypeOK, CallsInPlace, PCs, Ops
<1>3. ASSUME NEW t \in Threads, NEW n \in Names, BeginSelect(t, n)
      PROVE  TypeOK' /\ CallsInPlace'
  <2>1. heap[layers[n]] \in Alias /\ n \in Paths
    BY <1>3 DEF BeginSelect, TypeOK, Paths
  <2>2. whr' \in [Threads -> Wheres]
    BY <1>3, <2>1, SelectionsAreClauses DEF BeginSelect, TypeOK, Alias
  <2>3. src' \in [Threads -> Sources \cup {NoJob}]
    BY <1>3, <2>1 DEF BeginSelect, TypeOK, Alias, Sources
  <2>4. NoWhere \in Wheres
    BY DEF Wheres
  <2>5. QED
    BY <1>3, <2>1, <2>2, <2>3, <2>4 DEF BeginSelect, Start, Goto, TypeOK, CallsInPlace, PCs, Ops
<1>4. ASSUME NEW t \in Threads, NEW p \in Paths, BeginRead(t, p)
      PROVE  TypeOK' /\ CallsInPlace'
  BY <1>4 DEF BeginRead, Start, Goto, TypeOK, CallsInPlace, PCs, Ops, LayerOf
<1>5. ASSUME NEW t \in Threads, Mark(t) PROVE TypeOK' /\ CallsInPlace'
  BY <1>5 DEF Mark, locals, Goto, TypeOK, CallsInPlace, PCs
<1>6. ASSUME NEW t \in Threads, ResolveAlias(t) PROVE TypeOK' /\ CallsInPlace'
  <2>1. LayerOf(inn[t]) # NoObject => heap[LayerOf(inn[t])].source \in Sources
    BY DEF TypeOK, LayerOf, Alias
  <2>2. QED
    BY <1>6, <2>1 DEF ResolveAlias, Goto, TypeOK, CallsInPlace, PCs
<1>7. ASSUME NEW t \in Threads, ResolvePath(t) PROVE TypeOK' /\ CallsInPlace'
  BY <1>7 DEF ResolvePath, Goto, TypeOK, CallsInPlace, PCs, Sources
<1>8. ASSUME NEW t \in Threads, ReadOutput(t) PROVE TypeOK' /\ CallsInPlace'
  <2>1. heap[LayerOf(inn[t])].output \in Sources \cup {NoJob}
    BY <1>8 DEF ReadOutput, TypeOK, LayerOf, Alias, Sources
  <2>2. QED
    BY <1>8, <2>1 DEF ReadOutput, Goto, TypeOK, CallsInPlace, PCs
<1>9. ASSUME NEW t \in Threads, TakeSelection(t) PROVE TypeOK' /\ CallsInPlace'
  <2>1. Selection(t) \in Wheres /\ arg[t] \in Wheres
    BY DEF Selection, TypeOK, LayerOf, Alias, Wheres
  <2>2. Combine(Selection(t), arg[t]) \in Wheres
    BY <2>1, CombinedAreClauses
  <2>3. QED
    BY <1>9, <2>2 DEF TakeSelection, Goto, TypeOK, CallsInPlace, PCs
<1>10. ASSUME NEW t \in Threads, Reserve(t) PROVE TypeOK' /\ CallsInPlace'
  BY <1>10 DEF Reserve, NewJob, Goto, TypeOK, CallsInPlace, PCs
<1>11. ASSUME NEW t \in Threads, JobSucceeds(t) PROVE TypeOK' /\ CallsInPlace'
  BY <1>11 DEF JobSucceeds, locals, Goto, TypeOK, CallsInPlace, PCs
<1>12. ASSUME NEW t \in Threads, Bind(t) \/ RegisterLayer(t) PROVE TypeOK' /\ CallsInPlace'
  <2>1. PICK alias \in Alias : Register(t, alias) /\ Finish(t) /\ UNCHANGED <<overwrite, done>>
    BY <1>12, Registration
  <2>2. obj[t] = NoObject
    BY <1>12, Registration
  <2>3. layers' \in [Names -> Objects \cup {NoObject}] /\ heap' \in [Objects -> Alias]
    BY <2>1, <2>2, RegisterBinds
  <2>4. unbound' \subseteq unbound /\ asked' \subseteq asked /\ stable' \subseteq stable
    BY <2>1 DEF Register
  <2>5. QED
    BY <2>1, <2>3, <2>4, FinishClears DEF TypeOK, CallsInPlace
<1>13. ASSUME NEW t \in Threads, ReadInput(t) PROVE TypeOK' /\ CallsInPlace'
  <2>1. LayerOf(inn[t]) # NoObject => heap[LayerOf(inn[t])].output \in Jobs \cup {NoJob}
    BY DEF TypeOK, LayerOf, Alias
  <2>2. QED
    BY <1>13, <2>1 DEF ReadInput, Goto, TypeOK, CallsInPlace, PCs
<1>14. ASSUME NEW t \in Threads, CountAndCommit(t) PROVE TypeOK' /\ CallsInPlace'
  <2>1. Finish(t) /\ UNCHANGED <<layers, unbound, overwrite, done, asked>> /\ stable' \subseteq stable
    BY <1>14 DEF CountAndCommit
  <2>2. heap' \in [Objects -> Alias]
    BY <1>14, CommitLeaves
  <2>3. QED
    BY <2>1, <2>2, FinishClears DEF TypeOK, CallsInPlace
<1>15. ASSUME NEW t \in Threads, ReadRows(t) PROVE TypeOK' /\ CallsInPlace'
  <2> DEFINE alias == IF obj[t] = NoObject THEN Blank ELSE heap[obj[t]]
  <2>1. alias \in Alias
    BY BlankIsAlias DEF TypeOK
  <2>where. Combine(alias.where, arg[t]) \in Wheres
    <3> HIDE DEF alias
    <3>1. alias.where \in Wheres /\ arg[t] \in Wheres
      BY <2>1 DEF Alias, TypeOK
    <3>2. QED
      BY <3>1, CombinedAreClauses
  <2>2. /\ src' = [src EXCEPT ![t] = IF alias.output # NoJob THEN alias.output ELSE @]
        /\ whr' = [whr EXCEPT ![t] = Combine(alias.where, arg[t])]
    BY <1>15 DEF ReadRows
  <2> HIDE DEF alias
  <2>3. src' \in [Threads -> Sources \cup {NoJob}] /\ whr' \in [Threads -> Wheres]
    BY <2>1, <2>2, <2>where DEF TypeOK, Alias, Sources
  <2>4. heap' \in [Objects -> Alias]
    BY <1>15, CollectorSpares DEF ReadRows, TypeOK
  <2>5. \A u \in Threads \ {t} : src'[u] = src[u]
    BY <2>2 DEF TypeOK
  <2>6. QED
    BY <1>15, <2>3, <2>4, <2>5 DEF ReadRows, Goto, TypeOK, CallsInPlace, PCs
<1>16. ASSUME NEW t \in Threads, CallEnds(t) PROVE TypeOK' /\ CallsInPlace'
  <2>1. heap' \in [Objects -> Alias]
    BY <1>16, CollectorSpares DEF CallEnds, TypeOK
  <2>2. QED
    BY <1>16, <2>1, FinishClears DEF CallEnds, TypeOK, CallsInPlace
<1>17. CASE SetOverwrite
  BY <1>17 DEF SetOverwrite, locals, TypeOK, CallsInPlace
<1>18. CASE Reset
  <2>1. heap' \in [Objects -> Alias]
    BY <1>18, CollectorSpares DEF Reset, TypeOK
  <2>2. QED
    BY <1>18, <2>1 DEF Reset, locals, TypeOK, CallsInPlace
<1>19. CASE UNCHANGED vars
  BY <1>19 DEF vars, locals, TypeOK, CallsInPlace
<1>20. QED
  BY <1>1, <1>2, <1>3, <1>4, <1>5, <1>6, <1>7, <1>8, <1>9, <1>10, <1>11, <1>12, <1>13, <1>14,
     <1>15, <1>16, <1>17, <1>18, <1>19 DEF Next, Begin, Step

\* The names change by one registration, or are dropped.
LEMMA NamesChange ==
  ASSUME TypeOK, CallsInPlace, [Next]_vars
  PROVE  \/ layers' = layers
         \/ layers' = [n \in Names |-> NoObject]
         \/ \E t \in Threads :
              /\ overwrite \/ layers[out[t]] = NoObject
              /\ Free \in Objects /\ Free \notin Used(layers, obj)
              /\ layers'[out[t]] = Free /\ \A n \in Names \ {out[t]} : layers'[n] = layers[n]
<1>1. ASSUME NEW t \in Threads, Bind(t) \/ RegisterLayer(t)
      PROVE  /\ overwrite \/ layers[out[t]] = NoObject
             /\ Free \in Objects /\ Free \notin Used(layers, obj)
             /\ layers'[out[t]] = Free /\ \A n \in Names \ {out[t]} : layers'[n] = layers[n]
  <2>1. PICK alias \in Alias : Register(t, alias)
    BY <1>1, Registration
  <2>2. obj[t] = NoObject
    BY <1>1, Registration
  <2>3. overwrite \/ layers[out[t]] = NoObject
    BY <2>1 DEF Register
  <2>4. QED
    BY <2>1, <2>2, <2>3, RegisterBinds
<1>2. ASSUME NEW t \in Threads, Begin(t) PROVE layers' = layers
  BY <1>2 DEF Begin, BeginTool, BeginMake, BeginSelect, BeginRead
<1>3. ASSUME NEW t \in Threads, Step(t), ~Bind(t), ~RegisterLayer(t) PROVE layers' = layers
  BY <1>3 DEF Step, Mark, ResolveAlias, ResolvePath, ReadOutput, TakeSelection, Reserve, JobSucceeds,
     ReadInput, CountAndCommit, ReadRows, CallEnds
<1>4. CASE Reset
  BY <1>4 DEF Reset
<1>5. CASE SetOverwrite \/ UNCHANGED vars
  BY <1>5 DEF SetOverwrite, vars
<1>6. QED
  BY <1>1, <1>2, <1>3, <1>4, <1>5 DEF Next

\* A call keeps the object it looked up when it began, under the name it looked up.
LEMMA CallsKeepObjects ==
  ASSUME TypeOK, CallsInPlace, [Next]_vars, NEW u \in Threads
  PROVE  \/ obj'[u] = NoObject
         \/ obj'[u] = obj[u] /\ inn'[u] = inn[u]
         \/ layers' = layers /\ inn'[u] \in Names /\ obj'[u] = layers[inn'[u]]
<1>1. ASSUME NEW t \in Threads, Begin(t)
      PROVE  \/ obj'[u] = NoObject
             \/ obj'[u] = obj[u] /\ inn'[u] = inn[u]
             \/ layers' = layers /\ inn'[u] \in Names /\ obj'[u] = layers[inn'[u]]
  <2>1. obj[t] = NoObject
    BY <1>1 DEF Begin, BeginTool, BeginMake, BeginSelect, BeginRead, Start, CallsInPlace
  <2>2. CASE \E p \in Paths, n \in Names : BeginTool(t, p, n) \/ BeginMake(t, p, n)
    BY <2>1, <2>2 DEF BeginTool, BeginMake, Start, TypeOK
  <2>3. CASE \E n \in Names : BeginSelect(t, n)
    BY <2>3 DEF BeginSelect, Start, TypeOK
  <2>4. CASE \E p \in Paths : BeginRead(t, p)
    BY <2>4 DEF BeginRead, Start, LayerOf, TypeOK
  <2>5. QED
    BY <1>1, <2>2, <2>3, <2>4 DEF Begin
<1>2. ASSUME NEW t \in Threads, Finish(t)
      PROVE  obj'[u] = NoObject \/ (obj'[u] = obj[u] /\ inn'[u] = inn[u])
  BY <1>2, FinishClears
<1>3. ASSUME NEW t \in Threads, ReadRows(t)
      PROVE  obj'[u] = NoObject \/ (obj'[u] = obj[u] /\ inn'[u] = inn[u])
  BY <1>3 DEF ReadRows, TypeOK
<1>4. ASSUME NEW t \in Threads, Step(t), ~Finish(t), ~ReadRows(t) PROVE obj' = obj /\ inn' = inn
  BY <1>4 DEF Step, Mark, ResolveAlias, ResolvePath, ReadOutput, TakeSelection, Reserve, JobSucceeds,
     Bind, ReadInput, RegisterLayer, CountAndCommit, CallEnds, locals
<1>5. CASE Reset \/ SetOverwrite \/ UNCHANGED vars
  BY <1>5 DEF Reset, SetOverwrite, vars, locals
<1>6. QED
  BY <1>1, <1>2, <1>3, <1>4, <1>5 DEF Next

\* No object is bound to two names; a call's object is bound to no other name than
\* the one the call was given.
OneNameEach ==
  /\ \A n, m \in Names : layers[n] = layers[m] /\ layers[n] # NoObject => n = m
  /\ \A t \in Threads : obj[t] \in Named => inn[t] \in Names /\ layers[inn[t]] = obj[t]

AliasesInv == TypeOK /\ CallsInPlace /\ OneNameEach

LEMMA AliasesInit == Init => AliasesInv
<1>1. Init => OneNameEach
  BY DEF Init, OneNameEach, Named
<1>2. QED
  BY <1>1, AliasTypesInit DEF AliasesInv

LEMMA AliasesStep == AliasesInv /\ [Next]_vars => AliasesInv'
<1> SUFFICES ASSUME AliasesInv, [Next]_vars PROVE AliasesInv'
  OBVIOUS
<1> USE DEF AliasesInv
<1>1. TypeOK' /\ CallsInPlace'
  BY AliasTypesStep
<1>2. CASE layers' = layers
  BY <1>1, <1>2, CallsKeepObjects DEF OneNameEach, Named
<1>3. CASE layers' = [n \in Names |-> NoObject]
  BY <1>1, <1>3 DEF OneNameEach, Named
<1>4. ASSUME NEW t \in Threads,
             Free \in Objects, Free \notin Used(layers, obj), layers' # layers,
             layers'[out[t]] = Free, \A n \in Names \ {out[t]} : layers'[n] = layers[n]
      PROVE  OneNameEach'
  <2>1. out[t] \in Names /\ (\A n \in Names : layers[n] # Free) /\ (\A u \in Threads : obj[u] # Free)
    BY <1>4 DEF TypeOK, Used
  <2>2. \A n, m \in Names : layers'[n] = layers'[m] /\ layers'[n] # NoObject => n = m
    BY <1>4, <2>1 DEF OneNameEach
  <2>3. ASSUME NEW u \in Threads, NEW m \in Names, layers'[m] = obj'[u], obj'[u] # NoObject
        PROVE  inn'[u] \in Names /\ layers'[inn'[u]] = obj'[u]
    <3>1. obj'[u] = obj[u] /\ inn'[u] = inn[u]
      BY <1>4, <2>3, CallsKeepObjects
    <3>2. m # out[t] /\ layers[m] = obj[u]
      BY <1>4, <2>1, <2>3, <3>1
    <3>3. inn[u] \in Names /\ layers[inn[u]] = obj[u]
      BY <2>3, <3>1, <3>2 DEF OneNameEach, Named
    <3>4. inn[u] = m
      BY <2>3, <3>1, <3>2, <3>3 DEF OneNameEach
    <3>5. QED
      BY <2>3, <3>1, <3>4
  <2>4. QED
    BY <2>2, <2>3 DEF OneNameEach, Named
<1>5. QED
  BY <1>1, <1>2, <1>3, <1>4, NamesChange

\* In any session: with env.overwriteOutput off an alias stays until the session is
\* reset, whatever tools, layers and jobs compete for its name.  (register_layer)
THEOREM AliasesAreNotReplaced == Spec => OverwriteProtected
<1>1. AliasesInv /\ [Next]_vars =>
        [\A n \in Names :
           (~overwrite /\ layers[n] # NoObject /\ layers'[n] # NoObject) => layers'[n] = layers[n]]_vars
  BY NamesChange DEF AliasesInv
<1>2. QED
  BY AliasesInit, AliasesStep, <1>1, PTL DEF Spec, OverwriteProtected

\* An output is of a job that has succeeded as soon as a call is about to bind it.
OutputsAreDone ==
  /\ \A o \in Objects : heap[o].output \in done \cup {NoJob}
  /\ \A t \in Threads : pc[t] \in {"binding", "registering"} => res[t] \in done \cup {NoJob}

LEMMA OutputsStep == AliasesInv /\ OutputsAreDone /\ [Next]_vars => OutputsAreDone'
<1> SUFFICES ASSUME AliasesInv, OutputsAreDone, [Next]_vars PROVE OutputsAreDone'
  OBVIOUS
<1> USE DEF AliasesInv
<1>1. ASSUME NEW t \in Threads, Bind(t) \/ RegisterLayer(t) PROVE OutputsAreDone'
  <2>1. PICK alias \in Alias :
          /\ alias.output = res[t]
          /\ Register(t, alias) /\ Finish(t) /\ UNCHANGED <<overwrite, done>>
    BY <1>1, Registration
  <2>2. obj[t] = NoObject /\ res[t] \in done \cup {NoJob}
    BY <1>1, Registration DEF OutputsAreDone
  <2>3. \A o \in Objects : heap'[o] \in {heap[o], Blank, alias}
    BY <2>1, <2>2, RegisterBinds
  <2>4. \A o \in Objects : heap'[o].output \in done' \cup {NoJob}
    BY <2>1, <2>2, <2>3, BlankIsAlias DEF OutputsAreDone
  <2>5. QED
    BY <2>1, <2>4, FinishClears DEF OutputsAreDone
<1>2. ASSUME NEW t \in Threads, CountAndCommit(t) PROVE OutputsAreDone'
  <2>1. \A o \in Objects : heap'[o].output \in {heap[o].output, NoJob}
    BY <1>2, CommitLeaves, BlankIsAlias
  <2>2. Finish(t) /\ done' = done
    BY <1>2 DEF CountAndCommit
  <2>3. QED
    BY <2>1, <2>2, FinishClears DEF OutputsAreDone
<1>3. ASSUME \E ls, os : heap' = Collected(heap, ls, os), done' = done,
             \A t \in Threads : pc'[t] \in {"binding", "registering"} => pc'[t] = pc[t] /\ res'[t] = res[t]
      PROVE  OutputsAreDone'
  <2>1. \A o \in Objects : heap'[o] \in {heap[o], Blank}
    BY <1>3, CollectorSpares DEF TypeOK
  <2>2. QED
    BY <1>3, <2>1, BlankIsAlias DEF OutputsAreDone
<1>4. ASSUME NEW t \in Threads, ReadRows(t) PROVE OutputsAreDone'
  BY <1>3, <1>4 DEF ReadRows, Goto, TypeOK
<1>5. ASSUME NEW t \in Threads, CallEnds(t) PROVE OutputsAreDone'
  BY <1>3, <1>5, FinishClears DEF CallEnds
<1>6. CASE Reset
  BY <1>3, <1>6 DEF Reset, locals
<1>7. ASSUME NEW t \in Threads, ReadInput(t) PROVE OutputsAreDone'
  <2>1. LayerOf(inn[t]) \in Objects \cup {NoObject}
    BY DEF LayerOf, TypeOK
  <2>2. res'[t] \in done \cup {NoJob}
    BY <1>7, <2>1 DEF ReadInput, TypeOK, OutputsAreDone
  <2>3. QED
    BY <1>7, <2>2 DEF ReadInput, Goto, TypeOK, OutputsAreDone
<1>8. ASSUME NEW t \in Threads, JobSucceeds(t) PROVE OutputsAreDone'
  BY <1>8 DEF JobSucceeds, locals, Goto, TypeOK, OutputsAreDone
<1>9. ASSUME NEW t \in Threads, Begin(t) PROVE OutputsAreDone'
  BY <1>9 DEF Begin, BeginTool, BeginMake, BeginSelect, BeginRead, Goto, TypeOK, OutputsAreDone
<1>10. ASSUME NEW t \in Threads, Mark(t) \/ ResolveAlias(t) \/ ResolvePath(t) \/ ReadOutput(t) \/ TakeSelection(t)
       PROVE  OutputsAreDone'
  BY <1>10 DEF Mark, ResolveAlias, ResolvePath, ReadOutput, TakeSelection, locals, Goto, TypeOK, OutputsAreDone
<1>11. ASSUME NEW t \in Threads, Reserve(t) PROVE OutputsAreDone'
  BY <1>11 DEF Reserve, Goto, TypeOK, OutputsAreDone
<1>12. CASE SetOverwrite \/ UNCHANGED vars
  BY <1>12 DEF SetOverwrite, vars, locals, OutputsAreDone
<1>13. QED
  BY <1>1, <1>2, <1>4, <1>5, <1>6, <1>7, <1>8, <1>9, <1>10, <1>11, <1>12 DEF Next, Step

\* The outputs asked for have no alias and are marked, and a call that was given one
\* and went on undisturbed has got nothing for it.
AskedAreMarked ==
  /\ asked \subseteq unbound
  /\ \A n \in asked : layers[n] = NoObject
  /\ \A t \in late \cap stable : inn[t] \in asked
  /\ NotImaginary

LEMMA AskedStep == AliasesInv /\ AskedAreMarked /\ [Next]_vars => AskedAreMarked'
<1> SUFFICES ASSUME AliasesInv, AskedAreMarked, [Next]_vars PROVE AskedAreMarked'
  OBVIOUS
<1> USE DEF AliasesInv, AskedAreMarked, NotImaginary
<1>1. ASSUME NEW t \in Threads, Bind(t) \/ RegisterLayer(t) PROVE AskedAreMarked'
  <2>1. PICK alias \in Alias : Register(t, alias) /\ Finish(t)
    BY <1>1, Registration
  <2>2. obj[t] = NoObject
    BY <1>1, Registration
  <2>3. \A n \in Names \ {out[t]} : layers'[n] = layers[n]
    BY <2>1, <2>2, RegisterBinds
  <2>4. /\ unbound' = unbound \ {out[t]} /\ asked' = asked \ {out[t]}
        /\ stable' = stable \ {u \in Threads : u = t \/ inn[u] = out[t]}
        /\ late' = late \ {t}
    BY <2>1 DEF Register, Finish
  <2>5. \A u \in Threads \ {t} : inn'[u] = inn[u] /\ src'[u] = src[u]
    BY <2>1, FinishClears
  <2>6. QED
    BY <2>3, <2>4, <2>5 DEF TypeOK
<1>2. ASSUME NEW t \in Threads, CountAndCommit(t) \/ CallEnds(t) PROVE AskedAreMarked'
  <2>1. /\ Finish(t) /\ UNCHANGED <<layers, unbound, asked>>
        /\ stable' \subseteq stable
    BY <1>2 DEF CountAndCommit, CallEnds
  <2>2. late' = late \ {t}
    BY <2>1 DEF Finish
  <2>3. \A u \in Threads \ {t} : inn'[u] = inn[u] /\ src'[u] = src[u]
    BY <2>1, FinishClears
  <2>4. QED
    BY <2>1, <2>2, <2>3 DEF TypeOK
<1>3. ASSUME NEW t \in Threads, Begin(t) PROVE AskedAreMarked'
  <2>0. NoWhere \in Wheres
    BY DEF Wheres
  <2>1. PICK o \in Ops, p \in Paths, w \in Wheres :
          /\ Start(t, o, p, w) /\ UNCHANGED <<layers, unbound, asked>>
          /\ \/ src' = src
             \/ /\ p \in Names /\ layers[p] # NoObject
                /\ \A u \in Threads \ {t} : src'[u] = src[u]
    BY <1>3, <2>0 DEF Begin, BeginTool, BeginMake, BeginSelect, BeginRead, TypeOK, Ops, Paths
  <2>2. /\ inn'[t] = p /\ late' = IF p \in asked THEN late \cup {t} ELSE late \ {t}
        /\ stable' = stable \cup {t} /\ src[t] = NoJob
        /\ \A u \in Threads \ {t} : inn'[u] = inn[u]
    BY <2>1 DEF Start, TypeOK, CallsInPlace
  <2>3. p # NoJob
    BY HeapAssumption DEF Paths
  <2>4. QED
    BY <2>1, <2>2, <2>3 DEF TypeOK
<1>4. ASSUME NEW t \in Threads, Mark(t) PROVE AskedAreMarked'
  BY <1>4 DEF Mark, locals, TypeOK
<1>5. ASSUME NEW t \in Threads, ResolveAlias(t) \/ ReadOutput(t) PROVE AskedAreMarked'
  <2>1. \/ src' = src
        \/ LayerOf(inn[t]) # NoObject /\ \A u \in Threads \ {t} : src'[u] = src[u]
    BY <1>5 DEF ResolveAlias, ReadOutput, TypeOK
  <2>2. UNCHANGED <<inn, layers, unbound, asked, late, stable>>
    BY <1>5 DEF ResolveAlias, ReadOutput
  <2>3. QED
    BY <2>1, <2>2 DEF TypeOK, LayerOf
<1>6. ASSUME NEW t \in Threads, ResolvePath(t) PROVE AskedAreMarked'
  BY <1>6 DEF ResolvePath, TypeOK
<1>7. ASSUME NEW t \in Threads, ReadRows(t) PROVE AskedAreMarked'
  <2> DEFINE alias == IF obj[t] = NoObject THEN Blank ELSE heap[obj[t]]
  <2>1. alias.output \in Jobs \cup {NoJob}
    BY BlankIsAlias DEF TypeOK, Alias
  <2>2. /\ src' = [src EXCEPT ![t] = IF alias.output # NoJob THEN alias.output ELSE @]
        /\ UNCHANGED <<inn, layers, unbound, asked, late, stable>>
    BY <1>7 DEF ReadRows
  <2> HIDE DEF alias
  <2>3. /\ src'[t] \in Jobs \/ src'[t] = src[t]
        /\ \A u \in Threads \ {t} : src'[u] = src[u]
    BY <2>1, <2>2 DEF TypeOK
  <2>4. inn[t] \notin Jobs
    BY HeapAssumption DEF TypeOK, Paths
  <2>5. QED
    BY <2>2, <2>3, <2>4 DEF TypeOK
<1>8. CASE Reset
  BY <1>8 DEF Reset
<1>9. ASSUME UNCHANGED <<inn, src, layers, unbound, asked, late, stable>> PROVE AskedAreMarked'
  BY <1>9
<1>10. ASSUME NEW t \in Threads, TakeSelection(t) \/ Reserve(t) \/ JobSucceeds(t) \/ ReadInput(t)
       PROVE  AskedAreMarked'
  BY <1>9, <1>10 DEF TakeSelection, Reserve, JobSucceeds, ReadInput, locals
<1>11. CASE SetOverwrite \/ UNCHANGED vars
  BY <1>9, <1>11 DEF SetOverwrite, vars, locals
<1>12. QED
  BY <1>1, <1>2, <1>3, <1>4, <1>5, <1>6, <1>7, <1>8, <1>10, <1>11 DEF Next, Step

\* In any session: no name of the session stands for a job that has not succeeded,
\* and an output that was asked for and not bound is taken for nothing.  (_bind_output,
\* mark_unbound_output, resolve)
THEOREM NamesStandForRealOutputs == Spec => []OnlyRealOutputs
<1>1. Init => OutputsAreDone /\ AskedAreMarked
  BY BlankIsAlias DEF Init, OutputsAreDone, AskedAreMarked, NotImaginary
<1>2. AliasesInv /\ OutputsAreDone /\ AskedAreMarked => OnlyRealOutputs
  BY DEF AliasesInv, TypeOK, OutputsAreDone, AskedAreMarked, OnlyRealOutputs, Named
<1>3. QED
  BY AliasesInit, AliasesStep, OutputsStep, AskedStep, <1>1, <1>2, PTL DEF Spec

\* What a registration, a commit and the end of a call do to the named layers: they
\* keep what other calls see of them.
LEMMA RegistrationKeeps ==
  ASSUME AliasesInv, NEW t \in Threads, Bind(t) \/ RegisterLayer(t)
  PROVE  /\ layers'[out[t]] = Free /\ heap'[Free].vetted # "uncounted"
         /\ \A n \in Names \ {out[t]} :
              layers'[n] = layers[n] /\ (layers[n] # NoObject => heap'[layers[n]] = heap[layers[n]])
         /\ \A u \in Threads : obj[u] # Free
         /\ stable' = stable \ {u \in Threads : u = t \/ inn[u] = out[t]}
         /\ Finish(t)
<1> USE DEF AliasesInv
<1>1. PICK alias \in Alias : alias.vetted # "uncounted" /\ Register(t, alias) /\ Finish(t)
  BY Registration
<1>2. obj[t] = NoObject
  BY Registration
<1>3. /\ Free \in Objects /\ Free \notin Used(layers, obj)
      /\ layers'[out[t]] = Free /\ \A n \in Names \ {out[t]} : layers'[n] = layers[n]
      /\ heap'[Free] = alias
      /\ \A o \in Objects \ {Free} :
           heap'[o] = heap[o] \/ (heap'[o] = Blank /\ o \notin Used(layers', obj))
  BY <1>1, <1>2, RegisterBinds
<1>4. ASSUME NEW n \in Names \ {out[t]}, layers[n] # NoObject
      PROVE  heap'[layers[n]] = heap[layers[n]]
  <2>1. layers[n] \in Objects /\ layers[n] # Free /\ layers[n] \in Used(layers', obj)
    BY <1>3, <1>4 DEF TypeOK, Used
  <2>2. QED
    BY <1>3, <2>1
<1>5. \A u \in Threads : obj[u] # Free
  BY <1>3 DEF Used
<1>6. stable' = stable \ {u \in Threads : u = t \/ inn[u] = out[t]}
  BY <1>1 DEF Register
<1>7. QED
  BY <1>1, <1>3, <1>4, <1>5, <1>6

LEMMA CollectionKeeps ==
  ASSUME AliasesInv, NEW os, heap' = Collected(heap, layers, os), NEW o \in Named
  PROVE  heap'[o] = heap[o]
BY CollectorSpares DEF AliasesInv, TypeOK, Used, Named

LEMMA CommitKeeps ==
  ASSUME AliasesInv, NEW t \in Threads, CountAndCommit(t), NEW o \in Named
  PROVE  /\ heap'[o].source = heap[o].source /\ heap'[o].output = heap[o].output
         /\ o # obj[t] => heap'[o] = heap[o]
         /\ o = obj[t] /\ src[t] \in {heap[o].source, heap[o].output} =>
              heap'[o].vetted # "uncounted"
<1>1. o \in Objects /\ o \in Used(layers, obj')
  BY DEF AliasesInv, TypeOK, Used, Named
<1>2. QED
  BY <1>1, CommitLeaves DEF AliasesInv

\* A selection is only written to a layer that the call has counted, by way of the
\* layer's name if it need be: as long as the layer has a name, that name is its.
VettedInv ==
  /\ SelectionsVetted
  /\ \A t \in Threads :
       /\ pc[t] = "unaliased" => obj[t] \notin Named
       /\ op[t] = "select" /\ pc[t] = "resolved" /\ obj[t] \in Named =>
            src[t] \in {heap[obj[t]].source, heap[obj[t]].output}

LEMMA VettedStep == AliasesInv /\ VettedInv /\ [Next]_vars => VettedInv'
<1> SUFFICES ASSUME AliasesInv, VettedInv, [Next]_vars PROVE VettedInv'
  OBVIOUS
<1> USE DEF AliasesInv, VettedInv, SelectionsVetted
<1>1. ASSUME NEW t \in Threads, Bind(t) \/ RegisterLayer(t) PROVE VettedInv'
  <2> HIDE DEF AliasesInv
  <2>1. \A n \in Names : layers'[n] # NoObject => heap'[layers'[n]].vetted # "uncounted"
    BY <1>1, RegistrationKeeps DEF Named
  <2>2. ASSUME NEW u \in Threads, obj[u] \in Named'
        PROVE  obj[u] \in Named /\ heap'[obj[u]] = heap[obj[u]]
    BY <1>1, <2>2, RegistrationKeeps DEF Named
  <2>3. Finish(t) /\ TypeOK
    BY <1>1, RegistrationKeeps DEF AliasesInv
  <2>4. ASSUME NEW u \in Threads
        PROVE  /\ pc'[u] = "unaliased" => obj'[u] \notin Named'
               /\ op'[u] = "select" /\ pc'[u] = "resolved" /\ obj'[u] \in Named' =>
                    src'[u] \in {heap'[obj'[u]].source, heap'[obj'[u]].output}
    BY <2>2, <2>3, FinishClears
  <2>5. QED
    BY <2>1, <2>4 DEF Named
<1>2. ASSUME NEW t \in Threads, CountAndCommit(t) PROVE VettedInv'
  <2>1. Finish(t) /\ layers' = layers /\ pc[t] = "resolved" /\ op[t] = "select"
    BY <1>2 DEF CountAndCommit
  <2>2. Named' = Named
    BY <2>1 DEF Named
  <2>3. ASSUME NEW o \in Named PROVE heap'[o].vetted # "uncounted"
    <3>1. CASE o = obj[t]
      <4>1. src[t] \in {heap[o].source, heap[o].output}
        BY <2>1, <3>1
      <4>2. QED
        BY <1>2, <3>1, <4>1, CommitKeeps
    <3>2. CASE o # obj[t]
      BY <1>2, <3>2, CommitKeeps
    <3>3. QED
      BY <3>1, <3>2
  <2>4. \A o \in Named : heap'[o].source = heap[o].source /\ heap'[o].output = heap[o].output
    BY <1>2, CommitKeeps
  <2>5. QED
    BY <2>1, <2>2, <2>3, <2>4, FinishClears
<1>3. ASSUME NEW t \in Threads, CallEnds(t) PROVE VettedInv'
  <2>1. Finish(t) /\ layers' = layers /\ \A o \in Named : heap'[o] = heap[o]
    BY <1>3, CollectionKeeps DEF CallEnds
  <2>2. Named' = Named
    BY <2>1 DEF Named
  <2>3. QED
    BY <2>1, <2>2, FinishClears
<1>4. ASSUME NEW t \in Threads, ReadRows(t) PROVE VettedInv'
  <2>1. /\ layers' = layers /\ (\A o \in Named : heap'[o] = heap[o]) /\ op' = op
        /\ pc'[t] = "reading"
        /\ \A u \in Threads \ {t} : pc'[u] = pc[u] /\ src'[u] = src[u] /\ obj'[u] = obj[u]
    BY <1>4, CollectionKeeps DEF ReadRows, Goto, TypeOK
  <2>2. Named' = Named
    BY <2>1 DEF Named
  <2>3. QED
    BY <2>1, <2>2
<1>5. CASE Reset
  BY <1>5 DEF Reset, Named
<1>6. ASSUME layers' = layers, heap' = heap, NEW t \in Threads,
             \A u \in Threads \ {t} : pc'[u] = pc[u] /\ op'[u] = op[u] /\ src'[u] = src[u] /\ obj'[u] = obj[u],
             pc'[t] = "unaliased" => obj'[t] \notin Named,
             op'[t] = "select" /\ pc'[t] = "resolved" /\ obj'[t] \in Named =>
               src'[t] \in {heap[obj'[t]].source, heap[obj'[t]].output}
      PROVE  VettedInv'
  BY <1>6 DEF Named
<1>7. ASSUME NEW t \in Threads, Begin(t) PROVE VettedInv'
  <2>1. ASSUME NEW n \in Names, BeginSelect(t, n) PROVE VettedInv'
    BY <1>6, <2>1 DEF BeginSelect, Start, Goto, TypeOK
  <2>2. CASE \A n \in Names : ~BeginSelect(t, n)
    BY <1>6, <1>7, <2>2 DEF Begin, BeginTool, BeginMake, BeginRead, Start, Goto, TypeOK
  <2>3. QED
    BY <2>1, <2>2
<1>8. ASSUME NEW t \in Threads, ResolveAlias(t) PROVE VettedInv'
  <2>1. CASE LayerOf(inn[t]) = NoObject
    BY <1>6, <1>8, <2>1 DEF ResolveAlias, Goto, TypeOK, OneNameEach, LayerOf, Named
  <2>2. CASE LayerOf(inn[t]) # NoObject
    BY <1>6, <1>8, <2>2 DEF ResolveAlias, Goto, TypeOK, OneNameEach, LayerOf, Named
  <2>3. QED
    BY <2>1, <2>2
<1>9. ASSUME NEW t \in Threads, ResolvePath(t) PROVE VettedInv'
  BY <1>6, <1>9 DEF ResolvePath, Goto, TypeOK
<1>10. ASSUME NEW t \in Threads,
              Mark(t) \/ ReadOutput(t) \/ TakeSelection(t) \/ Reserve(t) \/ JobSucceeds(t) \/ ReadInput(t)
       PROVE  VettedInv'
  BY <1>6, <1>10
     DEF Mark, ReadOutput, TakeSelection, Reserve, JobSucceeds, ReadInput, locals, Goto, TypeOK
<1>11. CASE SetOverwrite \/ UNCHANGED vars
  BY <1>11 DEF SetOverwrite, vars, locals, Named
<1>12. QED
  BY <1>1, <1>2, <1>3, <1>4, <1>5, <1>7, <1>8, <1>9, <1>10, <1>11 DEF Next, Step

\* What a call that went on undisturbed has taken from its input is still what the
\* session would give it: a tool, the dataset and then the rows selected that meet its
\* own clause; a reader, the alias and then its dataset and such rows.
WorksOn(t) ==
  LayerOf(inn[t]) # NoObject =>
    src[t] \in {heap[LayerOf(inn[t])].source, heap[LayerOf(inn[t])].output}

Undisturbed(t) ==
  /\ pc[t] # "idle"
  /\ pc[t] = "unaliased" => LayerOf(inn[t]) = NoObject
  /\ op[t] = "tool" /\ pc[t] \in {"resolved", "dissolving", "reserving", "running"} => WorksOn(t)
  /\ op[t] = "read" /\ pc[t] \in {"resolved", "reading"} => WorksOn(t)
  /\ pc[t] \in {"reserving", "running", "reading"} => whr[t] = Combine(Selection(t), arg[t])
  /\ op[t] = "read" /\ pc[t] \in {"resolving", "unaliased", "resolved"} => obj[t] = LayerOf(inn[t])

StableInv == \A t \in stable : Undisturbed(t)

\* A call sees the same layer as before, whatever another call has done.
LEMMA OthersDoNotDisturb ==
  ASSUME TypeOK, NEW u \in Threads, Undisturbed(u),
         pc'[u] = pc[u], op'[u] = op[u], inn'[u] = inn[u], src'[u] = src[u], obj'[u] = obj[u],
         arg'[u] = arg[u], whr'[u] = whr[u],
         inn[u] \in Names =>
           (/\ layers'[inn[u]] = layers[inn[u]]
            /\ layers[inn[u]] # NoObject => heap'[layers[inn[u]]] = heap[layers[inn[u]]])
  PROVE  Undisturbed(u)'
BY DEF Undisturbed, WorksOn, Selection, LayerOf

LEMMA StableStep == AliasesInv /\ StableInv /\ [Next]_vars => StableInv'
<1> SUFFICES ASSUME AliasesInv, StableInv, [Next]_vars PROVE StableInv'
  OBVIOUS
<1>types. TypeOK /\ CallsInPlace
  BY DEF AliasesInv
<1>1. ASSUME NEW t \in Threads, Bind(t) \/ RegisterLayer(t) PROVE StableInv'
  <2>1. ASSUME NEW u \in stable' PROVE Undisturbed(u)'
    <3>1. u \in stable /\ u \in Threads \ {t} /\ inn[u] # out[t]
      BY <1>1, <1>types, <2>1, RegistrationKeeps DEF TypeOK
    <3>2. inn[u] \in Names =>
            (/\ layers'[inn[u]] = layers[inn[u]]
             /\ layers[inn[u]] # NoObject => heap'[layers[inn[u]]] = heap[layers[inn[u]]])
      BY <1>1, <3>1, RegistrationKeeps
    <3>3. Finish(t)
      BY <1>1, RegistrationKeeps
    <3>4. QED
      BY <1>types, <3>1, <3>2, <3>3, FinishClears, OthersDoNotDisturb DEF StableInv
  <2>2. QED
    BY <2>1 DEF StableInv
<1>2. ASSUME NEW t \in Threads, CountAndCommit(t) PROVE StableInv'
  <2>1. ASSUME NEW u \in stable' PROVE Undisturbed(u)'
    <3>1. /\ u \in stable /\ u \in Threads \ {t} /\ LayerOf(inn[u]) # obj[t]
          /\ layers' = layers /\ Finish(t)
      BY <1>2, <1>types, <2>1 DEF CountAndCommit, TypeOK
    <3>2. ASSUME inn[u] \in Names, layers[inn[u]] # NoObject
          PROVE  heap'[layers[inn[u]]] = heap[layers[inn[u]]]
      BY <1>2, <3>1, <3>2, CommitKeeps DEF LayerOf, Named
    <3>3. QED
      BY <1>types, <3>1, <3>2, FinishClears, OthersDoNotDisturb DEF StableInv
  <2>2. QED
    BY <2>1 DEF StableInv
<1>3. ASSUME NEW t \in Threads, CallEnds(t) PROVE StableInv'
  <2>1. ASSUME NEW u \in stable' PROVE Undisturbed(u)'
    <3>1. /\ u \in stable /\ u \in Threads \ {t} /\ layers' = layers /\ Finish(t)
          /\ heap' = Collected(heap, layers, obj')
      BY <1>3, <1>types, <2>1 DEF CallEnds, TypeOK
    <3>2. \A o \in Named : heap'[o] = heap[o]
      BY <3>1, CollectionKeeps
    <3>3. QED
      BY <1>types, <3>1, <3>2, FinishClears, OthersDoNotDisturb DEF StableInv, Named
  <2>2. QED
    BY <2>1 DEF StableInv
<1>4. ASSUME NEW t \in Threads, ReadRows(t) PROVE StableInv'
  <2>1. /\ layers' = layers /\ inn' = inn /\ stable' = stable /\ op' = op /\ arg' = arg
        /\ heap' = Collected(heap, layers, obj')
        /\ pc[t] = "resolved" /\ op[t] = "read" /\ pc'[t] = "reading"
        /\ \A u \in Threads \ {t} :
             pc'[u] = pc[u] /\ src'[u] = src[u] /\ obj'[u] = obj[u] /\ whr'[u] = whr[u]
    BY <1>4, <1>types DEF ReadRows, Goto, TypeOK
  <2>2. \A o \in Named : heap'[o] = heap[o]
    BY <2>1, CollectionKeeps
  <2>3. ASSUME NEW u \in stable, u # t PROVE Undisturbed(u)'
    BY <1>types, <2>1, <2>2, <2>3, OthersDoNotDisturb DEF StableInv, Named, TypeOK
  <2>4. ASSUME t \in stable PROVE Undisturbed(t)'
    <3> DEFINE alias == IF obj[t] = NoObject THEN Blank ELSE heap[obj[t]]
    <3>1. obj[t] = LayerOf(inn[t]) /\ WorksOn(t)
      BY <2>1, <2>4 DEF StableInv, Undisturbed
    <3>2. /\ whr'[t] = Combine(alias.where, arg[t])
          /\ src'[t] = IF alias.output # NoJob THEN alias.output ELSE src[t]
      BY <1>4, <1>types DEF ReadRows, TypeOK
    <3>3. LayerOf(inn[t])' = LayerOf(inn[t])
      BY <2>1 DEF LayerOf
    <3>4. LayerOf(inn[t]) # NoObject =>
            alias = heap[LayerOf(inn[t])] /\ heap'[LayerOf(inn[t])] = heap[LayerOf(inn[t])]
      BY <2>2, <3>1 DEF LayerOf, Named
    <3>5. LayerOf(inn[t]) = NoObject => alias.where = NoWhere
      BY <3>1, BlankIsAlias
    <3> HIDE DEF alias
    <3>6. WorksOn(t)'
      BY <3>1, <3>2, <3>3, <3>4 DEF WorksOn
    <3>7. whr'[t] = Combine(Selection(t), arg[t])'
      BY <2>1, <3>2, <3>3, <3>4, <3>5 DEF Selection, Combine
    <3>8. QED
      BY <2>1, <3>6, <3>7 DEF Undisturbed
  <2>5. QED
    BY <2>1, <2>3, <2>4 DEF StableInv
<1>5. CASE Reset
  BY <1>5 DEF Reset, StableInv
\* The rest leaves the session as it is, but for what is asked for, and one call goes on.
<1>6. ASSUME layers' = layers, heap' = heap, NEW t \in Threads, stable' \subseteq stable \cup {t},
             \A u \in Threads \ {t} : /\ pc'[u] = pc[u] /\ op'[u] = op[u] /\ inn'[u] = inn[u]
                                    /\ src'[u] = src[u] /\ obj'[u] = obj[u]
                                    /\ arg'[u] = arg[u] /\ whr'[u] = whr[u],
             t \in stable' => Undisturbed(t)'
      PROVE  StableInv'
  BY <1>types, <1>6, OthersDoNotDisturb DEF StableInv, TypeOK
<1>7. ASSUME NEW t \in Threads, Begin(t) PROVE StableInv'
  <2>1. /\ UNCHANGED <<layers, heap>> /\ stable' = stable \cup {t}
        /\ \A u \in Threads \ {t} : /\ pc'[u] = pc[u] /\ op'[u] = op[u] /\ inn'[u] = inn[u]
                                   /\ src'[u] = src[u] /\ obj'[u] = obj[u]
                                   /\ arg'[u] = arg[u] /\ whr'[u] = whr[u]
    BY <1>7, <1>types DEF Begin, BeginTool, BeginMake, BeginSelect, BeginRead, Start, Goto, TypeOK
  <2>2. /\ pc'[t] \in {"marking", "resolving"} \/ (pc'[t] = "resolved" /\ op'[t] = "select")
        /\ op'[t] = "read" => obj'[t] = LayerOf(inn'[t])
    BY <1>7, <1>types DEF Begin, BeginTool, BeginMake, BeginSelect, BeginRead, Start, Goto, TypeOK
  <2>3. Undisturbed(t)'
    BY <2>1, <2>2 DEF Undisturbed, LayerOf
  <2>4. QED
    BY <1>6, <2>1, <2>3
<1>8. ASSUME NEW t \in Threads, ResolveAlias(t) PROVE StableInv'
  <2>1. /\ pc[t] = "resolving" /\ UNCHANGED <<op, inn, obj, arg, layers, heap, stable>>
        /\ IF LayerOf(inn[t]) = NoObject THEN pc'[t] = "unaliased"
           ELSE pc'[t] = "resolved" /\ src'[t] = heap[LayerOf(inn[t])].source
        /\ \A u \in Threads \ {t} : pc'[u] = pc[u] /\ src'[u] = src[u] /\ whr'[u] = whr[u]
    BY <1>8, <1>types DEF ResolveAlias, Goto, TypeOK
  <2>2. t \in stable => Undisturbed(t)'
    BY <2>1 DEF StableInv, Undisturbed, WorksOn, LayerOf
  <2>3. QED
    BY <1>6, <2>1, <2>2
<1>9. ASSUME NEW t \in Threads, ResolvePath(t) PROVE StableInv'
  <2>1. /\ pc[t] = "unaliased" /\ UNCHANGED <<op, inn, obj, arg, layers, heap, stable>> /\ pc'[t] = "resolved"
        /\ \A u \in Threads \ {t} : pc'[u] = pc[u] /\ src'[u] = src[u] /\ whr'[u] = whr[u]
    BY <1>9, <1>types DEF ResolvePath, Goto, TypeOK
  <2>2. t \in stable => Undisturbed(t)'
    BY <2>1 DEF StableInv, Undisturbed, WorksOn, LayerOf
  <2>3. QED
    BY <1>6, <2>1, <2>2
<1>10. ASSUME NEW t \in Threads, ReadOutput(t) PROVE StableInv'
  <2>1. /\ op[t] = "tool" /\ UNCHANGED <<op, inn, obj, arg, layers, heap, stable>> /\ pc'[t] = "dissolving"
        /\ src'[t] = heap[LayerOf(inn[t])].output
        /\ \A u \in Threads \ {t} : pc'[u] = pc[u] /\ src'[u] = src[u] /\ whr'[u] = whr[u]
    BY <1>10, <1>types DEF ReadOutput, Goto, TypeOK
  <2>2. t \in stable => Undisturbed(t)'
    BY <2>1 DEF Undisturbed, WorksOn, LayerOf
  <2>3. QED
    BY <1>6, <2>1, <2>2
<1>11. ASSUME NEW t \in Threads, TakeSelection(t) PROVE StableInv'
  <2>1. /\ op[t] = "tool" /\ pc[t] \in {"dissolving", "resolved"}
        /\ UNCHANGED <<op, inn, src, obj, arg, layers, heap, stable>>
        /\ pc'[t] = "reserving" /\ whr'[t] = Combine(Selection(t), arg[t])
        /\ \A u \in Threads \ {t} : pc'[u] = pc[u] /\ src'[u] = src[u] /\ whr'[u] = whr[u]
    BY <1>11, <1>types DEF TakeSelection, Goto, TypeOK
  <2>2. t \in stable => Undisturbed(t)'
    BY <2>1 DEF StableInv, Undisturbed, WorksOn, LayerOf, Selection
  <2>3. QED
    BY <1>6, <2>1, <2>2
<1>12. ASSUME NEW t \in Threads, Reserve(t) PROVE StableInv'
  <2>1. /\ pc[t] = "reserving" /\ op[t] = "tool" /\ pc'[t] = "running"
        /\ UNCHANGED <<op, inn, src, obj, arg, whr, layers, heap, stable>>
        /\ \A u \in Threads \ {t} : pc'[u] = pc[u]
    BY <1>12, <1>types DEF Reserve, Goto, TypeOK, CallsInPlace
  <2>2. t \in stable => Undisturbed(t)'
    BY <2>1 DEF StableInv, Undisturbed, WorksOn, LayerOf, Selection
  <2>3. QED
    BY <1>6, <2>1, <2>2
<1>13. ASSUME NEW t \in Threads, Mark(t) \/ JobSucceeds(t) \/ ReadInput(t) PROVE StableInv'
  <2>1. /\ UNCHANGED <<op, inn, src, obj, arg, whr, layers, heap, stable>>
        /\ \/ pc'[t] \in {"binding", "registering"}
           \/ pc'[t] = "resolving" /\ op[t] = "tool"
        /\ \A u \in Threads \ {t} : pc'[u] = pc[u]
    BY <1>13, <1>types DEF Mark, JobSucceeds, ReadInput, locals, Goto, TypeOK, CallsInPlace
  <2>2. Undisturbed(t)'
    BY <2>1 DEF Undisturbed
  <2>3. QED
    BY <1>6, <2>1, <2>2
<1>14. CASE SetOverwrite \/ UNCHANGED vars
  <2>1. UNCHANGED <<pc, locals, layers, heap, stable>>
    BY <1>14 DEF SetOverwrite, vars
  <2>2. QED
    BY <1>types, <2>1, OthersDoNotDisturb DEF StableInv, TypeOK, locals
<1>15. QED
  BY <1>1, <1>2, <1>3, <1>4, <1>5, <1>7, <1>8, <1>9, <1>10, <1>11, <1>12, <1>13, <1>14 DEF Next, Step

\* In any session: a layer's selection, beyond the clause the layer was made with, has
\* been accepted by the server for that layer's dataset, and a tool or a reader whose
\* input was left alone works on that dataset and on exactly the rows selected there
\* that meet its own clause.  (SelectLayerByAttribute, _selection_where,
\* _combine_where, _client_source)
THEOREM SelectionsReachTheirWork == Spec => []SelectionReachesWork
<1>1. Init => VettedInv /\ StableInv
  BY DEF Init, VettedInv, SelectionsVetted, StableInv, Named
<1>2. AliasesInv /\ VettedInv /\ StableInv => SelectionReachesWork
  <2>1. SUFFICES ASSUME TypeOK, CallsInPlace, VettedInv, StableInv, NEW t \in stable,
                        pc[t] \in {"running", "reading"}
                 PROVE  whr[t] = Combine(Selection(t), arg[t]) /\ WorksOn(t)
    BY DEF AliasesInv, VettedInv, SelectionReachesWork, WorksOn
  <2>2. Undisturbed(t)
    BY <2>1 DEF StableInv
  <2>3. (pc[t] = "running" => op[t] = "tool") /\ (pc[t] = "reading" => op[t] = "read")
    BY <2>1 DEF TypeOK, CallsInPlace
  <2>4. QED
    BY <2>1, <2>2, <2>3 DEF Undisturbed
<1>3. QED
  BY AliasesInit, AliasesStep, VettedStep, StableStep, <1>1, <1>2, PTL DEF Spec
=============================================================================

-------------------------- MODULE SessionClients --------------------------
(***************************************************************************)
(* The clients of a HonuaSession: how honua_gp builds, caches and drops     *)
(* them while threads use them and the settings change.                     *)
(*                                                                         *)
(* Each accessor holds the session's lock, and so does configure; a thread  *)
(* keeps the client an accessor gave it for the length of a tool call.  The *)
(* processes client is a view of the data client.  Nothing closes a client  *)
(* that has been dropped.                                                   *)
(***************************************************************************)
EXTENDS Naturals, FiniteSets

CONSTANTS
  Users,         \* threads that run tools
  Handles,       \* identities for the clients that may be made: a bound
  MaxChanges,    \* bound on configure, reset and injection
  Nobody         \* no client

ASSUME SessionAssumption == MaxChanges \in Nat /\ Nobody \notin Handles

VARIABLES
  settings,    \* base_url, the credential, and allow_insecure_http
  environ,     \* HONUA_BASE_URL, HONUA_API_KEY, HONUA_ALLOW_INSECURE_HTTP
  cached,      \* _client, _admin, _processes
  made,        \* the clients made: what they were built from
  held,        \* the client a thread works with
  changes      \* changes of the session so far

sessionVars == <<settings, environ, cached, made, held, changes>>

\* An https URL, http on this host, http elsewhere.
Urls == {"https", "loopback", "http"}
NoSettings == [url |-> "", key |-> "", insecure |-> FALSE]
Unmade == [kind |-> "none", from |-> NoSettings, over |-> Nobody]
Supplied == [kind |-> "supplied", from |-> NoSettings, over |-> Nobody]

\* The environment has a key only with a URL.
Environments ==
  [url : Urls \cup {""}, key : {"", "env"}, insecure : BOOLEAN]

SessionInit ==
  /\ settings = NoSettings
  /\ environ \in Environments
  /\ cached = [client |-> Nobody, admin |-> Nobody, processes |-> Nobody]
  /\ made = [h \in Handles |-> Unmade]
  /\ held = [u \in Users |-> Nobody]
  /\ changes = 0

-----------------------------------------------------------------------------
(* Settings. *)

NoClients == [client |-> Nobody, admin |-> Nobody, processes |-> Nobody]

\* Mutant: the view of the dropped data client stays.
ConfigureKeepingView(url, key, insecure) ==
  LET new == [url |-> url, key |-> key, insecure |-> insecure]
  IN /\ settings' = new
     /\ cached' = IF new # settings THEN [NoClients EXCEPT !.processes = cached.processes] ELSE cached

\* configure: an argument that is not given leaves its setting alone, and a
\* setting that changes drops every cached client.
Configure(url, key, insecure) ==
  LET new == [url |-> url, key |-> key, insecure |-> insecure]
  IN /\ settings' = new
     /\ cached' = IF new # settings THEN NoClients ELSE cached

ConfigureCall ==
  /\ changes < MaxChanges /\ changes' = changes + 1
  /\ \E url \in Urls \cup {settings.url}, key \in {"a", settings.key},
        insecure \in BOOLEAN : Configure(url, key, insecure)
  /\ UNCHANGED <<environ, made, held>>

\* configure with a client, an admin client or a processes client of the caller's.
Inject(h) ==
  /\ changes < MaxChanges /\ changes' = changes + 1
  /\ made[h] = Unmade
  /\ \E kind \in {"client", "admin", "processes"} :
       /\ made' = [made EXCEPT ![h] = Supplied]
       /\ cached' = IF kind = "client" THEN [cached EXCEPT !.client = h, !.processes = Nobody]
                    ELSE [cached EXCEPT ![kind] = h]
  /\ UNCHANGED <<settings, environ, held>>

ResetClients ==
  /\ changes < MaxChanges /\ changes' = changes + 1
  /\ settings' = NoSettings
  /\ cached' = NoClients
  /\ UNCHANGED <<environ, made, held>>

-----------------------------------------------------------------------------
(* Accessors. *)

\* _bootstrap_from_env: the environment fills in what the program has left unset.
Bootstrapped ==
  IF settings.url # "" \/ environ.url = "" THEN settings
  ELSE [settings EXCEPT !.url = environ.url,
                        !.key = IF @ = "" THEN environ.key ELSE @]

\* ensure_secure_credential_transport
Secure(s) ==
  s.key = "" \/ s.insecure \/ s.url # "http" \/ environ.insecure

Built(kind, s) == [kind |-> kind, from |-> s, over |-> Nobody]

\* Mutant: the credentials are checked before the environment is read.
TakeBuiltCheckedFirst(u, kind) ==
  \/ /\ cached[kind] # Nobody
     /\ held' = [held EXCEPT ![u] = cached[kind]]
     /\ UNCHANGED <<settings, cached, made>>
  \/ /\ cached[kind] = Nobody
     /\ settings' = Bootstrapped
     /\ IF Bootstrapped.url # "" /\ Secure(settings)
          THEN \E h \in Handles :
                 /\ made[h] = Unmade
                 /\ made' = [made EXCEPT ![h] = Built(kind, Bootstrapped)]
                 /\ cached' = [cached EXCEPT ![kind] = h]
                 /\ held' = [held EXCEPT ![u] = h]
          ELSE UNCHANGED <<cached, made, held>>

\* client and admin_client: the cached one, or a new one from the settings.
TakeBuilt(u, kind) ==
  \/ /\ cached[kind] # Nobody
     /\ held' = [held EXCEPT ![u] = cached[kind]]
     /\ UNCHANGED <<settings, cached, made>>
  \/ /\ cached[kind] = Nobody
     /\ settings' = Bootstrapped
     /\ IF Bootstrapped.url # "" /\ Secure(Bootstrapped)
          THEN \E h \in Handles :
                 /\ made[h] = Unmade
                 /\ made' = [made EXCEPT ![h] = Built(kind, Bootstrapped)]
                 /\ cached' = [cached EXCEPT ![kind] = h]
                 /\ held' = [held EXCEPT ![u] = h]
          ELSE UNCHANGED <<cached, made, held>>

\* processes_client: the cached one, or a view of the data client, which is built
\* first if need be.
TakeProcesses(u) ==
  \/ /\ cached.processes # Nobody
     /\ held' = [held EXCEPT ![u] = cached.processes]
     /\ UNCHANGED <<settings, cached, made>>
  \/ /\ cached.processes = Nobody /\ cached.client # Nobody
     /\ \E h \in Handles :
          /\ made[h] = Unmade
          /\ made' = [made EXCEPT ![h] = [kind |-> "processes", over |-> cached.client,
                                          from |-> made[cached.client].from]]
          /\ cached' = [cached EXCEPT !.processes = h]
          /\ held' = [held EXCEPT ![u] = h]
     /\ UNCHANGED settings
  \/ /\ cached.processes = Nobody /\ cached.client = Nobody
     /\ settings' = Bootstrapped
     /\ IF Bootstrapped.url # "" /\ Secure(Bootstrapped)
          THEN \E h, v \in Handles :
                 /\ h # v /\ made[h] = Unmade /\ made[v] = Unmade
                 /\ made' = [made EXCEPT ![h] = Built("client", Bootstrapped),
                                         ![v] = [kind |-> "processes", over |-> h, from |-> Bootstrapped]]
                 /\ cached' = [cached EXCEPT !.client = h, !.processes = v]
                 /\ held' = [held EXCEPT ![u] = v]
          ELSE UNCHANGED <<cached, made, held>>

Take(u) ==
  /\ held[u] = Nobody
  /\ \/ \E kind \in {"client", "admin"} : TakeBuilt(u, kind)
     \/ TakeProcesses(u)
  /\ UNCHANGED <<environ, changes>>

\* The tool returns.
PutDown(u) ==
  /\ held[u] # Nobody
  /\ held' = [held EXCEPT ![u] = Nobody]
  /\ UNCHANGED <<settings, environ, cached, made, changes>>

SessionNext ==
  \/ ConfigureCall \/ ResetClients
  \/ \E h \in Handles : Inject(h)
  \/ \E u \in Users : Take(u) \/ PutDown(u)

SessionSpec == SessionInit /\ [][SessionNext]_sessionVars

-----------------------------------------------------------------------------
(* Properties. *)

\* Whatever order threads configure, inject, reset and ask for clients in, the
\* clients the session keeps belong together: one it built itself was built
\* from the settings in force, and the processes client works over the data
\* client the session hands out.
ClientsFollowSettings ==
  \A kind \in {"client", "admin", "processes"} :
    LET h == cached[kind]
    IN h # Nobody /\ made[h].kind # "supplied" =>
         /\ made[h].from \in {settings, NoSettings}
         /\ kind = "processes" => made[h].over = cached.client

\* No client that would send a credential over plain HTTP to another host is ever
\* built without an opt-in, even if the URL, the credential and the opt-in come
\* from the program and the environment one by one.
CredentialsStayGuarded ==
  \A h \in Handles :
    made[h].from.key # "" /\ made[h].from.url = "http" =>
      made[h].from.insecure \/ environ.insecure
=============================================================================

----------------------- MODULE RemoteUnleashController -----------------------
(***************************************************************************)
(* RemoteUnleashReconciler.Reconcile, one worker per RemoteUnleash, and    *)
(* the migration of legacy admin secrets it ends with.                     *)
(*                                                                         *)
(* A reconcile is cut where other processes can act between two of its     *)
(* reads and writes: validation, the call to the server, and each write of *)
(* the migration (create, repoint, delete).                                *)
(***************************************************************************)
EXTENDS FederatedCluster

NoSecret == [token |-> NoToken, url |-> NoUrl, auth |-> NoNamespace, managed |-> FALSE]

\* What a reconcile remembers: the reference and URL it read last, the secret found there
NoMem == [key |-> NoKey, url |-> NoUrl, secret |-> NoSecret]

Goto(ns, stage) == rpc' = [rpc EXCEPT ![ns] = stage]
Remember(ns, m) == mem' = [mem EXCEPT ![ns] = m]
Wake(ns, due) == woken' = [woken EXCEPT ![ns] = due]

\* The reconcile ends.  It is due again after a success (the periodic requeue), an
\* error (back-off) and a missing secret; not after a refusal.
Done(ns, due) == Goto(ns, "idle") /\ Remember(ns, NoMem) /\ Wake(ns, due)

SetRU(ns, r) == ru' = [ru EXCEPT ![ns] = r]
SetStatus(ns, status) == SetRU(ns, [ru[ns] EXCEPT !.status = status])

otherVars == <<publisherVars, next, bound, handlerVars>>

-----------------------------------------------------------------------------
(* Deletion                                                                *)

\* The object is gone, or its finalizer goes and with it the object.
Finalize(ns) ==
    /\ rpc[ns] = "idle" /\ woken[ns]
    /\ ~Live(ns)
    /\ SetRU(ns, NoRU)
    /\ Done(ns, FALSE)
    /\ UNCHANGED <<otherVars, secrets, disturbed>>

-----------------------------------------------------------------------------
(* Validation                                                              *)

\* The annotation decides; without one, a legacy secret is bound by its name alone.
Authorised(key, ns) ==
    \/ key.home = ns
    \/ /\ key.home = OperatorNamespace
       /\ \/ secrets[key].auth = ns
          \/ secrets[key].auth = NoNamespace /\ AllowLegacyNameBoundSecrets

UrlMatches(key, url) ==
    \/ secrets[key].url = url
    \/ secrets[key].url = NoUrl /\ secrets[key].auth = NoNamespace /\ AllowLegacyNameBoundSecrets

Valid(ns) ==
    LET key == ru[ns].ref
    IN  Authorised(key, ns) /\ UrlMatches(key, ru[ns].url) /\ secrets[key].token # NoToken

\* Adds the finalizer, reads the secret and checks that this RemoteUnleash may use it.
Validate(ns) ==
    /\ rpc[ns] = "idle" /\ woken[ns]
    /\ Live(ns)
    /\ LET finalized == [ru[ns] EXCEPT !.finalizer = TRUE]
           failed == [finalized EXCEPT !.status = "failed"]
           key == ru[ns].ref
       IN  \/ ~Found(key) /\ SetRU(ns, failed) /\ Done(ns, TRUE)
           \/ Found(key) /\ ~Valid(ns) /\ SetRU(ns, failed) /\ Done(ns, FALSE)
           \/ /\ Found(key) /\ Valid(ns)
              /\ SetRU(ns, finalized)
              /\ Goto(ns, "call")
              /\ Remember(ns, [key |-> key, url |-> ru[ns].url, secret |-> secrets[key]])
              /\ UNCHANGED woken
    /\ UNCHANGED <<otherVars, secrets, disturbed>>

-----------------------------------------------------------------------------
(* The call to the server                                                  *)

\* GetInstanceAdminStats, answered by the instance in the management cluster
Accepted(url, token) == unleash.phase = "live" /\ unleash.spec.url = url /\ unleash.token = token

MigrationEnabled == bound /\ AllowLegacyNameBoundSecrets

\* The status goes to the object as it is now; from here on its fresh copy counts.
Connect(ns) ==
    /\ rpc[ns] = "call"
    /\ Present(ns)
    /\ Accepted(mem[ns].url, mem[ns].secret.token)
    /\ SetStatus(ns, "connected")
    /\ IF MigrationEnabled
       THEN /\ Goto(ns, "migrate")
            /\ Remember(ns, [key |-> ru[ns].ref, url |-> ru[ns].url, secret |-> NoSecret])
            /\ UNCHANGED woken
       ELSE Done(ns, TRUE)
    /\ UNCHANGED <<otherVars, secrets, disturbed>>

\* mutant of ConnectFails: not retried
ConnectFailsForGood(ns) ==
    /\ rpc[ns] = "call"
    /\ Present(ns)
    /\ \/ ~Accepted(mem[ns].url, mem[ns].secret.token) /\ UNCHANGED disturbed
       \/ Disturb("outage")
    /\ SetStatus(ns, "disconnected")
    /\ Done(ns, FALSE)
    /\ UNCHANGED <<otherVars, secrets>>
ConnectFails(ns) ==
    /\ rpc[ns] = "call"
    /\ Present(ns)
    /\ \/ ~Accepted(mem[ns].url, mem[ns].secret.token) /\ UNCHANGED disturbed
       \/ Disturb("outage")
    /\ SetStatus(ns, "disconnected")
    /\ Done(ns, TRUE)
    /\ UNCHANGED <<otherVars, secrets>>

\* The status has nowhere to go: the object was deleted meanwhile.
Vanished(ns) ==
    /\ rpc[ns] = "call"
    /\ ~Present(ns)
    /\ Done(ns, TRUE)
    /\ UNCHANGED <<otherVars, clusterVars, disturbed>>

-----------------------------------------------------------------------------
(* Migration of a legacy admin secret                                      *)

AlreadyBound(key, ns) == key.home = OperatorNamespace /\ secrets[key].auth = ns

Migratable(key, ns) ==
    /\ Found(key)
    /\ ~AlreadyBound(key, ns)
    /\ secrets[key].managed
    /\ secrets[key].token # NoToken
    /\ ~ReferencedByOther(key, ns)

\* A secret without URL is stamped if the tenant can read it anyway, and refused
\* otherwise; one with another URL is refused.
Migrate(ns) ==
    /\ rpc[ns] = "migrate"
    /\ LET key == mem[ns].key
           stampable == Migratable(key, ns) /\ secrets[key].url = NoUrl /\ key.home = ns
           copyable == Migratable(key, ns) /\ secrets[key].url = mem[ns].url
       IN  \/ stampable /\ Goto(ns, "stamp")
              /\ Remember(ns, [mem[ns] EXCEPT !.secret = secrets[key]]) /\ UNCHANGED woken
           \/ copyable /\ Goto(ns, "create")
              /\ Remember(ns, [mem[ns] EXCEPT !.secret = secrets[key]]) /\ UNCHANGED woken
           \/ ~stampable /\ ~copyable /\ Done(ns, TRUE)
    /\ UNCHANGED <<otherVars, clusterVars, disturbed>>

\* The secret is still the one that was read (resourceVersion)
Unchanged(ns) == Found(mem[ns].key) /\ secrets[mem[ns].key] = mem[ns].secret

StampUrl(ns) ==
    /\ rpc[ns] = "stamp"
    /\ LET stamped == [mem[ns].secret EXCEPT !.url = mem[ns].url]
       IN  IF Unchanged(ns)
           THEN /\ secrets' = [secrets EXCEPT ![mem[ns].key] = stamped]
                /\ Goto(ns, "create")
                /\ Remember(ns, [mem[ns] EXCEPT !.secret = stamped])
                /\ UNCHANGED woken
           ELSE Done(ns, TRUE) /\ UNCHANGED secrets
    /\ UNCHANGED <<otherVars, ru, disturbed>>

\* StableSecretNonce: the name a republication without a nonce would use too
MigratedKey(ns) == BoundKey(ns, <<mem[ns].url, mem[ns].secret.token>>)
MigratedSecret(ns) == AdminSecret(mem[ns].url, mem[ns].secret.token, ns)

CreateBound(ns) ==
    /\ rpc[ns] = "create"
    /\ LET key == MigratedKey(ns)
       IN  IF Found(key) /\ secrets[key] # MigratedSecret(ns)
           THEN Done(ns, TRUE) /\ UNCHANGED secrets
           ELSE /\ secrets' = PutSecrets({key}, mem[ns].url, mem[ns].secret.token)
                /\ Goto(ns, "repoint") /\ UNCHANGED <<mem, woken>>
    /\ UNCHANGED <<otherVars, ru, disturbed>>

\* A concurrent change of the reference or the URL wins.
Repoint(ns) ==
    /\ rpc[ns] = "repoint"
    /\ IF Present(ns) /\ ru[ns].ref = mem[ns].key /\ ru[ns].url = mem[ns].url
       THEN /\ SetRU(ns, [ru[ns] EXCEPT !.ref = MigratedKey(ns)])
            /\ Goto(ns, "delete") /\ UNCHANGED <<mem, woken>>
       ELSE Done(ns, TRUE) /\ UNCHANGED ru
    /\ UNCHANGED <<otherVars, secrets, disturbed>>

DeleteLegacy(ns) ==
    /\ rpc[ns] = "delete"
    /\ secrets' = IF Unchanged(ns) THEN DropSecrets({mem[ns].key}) ELSE secrets
    /\ Done(ns, TRUE)
    /\ UNCHANGED <<otherVars, ru, disturbed>>

-----------------------------------------------------------------------------
\* A call to the API server fails: the reconcile returns the error and is retried.
ReconcileFails(ns) ==
    /\ rpc[ns] # "idle"
    /\ Disturb("error")
    /\ Done(ns, TRUE)
    /\ UNCHANGED <<otherVars, clusterVars>>

Reconcile(ns) ==
    \/ Finalize(ns) \/ Validate(ns)
    \/ Connect(ns) \/ ConnectFails(ns) \/ Vanished(ns)
    \/ Migrate(ns) \/ StampUrl(ns) \/ CreateBound(ns) \/ Repoint(ns) \/ DeleteLegacy(ns)
    \/ ReconcileFails(ns)
=============================================================================

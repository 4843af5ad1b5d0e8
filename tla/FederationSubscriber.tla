------------------------ MODULE FederationSubscriber ------------------------
(***************************************************************************)
(* The consumer of federation messages: internal/federation/subscriber.go  *)
(* and the handler RemoteUnleashReconciler.FederationSubscribe gives it.   *)
(*                                                                         *)
(* One message is handled at a time.  The handler first examines each      *)
(* namespace (the RemoteUnleash, the secret it names, who refers to that,  *)
(* which others are superseded: reads of their own), then writes in bulk: to retract, RemoteUnleashes then secrets; to       *)
(* provision, secrets, RemoteUnleashes, then superseded secrets.  A bulk   *)
(* write runs in parallel and may fail for some objects, or seem to have   *)
(* failed; then the message is nacked and comes again.                     *)
(***************************************************************************)
EXTENDS FederatedCluster

NoCur == [ns |-> NoNamespace, ref |-> NoKey, ask |-> "nothing"]
Incoming == log[next]

Rest ==
    /\ hpc' = "idle"
    /\ todo' = {}
    /\ cur' = NoCur
    /\ safe' = {}
    /\ stamps' = [ns \in Tenants |-> 0]
    /\ doomed' = {}

Ack == next' = next + 1 /\ Rest
Nack == UNCHANGED next /\ Rest

-----------------------------------------------------------------------------
(* A message arrives                                                       *)

\* Poison, unauthenticated removals, no tenant namespace, no statement about this
\* cluster, a cluster name in another case, an unknown status: acknowledged, no more.
Ignore ==
    /\ hpc = "idle"
    /\ next <= Len(log)
    /\ Nameable(Incoming) \/ Incoming.status = "removed"
    /\ ~Provisions(Incoming) /\ ~Retracts(Incoming)
    /\ Ack
    /\ UNCHANGED <<publisherVars, clusterVars, bound, workerVars, disturbed>>

Take ==
    /\ hpc = "idle"
    /\ next <= Len(log)
    /\ Nameable(Incoming)
    /\ Provisions(Incoming) \/ Retracts(Incoming)
    /\ hpc' = "examining"
    /\ todo' = TenantNamespaces(Incoming)
    /\ UNCHANGED <<cur, safe, stamps, doomed>>
    /\ UNCHANGED <<publisherVars, next, clusterVars, bound, workerVars, disturbed>>

-----------------------------------------------------------------------------
(* Examining a namespace                                                   *)

Secure(url) == url # "http"

\* What the first read alone decides: nothing to retract, a message that is not
\* newer than the one applied, another server, a plaintext URL.
Refused(m, ns) ==
    IF Retracts(m)
    THEN \/ ~Present(ns)
         \/ ru[ns].stamp # 0 /\ next <= ru[ns].stamp
         \/ ru[ns].url # m.url
    ELSE ~Secure(m.url) \/ (Present(ns) /\ ru[ns].url # m.url)

\* Managed secrets of this namespace with the message's token under another key.
\* One that only its name binds stays while a RemoteUnleash refers to it.
SupersededAdminSecrets(m, ns) ==
    {k \in DOMAIN secrets :
        /\ k.home \in {ns, OperatorNamespace}
        /\ k # AdminSecretKey(m, ns)
        /\ secrets[k].managed
        /\ k.home = OperatorNamespace =>
              \/ secrets[k].auth = ns
              \/ secrets[k].auth = NoNamespace /\ ~Referenced(k)
        /\ secrets[k].token = m.token /\ m.token # NoToken}

\* mutants of Stamp: a replayed older message rolls it back; it is never renewed
StampOfMessage(ns) == next
StampKept(ns) == ru[ns].stamp
\* The stamp only moves forward
Stamp(ns) == IF ru[ns].stamp > next THEN ru[ns].stamp ELSE next

Accept(ns, superseded) ==
    /\ safe' = safe \cup {ns}
    /\ doomed' = doomed \cup superseded

ReadRemoteUnleash(ns) ==
    /\ hpc = "examining"
    /\ cur = NoCur
    /\ ns \in todo
    /\ todo' = todo \ {ns}
    /\ \/ /\ Refused(Incoming, ns)
          /\ UNCHANGED <<cur, safe, stamps, doomed>>
       \/ /\ ~Refused(Incoming, ns)
          /\ stamps' = [stamps EXCEPT ![ns] = Stamp(ns)]
          /\ IF Present(ns)
             THEN cur' = [ns |-> ns, ref |-> ru[ns].ref, ask |-> "secret"]
             ELSE cur' = [ns |-> ns, ref |-> NoKey, ask |-> "superseded"]
          /\ UNCHANGED <<safe, doomed>>
    /\ UNCHANGED <<publisherVars, next, clusterVars, bound, hpc, workerVars, disturbed>>

\* mutant of TokensEqual: any secret will do
TokensUnchecked == Found(cur.ref)
\* federationTokensEqual, on the secret the RemoteUnleash named when it was read
TokensEqual == Found(cur.ref) /\ TokenAt(cur.ref) = Incoming.token /\ Incoming.token # NoToken

Ask(question) == cur' = [cur EXCEPT !.ask = question]

\* To retract, a secret that is missing or another token means hands off.
ReadSecretToRetract ==
    /\ Retracts(Incoming)
    /\ cur' = NoCur
    /\ IF TokensEqual
       THEN Accept(cur.ns, {cur.ref})
       ELSE UNCHANGED <<safe, doomed>>

\* To provision, who else refers to it is asked when the message brings another key.
ReadSecretToProvision ==
    /\ Provisions(Incoming)
    /\ Found(cur.ref)
    /\ IF ~TokensEqual THEN cur' = NoCur
       ELSE Ask(IF cur.ref = AdminSecretKey(Incoming, cur.ns) THEN "superseded" ELSE "references")
    /\ UNCHANGED <<safe, doomed>>

ReadSecret ==
    /\ hpc = "examining"
    /\ cur.ask = "secret"
    /\ ReadSecretToRetract \/ ReadSecretToProvision
    /\ UNCHANGED <<publisherVars, next, clusterVars, bound, hpc, todo, stamps, workerVars, disturbed>>

\* The old secret goes when no other RemoteUnleash refers to it.
ReadReferences ==
    /\ hpc = "examining"
    /\ cur.ask = "references"
    /\ Ask("superseded")
    /\ doomed' = IF ReferencedByOther(cur.ref, cur.ns) THEN doomed ELSE doomed \cup {cur.ref}
    /\ UNCHANGED <<publisherVars, next, clusterVars, bound, hpc, todo, safe, stamps, workerVars, disturbed>>

ReadSuperseded ==
    /\ hpc = "examining"
    /\ cur.ask = "superseded"
    /\ cur' = NoCur
    /\ Accept(cur.ns, SupersededAdminSecrets(Incoming, cur.ns))
    /\ UNCHANGED <<publisherVars, next, clusterVars, bound, hpc, todo, stamps, workerVars, disturbed>>

\* mutant of SecretMissing: skipped, as the removal path does
SecretMissingSkipped ==
    /\ hpc = "examining"
    /\ cur.ask = "secret"
    /\ Provisions(Incoming) /\ ~Found(cur.ref)
    /\ cur' = NoCur
    /\ UNCHANGED <<next, hpc, todo, safe, stamps, doomed>>
    /\ UNCHANGED <<publisherVars, clusterVars, bound, workerVars, disturbed>>
\* To provision, a missing secret is an error like any other: the message comes again.
SecretMissing ==
    /\ hpc = "examining"
    /\ cur.ask = "secret"
    /\ Provisions(Incoming) /\ ~Found(cur.ref)
    /\ Nack
    /\ UNCHANGED <<publisherVars, clusterVars, bound, workerVars, disturbed>>

Examined == hpc = "examining" /\ todo = {} /\ cur = NoCur

NothingSafe ==
    /\ Examined
    /\ safe = {}
    /\ Ack
    /\ UNCHANGED <<publisherVars, clusterVars, bound, workerVars, disturbed>>

Proceed(stage) == hpc' = stage /\ UNCHANGED <<next, todo, cur, safe, stamps, doomed>>

\* mutant of PartlyDone: the error is logged and the message acknowledged
PartlyDoneIgnored == Disturb("error") /\ Ack
\* A bulk write did it for some objects only, or lost an answer
PartlyDone == Disturb("error") /\ Nack

-----------------------------------------------------------------------------
(* Retracting                                                              *)

\* Deletion wakes the object's worker, or leaves it nothing to do
RemoveRUs(done) ==
    /\ ru' = [ns \in Tenants |-> IF ns \in done THEN Deleted(ru[ns]) ELSE ru[ns]]
    /\ woken' = [ns \in Tenants |-> IF ns \in done THEN ru[ns].finalizer ELSE woken[ns]]

DeleteRUs ==
    /\ Examined
    /\ Retracts(Incoming) /\ safe # {}
    /\ \/ RemoveRUs(safe) /\ Proceed("deleteSecrets") /\ UNCHANGED disturbed
       \/ \E done \in SUBSET safe : RemoveRUs(done) /\ PartlyDone
    /\ UNCHANGED <<publisherVars, secrets, bound, rpc, mem>>

DeleteSecrets ==
    /\ hpc = "deleteSecrets"
    /\ \/ secrets' = DropSecrets(doomed) /\ Ack /\ UNCHANGED disturbed
       \/ \E done \in SUBSET doomed : secrets' = DropSecrets(done) /\ PartlyDone
    /\ UNCHANGED <<publisherVars, ru, bound, workerVars>>

-----------------------------------------------------------------------------
(* Provisioning                                                            *)

WriteSecretsOf(done) ==
    secrets' = PutSecrets({AdminSecretKey(Incoming, ns) : ns \in done}, Incoming.url, Incoming.token)

\* Namespaces a secret can be created for: its home is there
Writable == {ns \in safe : bound \/ ns \in Existing}

WriteSecrets ==
    /\ Examined
    /\ Provisions(Incoming) /\ safe # {}
    /\ \/ /\ Writable = safe
          /\ WriteSecretsOf(safe) /\ Proceed("writeRUs") /\ UNCHANGED disturbed
       \/ \E done \in SUBSET Writable : WriteSecretsOf(done) /\ PartlyDone
    /\ UNCHANGED <<publisherVars, ru, bound, workerVars>>

\* The home of a secret does not exist: an error, however often it is tried.
NoHomeForSecret ==
    /\ Examined
    /\ Provisions(Incoming) /\ Writable # safe
    /\ WriteSecretsOf(Writable) /\ Nack
    /\ UNCHANGED <<publisherVars, ru, bound, workerVars, disturbed>>

\* The worker is woken by a new object or a changed spec, not by a new annotation
WriteRUsOf(done) ==
    LET key(ns) == AdminSecretKey(Incoming, ns)
    IN  /\ ru' = [ns \in Tenants |->
               IF ns \in done THEN Upserted(ru[ns], key(ns), Incoming.url, stamps[ns]) ELSE ru[ns]]
        /\ woken' = [ns \in Tenants |->
               IF ns \in done THEN ~(Present(ns) /\ ru[ns].deleting) /\ (woken[ns] \/ ru[ns].ref # key(ns))
               ELSE woken[ns]]

\* A namespace that does not exist is skipped.
WriteRUs ==
    /\ hpc = "writeRUs"
    /\ \/ WriteRUsOf(safe \cap Existing) /\ Proceed("cleanup") /\ UNCHANGED disturbed
       \/ \E done \in SUBSET (safe \cap Existing) : WriteRUsOf(done) /\ PartlyDone
    /\ UNCHANGED <<publisherVars, secrets, bound, rpc, mem>>

DeleteSuperseded ==
    /\ hpc = "cleanup"
    /\ \/ secrets' = DropSecrets(doomed) /\ Ack /\ UNCHANGED disturbed
       \/ \E done \in SUBSET doomed : secrets' = DropSecrets(done) /\ PartlyDone
    /\ UNCHANGED <<publisherVars, ru, bound, workerVars>>

-----------------------------------------------------------------------------
\* A read fails: the message comes again.
ReadFails ==
    /\ hpc = "examining"
    /\ Disturb("error")
    /\ Nack
    /\ UNCHANGED <<publisherVars, clusterVars, bound, workerVars>>

\* An acknowledgement is lost: Pub/Sub delivers that message again and, in order,
\* every later one.
Redeliver ==
    /\ hpc = "idle"
    /\ Disturb("redelivery")
    /\ \E i \in 1 .. (next - 1) : next' = i
    /\ UNCHANGED <<publisherVars, clusterVars, bound, handlerVars, workerVars>>

Handle ==
    \/ Ignore \/ Take
    \/ \E ns \in Tenants : ReadRemoteUnleash(ns)
    \/ ReadSecret \/ SecretMissing \/ ReadReferences \/ ReadSuperseded \/ NothingSafe
    \/ DeleteRUs \/ DeleteSecrets
    \/ WriteSecrets \/ NoHomeForSecret \/ WriteRUs \/ DeleteSuperseded
    \/ ReadFails
=============================================================================

------------------------- MODULE Federation_proofs -------------------------
(***************************************************************************)
(* Type correctness of Federation, and that it implements Placement, for   *)
(* any tenants, messages, initial clusters and disturbances.               *)
(***************************************************************************)
EXTENDS Federation, TLAPS

-----------------------------------------------------------------------------
(* What the operators build                                                *)

\* The placeholder for a missing object is a RemoteUnleash like any other.
LEMMA NoRUType == NoRU \in RemoteUnleashes /\ NoKey \in Keys
  BY DEF NoRU, RemoteUnleashes, NoKey, SecretKey, Keys, AnyNonce, AnyUrl, NoUrl, NoNonce

\* Whatever a spec and a token make is a message.
LEMMA MessageType ==
    ASSUME NEW spec \in Specs, NEW token \in Nat, NEW status \in {"provisioned", "removed"}
    PROVE  Message(status, spec, token) \in Messages
  BY DEF Message, Messages, Specs

\* The placeholders of the publisher are a spec and a hash.
LEMMA NoSpecType == NoSpec \in Specs /\ NoHash \in Messages
  <1>1. NoSpec \in Specs
    BY DEF NoSpec, Specs, AnyUrl, NoUrl, NoNonce, Clusters
  <1> QED BY <1>1, MessageType DEF NoHash, InstanceHash, NoToken

\* The key of the secret a message asks for is a key.
LEMMA AdminSecretKeyType ==
    ASSUME NEW m \in Messages, NEW ns \in Tenants
    PROVE  AdminSecretKey(m, ns) \in Keys /\ AdminSecretKey(m, ns).scope = ns
  <1>1. SecretNonce(m) \in AnyNonce
    BY DEF SecretNonce, Messages, AnyNonce
  <1> QED BY <1>1 DEF AdminSecretKey, BoundKey, SecretKey, Keys

\* Writing managed secrets keeps the store a store.
LEMMA PutType ==
    ASSUME SecretStore(secrets), NEW keys \in SUBSET Keys, NEW url \in AnyUrl, NEW token \in Nat
    PROVE  SecretStore(PutSecrets(keys, url, token))
  BY DEF SecretStore, PutSecrets, AdminSecret, AdminSecrets, Keys

\* So does deleting.
LEMMA DropType ==
    ASSUME SecretStore(secrets), NEW keys
    PROVE  SecretStore(DropSecrets(keys))
  BY DEF SecretStore, DropSecrets

\* A deletion leaves the object marked, or nothing; it keeps URL and stamp if any.
LEMMA DeletedType ==
    ASSUME NEW r \in RemoteUnleashes
    PROVE  /\ Deleted(r) \in RemoteUnleashes
           /\ Deleted(r) # NoRU => Deleted(r).url = r.url /\ Deleted(r).stamp = r.stamp /\ r # NoRU
           /\ Deleted(r) # NoRU => Deleted(r).deleting
  BY NoRUType DEF Deleted, RemoteUnleashes, NoRU

\* An upsert writes reference, URL and stamp, or loses a marked object.
LEMMA UpsertedType ==
    ASSUME NEW r \in RemoteUnleashes, NEW key \in Keys, NEW url \in AnyUrl, NEW stamp \in Nat
    PROVE  /\ Upserted(r, key, url, stamp) \in RemoteUnleashes
           /\ \/ r # NoRU /\ r.deleting /\ Upserted(r, key, url, stamp) = NoRU
              \/ /\ Upserted(r, key, url, stamp).url = url
                 /\ Upserted(r, key, url, stamp).stamp = stamp
                 /\ ~Upserted(r, key, url, stamp).deleting
  BY NoRUType DEF Upserted, RemoteUnleashes

-----------------------------------------------------------------------------
(* Type correctness                                                        *)

\* What resting leaves of the handler.
LEMMA RestType ==
    ASSUME Rest
    PROVE  /\ hpc' = "idle"
           /\ todo' = {} /\ safe' = {} /\ doomed' = {}
           /\ cur' = NoCur
           /\ stamps' \in [Tenants -> Nat]
  BY DEF Rest

\* The message at hand, while there is one.
LEMMA IncomingType ==
    ASSUME TypeOK, next <= Len(log)
    PROVE  Incoming \in Messages
  BY DEF TypeOK, Incoming

\* The reads of the handler once it has read a RemoteUnleash: they only answer one
\* question about its namespace and perhaps raise another.
LEMMA Answers ==
    ASSUME TypeOK, ReadSecret \/ ReadReferences \/ ReadSuperseded
    PROVE  /\ UNCHANGED <<publisherVars, next, clusterVars, bound, hpc, todo, stamps, workerVars, disturbed>>
           /\ hpc = "examining" /\ cur # NoCur /\ cur.ns \in Tenants /\ cur.ref \in Keys
           /\ \/ cur' = NoCur
              \/ /\ cur' # NoCur
                 /\ cur' \in [ns : Tenants, ref : Keys, ask : {"secret", "references", "superseded"}]
                 /\ cur'.ns = cur.ns /\ cur'.ref = cur.ref
                 /\ Provisions(Incoming) \/ cur.ask = "references"
           /\ safe' \subseteq safe \cup {cur.ns}
           /\ doomed' \subseteq Keys
  <1>1. hpc = "examining" /\ cur.ask \in {"secret", "references", "superseded"}
    BY DEF ReadSecret, ReadReferences, ReadSuperseded
  <1>2. cur # NoCur
    BY <1>1 DEF NoCur
  <1>3. cur \in [ns : Tenants, ref : Keys, ask : {"secret", "references", "superseded"}] /\ doomed \subseteq Keys
    BY <1>2 DEF TypeOK
  <1>4. ASSUME NEW q \in {"references", "superseded"}, Ask(q)
        PROVE  /\ cur' # NoCur
               /\ cur' \in [ns : Tenants, ref : Keys, ask : {"secret", "references", "superseded"}]
               /\ cur'.ns = cur.ns /\ cur'.ref = cur.ref
    <2>1. cur' = [cur EXCEPT !.ask = q]
      BY <1>4 DEF Ask
    <2>2. cur'.ask = q
      BY <1>3, <2>1
    <2> QED BY <1>3, <2>1, <2>2 DEF NoCur
  <1>5. CASE ReadSecret
    BY <1>1, <1>2, <1>3, <1>4, <1>5 DEF ReadSecret, ReadSecretToRetract, ReadSecretToProvision, Accept
  <1>6. CASE ReadReferences
    BY <1>1, <1>2, <1>3, <1>4, <1>6 DEF ReadReferences
  <1>7. CASE ReadSuperseded
    <2>1. SupersededAdminSecrets(Incoming, cur.ns) \subseteq Keys
      BY DEF SupersededAdminSecrets, TypeOK, SecretStore
    <2> QED BY <1>1, <1>2, <1>3, <1>7, <2>1 DEF ReadSuperseded, Accept
  <1> QED BY <1>5, <1>6, <1>7

\* The publisher's actions.
LEMMA PublisherTypes ==
    ASSUME TypeOK, Owner \/ ReconcileUnleash \/ \E m \in ForeignMessages : OtherPublisher(m)
    PROVE  TypeOK'
  <1> USE ConstantsAssumption DEF subscribingVars, clusterVars, handlerVars, workerVars
  <1> DEFINE Kept ==
        /\ next' = next /\ ru' = ru /\ secrets' = secrets /\ bound' = bound /\ hpc' = hpc
        /\ todo' = todo /\ cur' = cur /\ safe' = safe /\ stamps' = stamps /\ doomed' = doomed
        /\ rpc' = rpc /\ woken' = woken /\ mem' = mem
  <1>1. ASSUME Kept, unleash' \in Unleashes, disturbed' \in 0 .. MaxDisturbances,
               log' = log \/ \E m \in Messages : log' = Append(log, m)
        PROVE  TypeOK'
    <2>1. log' \in Seq(Messages) /\ Len(log') \in Nat /\ Len(log') >= Len(log)
      <3>1. log \in Seq(Messages)
        BY DEF TypeOK
      <3>2. CASE log' = log
        BY <3>1, <3>2
      <3>3. ASSUME NEW m \in Messages, log' = Append(log, m)
            PROVE  log' \in Seq(Messages) /\ Len(log') = Len(log) + 1
        BY <3>1, <3>3
      <3>4. Len(log) \in Nat
        BY <3>1
      <3> QED BY <1>1, <3>2, <3>3, <3>4
    <2>2. next' \in 1 .. (Len(log') + 1) /\ (hpc' # "idle" => next' <= Len(log'))
      <3>1. Len(log) \in Nat
        BY DEF TypeOK
      <3> QED BY <1>1, <2>1, <3>1 DEF TypeOK
    <2>3. SecretStore(secrets')
      BY <1>1 DEF TypeOK
    <2> QED BY <1>1, <2>1, <2>2, <2>3 DEF TypeOK, SecretStore
  <1>2. unleash \in Unleashes /\ disturbed \in 0 .. MaxDisturbances
    BY DEF TypeOK
  <1>3. ASSUME NEW kind, Disturb(kind) PROVE disturbed' \in 0 .. MaxDisturbances
    BY <1>2, <1>3 DEF Disturb
  <1>4. ASSUME NEW spec \in InstanceSpecs, CreateInstance(spec) PROVE TypeOK'
    BY <1>1, <1>2, <1>3, <1>4, NoSpecType DEF CreateInstance, Unleashes, NoToken
  <1>5. ASSUME NEW spec \in InstanceSpecs, EditInstance(spec) PROVE TypeOK'
    BY <1>1, <1>2, <1>3, <1>5 DEF EditInstance, Unleashes
  <1>6. CASE DeleteInstance
    BY <1>1, <1>2, <1>3, <1>6 DEF DeleteInstance, Unleashes
  <1>7. CASE ReconcileSecrets
    BY <1>1, <1>2, <1>7 DEF ReconcileSecrets, Unleashes
  <1>8. CASE Publish
    <2>1. Message("provisioned", unleash.spec, unleash.token) \in Messages
      BY <1>2, MessageType DEF Unleashes
    <2> QED BY <1>1, <1>2, <1>3, <1>8, <2>1 DEF Publish, Send, CurrentHash, InstanceHash, Unleashes
  <1>9. CASE SayGoodbye
    <2>1. Message("removed", unleash.spec, unleash.token) \in Messages
      BY <1>2, MessageType DEF Unleashes
    <2> QED BY <1>1, <1>2, <1>3, <1>9, <2>1 DEF SayGoodbye, Send, Unleashes
  <1>10. CASE FinishDeletion
    BY <1>1, <1>2, <1>10, NoSpecType DEF FinishDeletion, Unleashes, NoToken
  <1>11. CASE DeletionFails
    <2>1. PICK token \in {unleash.token, NoToken} :
             unleash' = [unleash EXCEPT !.phase = "deleting", !.token = token]
      BY <1>11 DEF DeletionFails
    <2>2. token \in Nat
      BY <1>2 DEF Unleashes, NoToken
    <2>3. unleash' \in Unleashes
      BY <1>2, <2>1, <2>2 DEF Unleashes
    <2> QED BY <1>1, <1>3, <1>11, <2>3 DEF DeletionFails
  <1>12. ASSUME NEW m \in ForeignMessages, OtherPublisher(m) PROVE TypeOK'
    BY <1>1, <1>2, <1>3, <1>12 DEF OtherPublisher, Send
  <1> QED
    BY <1>4, <1>5, <1>6, <1>7, <1>8, <1>9, <1>10, <1>11, <1>12 DEF Owner, ReconcileUnleash

\* The handler's actions, restarts included.
LEMMA HandlerTypes ==
    ASSUME TypeOK, Handle \/ Redeliver \/ Crash \/ Redeploy
    PROVE  TypeOK'
  <1> USE ConstantsAssumption DEF publisherVars, clusterVars, handlerVars, workerVars
  <1>1. \A kind : Disturb(kind) => disturbed' \in 0 .. MaxDisturbances
    BY DEF Disturb, TypeOK
  <1>2. CASE Ignore
    BY <1>2, RestType DEF Ignore, Ack, TypeOK, SecretStore
  <1>3. CASE Take
    BY <1>3 DEF Take, TypeOK, SecretStore, TenantNamespaces
  <1>4. ASSUME NEW ns \in Tenants, ReadRemoteUnleash(ns) PROVE TypeOK'
    <2>1. Stamp(ns) \in Nat /\ ru[ns].ref \in Keys /\ stamps \in [Tenants -> Nat]
      BY DEF Stamp, TypeOK, RemoteUnleashes
    <2>2. cur' = NoCur \/ cur' \in [ns : Tenants, ref : Keys, ask : {"secret", "references", "superseded"}]
      BY <1>4, <2>1, NoRUType DEF ReadRemoteUnleash, TypeOK
    <2>3. safe' = safe /\ doomed' = doomed /\ todo' \subseteq todo
      BY <1>4 DEF ReadRemoteUnleash
    <2>4. stamps' \in [Tenants -> Nat]
      <3>1. stamps' = stamps \/ stamps' = [stamps EXCEPT ![ns] = Stamp(ns)]
        BY <1>4 DEF ReadRemoteUnleash
      <3> QED BY <2>1, <3>1
    <2>5. UNCHANGED <<publisherVars, next, clusterVars, bound, hpc, workerVars, disturbed>>
      BY <1>4 DEF ReadRemoteUnleash
    <2> QED BY <2>2, <2>3, <2>4, <2>5 DEF TypeOK, SecretStore
  <1>5. CASE ReadSecret \/ ReadReferences \/ ReadSuperseded
    BY <1>5, Answers DEF TypeOK, SecretStore
  <1>6. CASE SecretMissing
    BY <1>6, RestType DEF SecretMissing, Nack, TypeOK, SecretStore
  <1>7. CASE NothingSafe
    BY <1>7, RestType DEF NothingSafe, Examined, Ack, TypeOK, SecretStore
  <1>8. ASSUME NEW done \in SUBSET Tenants, RemoveRUs(done)
        PROVE  ru' \in [Tenants -> RemoteUnleashes] /\ woken' \in [Tenants -> BOOLEAN]
    BY <1>8, DeletedType DEF RemoveRUs, TypeOK, RemoteUnleashes
  <1>9. CASE DeleteRUs
    <2>1. ru' \in [Tenants -> RemoteUnleashes] /\ woken' \in [Tenants -> BOOLEAN]
      BY <1>8, <1>9 DEF DeleteRUs, TypeOK
    <2> QED BY <1>1, <1>9, <2>1, RestType
            DEF DeleteRUs, Examined, Proceed, PartlyDone, Nack, TypeOK, SecretStore
  <1>10. CASE DeleteSecrets
    <2>1. SecretStore(secrets')
      BY <1>10, DropType DEF DeleteSecrets, TypeOK
    <2> QED BY <1>1, <1>10, <2>1, RestType DEF DeleteSecrets, PartlyDone, Ack, Nack, TypeOK, SecretStore
  <1>11. ASSUME hpc # "idle", NEW done \in SUBSET Tenants, WriteSecretsOf(done)
         PROVE  SecretStore(secrets')
    <2>1. Incoming \in Messages
      BY <1>11, IncomingType DEF TypeOK
    <2>2. {AdminSecretKey(Incoming, ns) : ns \in done} \in SUBSET Keys
      BY <2>1, AdminSecretKeyType
    <2>3. Incoming.url \in AnyUrl /\ Incoming.token \in Nat
      BY <2>1 DEF Messages
    <2> QED BY <1>11, <2>2, <2>3, PutType DEF WriteSecretsOf, TypeOK
  <1>12. CASE WriteSecrets
    <2>1. SecretStore(secrets')
      BY <1>11, <1>12 DEF WriteSecrets, Examined, Writable, TypeOK
    <2> QED BY <1>1, <1>12, <2>1, RestType
            DEF WriteSecrets, Examined, Proceed, PartlyDone, Nack, TypeOK, SecretStore
  <1>13. CASE NoHomeForSecret
    <2>1. SecretStore(secrets')
      BY <1>11, <1>13 DEF NoHomeForSecret, Examined, Writable, TypeOK
    <2> QED BY <1>13, <2>1, RestType DEF NoHomeForSecret, Nack, TypeOK, SecretStore
  <1>14. ASSUME hpc # "idle", NEW done \in SUBSET Tenants, WriteRUsOf(done)
         PROVE  ru' \in [Tenants -> RemoteUnleashes] /\ woken' \in [Tenants -> BOOLEAN]
    <2>1. Incoming \in Messages
      BY <1>14, IncomingType DEF TypeOK
    <2>2. \A ns \in Tenants : AdminSecretKey(Incoming, ns) \in Keys
      BY <2>1, AdminSecretKeyType
    <2>3. \A ns \in Tenants :
             Upserted(ru[ns], AdminSecretKey(Incoming, ns), Incoming.url, stamps[ns]) \in RemoteUnleashes
      BY <2>1, <2>2, UpsertedType DEF TypeOK, Messages
    <2> QED BY <1>14, <2>3 DEF WriteRUsOf, TypeOK, RemoteUnleashes
  <1>15. CASE WriteRUs
    <2>1. ru' \in [Tenants -> RemoteUnleashes] /\ woken' \in [Tenants -> BOOLEAN]
      BY <1>14, <1>15 DEF WriteRUs, TypeOK
    <2> QED BY <1>1, <1>15, <2>1, RestType
            DEF WriteRUs, Proceed, PartlyDone, Nack, TypeOK, SecretStore
  <1>16. CASE DeleteSuperseded
    <2>1. SecretStore(secrets')
      BY <1>16, DropType DEF DeleteSuperseded, TypeOK
    <2> QED BY <1>1, <1>16, <2>1, RestType DEF DeleteSuperseded, PartlyDone, Ack, Nack, TypeOK, SecretStore
  <1>17. CASE ReadFails
    BY <1>1, <1>17, RestType DEF ReadFails, Nack, TypeOK, SecretStore
  <1>18. CASE Redeliver
    BY <1>1, <1>18 DEF Redeliver, TypeOK, SecretStore
  <1>19. CASE Crash \/ Redeploy
    <2>1. NoMem \in [key : Keys, url : AnyUrl, secret : AdminSecrets]
      BY NoRUType DEF NoMem, NoSecret, AdminSecrets, AnyUrl, NoToken
    <2>2. bound' \in BOOLEAN
      BY <1>19 DEF Crash, Redeploy, TypeOK
    <2>3. Restart /\ disturbed' \in 0 .. MaxDisturbances
      BY <1>1, <1>19 DEF Crash, Redeploy
    <2>4. /\ rpc' \in [Tenants -> {"idle", "call", "migrate", "stamp", "create", "repoint", "delete"}]
          /\ mem' \in [Tenants -> [key : Keys, url : AnyUrl, secret : AdminSecrets]]
          /\ woken' \in [Tenants -> BOOLEAN]
      BY <2>1, <2>3 DEF Restart, Present
    <2>5. Rest /\ next' = next /\ unleash' = unleash /\ log' = log /\ ru' = ru /\ secrets' = secrets
      BY <2>3 DEF Restart, Nack
    <2> QED BY <2>2, <2>3, <2>4, <2>5, RestType DEF TypeOK, SecretStore
  <1> QED
    BY <1>2, <1>3, <1>4, <1>5, <1>6, <1>7, <1>9, <1>10, <1>12, <1>13, <1>15, <1>16, <1>17, <1>18,
       <1>19 DEF Handle

\* The actions of a RemoteUnleash's worker.
LEMMA WorkerTypes ==
    ASSUME TypeOK, NEW ns \in Tenants, Reconcile(ns)
    PROVE  TypeOK'
  <1> DEFINE Memories == [key : Keys, url : AnyUrl, secret : AdminSecrets]
             Stages == {"idle", "call", "migrate", "stamp", "create", "repoint", "delete"}
             Worker == /\ rpc' \in [Tenants -> Stages] /\ mem' \in [Tenants -> Memories]
                       /\ woken' \in [Tenants -> BOOLEAN]
  <1>1. ASSUME UNCHANGED otherVars, Worker, ru' \in [Tenants -> RemoteUnleashes],
               SecretStore(secrets'), disturbed' \in 0 .. MaxDisturbances
        PROVE  TypeOK'
    BY <1>1 DEF otherVars, publisherVars, handlerVars, TypeOK, SecretStore
  <1>2. ru \in [Tenants -> RemoteUnleashes] /\ SecretStore(secrets) /\ mem \in [Tenants -> Memories]
    BY DEF TypeOK
  <1>3. rpc \in [Tenants -> Stages] /\ woken \in [Tenants -> BOOLEAN] /\ disturbed \in 0 .. MaxDisturbances
    BY DEF TypeOK
  <1>4. \A kind : Disturb(kind) => disturbed' \in 0 .. MaxDisturbances
    BY <1>3, ConstantsAssumption DEF Disturb
  <1>5. NoSecret \in AdminSecrets /\ NoMem \in Memories
    BY NoRUType DEF NoMem, NoSecret, AdminSecrets, AnyUrl, NoToken
  <1>6. ASSUME NEW due \in BOOLEAN, Done(ns, due) PROVE Worker
    BY <1>2, <1>3, <1>5, <1>6 DEF Done, Goto, Remember, Wake
  <1>7. ASSUME NEW stage \in Stages, NEW m \in Memories, Goto(ns, stage), Remember(ns, m), UNCHANGED woken
        PROVE  Worker
    BY <1>2, <1>3, <1>7 DEF Goto, Remember
  <1>8. ASSUME NEW stage \in Stages, Goto(ns, stage), UNCHANGED <<mem, woken>>
        PROVE  Worker
    BY <1>2, <1>3, <1>8 DEF Goto
  <1>9. ASSUME NEW r \in RemoteUnleashes, SetRU(ns, r) PROVE ru' \in [Tenants -> RemoteUnleashes]
    BY <1>2, <1>9 DEF SetRU
  <1>10. ASSUME NEW status \in {"failed", "connected", "disconnected"}, SetStatus(ns, status)
         PROVE  ru' \in [Tenants -> RemoteUnleashes]
    BY <1>2, <1>9, <1>10 DEF SetStatus, RemoteUnleashes
  <1>11. ASSUME Found(mem[ns].key) PROVE secrets[mem[ns].key] \in AdminSecrets
    BY <1>2, <1>11 DEF Found, SecretStore
  <1>12. MigratedKey(ns) \in Keys
    BY <1>2 DEF MigratedKey, BoundKey, SecretKey, Keys, AnyNonce, AdminSecrets
  <1>13. CASE Finalize(ns)
    BY <1>1, <1>2, <1>3, <1>6, <1>9, <1>13, NoRUType DEF Finalize
  <1>14. CASE Validate(ns)
    <2> DEFINE finalized == [ru[ns] EXCEPT !.finalizer = TRUE]
               failed == [finalized EXCEPT !.status = "failed"]
    <2>1. finalized \in RemoteUnleashes /\ failed \in RemoteUnleashes
      BY <1>2 DEF RemoteUnleashes
    <2>2. ru' \in [Tenants -> RemoteUnleashes]
      BY <1>9, <1>14, <2>1 DEF Validate
    <2>3. Found(ru[ns].ref) =>
            [key |-> ru[ns].ref, url |-> ru[ns].url, secret |-> secrets[ru[ns].ref]] \in Memories
      BY <1>2 DEF Found, SecretStore, RemoteUnleashes
    <2>4. Worker
      BY <1>6, <1>7, <1>14, <2>3 DEF Validate
    <2> QED BY <1>1, <1>2, <1>3, <1>14, <2>2, <2>4 DEF Validate
  <1>15. CASE Connect(ns)
    <2>1. [key |-> ru[ns].ref, url |-> ru[ns].url, secret |-> NoSecret] \in Memories
      BY <1>2, <1>5 DEF RemoteUnleashes
    <2>2. Worker
      BY <1>6, <1>7, <1>15, <2>1 DEF Connect
    <2> QED BY <1>1, <1>2, <1>3, <1>10, <1>15, <2>2 DEF Connect
  <1>16. CASE ConnectFails(ns)
    BY <1>1, <1>2, <1>3, <1>4, <1>6, <1>10, <1>16 DEF ConnectFails
  <1>17. CASE Vanished(ns)
    BY <1>1, <1>2, <1>3, <1>6, <1>17 DEF Vanished, clusterVars
  <1>18. CASE Migrate(ns)
    <2>1. Migratable(mem[ns].key, ns) => [mem[ns] EXCEPT !.secret = secrets[mem[ns].key]] \in Memories
      BY <1>2, <1>11 DEF Migratable
    <2>2. Worker
      BY <1>6, <1>7, <1>18, <2>1 DEF Migrate
    <2> QED BY <1>1, <1>2, <1>3, <1>18, <2>2 DEF Migrate, clusterVars
  <1>19. CASE StampUrl(ns)
    <2> DEFINE stamped == [mem[ns].secret EXCEPT !.url = mem[ns].url]
    <2>1. stamped \in AdminSecrets /\ [mem[ns] EXCEPT !.secret = stamped] \in Memories
      BY <1>2 DEF AdminSecrets
    <2>2. Worker
      BY <1>6, <1>7, <1>19, <2>1 DEF StampUrl
    <2>3. SecretStore(secrets')
      BY <1>2, <1>19, <2>1 DEF StampUrl, Unchanged, Found, SecretStore
    <2> QED BY <1>1, <1>2, <1>3, <1>19, <2>2, <2>3 DEF StampUrl
  <1>20. CASE CreateBound(ns)
    <2>1. SecretStore(PutSecrets({MigratedKey(ns)}, mem[ns].url, mem[ns].secret.token))
      BY <1>2, <1>12, PutType DEF AdminSecrets
    <2>2. Worker
      BY <1>6, <1>8, <1>20 DEF CreateBound
    <2> QED BY <1>1, <1>2, <1>3, <1>20, <2>1, <2>2 DEF CreateBound
  <1>21. CASE Repoint(ns)
    <2>1. [ru[ns] EXCEPT !.ref = MigratedKey(ns)] \in RemoteUnleashes
      BY <1>2, <1>12 DEF RemoteUnleashes
    <2>2. Worker
      BY <1>6, <1>8, <1>21 DEF Repoint
    <2> QED BY <1>1, <1>2, <1>3, <1>9, <1>21, <2>1, <2>2 DEF Repoint
  <1>22. CASE DeleteLegacy(ns)
    BY <1>1, <1>2, <1>3, <1>6, <1>22, DropType DEF DeleteLegacy
  <1>23. CASE ReconcileFails(ns)
    BY <1>1, <1>2, <1>4, <1>6, <1>23 DEF ReconcileFails, clusterVars
  <1> QED
    BY <1>13, <1>14, <1>15, <1>16, <1>17, <1>18, <1>19, <1>20, <1>21, <1>22, <1>23 DEF Reconcile

\* Every reachable state has the types the code's objects have: in particular the
\* subscriber never goes past the end of the log, and a handler in progress always has
\* a message to work on, whatever is redelivered, lost or restarted.
THEOREM TypeCorrect == Spec => []TypeOK
  <1>1. Init => TypeOK
    <2> SUFFICES ASSUME Init PROVE TypeOK
      OBVIOUS
    <2>1. unleash \in Unleashes /\ ru \in [Tenants -> RemoteUnleashes] /\ SecretStore(secrets)
      BY InitAssumption DEF Init
    <2>2. NoMem \in [key : Keys, url : AnyUrl, secret : AdminSecrets]
      BY NoRUType DEF NoMem, NoSecret, AdminSecrets, AnyUrl, NoToken
    <2>3. log \in Seq(Messages) /\ next \in 1 .. (Len(log) + 1)
      BY DEF Init
    <2>4. woken \in [Tenants -> BOOLEAN]
      BY DEF Init, Present
    <2> QED BY <2>1, <2>2, <2>3, <2>4, ConstantsAssumption DEF Init, Quiet, TypeOK
  <1>2. TypeOK /\ [Next]_vars => TypeOK'
    <2> SUFFICES ASSUME TypeOK, [Next]_vars PROVE TypeOK'
      OBVIOUS
    <2>1. CASE UNCHANGED vars
      BY <2>1 DEF vars, handlerVars, workerVars, TypeOK, SecretStore
    <2> QED BY <2>1, PublisherTypes, HandlerTypes, WorkerTypes DEF Next
  <1> QED BY <1>1, <1>2, PTL DEF Spec


-----------------------------------------------------------------------------
(* What the handler found holds until it acts                              *)

\* No message both provisions and retracts.
LEMMA Exclusive ==
    ASSUME NEW m \in Messages, Provisions(m)
    PROVE  ~Retracts(m)
  BY DEF Provisions, Retracts, Named, Excluded

\* What other processes may do to a RemoteUnleash behind the handler's back: let it go
\* when it is on its way out, or change what the handler does not look at.
Harmless(n) ==
    \/ ru'[n] = ru[n]
    \/ ~Live(n) /\ ru'[n] = NoRU
    \/ /\ ru[n] # NoRU /\ ru'[n] # NoRU
       /\ ru'[n].url = ru[n].url /\ ru'[n].stamp = ru[n].stamp
       /\ ru'[n].deleting = ru[n].deleting

\* Harmless steps do not change where the instance is placed.
LEMMA HarmlessPlaced ==
    ASSUME \A n \in Tenants : Harmless(n)
    PROVE  Placed' = Placed
  <1>1. ASSUME NEW n \in Tenants
        PROVE  (IF Live(n) THEN [url |-> ru[n].url, stamp |-> ru[n].stamp] ELSE NoRU)' =
               (IF Live(n) THEN [url |-> ru[n].url, stamp |-> ru[n].stamp] ELSE NoRU)
    <2>1. CASE ru'[n] = ru[n]
      BY <2>1 DEF Live, Present
    <2>2. CASE ~Live(n) /\ ru'[n] = NoRU
      BY <2>2 DEF Live, Present
    <2> QED BY <1>1, <2>1, <2>2 DEF Harmless, Live, Present
  <1> QED BY <1>1 DEF Placed

\* Everything a worker does is harmless, and none of the handler's business.
LEMMA WorkerHarmless ==
    ASSUME TypeOK, NEW ns \in Tenants, Reconcile(ns)
    PROVE  /\ \A n \in Tenants : Harmless(n)
           /\ UNCHANGED <<log, next, handlerVars>>
  <1> USE DEF Harmless
  <1>1. ru \in [Tenants -> RemoteUnleashes]
    BY DEF TypeOK
  <1>2. UNCHANGED otherVars => UNCHANGED <<log, next, handlerVars>>
    BY DEF otherVars, publisherVars
  <1>3. ASSUME NEW r \in RemoteUnleashes, SetRU(ns, r), ru[ns] # NoRU, r # NoRU,
               r.url = ru[ns].url, r.stamp = ru[ns].stamp, r.deleting = ru[ns].deleting
        PROVE  \A n \in Tenants : Harmless(n)
    BY <1>1, <1>3 DEF SetRU
  <1>4. ASSUME NEW status \in {"connected", "disconnected"}, SetStatus(ns, status), Present(ns)
        PROVE  \A n \in Tenants : Harmless(n)
    <2>1. [ru[ns] EXCEPT !.status = status] \in RemoteUnleashes
      BY <1>1 DEF RemoteUnleashes
    <2>2. [ru[ns] EXCEPT !.status = status] # NoRU
      BY <1>1 DEF RemoteUnleashes, NoRU
    <2> QED BY <1>1, <1>3, <1>4, <2>1, <2>2 DEF SetStatus, Present, RemoteUnleashes
  <1>5. CASE Finalize(ns)
    BY <1>1, <1>2, <1>5 DEF Finalize, SetRU
  <1>6. CASE Validate(ns)
    <2> DEFINE finalized == [ru[ns] EXCEPT !.finalizer = TRUE]
               failed == [finalized EXCEPT !.status = "failed"]
    <2>1. finalized \in RemoteUnleashes /\ failed \in RemoteUnleashes
      BY <1>1 DEF RemoteUnleashes
    <2>2. finalized # NoRU /\ failed # NoRU
      BY <1>1 DEF RemoteUnleashes, NoRU
    <2>3. ru[ns] # NoRU
      BY <1>6 DEF Validate, Live, Present
    <2>4. /\ finalized.url = ru[ns].url /\ finalized.stamp = ru[ns].stamp
          /\ finalized.deleting = ru[ns].deleting
          /\ failed.url = ru[ns].url /\ failed.stamp = ru[ns].stamp
          /\ failed.deleting = ru[ns].deleting
      BY <1>1 DEF RemoteUnleashes
    <2>5. SetRU(ns, finalized) \/ SetRU(ns, failed)
      BY <1>6 DEF Validate
    <2> QED BY <1>2, <1>3, <1>6, <2>1, <2>2, <2>3, <2>4, <2>5 DEF Validate
  <1>7. CASE Connect(ns)
    BY <1>2, <1>4, <1>7 DEF Connect
  <1>8. CASE ConnectFails(ns)
    BY <1>2, <1>4, <1>8 DEF ConnectFails
  <1>9. CASE Repoint(ns)
    <2> DEFINE r == [ru[ns] EXCEPT !.ref = MigratedKey(ns)]
    <2>1. mem[ns].url \in AnyUrl /\ mem[ns].secret.token \in Nat
      BY DEF TypeOK, AdminSecrets
    <2>2. MigratedKey(ns) \in Keys /\ MigratedKey(ns) # NoKey
      BY <2>1, ConstantsAssumption DEF MigratedKey, BoundKey, SecretKey, Keys, AnyNonce, NoKey
    <2>3. r \in RemoteUnleashes /\ r.ref = MigratedKey(ns) /\ r.url = ru[ns].url
          /\ r.stamp = ru[ns].stamp /\ r.deleting = ru[ns].deleting
      BY <1>1, <2>2 DEF RemoteUnleashes
    <2>4. r # NoRU
      BY <2>2, <2>3 DEF NoRU
    <2> QED BY <1>2, <1>3, <1>9, <2>3, <2>4 DEF Repoint, Present
  <1>10. CASE Vanished(ns) \/ Migrate(ns) \/ StampUrl(ns) \/ CreateBound(ns) \/ DeleteLegacy(ns)
              \/ ReconcileFails(ns)
    BY <1>2, <1>10
       DEF Vanished, Migrate, StampUrl, CreateBound, DeleteLegacy, ReconcileFails, clusterVars
  <1> QED BY <1>5, <1>6, <1>7, <1>8, <1>9, <1>10 DEF Reconcile

\* The log only grows at its end.
Longer ==
    /\ Len(log') \in Nat /\ Len(log') >= Len(log)
    /\ \A i \in 1 .. Len(log) : log'[i] = log[i]

\* The publisher touches nothing of the subscribing cluster and only adds to the log.
LEMMA PublisherSays ==
    ASSUME TypeOK, Owner \/ ReconcileUnleash \/ \E m \in ForeignMessages : OtherPublisher(m)
    PROVE  /\ UNCHANGED <<next, ru, handlerVars>>
           /\ Longer
           /\ log' = log \/ Len(log') = Len(log) + 1
  <1> USE DEF subscribingVars, clusterVars
  <1>1. log' = log \/ \E m \in Messages : log' = Append(log, m)
    <2>1. unleash \in Unleashes
      BY DEF TypeOK
    <2>2. /\ Message("provisioned", unleash.spec, unleash.token) \in Messages
          /\ Message("removed", unleash.spec, unleash.token) \in Messages
      BY <2>1, MessageType DEF Unleashes
    <2> QED BY <2>2, ConstantsAssumption
            DEF Owner, ReconcileUnleash, CreateInstance, EditInstance, DeleteInstance, ReconcileSecrets,
                Publish, SayGoodbye, FinishDeletion, DeletionFails, OtherPublisher, Send
  <1>2. UNCHANGED <<next, ru, handlerVars>>
    BY DEF Owner, ReconcileUnleash, CreateInstance, EditInstance, DeleteInstance, ReconcileSecrets,
           Publish, SayGoodbye, FinishDeletion, DeletionFails, OtherPublisher
  <1>3. log \in Seq(Messages)
    BY DEF TypeOK
  <1>4. CASE log' = log
    BY <1>2, <1>3, <1>4 DEF Longer
  <1>5. ASSUME NEW m \in Messages, log' = Append(log, m)
        PROVE  Longer /\ Len(log') = Len(log) + 1
    BY <1>3, <1>5 DEF Longer
  <1> QED BY <1>1, <1>2, <1>4, <1>5

\* A step that leaves the handler's findings alone, grows the log and is harmless to
\* the objects the handler examined keeps them true.
LEMMA Carried ==
    ASSUME TypeOK, FindingsHold, Longer,
           UNCHANGED <<next, todo, cur, safe, stamps>>,
           hpc' = "idle" <=> hpc = "idle",
           hpc' = "examining" \/ cur = NoCur,
           hpc' = "deleteSecrets" => Retracts(Incoming),
           hpc' \in {"writeRUs", "cleanup"} => Provisions(Incoming),
           \A n \in Tenants : \/ ru'[n] = NoRU
                              \/ /\ ru[n] # NoRU
                                 /\ ru'[n].url = ru[n].url /\ ru'[n].stamp = ru[n].stamp
    PROVE  FindingsHold'
  <1>1. /\ log \in Seq(Messages) /\ Len(log) \in Nat /\ next \in Nat /\ next >= 1
        /\ ru \in [Tenants -> RemoteUnleashes] /\ stamps \in [Tenants -> Nat]
        /\ safe \subseteq Tenants /\ (cur # NoCur => cur.ns \in Tenants)
        /\ (hpc # "idle" => next <= Len(log))
    BY DEF TypeOK
  <1>2. \A n \in Tenants : ru'[n].stamp <= Len(log')
    <2>1. \A n \in Tenants : ru[n].stamp \in Nat /\ ru[n].stamp <= Len(log)
      BY <1>1 DEF FindingsHold, RemoteUnleashes
    <2>2. Len(log') \in Nat /\ Len(log') >= Len(log)
      BY DEF Longer
    <2>3. NoRU.stamp = 0
      BY DEF NoRU
    <2> QED BY <1>1, <2>1, <2>2, <2>3
  <1>3. CASE hpc = "idle"
    BY <1>2, <1>3 DEF FindingsHold, NoCur
  <1>4. CASE hpc # "idle"
    <2>1. Incoming' = Incoming
      BY <1>1, <1>4 DEF Incoming, Longer
    <2>2. ASSUME NEW n \in Tenants, Sound(n) PROVE Sound(n)'
      <3>1. n \in TenantNamespaces(Incoming')
        BY <2>1, <2>2 DEF Sound
      <3>2. Retracts(Incoming') => (Present(n)' => ru'[n].url = Incoming'.url /\ ru'[n].stamp < next')
        BY <2>1, <2>2 DEF Sound, Present
      <3>3. Provisions(Incoming') => stamps'[n] \in next' .. Len(log')
        BY <1>1, <2>1, <2>2 DEF Sound, Longer
      <3>4. Provisions(Incoming') =>
              (Present(n)' => ru'[n].url = Incoming'.url /\ ru'[n].stamp <= stamps'[n])
        BY <2>1, <2>2 DEF Sound, Present
      <3> QED BY <3>1, <3>2, <3>3, <3>4 DEF Sound
    <2>3. (\A n \in safe : Sound(n))' /\ (cur # NoCur => Sound(cur.ns))'
      BY <1>1, <2>2 DEF FindingsHold
    <2> QED BY <1>2, <1>4, <2>1, <2>3 DEF FindingsHold
  <1> QED BY <1>3, <1>4

\* A step after which the handler rests keeps them, if no stamp is ahead of the log.
LEMMA Rested ==
    ASSUME Rest, \A n \in Tenants : ru'[n].stamp <= Len(log')
    PROVE  FindingsHold'
  BY RestType DEF FindingsHold, NoCur

\* Examining a namespace finds out what the handler relies on.
LEMMA ReadFinds ==
    ASSUME TypeOK, FindingsHold, NEW ns \in Tenants, ReadRemoteUnleash(ns)
    PROVE  FindingsHold'
  <1>1. /\ log \in Seq(Messages) /\ Len(log) \in Nat /\ next \in Nat /\ next >= 1
        /\ ru \in [Tenants -> RemoteUnleashes] /\ stamps \in [Tenants -> Nat]
        /\ safe \subseteq Tenants
    BY DEF TypeOK
  <1>2. UNCHANGED <<log, next, ru, hpc>> /\ hpc = "examining" /\ next <= Len(log)
    BY DEF ReadRemoteUnleash, TypeOK, publisherVars, clusterVars
  <1>3. Incoming' = Incoming /\ Incoming \in Messages
    BY <1>2, IncomingType DEF Incoming
  <1>4. (Provisions(Incoming) \/ Retracts(Incoming)) /\ ns \in TenantNamespaces(Incoming)
    BY <1>2 DEF FindingsHold, ReadRemoteUnleash
  <1>5. ru[ns].stamp \in Nat /\ ru[ns].stamp <= Len(log)
    BY <1>1 DEF RemoteUnleashes, FindingsHold
  <1>6. todo' \subseteq TenantNamespaces(Incoming)
    BY <1>2 DEF ReadRemoteUnleash, FindingsHold
  <1>7. CASE Refused(Incoming, ns) /\ UNCHANGED <<cur, safe, stamps, doomed>>
    BY <1>2, <1>3, <1>6, <1>7 DEF FindingsHold, Sound, Present
  <1>8. CASE ~Refused(Incoming, ns) /\ stamps' = [stamps EXCEPT ![ns] = Stamp(ns)]
             /\ UNCHANGED safe /\ cur'.ns = ns
             /\ ((Present(ns) /\ cur'.ask = "secret") \/ ~Present(ns))
    <2>1. Stamp(ns) \in next .. Len(log) /\ ru[ns].stamp <= Stamp(ns)
      BY <1>1, <1>2, <1>5 DEF Stamp
    <2>2. Sound(ns)'
      <3>1. CASE Retracts(Incoming)
        <4>1. ru[ns].url = Incoming.url /\ ru[ns].stamp < next
          BY <1>1, <1>5, <1>8, <3>1 DEF Refused
        <4>2. ~Provisions(Incoming)
          BY <1>3, <3>1, Exclusive
        <4> QED BY <1>2, <1>3, <1>4, <4>1, <4>2 DEF Sound
      <3>2. CASE Provisions(Incoming)
        <4>1. ~Retracts(Incoming)
          BY <1>3, <3>2, Exclusive
        <4>2. Present(ns) => ru[ns].url = Incoming.url
          BY <1>8, <4>1 DEF Refused
        <4>3. stamps'[ns] = Stamp(ns)
          BY <1>1, <1>8
        <4> QED BY <1>2, <1>3, <1>4, <2>1, <4>1, <4>2, <4>3 DEF Sound, Present
      <3> QED BY <1>4, <3>1, <3>2
    <2>3. ASSUME NEW n \in Tenants, n # ns, Sound(n) PROVE Sound(n)'
      <3>1. stamps'[n] = stamps[n]
        BY <1>1, <1>8, <2>3
      <3> QED BY <1>2, <1>3, <2>3, <3>1 DEF Sound, Present
    <2>4. (\A n \in safe : Sound(n))'
      BY <1>1, <1>8, <2>2, <2>3 DEF FindingsHold
    <2>5. (cur # NoCur => Sound(cur.ns))'
      <3>1. cur = NoCur
        BY DEF ReadRemoteUnleash
      <3> QED BY <1>8, <2>2, <3>1
    <2>6. cur'.ask \in {"references", "superseded"} => Provisions(Incoming)
      BY <1>4, <1>8 DEF Refused
    <2> QED BY <1>2, <1>3, <1>6, <2>4, <2>5, <2>6 DEF FindingsHold
  <1> QED BY <1>7, <1>8 DEF ReadRemoteUnleash

\* The handler's bulk write of RemoteUnleashes writes what it found.
LEMMA WriteFinds ==
    ASSUME TypeOK, FindingsHold, hpc = "writeRUs", NEW done \in SUBSET safe, WriteRUsOf(done),
           NEW n \in Tenants
    PROVE  /\ \/ n \notin done /\ ru'[n] = ru[n]
              \/ n \in done /\ Present(n) /\ ru[n].deleting /\ ru'[n] = NoRU
              \/ /\ n \in done /\ Live(n)' /\ (Present(n) => Live(n))
                 /\ ru'[n].url = Incoming.url /\ ru'[n].stamp = stamps[n]
           /\ n \in done => Sound(n)
           /\ Provisions(Incoming) /\ ~Retracts(Incoming)
  <1>1. Incoming \in Messages /\ ru \in [Tenants -> RemoteUnleashes] /\ stamps \in [Tenants -> Nat]
    BY IncomingType DEF TypeOK
  <1>2. Provisions(Incoming) /\ ~Retracts(Incoming) /\ (n \in done => Sound(n))
    BY <1>1, Exclusive DEF FindingsHold
  <1>3. CASE n \notin done
    BY <1>2, <1>3 DEF WriteRUsOf
  <1>4. CASE n \in done
    <2> DEFINE key == AdminSecretKey(Incoming, n)
    <2>1. ru'[n] = Upserted(ru[n], key, Incoming.url, stamps[n])
      BY <1>4 DEF WriteRUsOf
    <2>2. CASE ru[n] # NoRU /\ ru[n].deleting
      BY <1>2, <1>4, <2>1, <2>2 DEF Upserted, Present
    <2>3. CASE ~(ru[n] # NoRU /\ ru[n].deleting)
      <3>1. ru'[n] = [ref |-> key, url |-> Incoming.url, stamp |-> stamps[n], deleting |-> FALSE,
                      finalizer |-> FALSE, status |-> ru[n].status]
        BY <2>1, <2>3 DEF Upserted
      <3>2. key.scope = n /\ n # NoNamespace
        BY <1>1, AdminSecretKeyType, ConstantsAssumption
      <3>3. ru'[n] # NoRU
        BY <3>1, <3>2 DEF NoRU, NoKey, SecretKey
      <3> QED BY <1>2, <1>4, <2>3, <3>1, <3>3 DEF Live, Present
    <2> QED BY <2>2, <2>3
  <1> QED BY <1>3, <1>4

\* Every step of the handler, and every restart, keeps the findings true.
LEMMA HandlerFinds ==
    ASSUME TypeOK, FindingsHold, Handle \/ Redeliver \/ Crash \/ Redeploy
    PROVE  FindingsHold'
  <1> USE DEF publisherVars, clusterVars
  <1>1. /\ log \in Seq(Messages) /\ Len(log) \in Nat /\ ru \in [Tenants -> RemoteUnleashes]
        /\ safe \subseteq Tenants
    BY DEF TypeOK
  <1>2. \A n \in Tenants : ru[n].stamp \in Nat /\ ru[n].stamp <= Len(log)
    BY <1>1 DEF RemoteUnleashes, FindingsHold
  <1>3. NoRU.stamp = 0
    BY DEF NoRU
  <1>4. ASSUME UNCHANGED log PROVE Longer
    BY <1>1, <1>4 DEF Longer
  <1>5. CASE Ignore \/ SecretMissing \/ NothingSafe \/ NoHomeForSecret \/ ReadFails \/ Crash \/ Redeploy
    BY <1>2, <1>5, Rested
       DEF Ignore, SecretMissing, NothingSafe, NoHomeForSecret, ReadFails, Crash, Redeploy, Restart, Ack, Nack
  <1>6. CASE DeleteSecrets \/ DeleteSuperseded
    BY <1>2, <1>6, Rested DEF DeleteSecrets, DeleteSuperseded, PartlyDone, Ack, Nack
  <1>7. CASE Take
    <2>1. UNCHANGED <<log, next, ru, cur, safe>> /\ hpc = "idle" /\ hpc' = "examining"
      BY <1>7 DEF Take
    <2>2. Incoming' = Incoming /\ safe = {} /\ cur = NoCur
      BY <2>1 DEF Incoming, FindingsHold
    <2> QED BY <1>2, <1>7, <2>1, <2>2 DEF Take, FindingsHold, NoCur
  <1>8. ASSUME NEW ns \in Tenants, ReadRemoteUnleash(ns) PROVE FindingsHold'
    BY <1>8, ReadFinds
  <1>9. CASE ReadSecret \/ ReadReferences \/ ReadSuperseded
    <2>1. UNCHANGED <<log, next, ru, hpc, todo, stamps>> /\ hpc = "examining" /\ cur # NoCur
      BY <1>9, Answers
    <2>2. safe' \subseteq safe \cup {cur.ns}
      BY <1>9, Answers
    <2>3. Incoming' = Incoming
      BY <2>1 DEF Incoming
    <2>4. \A n : Sound(n) => Sound(n)'
      BY <2>1, <2>3 DEF Sound, Present
    <2>5. \A n \in safe' : Sound(n)
      BY <2>1, <2>2 DEF FindingsHold
    <2>6. cur' # NoCur => Sound(cur'.ns)
      BY <1>9, <2>1, Answers DEF FindingsHold
    <2>7. cur'.ask \in {"references", "superseded"} => Provisions(Incoming)
      BY <1>9, Answers DEF FindingsHold, NoCur
    <2> QED BY <1>2, <2>1, <2>3, <2>4, <2>5, <2>6, <2>7 DEF FindingsHold
  <1>10. CASE DeleteRUs
    <2>1. PICK done \in SUBSET safe : RemoveRUs(done) /\ (Proceed("deleteSecrets") \/ PartlyDone)
      BY <1>10 DEF DeleteRUs
    <2>2. \A n \in Tenants : \/ ru'[n] = NoRU
                             \/ /\ ru[n] # NoRU
                                /\ ru'[n].url = ru[n].url /\ ru'[n].stamp = ru[n].stamp
      BY <1>1, <2>1, DeletedType DEF RemoveRUs
    <2>3. UNCHANGED log /\ Retracts(Incoming) /\ hpc = "examining" /\ cur = NoCur
      BY <1>10 DEF DeleteRUs, Examined
    <2>4. CASE Proceed("deleteSecrets")
      BY <1>4, <2>2, <2>3, <2>4, Carried DEF Proceed
    <2>5. CASE PartlyDone
      BY <1>2, <1>3, <2>2, <2>3, <2>5, Rested DEF PartlyDone, Nack
    <2> QED BY <2>1, <2>4, <2>5
  <1>11. CASE WriteSecrets
    <2>1. UNCHANGED <<log, ru>> /\ Provisions(Incoming) /\ hpc = "examining" /\ cur = NoCur
      BY <1>11 DEF WriteSecrets, Examined
    <2>2. CASE Proceed("writeRUs")
      BY <1>4, <2>1, <2>2, Carried DEF Proceed
    <2>3. CASE PartlyDone
      BY <1>2, <2>1, <2>3, Rested DEF PartlyDone, Nack
    <2> QED BY <1>11, <2>2, <2>3 DEF WriteSecrets
  <1>12. CASE WriteRUs
    <2>1. PICK done \in SUBSET safe : WriteRUsOf(done) /\ (Proceed("cleanup") \/ PartlyDone)
      BY <1>12 DEF WriteRUs
    <2>2. UNCHANGED log /\ hpc = "writeRUs" /\ Provisions(Incoming)
      BY <1>12 DEF WriteRUs, FindingsHold
    <2>3. \A n \in Tenants : ru'[n].stamp <= Len(log')
      <3> SUFFICES ASSUME NEW n \in Tenants PROVE ru'[n].stamp <= Len(log')
        OBVIOUS
      <3>1. CASE n \notin done
        BY <1>2, <2>1, <2>2, <3>1, WriteFinds
      <3>2. CASE n \in done
        <4>1. stamps[n] \in next .. Len(log) /\ next \in Nat
          <5>1. Sound(n)
            BY <2>1, <2>2, <3>2, WriteFinds
          <5> QED BY <2>2, <5>1 DEF Sound, TypeOK
        <4>2. ru'[n] = NoRU \/ ru'[n].stamp = stamps[n]
          BY <2>1, <2>2, <3>2, WriteFinds
        <4> QED BY <1>1, <1>3, <2>2, <4>1, <4>2
      <3> QED BY <3>1, <3>2
    <2>4. CASE PartlyDone
      BY <2>3, <2>4, Rested DEF PartlyDone, Nack
    <2>5. CASE Proceed("cleanup")
      <3>1. Incoming' = Incoming /\ UNCHANGED <<log, next, todo, cur, safe, stamps>> /\ hpc' = "cleanup"
        BY <2>2, <2>5 DEF Incoming, Proceed
      <3>2. ASSUME NEW n \in Tenants, Sound(n) PROVE Sound(n)'
        <4>1. stamps[n] \in Nat
          BY DEF TypeOK
        <4> QED BY <2>1, <2>2, <3>1, <3>2, <4>1, WriteFinds DEF Sound, Live, Present
      <3>3. (\A n \in safe : Sound(n))' /\ (cur # NoCur => Sound(cur.ns))'
        <4>1. cur # NoCur => cur.ns \in Tenants
          BY DEF TypeOK
        <4> QED BY <1>1, <3>1, <3>2, <4>1 DEF FindingsHold
      <3> QED BY <2>2, <2>3, <3>1, <3>3 DEF FindingsHold
    <2> QED BY <2>1, <2>4, <2>5
  <1>13. CASE Redeliver
    BY <1>2, <1>13 DEF Redeliver, handlerVars, FindingsHold, NoCur
  <1> QED BY <1>5, <1>6, <1>7, <1>8, <1>9, <1>10, <1>11, <1>12, <1>13 DEF Handle

\* Whatever the workers, the migration, the publisher and restarts do in between, the
\* handler acts only on findings that still hold.
THEOREM FindingsAlwaysHold == Spec => []FindingsHold
  <1>1. Init => FindingsHold
    <2> SUFFICES ASSUME Init PROVE FindingsHold
      OBVIOUS
    <2>1. \A n \in Tenants : ru[n].stamp = 0
      BY InitAssumption DEF Init
    <2>2. Len(log) = 0
      BY DEF Init
    <2> QED BY <2>1, <2>2 DEF Init, Quiet, FindingsHold, NoCur
  <1>2. TypeOK /\ FindingsHold /\ [Next]_vars => FindingsHold'
    <2> SUFFICES ASSUME TypeOK, FindingsHold, [Next]_vars PROVE FindingsHold'
      OBVIOUS
    <2>1. CASE UNCHANGED vars
      BY <2>1 DEF vars, handlerVars, FindingsHold, Sound, Incoming, Present
    <2>2. CASE Owner \/ ReconcileUnleash \/ \E m \in ForeignMessages : OtherPublisher(m)
      BY <2>2, PublisherSays, Carried DEF handlerVars, FindingsHold
    <2>3. ASSUME NEW ns \in Tenants, Reconcile(ns) PROVE FindingsHold'
      <3>1. Longer
        <4>1. log \in Seq(Messages)
          BY DEF TypeOK
        <4> QED BY <2>3, <4>1, WorkerHarmless DEF Longer
      <3> QED BY <2>3, <3>1, WorkerHarmless, Carried DEF handlerVars, Harmless, FindingsHold
    <2> QED BY <2>1, <2>2, <2>3, HandlerFinds DEF Next
  <1> QED BY <1>1, <1>2, TypeCorrect, PTL DEF Spec

-----------------------------------------------------------------------------
(* Federation implements Placement                                         *)

\* A placement is something.
LEMMA PlacementIsNotNowhere ==
    ASSUME NEW url, NEW stamp
    PROVE  [url |-> url, stamp |-> stamp] # NoRU
  <1>1. "ref" \in DOMAIN NoRU
    BY DEF NoRU
  <1>2. "ref" \notin DOMAIN [url |-> url, stamp |-> stamp]
    OBVIOUS
  <1> QED BY <1>1, <1>2

\* The bulk deletion takes away what an older message placed at the message's URL.
LEMMA DeletionTakesAway ==
    ASSUME TypeOK, FindingsHold, DeleteRUs
    PROVE  P!TakeAway(next)
  <1>1. PICK done \in SUBSET safe : RemoveRUs(done)
    BY DEF DeleteRUs
  <1>2. ru \in [Tenants -> RemoteUnleashes] /\ safe \subseteq Tenants /\ Retracts(Incoming) /\ UNCHANGED log
    BY DEF TypeOK, DeleteRUs, publisherVars
  <1>3. ASSUME NEW p \in Tenants, Placed'[p] # Placed[p]
        PROVE  /\ TakesFrom(log[next], p)
               /\ Placed'[p] = NoRU
               /\ Placed[p].url = log[next].url
               /\ Placed[p].stamp < next
    <2>1. p \in done
      BY <1>1, <1>3 DEF RemoveRUs, Placed, Live, Present
    <2>2. ru'[p] = Deleted(ru[p])
      BY <1>1, <2>1 DEF RemoveRUs
    <2>3. ~Live(p)'
      BY <1>2, <2>2, DeletedType DEF Live, Present
    <2>4. Placed'[p] = NoRU
      BY <2>3 DEF Placed
    <2>5. Live(p) /\ Placed[p] = [url |-> ru[p].url, stamp |-> ru[p].stamp]
      BY <1>3, <2>4 DEF Placed
    <2>6. Sound(p)
      BY <2>1 DEF FindingsHold
    <2> QED BY <1>2, <2>4, <2>5, <2>6 DEF Sound, Live, TakesFrom, Incoming
  <1> QED BY <1>2, <1>3 DEF P!TakeAway

\* The bulk write puts the instance where the message asks for it.
LEMMA WritingPuts ==
    ASSUME TypeOK, FindingsHold, WriteRUs
    PROVE  P!Put(next)
  <1>1. PICK done \in SUBSET safe : WriteRUsOf(done)
    BY DEF WriteRUs
  <1>2. hpc = "writeRUs" /\ UNCHANGED log
    BY DEF WriteRUs, publisherVars
  <1>3. ASSUME NEW p \in Tenants, Placed'[p] # Placed[p]
        PROVE  /\ PutsIn(log[next], p)
               /\ Placed'[p] # NoRU
               /\ Placed'[p].url = log[next].url
               /\ Placed'[p].stamp \in next .. Len(log)
               /\ Placed[p] # NoRU => Placed[p].url = log[next].url /\ Placed[p].stamp <= Placed'[p].stamp
    <2>1. ru'[p] # ru[p]
      BY <1>3 DEF Placed, Live, Present
    <2>2. ~(Present(p) /\ ru[p].deleting /\ ru'[p] = NoRU)
      BY <1>3 DEF Placed, Live, Present
    <2>3. /\ p \in done /\ Live(p)' /\ ru'[p].url = Incoming.url /\ ru'[p].stamp = stamps[p]
          /\ Sound(p) /\ Provisions(Incoming)
      BY <1>1, <1>2, <2>1, <2>2, WriteFinds
    <2>4. Placed'[p] = [url |-> Incoming.url, stamp |-> stamps[p]]
      BY <2>3 DEF Placed
    <2>5. Placed'[p] # NoRU
      BY <2>4, PlacementIsNotNowhere
    <2>6. Placed[p] # NoRU => Live(p) /\ Placed[p] = [url |-> ru[p].url, stamp |-> ru[p].stamp]
      BY DEF Placed
    <2> QED BY <2>3, <2>4, <2>5, <2>6 DEF Sound, Live, PutsIn, Incoming
  <1> QED BY <1>2, <1>3 DEF P!Put

\* Every step of Federation is a step of Placement, or changes neither the log nor
\* where the instance is placed.
LEMMA StepsPlace ==
    ASSUME TypeOK, FindingsHold, [Next]_vars
    PROVE  P!Next \/ UNCHANGED <<log, Placed>>
  <1> USE DEF publisherVars, clusterVars
  <1>1. ASSUME UNCHANGED ru PROVE Placed' = Placed
    BY <1>1, HarmlessPlaced DEF Harmless
  <1>2. CASE UNCHANGED vars
    BY <1>1, <1>2 DEF vars
  <1>3. CASE Owner \/ ReconcileUnleash \/ \E m \in ForeignMessages : OtherPublisher(m)
    <2>1. Placed' = Placed /\ Longer /\ (log' = log \/ Len(log') = Len(log) + 1)
      BY <1>1, <1>3, PublisherSays
    <2>2. P!Say \/ log' = log
      BY <2>1 DEF P!Say, Longer
    <2> QED BY <2>1, <2>2 DEF P!Next
  <1>4. ASSUME NEW ns \in Tenants, Reconcile(ns) PROVE UNCHANGED <<log, Placed>>
    BY <1>4, WorkerHarmless, HarmlessPlaced
  <1>5. hpc # "idle" => next \in 1 .. Len(log)
    BY DEF TypeOK
  <1>6. CASE DeleteRUs
    BY <1>5, <1>6, DeletionTakesAway DEF DeleteRUs, Examined, P!Next
  <1>7. CASE WriteRUs
    BY <1>5, <1>7, WritingPuts DEF WriteRUs, P!Next
  <1>8. CASE Ignore \/ Take \/ ReadSecret \/ ReadReferences \/ ReadSuperseded \/ SecretMissing \/ NothingSafe \/ DeleteSecrets \/ WriteSecrets
             \/ NoHomeForSecret \/ DeleteSuperseded \/ ReadFails \/ Redeliver \/ Crash \/ Redeploy
             \/ \E ns \in Tenants : ReadRemoteUnleash(ns)
    <2>1. UNCHANGED <<log, ru>>
      BY <1>8 DEF Ignore, Take, ReadSecret, ReadReferences, ReadSuperseded, SecretMissing, NothingSafe,
                  DeleteSecrets, WriteSecrets, NoHomeForSecret, DeleteSuperseded, ReadFails, Redeliver, Crash, Redeploy, Restart,
                  ReadRemoteUnleash
    <2> QED BY <1>1, <2>1
  <1> QED BY <1>2, <1>3, <1>4, <1>6, <1>7, <1>8 DEF Next, Handle

\* Handler, workers, migration and restarts together implement Placement: they place
\* what a message places and retract what a newer message retracts, no more, for any
\* number of namespaces, messages, faults and restarts.
THEOREM Refinement == Spec => ImplementsPlacement
  <1>1. Init => P!Init
    <2> SUFFICES ASSUME Init PROVE P!Init
      OBVIOUS
    <2>1. \A p \in Tenants : ru[p].stamp = 0
      BY InitAssumption DEF Init
    <2>2. \A p \in Tenants : Placed[p] # NoRU => Placed[p].stamp = 0
      BY <2>1 DEF Placed
    <2> QED BY <2>2 DEF Init, P!Init
  <1>2. TypeOK /\ FindingsHold /\ [Next]_vars => [P!Next]_<<log, Placed>>
    BY StepsPlace
  <1> QED BY <1>1, <1>2, TypeCorrect, FindingsAlwaysHold, PTL DEF Spec, ImplementsPlacement, P!Spec
=============================================================================
